---------------------------- MODULE PipelineProps ----------------------------
(***************************************************************************)
(* What has to be true of the program however the GPU schedules its work.  *)
(***************************************************************************)
EXTENDS Pipeline

(* The GL calls on a set of objects, and what the GPU is given to execute. *)
Bit == {"TEXTURE_FETCH", "SHADER_IMAGE_ACCESS", "TEXTURE_UPDATE", "PIXEL_BUFFER"}
Shader ==
  {"dither555.glsl", "etc1.glsl", "etc1_with_error.glsl", "eac.glsl",
   "eac_r11.glsl", "etc2_th_find_best_c0c1_k_means.glsl", "etc2_th.glsl",
   "etc2_p.glsl", "etc2_rgb_selector.glsl", "etc2_rgba_selector.glsl",
   "etc2_rgba_stitch.glsl", "bc1.glsl", "bc1_dither.glsl", "bc4.glsl", "bc6h.glsl"}

Producer ==
  Shader \cup {"undefined", "source_image", "etc1_tables", "bc1_tables",
              "download", "upload", "copy"}

Via == {"fetch", "image", "buffer", "download", "copy", "upload", "pack", "unpack"}

Initial == [fn : Producer, uni : {<<>>}, out : {0}, arg : {<<>>}]

Call(objects) ==
  [op : {"create"}, name : objects, value : Initial,
   target : {"2D", "2D_ARRAY", "buffer", "program"}]
  \cup [op : {"destroy", "bindComputePso"}, name : objects]
  \cup [op : {"upload", "copy"}, src : objects, dst : objects]
  \cup [op : {"download"}, src : objects, dst : objects, bytes : Nat]
  \cup [op : {"bindTexture"}, slot : TexUnits, name : objects]
  \cup [op : {"bindUav"}, slot : ImageUnits, name : objects,
        access : {"Write", "ReadWrite"}]
  \cup [op : {"bindUavBuffer"}, slot : BufferSlots, name : objects]
  \cup [op : {"uniform"}, value : Seq(Int)]
  \cup [op : {"barrier"}, bits : SUBSET Bit]
  \cup [op : {"dispatch", "finish"}]

(* What an encoder's methods call: its own objects only, and never its     *)
(* download buffer as an image.                                            *)
OwnCall(e) ==
  {c \in Call({e} \X Field) :
     c.op = "bindUav" => c.name # Object(e, "m_downloadStaging")}

AccessTo(objects) == [via : Via, name : objects, defined : BOOLEAN]

Stores(units) == [units -> AccessTo(GLObject)]

GpuOp ==
  [kind : {"dispatch", "api"}, fn : Producer, uni : Seq(Int),
   in : Seq(AccessTo(GLObject)) \ {<<>>},
   out : Stores({0}) \cup Stores({0, 1}) \cup Stores({0, 2})]
  \cup [kind : {"barrier"}, bits : SUBSET Bit]

(* The types of the program's and the driver's state.                      *)
TypeOK ==
  /\ request \in [Encoder -> Request]
  /\ stage \in [Encoder -> Stages]
  /\ repeat \in [Encoder -> 0 .. 2]
  /\ calls \in Seq(Call(Encoder \X Field))
  /\ ctx \in [pso : GLObject, tex : [TexUnits -> GLObject],
             img : [ImageUnits -> [name : GLObject, access : {"Write", "ReadWrite"}]],
             buf : [BufferSlots -> GLObject]]
  /\ uniform \in [GLObject -> Seq(Int)]
  /\ live \subseteq Encoder \X Field
  /\ DOMAIN mem = GLObject /\ \A o \in GLObject : mem[o].fn \in Producer
  /\ stream \in Seq(GpuOp)
  /\ DOMAIN outImage = Encoder /\ DOMAIN file = Encoder

(* Every pair of conflicting operations in flight is ordered: whatever a   *)
(* shader stored is behind a barrier that covers the path by which it is   *)
(* read or overwritten later (the glMemoryBarrier calls between the        *)
(* encoders' steps).                                                       *)
ConflictsAreOrdered ==
  \A i \in GpuOps(stream) : \A j \in GpuOps(stream) :
    j < i => \A b \in Conflicts(stream, j, i) : OrdersAccess(stream, j, i, b)

(* A dispatch in flight touches the objects of one encoder only, and every *)
(* unit its shader uses is bound: no step runs on bindings that another    *)
(* step, another encoder or an upload left behind.                         *)
NoForeignBindings ==
  \A i \in GpuOps(stream) :
    \E e \in Encoder :
      \A a \in ReadsOf(stream[i]) \cup WritesOf(stream[i]) : a.name[1] = e

(* A call never names an object that was deleted or is not generated yet:  *)
(* every method tests for the optional objects of the codec the same way.  *)
CallsNameLiveObjects ==
  calls # <<>> =>
    /\ call.op \in {"destroy", "bindTexture", "bindUav", "bindUavBuffer",
                    "bindComputePso"} => call.name \in live
    /\ call.op \in {"copy", "upload", "download"} => {call.src, call.dst} \subseteq live

(* While FormatKTX::save may read the mapped pointer, the buffer is still  *)
(* mapped and nothing in flight writes to it.                              *)
MappedPointerIsStable ==
  \A e \in Encoder :
    stage[e] = "save" /\ calls = <<>> =>
      /\ outImage[e].data \in live
      /\ \A i \in GpuOps(stream) :
           \A a \in WritesOf(stream[i]) : a.name # outImage[e].data

(* Why the pointer is stable.  From startDownload on, the buffer exists or *)
(* the calls still to come generate it, and destroy nothing they do not    *)
(* generate again; until glFinish has returned the calls still hold it,    *)
(* and once it has no operation in flight writes to the buffer, nor will   *)
(* one be issued: it is no copy's target and no image unit holds it.       *)
Generates(c, o) == c.op = "create" /\ c.name = o
Destroys(c, o) == c.op = "destroy" /\ c.name = o

StaysGenerated(o) ==
  /\ o \in live \/ \E k \in DOMAIN calls : Generates(calls[k], o)
  /\ \A k \in DOMAIN calls :
       Destroys(calls[k], o) => \E m \in DOMAIN calls : m > k /\ Generates(calls[m], o)

NotWritten(o) == \A i \in GpuOps(stream) : \A a \in WritesOf(stream[i]) : a.name # o

NotTargeted(o) ==
  \A k \in DOMAIN calls :
    calls[k].op \in {"upload", "download", "copy"} => calls[k].dst # o

NeverAnImage(o) ==
  /\ \A u \in ImageUnits : ctx.img[u].name # o
  /\ \A k \in DOMAIN calls : calls[k].op = "bindUav" => calls[k].name # o

WillFinish == \E k \in DOMAIN calls : calls[k].op = "finish"

StagingIsKept(e, o) ==
  /\ NeverAnImage(o)
  /\ stage[e] \in {"downloadTo", "save"} => StaysGenerated(o)
  /\ stage[e] = "save" =>
       /\ outImage[e].data = o
       /\ NotTargeted(o)
       /\ NotWritten(o) \/ WillFinish

StagingInvariant ==
  \A e \in Encoder : StagingIsKept(e, Object(e, "m_downloadStaging"))

(* The while loop of main is entered with iterations left.                 *)
RepeatsLeft ==
  \A e \in Encoder :
    stage[e] \in {"initResources", "execute00", "execute01", "execute02", "execute03"}
      => repeat[e] > 0

(* deinitResources gives back every GL object initResources and            *)
(* startDownload generated, in the encoders that mean to: the others leak  *)
(* as README.md lists.                                                     *)
AllObjectsReleased ==
  Finished =>
    \A o \in live : LET r == request[o[1]] IN ~(UsesETC1(r) \/ UsesEAC(r) \/ UsesBC4(r))

-----------------------------------------------------------------------------
(* The abstract service, with the file each codec has to produce.          *)

Dispatched(fn, uni, ins) == Output(fn, uni, 0, ins)

FormatOf(codec) ==
  CASE codec \in {"etc1", "etc2_rgb"}            -> "PFG_ETC1_RGB8_UNORM"
    [] codec \in {"etc2_rgba_etc1", "etc2_rgba"} -> "PFG_ETC2_RGBA8_UNORM"
    [] codec = "eac_r11"                         -> "PFG_EAC_R11_UNORM"
    [] codec = "eac_rg11"                        -> "PFG_EAC_RG11_UNORM"
    [] codec = "bc1"                             -> "PFG_BC1_UNORM"
    [] codec = "bc3"                             -> "PFG_BC3_UNORM"
    [] codec = "bc4"                             -> "PFG_BC4_UNORM"
    [] codec = "bc4_snorm"                       -> "PFG_BC4_SNORM"
    [] codec = "bc5"                             -> "PFG_BC5_UNORM"
    [] codec = "bc5_snorm"                       -> "PFG_BC5_SNORM"
    [] codec = "bc6h"                            -> "PFG_BC6H_UF16"

BytesPerBlock(format) ==
  IF format \in {"PFG_BC1_UNORM", "PFG_BC4_UNORM", "PFG_BC4_SNORM",
                 "PFG_ETC1_RGB8_UNORM", "PFG_EAC_R11_UNORM"} THEN 8 ELSE 16

(* The blocks of a codec: which shaders, on which inputs, in which order.  *)
Blocks(e, r) ==
  LET src    == SourceImage(e)
      etcSrc == IF r.dither THEN Dispatched("dither555.glsl", <<>>, <<src>>) ELSE src
      etc1(shader, unit) ==
        Output(shader, <<r.quality>>, unit, <<etcSrc, Leaf("etc1_tables")>>)
      alpha  == Dispatched("eac.glsl", <<>>, <<src>>)
      c0c1   == Dispatched("etc2_th_find_best_c0c1_k_means.glsl", <<>>, <<etcSrc>>)
      th(unit) == Output("etc2_th.glsl", <<>>, unit, <<etcSrc, c0c1>>)
      p(unit)  == Output("etc2_p.glsl", <<>>, unit, <<etcSrc>>)
      errors == <<etc1("etc1_with_error.glsl", 2), th(1), p(1)>>
      modes  == <<etc1("etc1_with_error.glsl", 0), th(0), p(0)>>
      bc4(channel, snorm) == Dispatched("bc4.glsl", <<channel, snorm>>, <<src>>)
      bc1    == Dispatched(IF r.dither THEN "bc1_dither.glsl" ELSE "bc1.glsl", <<2>>,
                           <<src, Leaf("bc1_tables")>>)
      eac(channel) == Dispatched("eac_r11.glsl", <<channel>>, <<src>>)
      stitch(low, high) == Dispatched("etc2_rgba_stitch.glsl", <<>>, <<high, low>>)
      snorm  == IF r.codec \in {"bc4_snorm", "bc5_snorm"} THEN 1 ELSE 0
  IN  CASE r.codec = "etc1"           -> etc1("etc1.glsl", 0)
        [] r.codec = "etc2_rgba_etc1" -> stitch(alpha, etc1("etc1.glsl", 0))
        [] r.codec = "etc2_rgb"       ->
             Dispatched("etc2_rgb_selector.glsl", <<>>, errors \o modes)
        [] r.codec = "etc2_rgba"      ->
             Dispatched("etc2_rgba_selector.glsl", <<>>, errors \o modes \o <<alpha>>)
        [] r.codec = "eac_r11"        -> eac(0)
        [] r.codec = "eac_rg11"       -> stitch(eac(0), eac(1))
        [] r.codec = "bc1"            -> bc1
        [] r.codec = "bc3"            -> stitch(bc4(3, 0), bc1)
        [] r.codec \in {"bc4", "bc4_snorm"} -> bc4(0, snorm)
        [] r.codec \in {"bc5", "bc5_snorm"} -> stitch(bc4(0, snorm), bc4(1, snorm))
        [] r.codec = "bc6h"           -> Dispatched("bc6h.glsl", <<1>>, <<src>>)

RequestedFile(q) ==
  LET format == FormatOf(q.r.codec)
  IN  [format |-> format,
       data   |-> Output("download", <<BytesPerBlock(format)>>, 0, <<Blocks(q.e, q.r)>>)]

Service == INSTANCE CompressionService WITH
  request <- [e \in Encoder |-> [e |-> e, r |-> request[e]]],
  Compressed <- RequestedFile

(* The program implements the service: each file is written once and holds *)
(* the compression of its own source image, complete and in the format of  *)
(* the requested codec.                                                    *)
DeliversWhatWasAsked == Service!Spec

(* The blocks in the file are the ones the codec's shaders compute from    *)
(* the encoder's own image, whatever the file says about their format.     *)
BlocksAreRight ==
  \A e \in Encoder : file[e] # NoFile => file[e].data.arg = <<Blocks(e, request[e])>>

(* Every run of main reaches its end: no glFinish waits for ever.          *)
EventuallyFinished == <>Finished

-----------------------------------------------------------------------------
(* Statements of the documentation the code does not meet (README.md).     *)

(* main.cpp's help and the headers: the file is in the format of its codec.*)
FormatMatchesCodec ==
  \A e \in Encoder :
    file[e] # NoFile => file[e].format = FormatOf(request[e].codec)

(* The copy of EncoderBC6H::execute02 says blocks are RGBA32: the file     *)
(* gets the bytes its format needs.                                        *)
PayloadIsComplete ==
  \A e \in Encoder :
    file[e] # NoFile => file[e].data.uni = <<BytesPerBlock(file[e].format)>>

(* etc2_th.glsl declares c0c1Texture readonly: what it loads is defined.   *)
LoadsAreDefined ==
  \A i \in GpuOps(stream) : \A a \in ReadsOf(stream[i]) : a.defined
=============================================================================
