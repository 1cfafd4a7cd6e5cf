--------------------------------- MODULE GL ---------------------------------
(***************************************************************************)
(* The vocabulary the encoders are written in: GL objects, the GL calls    *)
(* that EncoderGL wraps, the compute shaders' interfaces, and the memory   *)
(* ordering that glMemoryBarrier buys.                                     *)
(*                                                                         *)
(* Texture contents are symbolic terms: the output of a dispatch is the    *)
(* term [fn, uni, out, arg] that names the shader, its uniform, the image  *)
(* unit and the contents it read.  Two images are equal exactly when they  *)
(* were computed the same way from the same inputs.                        *)
(***************************************************************************)
EXTENDS Integers, Sequences

CONSTANTS
  Encoder,        \* the encoder objects alive in the process
  FetchBits,      \* barrier bits that order image stores before texelFetch
  DownloadBits,   \* barrier bits that order image stores before glGetTexImage
  ImageAccessIsEnforced  \* imageLoad through a WRITE_ONLY binding is undefined

Null == "0"                     \* GL object name 0
Object(e, field) == <<e, field>>
NoObject == <<Null, Null>>

(* Contents.                                                               *)
Leaf(what) == [fn |-> what, uni |-> <<>>, out |-> 0, arg |-> <<>>]
Undefined == Leaf("undefined")
SourceImage(e) == [Leaf("source_image") EXCEPT !.uni = <<e>>]
Output(fn, uni, unit, ins) == [fn |-> fn, uni |-> uni, out |-> unit, arg |-> ins]

(* GL calls, as issued by the EncoderGL wrappers.                          *)
createTexture(o) == [op |-> "create", name |-> o, value |-> Undefined, target |-> "2D"]
createTextureArray(o) ==
  [op |-> "create", name |-> o, value |-> Undefined, target |-> "2D_ARRAY"]
createStagingTexture(o) ==
  [op |-> "create", name |-> o, value |-> Undefined, target |-> "buffer"]
createUavBuffer(o, data) ==
  [op |-> "create", name |-> o, value |-> Leaf(data), target |-> "buffer"]
createComputePsoFromFile(o, file) ==
  [op |-> "create", name |-> o, value |-> Leaf(file), target |-> "program"]
destroy(o) == [op |-> "destroy", name |-> o]
uploadStagingTexture(buffer, o) == [op |-> "upload", src |-> buffer, dst |-> o]
downloadStagingTexture(o, buffer, bytesPerPixel) ==
  [op |-> "download", src |-> o, dst |-> buffer, bytes |-> bytesPerPixel]
copyImage(src, dst) == [op |-> "copy", src |-> src, dst |-> dst]
bindTexture(slot, o) == [op |-> "bindTexture", slot |-> slot, name |-> o]
bindUav(slot, o, access) ==
  [op |-> "bindUav", slot |-> slot, name |-> o, access |-> access]
bindUavBuffer(slot, o) == [op |-> "bindUavBuffer", slot |-> slot, name |-> o]
bindComputePso(o) == [op |-> "bindComputePso", name |-> o]
glUniform(v) == [op |-> "uniform", value |-> v]
glDispatchCompute == [op |-> "dispatch"]
glMemoryBarrier(bits) == [op |-> "barrier", bits |-> bits]
glFinish == [op |-> "finish"]

(* Calls made only under a condition the encoder tests.                    *)
When(cond, calls) == IF cond THEN calls ELSE <<>>

(* The upload at the end of every initResources.                           *)
uploadSource(e) ==
  <<createStagingTexture(Object(e, "stagingTex")),
    uploadStagingTexture(Object(e, "stagingTex"), Object(e, "m_srcTexture"))>>

(* m_downloadStaging.bufferName # 0 iff an earlier startDownload made it.  *)
destroyDownloadStaging(e, live) ==
  When(Object(e, "m_downloadStaging") \in live,
       <<destroy(Object(e, "m_downloadStaging"))>>)

downloadResult(e, live, field, bytesPerPixel) ==
  <<glMemoryBarrier({"PIXEL_BUFFER"})>>
  \o destroyDownloadStaging(e, live)
  \o <<createStagingTexture(Object(e, "m_downloadStaging")),
       downloadStagingTexture(Object(e, field), Object(e, "m_downloadStaging"),
                              bytesPerPixel)>>

(* What each shader reads and writes: sampler units, image units it loads, *)
(* storage-buffer bindings, and image units it stores to.                  *)
TexUnits == 0 .. 6
ImageUnits == 0 .. 2
BufferSlots == {1}

Interface(fetch, load, buffer, store) ==
  [fetch |-> fetch, load |-> load, buffer |-> buffer, store |-> store]


ShaderInterface(file) ==
  CASE file \in {"etc1.glsl", "bc1.glsl", "bc1_dither.glsl"} ->
         Interface(<<0>>, <<>>, <<1>>, {0})
    [] file = "etc1_with_error.glsl" -> Interface(<<0>>, <<>>, <<1>>, {0, 2})
    [] file = "etc2_th.glsl"         -> Interface(<<0>>, <<2>>, <<>>, {0, 1})
    [] file = "etc2_p.glsl"          -> Interface(<<0>>, <<>>, <<>>, {0, 1})
    [] file = "etc2_rgb_selector.glsl" ->
         Interface(<<0, 1, 2, 3, 4>>, <<0>>, <<>>, {0})
    [] file = "etc2_rgba_selector.glsl" ->
         Interface(<<0, 1, 2, 3, 4, 5, 6>>, <<>>, <<>>, {0})
    [] file = "etc2_rgba_stitch.glsl" -> Interface(<<0, 1>>, <<>>, <<>>, {0})
    [] OTHER -> Interface(<<0>>, <<>>, <<>>, {0})

(* eac.glsl uses p_greenChannel when R11_EAC is defined and declares it    *)
(* only when it is not; createComputePso does not look at the link status. *)
Links(file) == file # "eac_r11.glsl"

(***************************************************************************)
(* The operations the GPU executes.  A dispatch captures the bindings that *)
(* are current when it is issued.  An access names the path it goes        *)
(* through, because a barrier bit speaks about a path.                     *)
(***************************************************************************)
Access(via, o, defined) == [via |-> via, name |-> o, defined |-> defined]

NoContext ==
  [pso |-> NoObject,
   tex |-> [u \in TexUnits |-> NoObject],
   img |-> [u \in ImageUnits |-> [name |-> NoObject, access |-> "ReadWrite"]],
   buf |-> [u \in BufferSlots |-> NoObject]]

DispatchInputs(i, ctx) ==
  [k \in DOMAIN i.fetch |-> Access("fetch", ctx.tex[i.fetch[k]], TRUE)]
    \o [k \in DOMAIN i.load |->
          LET b == ctx.img[i.load[k]]
          IN  Access("image", b.name, ~(ImageAccessIsEnforced /\ b.access = "Write"))]
    \o [k \in DOMAIN i.buffer |-> Access("buffer", ctx.buf[i.buffer[k]], TRUE)]

DispatchOp(file, uni, ctx) ==
  LET i == ShaderInterface(file)
  IN  [kind |-> "dispatch", fn |-> file, uni |-> uni, in |-> DispatchInputs(i, ctx),
       out |-> [u \in i.store |-> Access("image", ctx.img[u].name, TRUE)]]

ApiOp(fn, uni, from, src, to, dst) ==
  [kind |-> "api", fn |-> fn, uni |-> uni, in |-> <<Access(from, src, TRUE)>>,
   out |-> [u \in {0} |-> Access(to, dst, TRUE)]]

BarrierOp(bits) == [kind |-> "barrier", bits |-> bits]

ReadsOf(op) == {op.in[k] : k \in DOMAIN op.in}
WritesOf(op) == {op.out[u] : u \in DOMAIN op.out}

(* Bits of which one, issued between a dispatch and a later access through *)
(* the given path, makes the later access see the dispatch's stores.       *)
SufficientBits(via) ==
  CASE via = "fetch"    -> FetchBits
    [] via = "image"    -> {"SHADER_IMAGE_ACCESS"}
    [] via = "buffer"   -> {"SHADER_STORAGE"}
    [] via = "download" -> DownloadBits
    [] via = "copy"     -> {"TEXTURE_UPDATE", "SHADER_IMAGE_ACCESS"}
    [] OTHER            -> {"TEXTURE_UPDATE"}

BarrierBetween(s, j, i, bits) ==
  \E k \in (j + 1) .. (i - 1) : s[k].kind = "barrier" /\ s[k].bits \cap bits # {}

(* Accesses of operation i that conflict with the earlier operation j.     *)
Conflicts(s, j, i) ==
  LET touched == {a.name : a \in ReadsOf(s[j])}
      written == {a.name : a \in WritesOf(s[j])}
  IN  {b \in ReadsOf(s[i]) : b.name \in written}
        \cup {b \in WritesOf(s[i]) : b.name \in touched \cup written}

(* GL runs everything in order except the loads and stores of shaders.     *)
OrdersAccess(s, j, i, b) ==
  s[j].kind = "api" \/ BarrierBetween(s, j, i, SufficientBits(b.via))

MustFollow(s, j, i) == \E b \in Conflicts(s, j, i) : OrdersAccess(s, j, i, b)

GpuOps(s) == {i \in DOMAIN s : s[i].kind # "barrier"}

CanExecute(s, i) ==
  i \in GpuOps(s) /\ \A j \in GpuOps(s) : j < i => ~MustFollow(s, j, i)

ValueRead(mem, a) == IF a.defined THEN mem[a.name] ELSE Undefined

Result(mem, op, u) ==
  LET ins == [k \in DOMAIN op.in |-> ValueRead(mem, op.in[k])]
  IN  CASE op.fn = "copy"     -> ins[1]
        [] op.fn = "upload"   -> SourceImage(op.out[u].name[1])
        [] op.fn = "download" -> Output("download", op.uni, 0, ins)
        [] OTHER              -> Output(op.fn, op.uni, u, ins)

(* Memory after op ran at one instant.                                     *)
AfterOp(mem, op) ==
  [o \in DOMAIN mem |->
     IF \E u \in DOMAIN op.out : op.out[u].name = o
       THEN Result(mem, op, CHOOSE u \in DOMAIN op.out : op.out[u].name = o)
       ELSE mem[o]]
=============================================================================
