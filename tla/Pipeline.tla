------------------------------ MODULE Pipeline -------------------------------
(***************************************************************************)
(* The program: main() drives an encoder through its methods, the methods  *)
(* issue GL calls, and the GPU executes the issued operations whenever the *)
(* ordering rules of GL let it.                                            *)
(*                                                                         *)
(* There is one CPU thread.  A method is one action that takes the list of *)
(* calls the method makes; the calls are then issued one at a time, and no *)
(* method starts before the previous one has issued its last call.  With   *)
(* several encoders their methods interleave, as README.md describes.      *)
(***************************************************************************)
EXTENDS EncoderETC2, EncoderEAC, EncoderBC1, EncoderBC4, EncoderBC6H

CONSTANTS
  MaxInFlight,  \* bound: operations the driver queues before the thread waits
  Request       \* what the command line can ask of an encoder:
                \* [codec, dither, quality, usingRenderDoc]

Codec ==
  {"etc1", "etc2_rgba_etc1", "etc2_rgb", "etc2_rgba", "eac_r11", "eac_rg11",
   "bc1", "bc3", "bc4", "bc4_snorm", "bc5", "bc5_snorm", "bc6h"}

ASSUME RequestAssumption ==
  Request \subseteq [codec : Codec, dither : BOOLEAN, quality : 0 .. 2,
                    usingRenderDoc : BOOLEAN]

VARIABLES
  request,   \* the CmdLineParams each encoder runs with
  stage,     \* the method main calls next on each encoder
  repeat,    \* iterations left of each main loop
  calls,     \* GL calls the current method has still to issue
  ctx,       \* the current bindings of the GL context
  uniform,   \* the uniform value of each program object
  live,      \* GL objects generated and not deleted
  mem,       \* contents of textures and buffers; the source of programs
  stream,    \* operations issued to the GPU and not yet executed
  outImage,  \* the CpuImage of saveToDisk: format and mapped buffer
  file       \* what FormatKTX::save wrote

vars == <<request, stage, repeat, calls, ctx, uniform, live, mem, stream,
          outImage, file>>

context == <<ctx, uniform, live>>

Field ==
  {"m_srcTexture", "m_ditheredTexture", "m_ditherPso", "m_compressTargetRes",
   "m_etc1Error", "m_dstTexture", "m_etc1TablesSsbo", "m_compressPso",
   "m_eacTargetRes", "m_stitchedTarget", "m_eacPso", "m_stitchPso",
   "m_thModesTargetRes", "m_thModesError", "m_thModesC0C1", "m_pModeTargetRes",
   "m_pModeError", "m_thModesPso", "m_thModesFindBestC0C1", "m_pModePso",
   "m_eacTargetRes[0]", "m_eacTargetRes[1]", "m_bc1TargetRes",
   "m_bc1TablesSsbo", "m_bc1Pso", "m_bc4TargetRes", "m_bc4Pso",
   "m_bc4TargetRes[0]", "m_bc4TargetRes[1]", "m_downloadStaging", "stagingTex"}

GLObject == (Encoder \X Field) \cup {NoObject}

NoFile == [format |-> "none", data |-> Undefined]
NoImage == [format |-> "none", data |-> NoObject]

Stages ==
  {"initResources", "execute00", "execute01", "execute02", "execute03",
   "startDownload", "downloadTo", "save", "deinitResources", "done"}

(* The six arms of main's switch.                                          *)
UsesETC1(r) == r.codec \in {"etc1", "etc2_rgba_etc1"}
UsesETC2(r) == r.codec \in {"etc2_rgb", "etc2_rgba"}
UsesEAC(r) == r.codec \in {"eac_r11", "eac_rg11"}
UsesBC1(r) == r.codec \in {"bc1", "bc3"}
UsesBC4(r) == r.codec \in {"bc4", "bc4_snorm", "bc5", "bc5_snorm"}
UsesBC6H(r) == r.codec = "bc6h"

Has00(r) == UsesETC1(r) \/ UsesETC2(r)
Has02(r) == ~UsesBC6H(r)
Loops(r) == ~(UsesEAC(r) \/ UsesBC6H(r))

LoopStart(r) == IF Has00(r) THEN "execute00" ELSE "execute01"

-----------------------------------------------------------------------------
(* The CPU: main and the encoder methods.                                  *)

Init ==
  /\ request \in [Encoder -> Request]
  /\ stage = [e \in Encoder |-> "initResources"]
  /\ repeat = [e \in Encoder |-> IF request[e].usingRenderDoc THEN 2 ELSE 1]
  /\ calls = <<>>
  /\ ctx = NoContext
  /\ uniform = [o \in GLObject |-> <<>>]
  /\ live = {}
  /\ mem = [o \in GLObject |-> Undefined]
  /\ stream = <<>>
  /\ outImage = [e \in Encoder |-> NoImage]
  /\ file = [e \in Encoder |-> NoFile]

(* The thread enters method m of encoder e.                                *)
Enter(e, m, glCalls) ==
  /\ calls = <<>>
  /\ stage[e] = m
  /\ calls' = glCalls
  /\ UNCHANGED <<request, ctx, uniform, live, mem, stream>>

GoTo(e, s) == stage' = [stage EXCEPT ![e] = s]

(* Mutant: one iteration too many.                                         *)
EndOfIterationOffByOne(e) ==
  /\ repeat' = [repeat EXCEPT ![e] = @ - 1]
  /\ GoTo(e, IF Loops(request[e]) /\ repeat[e] >= 1 THEN LoopStart(request[e])
                                                     ELSE "startDownload")

(* Mutant: the counter is tested and never decremented.                    *)
EndOfIterationNoDecrement(e) ==
  /\ UNCHANGED repeat
  /\ GoTo(e, IF Loops(request[e]) /\ repeat[e] > 1 THEN LoopStart(request[e])
                                                    ELSE "startDownload")

(* The end of the body of main's while loop.                               *)
EndOfIteration(e) ==
  /\ repeat' = [repeat EXCEPT ![e] = @ - 1]
  /\ GoTo(e, IF Loops(request[e]) /\ repeat[e] > 1 THEN LoopStart(request[e])
                                                    ELSE "startDownload")

InitResourcesCalls(e, r) ==
  CASE UsesETC1(r) -> ETC1_initResources(e, r)
    [] UsesETC2(r) -> ETC2_initResources(e, r)
    [] UsesEAC(r)  -> EAC_initResources(e, r)
    [] UsesBC1(r)  -> BC1_initResources(e, r)
    [] UsesBC4(r)  -> BC4_initResources(e, r)
    [] OTHER       -> BC6H_initResources(e, r)

InitResources(e) ==
  /\ Enter(e, "initResources", InitResourcesCalls(e, request[e]))
  /\ GoTo(e, LoopStart(request[e]))
  /\ UNCHANGED <<repeat, outImage, file>>

Execute00(e) ==
  /\ Enter(e, "execute00", IF UsesETC1(request[e]) THEN ETC1_execute00(e, request[e])
                                                   ELSE ETC2_execute00(e, request[e]))
  /\ GoTo(e, "execute01")
  /\ UNCHANGED <<repeat, outImage, file>>

Execute01Calls(e, r) ==
  CASE UsesETC1(r) -> ETC1_execute01(e, r)
    [] UsesETC2(r) -> ETC2_execute01(e, r)
    [] UsesEAC(r)  -> EAC_execute01(e, r)
    [] UsesBC1(r)  -> BC1_execute01(e, r)
    [] UsesBC4(r)  -> BC4_execute01(e, r)
    [] OTHER       -> BC6H_execute01(e, r)

Execute01(e) ==
  /\ Enter(e, "execute01", Execute01Calls(e, request[e]))
  /\ IF Has02(request[e]) THEN GoTo(e, "execute02") /\ UNCHANGED repeat
                          ELSE EndOfIteration(e)
  /\ UNCHANGED <<outImage, file>>

Execute02Calls(e, r) ==
  CASE UsesETC1(r) -> ETC1_execute02(e, r)
    [] UsesETC2(r) -> ETC2_execute02(e, r)
    [] UsesEAC(r)  -> EAC_execute02(e, r)
    [] UsesBC1(r)  -> BC1_execute02(e, r)
    [] OTHER       -> BC4_execute02(e, r)

Execute02(e) ==
  /\ Enter(e, "execute02", Execute02Calls(e, request[e]))
  /\ IF request[e].usingRenderDoc /\ Loops(request[e])
       THEN GoTo(e, "execute03") /\ UNCHANGED repeat
       ELSE EndOfIteration(e)
  /\ UNCHANGED <<outImage, file>>

Execute03Calls(e, r) ==
  CASE UsesETC1(r) -> ETC1_execute03(e, r)
    [] UsesETC2(r) -> ETC2_execute03(e, r)
    [] UsesBC1(r)  -> BC1_execute03(e, r)
    [] OTHER       -> BC4_execute03(e, r)

Execute03(e) ==
  /\ Enter(e, "execute03", Execute03Calls(e, request[e]))
  /\ EndOfIteration(e)
  /\ UNCHANGED <<outImage, file>>

StartDownloadCalls(e, r) ==
  CASE UsesETC1(r) -> ETC1_startDownload(e, r, live)
    [] UsesETC2(r) -> ETC2_startDownload(e, r, live)
    [] UsesEAC(r)  -> EAC_startDownload(e, r, live)
    [] UsesBC1(r)  -> BC1_startDownload(e, r, live)
    [] UsesBC4(r)  -> BC4_startDownload(e, r, live)
    [] OTHER       -> BC6H_startDownload(e, r, live)

StartDownload(e) ==
  /\ Enter(e, "startDownload", StartDownloadCalls(e, request[e]))
  /\ GoTo(e, "downloadTo")
  /\ UNCHANGED <<repeat, outImage, file>>

DownloadFormat(r) ==
  CASE UsesETC1(r) -> ETC1_downloadFormat(r)
    [] UsesETC2(r) -> ETC2_downloadFormat(r)
    [] UsesEAC(r)  -> EAC_downloadFormat(r)
    [] UsesBC1(r)  -> BC1_downloadFormat(r)
    [] UsesBC4(r)  -> BC4_downloadFormat(r)
    [] OTHER       -> BC6H_downloadFormat(r)

(* Mutant: the pointer is handed out without waiting.                      *)
DownloadToUnfinished(e) ==
  /\ Enter(e, "downloadTo", <<>>)
  /\ outImage' = [outImage EXCEPT ![e] = [format |-> DownloadFormat(request[e]),
                                          data |-> Object(e, "m_downloadStaging")]]
  /\ GoTo(e, "save")
  /\ UNCHANGED <<repeat, file>>

(* glFinish, then the image is described; its data is the mapped buffer.   *)
DownloadTo(e) ==
  /\ Enter(e, "downloadTo", <<glFinish>>)
  /\ outImage' = [outImage EXCEPT ![e] = [format |-> DownloadFormat(request[e]),
                                          data |-> Object(e, "m_downloadStaging")]]
  /\ GoTo(e, "save")
  /\ UNCHANGED <<repeat, file>>

(* FormatKTX::save dereferences outImage.data; saveToDisk then forgets it. *)
Save(e) ==
  /\ Enter(e, "save", <<>>)
  /\ file' = [file EXCEPT ![e] = [format |-> outImage[e].format,
                                  data |-> mem[outImage[e].data]]]
  /\ outImage' = [outImage EXCEPT ![e] = NoImage]
  /\ GoTo(e, "deinitResources")
  /\ UNCHANGED repeat

DeinitResourcesCalls(e, r) ==
  CASE UsesETC1(r) -> ETC1_deinitResources(e, r, live)
    [] UsesETC2(r) -> ETC2_deinitResources(e, r, live)
    [] UsesEAC(r)  -> EAC_deinitResources(e, r, live)
    [] UsesBC1(r)  -> BC1_deinitResources(e, r, live)
    [] UsesBC4(r)  -> BC4_deinitResources(e, r, live)
    [] OTHER       -> BC6H_deinitResources(e, r, live)

DeinitResources(e) ==
  /\ Enter(e, "deinitResources", DeinitResourcesCalls(e, request[e]))
  /\ GoTo(e, "done")
  /\ UNCHANGED <<repeat, outImage, file>>

-----------------------------------------------------------------------------
(* The driver: each call, in order.                                        *)

call == Head(calls)

Issue(op) ==
  /\ calls # <<>>
  /\ call.op = op
  /\ calls' = Tail(calls)
  /\ UNCHANGED <<request, stage, repeat, outImage, file>>

(* An operation joins the stream when the driver's queue has room.         *)
Enqueue(op) ==
  /\ Len(stream) < MaxInFlight
  /\ stream' = Append(stream, op)

(* createTexture leaves the new 2D texture bound to unit 0.                *)
IssueCreate ==
  /\ Issue("create")
  /\ live' = live \cup {call.name}
  /\ mem' = [mem EXCEPT ![call.name] = call.value]
  /\ ctx' = IF call.target = "2D" THEN [ctx EXCEPT !.tex[0] = call.name] ELSE ctx
  /\ UNCHANGED <<uniform, stream>>

(* Deleting a bound texture or buffer unbinds it; commands already issued  *)
(* keep the storage alive.                                                 *)
IssueDestroy ==
  /\ Issue("destroy")
  /\ live' = live \ {call.name}
  /\ ctx' = [ctx EXCEPT
       !.tex = [u \in TexUnits |-> IF @[u] = call.name THEN NoObject ELSE @[u]],
       !.img = [u \in ImageUnits |-> IF @[u].name = call.name
                                       THEN NoContext.img[u] ELSE @[u]],
       !.buf = [u \in BufferSlots |-> IF @[u] = call.name THEN NoObject ELSE @[u]]]
  /\ UNCHANGED <<uniform, mem, stream>>

(* Using a program that did not link is an error that changes nothing, and *)
(* so are a uniform and a dispatch with no program in use.                 *)
IssueBind ==
  /\ \/ /\ Issue("bindTexture")
        /\ ctx' = [ctx EXCEPT !.tex[call.slot] = call.name]
     \/ /\ Issue("bindUav")
        /\ ctx' = [ctx EXCEPT !.img[call.slot] =
                     [name |-> call.name, access |-> call.access]]
     \/ /\ Issue("bindUavBuffer")
        /\ ctx' = [ctx EXCEPT !.buf[call.slot] = call.name]
     \/ /\ Issue("bindComputePso")
        /\ ctx' = IF Links(mem[call.name].fn) THEN [ctx EXCEPT !.pso = call.name]
                                              ELSE ctx
  /\ UNCHANGED <<uniform, live, mem, stream>>

IssueUniform ==
  /\ Issue("uniform")
  /\ uniform' = IF ctx.pso # NoObject THEN [uniform EXCEPT ![ctx.pso] = call.value]
                                      ELSE uniform
  /\ UNCHANGED <<ctx, live, mem, stream>>

IssueDispatch ==
  /\ Issue("dispatch")
  /\ IF ctx.pso # NoObject
       THEN Enqueue(DispatchOp(mem[ctx.pso].fn, uniform[ctx.pso], ctx))
       ELSE UNCHANGED stream
  /\ UNCHANGED <<context, mem>>

(* uploadStagingTexture leaves unit 0 unbound.                             *)
IssueUpload ==
  /\ Issue("upload")
  /\ Enqueue(ApiOp("upload", <<>>, "unpack", call.src, "upload", call.dst))
  /\ ctx' = [ctx EXCEPT !.tex[0] = NoObject]
  /\ UNCHANGED <<uniform, live, mem>>

(* downloadStagingTexture leaves the downloaded texture bound to unit 0.   *)
IssueDownload ==
  /\ Issue("download")
  /\ Enqueue(ApiOp("download", <<call.bytes>>, "download", call.src, "pack", call.dst))
  /\ ctx' = [ctx EXCEPT !.tex[0] = call.src]
  /\ UNCHANGED <<uniform, live, mem>>

IssueCopy ==
  /\ Issue("copy")
  /\ Enqueue(ApiOp("copy", <<>>, "copy", call.src, "copy", call.dst))
  /\ UNCHANGED <<context, mem>>

IssueBarrier ==
  /\ Issue("barrier")
  /\ Enqueue(BarrierOp(call.bits))
  /\ UNCHANGED <<context, mem>>

(* glFinish returns once everything issued has been executed.              *)
IssueFinish ==
  /\ Issue("finish")
  /\ stream = <<>>
  /\ UNCHANGED <<context, mem, stream>>

-----------------------------------------------------------------------------
(* The GPU.                                                                *)

Without(s, i) == SubSeq(s, 1, i - 1) \o SubSeq(s, i + 1, Len(s))

Execute(i) ==
  /\ CanExecute(stream, i)
  /\ mem' = AfterOp(mem, stream[i])
  /\ stream' = Without(stream, i)
  /\ UNCHANGED <<request, stage, repeat, calls, context, outImage, file>>

(* A barrier with nothing before it orders nothing any more.               *)
RetireBarrier ==
  /\ stream # <<>>
  /\ Head(stream).kind = "barrier"
  /\ stream' = Tail(stream)
  /\ UNCHANGED <<request, stage, repeat, calls, context, mem, outImage, file>>

-----------------------------------------------------------------------------
Method(e) ==
  \/ InitResources(e) \/ Execute00(e) \/ Execute01(e) \/ Execute02(e)
  \/ Execute03(e) \/ StartDownload(e) \/ DownloadTo(e) \/ Save(e)
  \/ DeinitResources(e)

IssueCall ==
  \/ IssueCreate \/ IssueDestroy \/ IssueBind \/ IssueUniform \/ IssueDispatch
  \/ IssueUpload \/ IssueDownload \/ IssueCopy \/ IssueBarrier \/ IssueFinish

GPU == RetireBarrier \/ \E i \in DOMAIN stream : Execute(i)

Finished == calls = <<>> /\ stream = <<>> /\ \A e \in Encoder : stage[e] = "done"

(* main returns.                                                           *)
Terminating == Finished /\ UNCHANGED vars

Next == (\E e \in Encoder : Method(e)) \/ IssueCall \/ GPU \/ Terminating

(* The thread runs while it can, and the GPU makes progress: glFinish is   *)
(* guaranteed to return in finite time.                                    *)
Spec ==
  Init /\ [][Next]_vars
    /\ WF_vars(IssueCall) /\ WF_vars(GPU) /\ \A e \in Encoder : WF_vars(Method(e))
=============================================================================
