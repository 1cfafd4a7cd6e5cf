---------------------------- MODULE PipelineProofs ----------------------------
(***************************************************************************)
(* The calls the encoders' methods make, type correctness of the program,  *)
(* the stability of the mapped pointer and the lifetimes of GL's objects,  *)
(* for every set of encoders, every request and every queue bound.         *)
(***************************************************************************)
EXTENDS PipelineProps, SequenceTheorems, TLAPS

-----------------------------------------------------------------------------
(* Every call of a method is well-formed and names only objects of the     *)
(* encoder that makes it.                                                  *)

(* A request carries a small quality, which execute01 passes as a uniform. *)
LEMMA RequestType ==
  ASSUME NEW r \in Request
  PROVE  r.quality \in 0 .. 2 /\ r.dither \in BOOLEAN
BY RequestAssumption

(* The wrappers of EncoderGL, applied to an object of e, make calls of e.  *)
LEMMA OwnCreate ==
  ASSUME NEW e \in Encoder, NEW f \in Field
  PROVE  /\ createTexture(Object(e, f)) \in OwnCall(e)
         /\ createTextureArray(Object(e, f)) \in OwnCall(e)
         /\ createStagingTexture(Object(e, f)) \in OwnCall(e)
BY DEF OwnCall, Call, Initial, createTexture, createTextureArray,
       createStagingTexture, Object, Undefined, Leaf, Producer

(* A program of e is created from one of the shader files.                 *)
LEMMA OwnProgram ==
  ASSUME NEW e \in Encoder, NEW f \in Field, NEW glsl \in Shader
  PROVE  createComputePsoFromFile(Object(e, f), glsl) \in OwnCall(e)
BY DEF OwnCall, Call, Initial, createComputePsoFromFile, Object, Leaf, Producer

(* The two tables of constants are buffers of e.                           *)
LEMMA OwnTables ==
  ASSUME NEW e \in Encoder, NEW f \in Field
  PROVE  /\ createUavBuffer(Object(e, f), "etc1_tables") \in OwnCall(e)
         /\ createUavBuffer(Object(e, f), "bc1_tables") \in OwnCall(e)
BY DEF OwnCall, Call, Initial, createUavBuffer, Object, Leaf, Producer

(* Binding or destroying an object of e is a call of e.                    *)
LEMMA OwnBind ==
  ASSUME NEW e \in Encoder, NEW f \in Field
  PROVE  /\ \A slot \in TexUnits : bindTexture(slot, Object(e, f)) \in OwnCall(e)
         /\ bindUavBuffer(1, Object(e, f)) \in OwnCall(e)
         /\ bindComputePso(Object(e, f)) \in OwnCall(e)
         /\ destroy(Object(e, f)) \in OwnCall(e)
BY DEF OwnCall, Call, bindTexture, bindUavBuffer, bindComputePso, destroy,
       Object, BufferSlots

(* No encoder binds its staging buffer to an image unit, and the lemma     *)
(* excludes it: StagingProofs relies on that.                              *)
LEMMA OwnBindUav ==
  ASSUME NEW e \in Encoder, NEW f \in Field \ {"m_downloadStaging"},
         NEW slot \in ImageUnits, NEW access \in {"Write", "ReadWrite"}
  PROVE  bindUav(slot, Object(e, f), access) \in OwnCall(e)
BY DEF OwnCall, Call, bindUav, Object

(* The transfers between two objects of e are calls of e.                  *)
LEMMA OwnTransfer ==
  ASSUME NEW e \in Encoder, NEW f \in Field, NEW g \in Field, NEW n \in Nat
  PROVE  /\ uploadStagingTexture(Object(e, f), Object(e, g)) \in OwnCall(e)
         /\ copyImage(Object(e, f), Object(e, g)) \in OwnCall(e)
         /\ downloadStagingTexture(Object(e, f), Object(e, g), n) \in OwnCall(e)
BY DEF OwnCall, Call, uploadStagingTexture, copyImage, downloadStagingTexture,
       Object

(* The calls that name no object are calls of any encoder.                 *)
LEMMA OwnPlain ==
  ASSUME NEW e \in Encoder
  PROVE  /\ glDispatchCompute \in OwnCall(e)
         /\ glFinish \in OwnCall(e)
         /\ \A v \in Int : glUniform(<<v>>) \in OwnCall(e)
         /\ \A v, w \in Int : glUniform(<<v, w>>) \in OwnCall(e)
         /\ \A bits \in SUBSET Bit : glMemoryBarrier(bits) \in OwnCall(e)
BY DEF OwnCall, Call, glDispatchCompute, glFinish, glUniform, glMemoryBarrier

(* A list is made of calls of e when its parts are.                        *)
LEMMA OwnUpload ==
  ASSUME NEW e \in Encoder
  PROVE  uploadSource(e) \in Seq(OwnCall(e))
BY OwnCreate, OwnTransfer DEF uploadSource, Field

(* The lists by which every startDownload and deinitResources treats the   *)
(* staging buffer are calls of e.                                          *)
LEMMA OwnDownload ==
  ASSUME NEW e \in Encoder, NEW objects, NEW f \in Field, NEW n \in Nat
  PROVE  /\ destroyDownloadStaging(e, objects) \in Seq(OwnCall(e))
         /\ downloadResult(e, objects, f, n) \in Seq(OwnCall(e))
<1>1. destroyDownloadStaging(e, objects) \in Seq(OwnCall(e))
  BY OwnBind DEF destroyDownloadStaging, When, Field
<1>2. <<glMemoryBarrier({"PIXEL_BUFFER"})>> \in Seq(OwnCall(e))
  BY OwnPlain DEF Bit
<1>3. <<createStagingTexture(Object(e, "m_downloadStaging")),
        downloadStagingTexture(Object(e, f), Object(e, "m_downloadStaging"), n)>>
        \in Seq(OwnCall(e))
  BY OwnCreate, OwnTransfer DEF Field
<1> QED
  BY <1>1, <1>2, <1>3 DEF downloadResult

-----------------------------------------------------------------------------
(* Every method of EncoderETC1 makes calls of its own encoder.             *)
LEMMA ETC1Calls ==
  ASSUME NEW e \in Encoder, NEW r \in Request, NEW objects
  PROVE  /\ ETC1_initResources(e, r) \in Seq(OwnCall(e))
         /\ ETC1_execute00(e, r) \in Seq(OwnCall(e))
         /\ ETC1_execute01(e, r) \in Seq(OwnCall(e))
         /\ ETC1_execute02(e, r) \in Seq(OwnCall(e))
         /\ ETC1_execute03(e, r) \in Seq(OwnCall(e))
         /\ ETC1_startDownload(e, r, objects) \in Seq(OwnCall(e))
         /\ ETC1_deinitResources(e, r, objects) \in Seq(OwnCall(e))
<1>1. ETC1_initResources(e, r) \in Seq(OwnCall(e))
  <2>1. /\ createComputePsoFromFile(Object(e, "m_ditherPso"),
                                    "dither555.glsl") \in OwnCall(e)
        /\ createComputePsoFromFile(Object(e, "m_compressPso"),
                                    "etc1_with_error.glsl") \in OwnCall(e)
        /\ createComputePsoFromFile(Object(e, "m_compressPso"),
                                    "etc1.glsl") \in OwnCall(e)
        /\ createComputePsoFromFile(Object(e, "m_eacPso"),
                                    "eac.glsl") \in OwnCall(e)
        /\ createComputePsoFromFile(Object(e, "m_stitchPso"),
                                    "etc2_rgba_stitch.glsl") \in OwnCall(e)
    BY OwnProgram DEF Field, Shader
  <2>2. createUavBuffer(Object(e, "m_etc1TablesSsbo"), "etc1_tables") \in OwnCall(e)
    BY OwnTables DEF Field
  <2> QED
    BY <2>1, <2>2, RequestType, OwnCreate, OwnBind, OwnUpload
       DEF ETC1_initResources, When, Field
<1>2. ETC1_execute00(e, r) \in Seq(OwnCall(e))
  BY RequestType, OwnBind, OwnBindUav, OwnPlain
     DEF ETC1_execute00, When, Field, TexUnits, ImageUnits, Bit
<1>3. ETC1_execute01(e, r) \in Seq(OwnCall(e))
  BY RequestType, OwnBind, OwnBindUav, OwnPlain
     DEF ETC1_execute01, ditheredTexture, When, Field, TexUnits, ImageUnits
<1>4. ETC1_execute02(e, r) \in Seq(OwnCall(e))
  BY OwnBind, OwnBindUav, OwnPlain
     DEF ETC1_execute02, When, Field, TexUnits, ImageUnits, Bit
<1>5. ETC1_execute03(e, r) \in Seq(OwnCall(e))
  BY OwnCreate, OwnBind, OwnTransfer, OwnPlain
     DEF ETC1_execute03, Field, Bit
<1>6. ETC1_startDownload(e, r, objects) \in Seq(OwnCall(e))
  BY OwnDownload DEF ETC1_startDownload, Field
<1>7. ETC1_deinitResources(e, r, objects) \in Seq(OwnCall(e))
  BY OwnBind, OwnDownload DEF ETC1_deinitResources, When, Field
<1> QED
  BY <1>1, <1>2, <1>3, <1>4, <1>5, <1>6, <1>7

(* Every method of EncoderETC2, those of its base class included, makes    *)
(* calls of its own encoder.                                               *)
LEMMA ETC2Calls ==
  ASSUME NEW e \in Encoder, NEW r \in Request, NEW objects
  PROVE  /\ ETC2_initResources(e, r) \in Seq(OwnCall(e))
         /\ ETC2_execute00(e, r) \in Seq(OwnCall(e))
         /\ ETC2_execute01(e, r) \in Seq(OwnCall(e))
         /\ ETC2_execute02(e, r) \in Seq(OwnCall(e))
         /\ ETC2_execute03(e, r) \in Seq(OwnCall(e))
         /\ ETC2_startDownload(e, r, objects) \in Seq(OwnCall(e))
         /\ ETC2_deinitResources(e, r, objects) \in Seq(OwnCall(e))
<1>1. ETC2_initResources(e, r) \in Seq(OwnCall(e))
  <2>1. /\ createComputePsoFromFile(Object(e, "m_thModesPso"),
                                    "etc2_th.glsl") \in OwnCall(e)
        /\ createComputePsoFromFile(Object(e, "m_thModesFindBestC0C1"),
                                    "etc2_th_find_best_c0c1_k_means.glsl") \in OwnCall(e)
        /\ createComputePsoFromFile(Object(e, "m_pModePso"),
                                    "etc2_p.glsl") \in OwnCall(e)
        /\ createComputePsoFromFile(Object(e, "m_stitchPso"),
                                    "etc2_rgba_selector.glsl") \in OwnCall(e)
        /\ createComputePsoFromFile(Object(e, "m_stitchPso"),
                                    "etc2_rgb_selector.glsl") \in OwnCall(e)
    BY OwnProgram DEF Field, Shader
  <2> QED
    BY <2>1, ETC1Calls, OwnCreate
       DEF ETC2_initResources, When, Field
<1>2. ETC2_execute00(e, r) \in Seq(OwnCall(e))
  BY ETC1Calls, OwnBind, OwnBindUav, OwnPlain
     DEF ETC2_execute00, ditheredTexture, Field, TexUnits, ImageUnits, Bit
<1>3. ETC2_execute01(e, r) \in Seq(OwnCall(e))
  BY ETC1Calls, OwnBind, OwnBindUav, OwnPlain
     DEF ETC2_execute01, ditheredTexture, Field, TexUnits, ImageUnits
<1>4. ETC2_execute02(e, r) \in Seq(OwnCall(e))
  BY OwnBind, OwnBindUav, OwnPlain
     DEF ETC2_execute02, Field, TexUnits, ImageUnits, Bit
<1>5. ETC2_execute03(e, r) \in Seq(OwnCall(e))
  BY OwnCreate, OwnTransfer, OwnPlain
     DEF ETC2_execute03, ETC2_resultTexture, Field
<1>6. ETC2_startDownload(e, r, objects) \in Seq(OwnCall(e))
  BY OwnDownload DEF ETC2_startDownload, ETC2_resultTexture, Field
<1>7. ETC2_deinitResources(e, r, objects) \in Seq(OwnCall(e))
  BY ETC1Calls, OwnBind DEF ETC2_deinitResources, Field
<1> QED
  BY <1>1, <1>2, <1>3, <1>4, <1>5, <1>6, <1>7

(* Every method of EncoderEAC makes calls of its own encoder.              *)
LEMMA EACCalls ==
  ASSUME NEW e \in Encoder, NEW r \in Request, NEW objects
  PROVE  /\ EAC_initResources(e, r) \in Seq(OwnCall(e))
         /\ EAC_execute01(e, r) \in Seq(OwnCall(e))
         /\ EAC_execute02(e, r) \in Seq(OwnCall(e))
         /\ EAC_startDownload(e, r, objects) \in Seq(OwnCall(e))
         /\ EAC_deinitResources(e, r, objects) \in Seq(OwnCall(e))
<1>1. EAC_initResources(e, r) \in Seq(OwnCall(e))
  <2>1. /\ createComputePsoFromFile(Object(e, "m_eacPso"),
                                    "eac_r11.glsl") \in OwnCall(e)
        /\ createComputePsoFromFile(Object(e, "m_stitchPso"),
                                    "etc2_rgba_stitch.glsl") \in OwnCall(e)
    BY OwnProgram DEF Field, Shader
  <2> QED
    BY <2>1, OwnCreate, OwnBind, OwnUpload
       DEF EAC_initResources, When, Field
<1>2. EAC_execute01(e, r) \in Seq(OwnCall(e))
  BY OwnBind, OwnBindUav, OwnPlain
     DEF EAC_execute01, EAC_compressChannel, When, Field, TexUnits, ImageUnits
<1>3. EAC_execute02(e, r) \in Seq(OwnCall(e))
  BY OwnBind, OwnBindUav, OwnPlain
     DEF EAC_execute02, When, Field, TexUnits, ImageUnits, Bit
<1>4. EAC_startDownload(e, r, objects) \in Seq(OwnCall(e))
  BY OwnDownload DEF EAC_startDownload, Field
<1>5. EAC_deinitResources(e, r, objects) \in Seq(OwnCall(e))
  BY OwnBind, OwnDownload DEF EAC_deinitResources, When, Field
<1> QED
  BY <1>1, <1>2, <1>3, <1>4, <1>5

(* Every method of EncoderBC1 makes calls of its own encoder.              *)
LEMMA BC1Calls ==
  ASSUME NEW e \in Encoder, NEW r \in Request, NEW objects
  PROVE  /\ BC1_initResources(e, r) \in Seq(OwnCall(e))
         /\ BC1_execute01(e, r) \in Seq(OwnCall(e))
         /\ BC1_execute02(e, r) \in Seq(OwnCall(e))
         /\ BC1_execute03(e, r) \in Seq(OwnCall(e))
         /\ BC1_startDownload(e, r, objects) \in Seq(OwnCall(e))
         /\ BC1_deinitResources(e, r, objects) \in Seq(OwnCall(e))
<1>1. BC1_initResources(e, r) \in Seq(OwnCall(e))
  <2>1. /\ createComputePsoFromFile(Object(e, "m_bc1Pso"),
                                    "bc1.glsl") \in OwnCall(e)
        /\ createComputePsoFromFile(Object(e, "m_bc1Pso"),
                                    "bc1_dither.glsl") \in OwnCall(e)
        /\ createComputePsoFromFile(Object(e, "m_bc4Pso"),
                                    "bc4.glsl") \in OwnCall(e)
        /\ createComputePsoFromFile(Object(e, "m_stitchPso"),
                                    "etc2_rgba_stitch.glsl") \in OwnCall(e)
    BY OwnProgram DEF Field, Shader
  <2>2. createUavBuffer(Object(e, "m_bc1TablesSsbo"), "bc1_tables") \in OwnCall(e)
    BY OwnTables DEF Field
  <2> QED
    BY <2>1, <2>2, RequestType, OwnCreate, OwnBind, OwnUpload
       DEF BC1_initResources, When, Field
<1>2. BC1_execute01(e, r) \in Seq(OwnCall(e))
  BY OwnBind, OwnBindUav, OwnPlain
     DEF BC1_execute01, When, Field, TexUnits, ImageUnits
<1>3. BC1_execute02(e, r) \in Seq(OwnCall(e))
  BY OwnBind, OwnBindUav, OwnPlain
     DEF BC1_execute02, When, Field, TexUnits, ImageUnits, Bit
<1>4. BC1_execute03(e, r) \in Seq(OwnCall(e))
  BY OwnTransfer, OwnPlain DEF BC1_execute03, BC1_resultTexture, Field, Bit
<1>5. BC1_startDownload(e, r, objects) \in Seq(OwnCall(e))
  BY OwnDownload DEF BC1_startDownload, BC1_resultTexture, Field
<1>6. BC1_deinitResources(e, r, objects) \in Seq(OwnCall(e))
  BY OwnBind, OwnDownload DEF BC1_deinitResources, When, Field
<1> QED
  BY <1>1, <1>2, <1>3, <1>4, <1>5, <1>6

(* Every method of EncoderBC4 makes calls of its own encoder.              *)
LEMMA BC4Calls ==
  ASSUME NEW e \in Encoder, NEW r \in Request, NEW objects
  PROVE  /\ BC4_initResources(e, r) \in Seq(OwnCall(e))
         /\ BC4_execute01(e, r) \in Seq(OwnCall(e))
         /\ BC4_execute02(e, r) \in Seq(OwnCall(e))
         /\ BC4_execute03(e, r) \in Seq(OwnCall(e))
         /\ BC4_startDownload(e, r, objects) \in Seq(OwnCall(e))
         /\ BC4_deinitResources(e, r, objects) \in Seq(OwnCall(e))
<1>1. BC4_initResources(e, r) \in Seq(OwnCall(e))
  <2>1. /\ createComputePsoFromFile(Object(e, "m_bc4Pso"),
                                    "bc4.glsl") \in OwnCall(e)
        /\ createComputePsoFromFile(Object(e, "m_stitchPso"),
                                    "etc2_rgba_stitch.glsl") \in OwnCall(e)
    BY OwnProgram DEF Field, Shader
  <2> QED
    BY <2>1, OwnCreate, OwnBind, OwnUpload
       DEF BC4_initResources, When, Field
<1>2. BC4_execute01(e, r) \in Seq(OwnCall(e))
  BY OwnBind, OwnBindUav, OwnPlain
     DEF BC4_execute01, BC4_compressChannel, When, Field, TexUnits, ImageUnits
<1>3. BC4_execute02(e, r) \in Seq(OwnCall(e))
  BY OwnBind, OwnBindUav, OwnPlain
     DEF BC4_execute02, When, Field, TexUnits, ImageUnits, Bit
<1>4. BC4_execute03(e, r) \in Seq(OwnCall(e))
  BY OwnTransfer, OwnPlain DEF BC4_execute03, BC4_resultTexture, Field, Bit
<1>5. BC4_startDownload(e, r, objects) \in Seq(OwnCall(e))
  BY OwnDownload DEF BC4_startDownload, BC4_resultTexture, Field
<1>6. BC4_deinitResources(e, r, objects) \in Seq(OwnCall(e))
  BY OwnBind, OwnDownload DEF BC4_deinitResources, When, Field
<1> QED
  BY <1>1, <1>2, <1>3, <1>4, <1>5, <1>6

(* Every method of EncoderBC6H makes calls of its own encoder.             *)
LEMMA BC6HCalls ==
  ASSUME NEW e \in Encoder, NEW r \in Request, NEW objects
  PROVE  /\ BC6H_initResources(e, r) \in Seq(OwnCall(e))
         /\ BC6H_execute01(e, r) \in Seq(OwnCall(e))
         /\ BC6H_startDownload(e, r, objects) \in Seq(OwnCall(e))
         /\ BC6H_deinitResources(e, r, objects) \in Seq(OwnCall(e))
<1>1. BC6H_initResources(e, r) \in Seq(OwnCall(e))
  <2>1. /\ createComputePsoFromFile(Object(e, "m_compressPso"),
                                    "bc6h.glsl") \in OwnCall(e)
    BY OwnProgram DEF Field, Shader
  <2> QED
    BY <2>1, OwnCreate, OwnUpload
       DEF BC6H_initResources, When, Field
<1>2. BC6H_execute01(e, r) \in Seq(OwnCall(e))
  BY OwnBind, OwnBindUav, OwnPlain
     DEF BC6H_execute01, Field, TexUnits, ImageUnits
<1>3. BC6H_startDownload(e, r, objects) \in Seq(OwnCall(e))
  BY OwnDownload DEF BC6H_startDownload, Field
<1>4. BC6H_deinitResources(e, r, objects) \in Seq(OwnCall(e))
  BY OwnBind, OwnDownload DEF BC6H_deinitResources, Field
<1> QED
  BY <1>1, <1>2, <1>3, <1>4

-----------------------------------------------------------------------------
(* The calls of a method are calls of the encoder it runs on.              *)

(* Whatever the codec, the methods main calls before the download make     *)
(* calls of their own encoder.                                             *)
LEMMA MethodCalls ==
  ASSUME NEW e \in Encoder, NEW r \in Request, NEW objects
  PROVE  /\ InitResourcesCalls(e, r) \in Seq(OwnCall(e))
         /\ ETC1_execute00(e, r) \in Seq(OwnCall(e))
         /\ ETC2_execute00(e, r) \in Seq(OwnCall(e))
         /\ Execute01Calls(e, r) \in Seq(OwnCall(e))
         /\ Execute02Calls(e, r) \in Seq(OwnCall(e))
         /\ Execute03Calls(e, r) \in Seq(OwnCall(e))
<1>1. InitResourcesCalls(e, r) \in Seq(OwnCall(e))
  BY ETC1Calls, ETC2Calls, EACCalls, BC1Calls, BC4Calls, BC6HCalls
     DEF InitResourcesCalls
<1>2. /\ ETC1_execute00(e, r) \in Seq(OwnCall(e))
      /\ ETC2_execute00(e, r) \in Seq(OwnCall(e))
  BY ETC1Calls, ETC2Calls
<1>3. Execute01Calls(e, r) \in Seq(OwnCall(e))
  BY ETC1Calls, ETC2Calls, EACCalls, BC1Calls, BC4Calls, BC6HCalls
     DEF Execute01Calls
<1>4. Execute02Calls(e, r) \in Seq(OwnCall(e))
  BY ETC1Calls, ETC2Calls, EACCalls, BC1Calls, BC4Calls DEF Execute02Calls
<1>5. Execute03Calls(e, r) \in Seq(OwnCall(e))
  BY ETC1Calls, ETC2Calls, BC1Calls, BC4Calls DEF Execute03Calls
<1> QED
  BY <1>1, <1>2, <1>3, <1>4, <1>5

(* So do startDownload and deinitResources, whatever the codec.            *)
LEMMA DownloadCalls ==
  ASSUME NEW e \in Encoder, NEW r \in Request, NEW objects
  PROVE  /\ StartDownloadCalls(e, r) \in Seq(OwnCall(e))
         /\ DeinitResourcesCalls(e, r) \in Seq(OwnCall(e))
<1>1. StartDownloadCalls(e, r) \in Seq(OwnCall(e))
  BY ETC1Calls, ETC2Calls, EACCalls, BC1Calls, BC4Calls, BC6HCalls
     DEF StartDownloadCalls
<1>2. DeinitResourcesCalls(e, r) \in Seq(OwnCall(e))
  BY ETC1Calls, ETC2Calls, EACCalls, BC1Calls, BC4Calls, BC6HCalls
     DEF DeinitResourcesCalls
<1> QED
  BY <1>1, <1>2

(* A list of calls of one encoder is a list of calls of the program.       *)
LEMMA OwnCallsAreCalls ==
  ASSUME NEW e \in Encoder
  PROVE  \A s \in Seq(OwnCall(e)) : s \in Seq(Call(Encoder \X Field))
<1>1. OwnCall(e) \subseteq Call(Encoder \X Field)
  <2>1. {e} \X Field \subseteq Encoder \X Field
    OBVIOUS
  <2> QED
    BY <2>1 DEF OwnCall, Call
<1>2. ASSUME NEW s \in Seq(OwnCall(e))
      PROVE  s \in Seq(Call(Encoder \X Field))
  BY <1>1, SeqMonotonic
<1> QED
  BY <1>2

(* What the driver finds in the fields of a well-formed call.              *)
LEMMA CallFields ==
  ASSUME NEW S, NEW c \in Call(S)
  PROVE  /\ c.op = "create" => c.name \in S /\ c.value.fn \in Producer
         /\ c.op \in {"destroy", "bindComputePso", "bindTexture", "bindUav",
                      "bindUavBuffer"} => c.name \in S
         /\ c.op = "bindTexture" => c.slot \in TexUnits
         /\ c.op = "bindUav" => /\ c.slot \in ImageUnits
                                /\ c.access \in {"Write", "ReadWrite"}
         /\ c.op = "bindUavBuffer" => c.slot \in BufferSlots
         /\ c.op \in {"upload", "copy", "download"} => c.src \in S /\ c.dst \in S
         /\ c.op = "download" => c.bytes \in Nat
         /\ c.op = "uniform" => c.value \in Seq(Int)
         /\ c.op = "barrier" => c.bits \in SUBSET Bit
BY DEF Call, Initial

(* A function on 1 .. n is a sequence of length n.                         *)
LEMMA FunctionIsSeq ==
  ASSUME NEW S, NEW n \in Nat, NEW f \in [1 .. n -> S]
  PROVE  f \in Seq(S) /\ Len(f) = n
<1>1. f \in Seq(S)
  BY SeqDef
<1> QED
  BY <1>1, LenProperties

(* A sequence of positive length is not the empty one.                     *)
LEMMA NonEmptySeq ==
  ASSUME NEW S, NEW s \in Seq(S), Len(s) > 0
  PROVE  s \in Seq(S) \ {<<>>}
<1>1. Len(<<>>) = 0
  BY EmptySeq
<1> QED
  BY <1>1

(* A sequence of one element is not the empty one.                         *)
LEMMA SingletonSeq ==
  ASSUME NEW S, NEW a \in S
  PROVE  <<a>> \in Seq(S) \ {<<>>}
<1>1. <<a>> \in Seq(S) /\ Len(<<a>>) = 1
  OBVIOUS
<1> QED
  BY <1>1, NonEmptySeq

(* The interface of a shader.                                              *)
LEMMA InterfaceType ==
  ASSUME NEW glsl
  PROVE  ShaderInterface(glsl) \in
           [fetch : Seq(TexUnits) \ {<<>>}, load : Seq(ImageUnits),
            buffer : Seq(BufferSlots), store : {{0}, {0, 1}, {0, 2}}]
BY DEF ShaderInterface, Interface, TexUnits, ImageUnits, BufferSlots

Context ==
  [pso : GLObject, tex : [TexUnits -> GLObject],
   img : [ImageUnits -> [name : GLObject, access : {"Write", "ReadWrite"}]],
   buf : [BufferSlots -> GLObject]]

(* A dispatch reads at least one texture: no operation has no input.       *)
LEMMA DispatchType ==
  ASSUME NEW glsl \in Producer, NEW uni \in Seq(Int), NEW c \in Context
  PROVE  DispatchOp(glsl, uni, c) \in GpuOp
<1> DEFINE i == ShaderInterface(glsl)
           A == AccessTo(GLObject)
           fetches == [k \in DOMAIN i.fetch |-> Access("fetch", c.tex[i.fetch[k]], TRUE)]
           loads == [k \in DOMAIN i.load |->
                      LET b == c.img[i.load[k]]
                      IN  Access("image", b.name,
                                 ~(ImageAccessIsEnforced /\ b.access = "Write"))]
           buffers == [k \in DOMAIN i.buffer |-> Access("buffer", c.buf[i.buffer[k]], TRUE)]
<1>1. /\ i.fetch \in Seq(TexUnits) /\ i.fetch # <<>>
      /\ i.load \in Seq(ImageUnits) /\ i.buffer \in Seq(BufferSlots)
      /\ i.store \in {{0}, {0, 1}, {0, 2}}
  BY InterfaceType
<1>2. /\ c.tex \in [TexUnits -> GLObject]
      /\ c.img \in [ImageUnits -> [name : GLObject, access : {"Write", "ReadWrite"}]]
      /\ c.buf \in [BufferSlots -> GLObject]
  BY DEF Context
<1>3. fetches \in Seq(A) /\ Len(fetches) > 0
  <2>1. Len(i.fetch) \in Nat /\ Len(i.fetch) > 0 /\ DOMAIN i.fetch = 1 .. Len(i.fetch)
    BY <1>1, EmptySeq, LenProperties
  <2>2. \A k \in DOMAIN i.fetch : i.fetch[k] \in TexUnits
    BY <1>1, <2>1, ElementOfSeq
  <2>3. fetches \in [1 .. Len(i.fetch) -> A]
    BY <1>2, <2>1, <2>2 DEF Access, AccessTo, Via
  <2> HIDE DEF fetches, A, i
  <2> QED
    BY <2>1, <2>3, FunctionIsSeq
<1>4. loads \in Seq(A)
  <2>1. Len(i.load) \in Nat /\ DOMAIN i.load = 1 .. Len(i.load)
    BY <1>1, LenProperties
  <2>2. \A k \in DOMAIN i.load : i.load[k] \in ImageUnits
    BY <1>1, <2>1, ElementOfSeq
  <2>3. loads \in [1 .. Len(i.load) -> A]
    BY <1>2, <2>1, <2>2 DEF Access, AccessTo, Via
  <2> HIDE DEF loads, A, i
  <2> QED
    BY <2>1, <2>3, FunctionIsSeq
<1>5. buffers \in Seq(A)
  <2>1. Len(i.buffer) \in Nat /\ DOMAIN i.buffer = 1 .. Len(i.buffer)
    BY <1>1, LenProperties
  <2>2. \A k \in DOMAIN i.buffer : i.buffer[k] \in BufferSlots
    BY <1>1, <2>1, ElementOfSeq
  <2>3. buffers \in [1 .. Len(i.buffer) -> A]
    BY <1>2, <2>1, <2>2 DEF Access, AccessTo, Via
  <2> HIDE DEF buffers, A, i
  <2> QED
    BY <2>1, <2>3, FunctionIsSeq
<1>6. fetches \o loads \o buffers \in Seq(A) \ {<<>>}
  <2>1. loads \o buffers \in Seq(A) /\ fetches \o loads \in Seq(A)
    BY <1>3, <1>4, <1>5
  <2>2. Len(fetches \o loads) > 0
    BY <1>3, <1>4, ConcatProperties, LenProperties
  <2>3. fetches \o loads \o buffers \in Seq(A) /\ Len(fetches \o loads \o buffers) > 0
    BY <1>5, <2>1, <2>2, ConcatProperties, LenProperties
  <2> QED
    BY <2>3, NonEmptySeq
<1>7. [u \in i.store |-> Access("image", c.img[u].name, TRUE)]
        \in Stores({0}) \cup Stores({0, 1}) \cup Stores({0, 2})
  BY <1>1, <1>2 DEF Access, AccessTo, Via, Stores, ImageUnits
<1> QED
  BY <1>6, <1>7 DEF DispatchOp, DispatchInputs, GpuOp

(* The operations of uploads, copies and downloads are GPU operations.     *)
LEMMA ApiType ==
  ASSUME NEW fn \in Producer, NEW uni \in Seq(Int), NEW from \in Via,
         NEW src \in GLObject, NEW to \in Via, NEW dst \in GLObject
  PROVE  ApiOp(fn, uni, from, src, to, dst) \in GpuOp
<1>1. Access(from, src, TRUE) \in AccessTo(GLObject)
  BY DEF Access, AccessTo
<1>2. Access(to, dst, TRUE) \in AccessTo(GLObject)
  BY DEF Access, AccessTo
<1>3. <<Access(from, src, TRUE)>> \in Seq(AccessTo(GLObject)) \ {<<>>}
  BY <1>1, SingletonSeq
<1>4. [u \in {0} |-> Access(to, dst, TRUE)] \in Stores({0})
  BY <1>2 DEF Stores
<1> QED
  BY <1>3, <1>4 DEF ApiOp, GpuOp
-----------------------------------------------------------------------------
(* Type correctness: the program's methods.                                *)

(* Entering a method, which replaces the list of calls left to make, keeps *)
(* the types.                                                              *)
LEMMA EnterType ==
  ASSUME TypeOK, NEW e \in Encoder, NEW m, NEW glCalls \in Seq(OwnCall(e)),
         Enter(e, m, glCalls),
         stage' \in [Encoder -> Stages], repeat' \in [Encoder -> 0 .. 2],
         DOMAIN outImage' = Encoder, DOMAIN file' = Encoder
  PROVE  TypeOK'
<1>1. calls' \in Seq(Call(Encoder \X Field))
  BY OwnCallsAreCalls DEF Enter
<1>2. /\ request' = request /\ ctx' = ctx /\ uniform' = uniform
      /\ live' = live /\ mem' = mem /\ stream' = stream
  BY DEF Enter
<1> QED
  BY <1>1, <1>2 DEF TypeOK

LoopStages ==
  {"initResources", "execute00", "execute01", "execute02", "execute03"}

(* So does a step that main takes only when some condition holds.          *)
LEMMA StepType ==
  ASSUME TypeOK, RepeatsLeft, NEW e \in Encoder, NEW s \in Stages, GoTo(e, s),
         UNCHANGED repeat, s \in LoopStages => stage[e] \in LoopStages
  PROVE  stage' \in [Encoder -> Stages] /\ repeat' \in [Encoder -> 0 .. 2]
           /\ RepeatsLeft'
BY DEF TypeOK, RepeatsLeft, GoTo, LoopStages

(* The end of an iteration of the repeat loop keeps the types: repeat is   *)
(* not 0 when it is decremented.                                           *)
LEMMA EndOfIterationType ==
  ASSUME TypeOK, RepeatsLeft, NEW e \in Encoder, EndOfIteration(e),
         stage[e] \in LoopStages
  PROVE  stage' \in [Encoder -> Stages] /\ repeat' \in [Encoder -> 0 .. 2]
           /\ RepeatsLeft'
<1>1. repeat \in [Encoder -> 0 .. 2] /\ stage \in [Encoder -> Stages]
  BY DEF TypeOK
<1>2. repeat[e] \in 1 .. 2
  BY <1>1 DEF RepeatsLeft, LoopStages
<1>3. repeat' = [repeat EXCEPT ![e] = @ - 1] /\ repeat' \in [Encoder -> 0 .. 2]
  BY <1>1, <1>2 DEF EndOfIteration
<1>4. CASE Loops(request[e]) /\ repeat[e] > 1
  <2>1. GoTo(e, LoopStart(request[e])) /\ LoopStart(request[e]) \in Stages
    BY <1>4 DEF EndOfIteration, LoopStart, Stages
  <2>2. repeat'[e] > 0
    BY <1>1, <1>2, <1>3, <1>4
  <2> QED
    BY <1>1, <1>3, <2>1, <2>2 DEF GoTo, RepeatsLeft
<1>5. CASE ~(Loops(request[e]) /\ repeat[e] > 1)
  <2>1. GoTo(e, "startDownload")
    BY <1>5 DEF EndOfIteration
  <2> QED
    BY <1>1, <1>3, <2>1 DEF GoTo, RepeatsLeft, Stages
<1> QED
  BY <1>4, <1>5

(* Every method main calls keeps the types.                                *)
LEMMA MethodType ==
  ASSUME TypeOK, RepeatsLeft, NEW e \in Encoder, Method(e)
  PROVE  TypeOK' /\ RepeatsLeft'
<1> DEFINE r == request[e]
<1>1. r \in Request
  BY DEF TypeOK
<1>2. DOMAIN outImage = Encoder /\ DOMAIN file = Encoder
  BY DEF TypeOK
<1>3. CASE InitResources(e)
  <2>1. LoopStart(r) \in Stages /\ stage[e] \in LoopStages
    BY <1>3 DEF LoopStart, Stages, InitResources, Enter, LoopStages
  <2>2. stage' \in [Encoder -> Stages] /\ repeat' \in [Encoder -> 0 .. 2]
          /\ RepeatsLeft'
    BY <1>3, <2>1, StepType DEF InitResources
  <2> QED
    BY <1>1, <1>2, <1>3, <2>2, MethodCalls, EnterType DEF InitResources
<1>4. CASE Execute00(e)
  <2>1. "execute01" \in Stages /\ stage[e] \in LoopStages
    BY <1>4 DEF Stages, Execute00, Enter, LoopStages
  <2>2. stage' \in [Encoder -> Stages] /\ repeat' \in [Encoder -> 0 .. 2]
          /\ RepeatsLeft'
    BY <1>4, <2>1, StepType DEF Execute00
  <2> QED
    BY <1>1, <1>2, <1>4, <2>2, MethodCalls, EnterType DEF Execute00
<1>5. CASE Execute01(e)
  <2>1. "execute02" \in Stages /\ stage[e] \in LoopStages
    BY <1>5 DEF Stages, Execute01, Enter, LoopStages
  <2>2. stage' \in [Encoder -> Stages] /\ repeat' \in [Encoder -> 0 .. 2]
          /\ RepeatsLeft'
    BY <1>5, <2>1, StepType, EndOfIterationType DEF Execute01
  <2> QED
    BY <1>1, <1>2, <1>5, <2>2, MethodCalls, EnterType DEF Execute01
<1>6. CASE Execute02(e)
  <2>1. "execute03" \in Stages /\ stage[e] \in LoopStages
    BY <1>6 DEF Stages, Execute02, Enter, LoopStages
  <2>2. stage' \in [Encoder -> Stages] /\ repeat' \in [Encoder -> 0 .. 2]
          /\ RepeatsLeft'
    BY <1>6, <2>1, StepType, EndOfIterationType DEF Execute02
  <2> QED
    BY <1>1, <1>2, <1>6, <2>2, MethodCalls, EnterType DEF Execute02
<1>7. CASE Execute03(e)
  <2>1. stage[e] \in LoopStages
    BY <1>7 DEF Execute03, Enter, LoopStages
  <2>2. stage' \in [Encoder -> Stages] /\ repeat' \in [Encoder -> 0 .. 2]
          /\ RepeatsLeft'
    BY <1>7, <2>1, EndOfIterationType DEF Execute03
  <2> QED
    BY <1>1, <1>2, <1>7, <2>2, MethodCalls, EnterType DEF Execute03
<1>8. CASE StartDownload(e)
  <2>1. "downloadTo" \in Stages /\ "downloadTo" \notin LoopStages
    BY DEF Stages, LoopStages
  <2>2. stage' \in [Encoder -> Stages] /\ repeat' \in [Encoder -> 0 .. 2]
          /\ RepeatsLeft'
    BY <1>8, <2>1, StepType DEF StartDownload
  <2> QED
    BY <1>1, <1>2, <1>8, <2>2, DownloadCalls, EnterType DEF StartDownload
<1>9. CASE DownloadTo(e)
  <2>1. "save" \in Stages /\ "save" \notin LoopStages
    BY DEF Stages, LoopStages
  <2>2. stage' \in [Encoder -> Stages] /\ repeat' \in [Encoder -> 0 .. 2]
          /\ RepeatsLeft'
    BY <1>9, <2>1, StepType DEF DownloadTo
  <2>3. <<glFinish>> \in Seq(OwnCall(e))
    BY OwnPlain
  <2>4. DOMAIN outImage' = Encoder /\ DOMAIN file' = Encoder
    BY <1>2, <1>9 DEF DownloadTo
  <2> QED
    BY <1>9, <2>2, <2>3, <2>4, EnterType DEF DownloadTo
<1>10. CASE Save(e)
  <2>1. "deinitResources" \in Stages /\ "deinitResources" \notin LoopStages
    BY DEF Stages, LoopStages
  <2>2. stage' \in [Encoder -> Stages] /\ repeat' \in [Encoder -> 0 .. 2]
          /\ RepeatsLeft'
    BY <1>10, <2>1, StepType DEF Save
  <2>3. <<>> \in Seq(OwnCall(e))
    OBVIOUS
  <2>4. DOMAIN outImage' = Encoder /\ DOMAIN file' = Encoder
    BY <1>2, <1>10 DEF Save
  <2> QED
    BY <1>10, <2>2, <2>3, <2>4, EnterType DEF Save
<1>11. CASE DeinitResources(e)
  <2>1. "done" \in Stages /\ "done" \notin LoopStages
    BY DEF Stages, LoopStages
  <2>2. stage' \in [Encoder -> Stages] /\ repeat' \in [Encoder -> 0 .. 2]
          /\ RepeatsLeft'
    BY <1>11, <2>1, StepType DEF DeinitResources
  <2> QED
    BY <1>1, <1>2, <1>11, <2>2, DownloadCalls, EnterType DEF DeinitResources
<1> QED
  BY <1>3, <1>4, <1>5, <1>6, <1>7, <1>8, <1>9, <1>10, <1>11 DEF Method
-----------------------------------------------------------------------------
(* Type correctness: the driver.                                           *)

(* The call that is issued next is well-formed, and so is the list of      *)
(* those after it.                                                         *)
LEMMA IssuedCall ==
  ASSUME TypeOK, calls # <<>>
  PROVE  call \in Call(Encoder \X Field) /\ Tail(calls) \in Seq(Call(Encoder \X Field))
BY HeadTailProperties DEF TypeOK, call

(* What TypeOK says of the state a call does not change.                   *)
LEMMA IssueType ==
  ASSUME TypeOK, RepeatsLeft, NEW op, Issue(op),
         ctx' \in Context, uniform' \in [GLObject -> Seq(Int)],
         live' \subseteq Encoder \X Field,
         DOMAIN mem' = GLObject, \A o \in GLObject : mem'[o].fn \in Producer,
         stream' \in Seq(GpuOp)
  PROVE  TypeOK' /\ RepeatsLeft'
<1>1. calls' \in Seq(Call(Encoder \X Field))
  BY IssuedCall DEF Issue
<1>2. /\ request' = request /\ stage' = stage /\ repeat' = repeat
      /\ outImage' = outImage /\ file' = file
  BY DEF Issue
<1> QED
  BY <1>1, <1>2 DEF TypeOK, RepeatsLeft, Context

(* Appending a GPU operation keeps the type of the queue.                  *)
LEMMA EnqueueType ==
  ASSUME TypeOK, NEW op \in GpuOp, Enqueue(op)
  PROVE  stream' \in Seq(GpuOp)
BY DEF TypeOK, Enqueue

(* Issuing any of the GL calls keeps the types.                            *)
LEMMA IssueCallType ==
  ASSUME TypeOK, RepeatsLeft, IssueCall
  PROVE  TypeOK' /\ RepeatsLeft'
<1> DEFINE S == Encoder \X Field
<1>1. /\ ctx \in Context /\ uniform \in [GLObject -> Seq(Int)] /\ live \subseteq S
      /\ DOMAIN mem = GLObject /\ \A o \in GLObject : mem[o].fn \in Producer
      /\ stream \in Seq(GpuOp)
  BY DEF TypeOK, Context
<1>2. S \subseteq GLObject /\ NoObject \in GLObject
  BY DEF GLObject
<1>3. calls # <<>> => call \in Call(S)
  BY IssuedCall
<1>4. /\ ctx.pso \in GLObject /\ ctx.tex \in [TexUnits -> GLObject]
      /\ ctx.img \in [ImageUnits -> [name : GLObject, access : {"Write", "ReadWrite"}]]
      /\ ctx.buf \in [BufferSlots -> GLObject]
  BY <1>1 DEF Context
<1>5. ASSUME NEW o \in GLObject, NEW u \in TexUnits
      PROVE  [ctx EXCEPT !.tex[u] = o] \in Context
  BY <1>1, <1>4 DEF Context
<1>6. 0 \in TexUnits
  BY DEF TexUnits
<1>7. CASE IssueCreate
  <2>1. call.name \in S /\ call.value.fn \in Producer
    BY <1>3, <1>7, CallFields DEF IssueCreate, Issue
  <2>2. ctx' \in Context
    BY <1>1, <1>2, <1>5, <1>6, <1>7, <2>1 DEF IssueCreate
  <2>3. live' \subseteq S /\ uniform' = uniform /\ stream' = stream
    BY <1>1, <1>7, <2>1 DEF IssueCreate
  <2>4. DOMAIN mem' = GLObject /\ \A o \in GLObject : mem'[o].fn \in Producer
    BY <1>1, <1>7, <2>1 DEF IssueCreate
  <2> QED
    BY <1>1, <1>7, <2>2, <2>3, <2>4, IssueType DEF IssueCreate
<1>8. CASE IssueDestroy
  <2> DEFINE tex == [u \in TexUnits |-> IF ctx.tex[u] = call.name THEN NoObject
                                                                 ELSE ctx.tex[u]]
             img == [u \in ImageUnits |-> IF ctx.img[u].name = call.name
                                            THEN NoContext.img[u] ELSE ctx.img[u]]
             buf == [u \in BufferSlots |-> IF ctx.buf[u] = call.name THEN NoObject
                                                                    ELSE ctx.buf[u]]
  <2>1. tex \in [TexUnits -> GLObject] /\ buf \in [BufferSlots -> GLObject]
    BY <1>2, <1>4
  <2>2. img \in [ImageUnits -> [name : GLObject, access : {"Write", "ReadWrite"}]]
    BY <1>2, <1>4 DEF NoContext
  <2>3. ctx' = [ctx EXCEPT !.tex = tex, !.img = img, !.buf = buf]
    BY <1>8 DEF IssueDestroy
  <2>4. ctx' \in Context
    BY <1>1, <2>1, <2>2, <2>3 DEF Context
  <2> QED
    BY <1>1, <1>8, <2>4, IssueType DEF IssueDestroy
<1>9. CASE IssueBind
  <2>1. CASE Issue("bindTexture") /\ ctx' = [ctx EXCEPT !.tex[call.slot] = call.name]
    <3>1. call.name \in GLObject /\ call.slot \in TexUnits
      BY <1>2, <1>3, <2>1, CallFields DEF Issue
    <3> QED
      BY <1>1, <1>5, <1>9, <2>1, <3>1, IssueType DEF IssueBind
  <2>2. CASE /\ Issue("bindUav")
             /\ ctx' = [ctx EXCEPT !.img[call.slot] =
                          [name |-> call.name, access |-> call.access]]
    <3>1. /\ call.name \in GLObject /\ call.slot \in ImageUnits
          /\ call.access \in {"Write", "ReadWrite"}
      BY <1>2, <1>3, <2>2, CallFields DEF Issue
    <3>2. ctx' \in Context
      BY <1>1, <1>4, <2>2, <3>1 DEF Context
    <3> QED
      BY <1>1, <1>9, <2>2, <3>2, IssueType DEF IssueBind
  <2>3. CASE Issue("bindUavBuffer") /\ ctx' = [ctx EXCEPT !.buf[call.slot] = call.name]
    <3>1. call.name \in GLObject /\ call.slot \in BufferSlots
      BY <1>2, <1>3, <2>3, CallFields DEF Issue
    <3>2. ctx' \in Context
      BY <1>1, <1>4, <2>3, <3>1 DEF Context
    <3> QED
      BY <1>1, <1>9, <2>3, <3>2, IssueType DEF IssueBind
  <2>4. CASE /\ Issue("bindComputePso")
             /\ ctx' = IF Links(mem[call.name].fn) THEN [ctx EXCEPT !.pso = call.name]
                                                   ELSE ctx
    <3>1. call.name \in GLObject
      BY <1>2, <1>3, <2>4, CallFields DEF Issue
    <3>2. ctx' \in Context
      BY <1>1, <2>4, <3>1 DEF Context
    <3> QED
      BY <1>1, <1>9, <2>4, <3>2, IssueType DEF IssueBind
  <2> QED
    BY <1>9, <2>1, <2>2, <2>3, <2>4 DEF IssueBind
<1>10. CASE IssueUniform
  <2>1. call.value \in Seq(Int)
    BY <1>3, <1>10, CallFields DEF IssueUniform, Issue
  <2>2. uniform' \in [GLObject -> Seq(Int)]
    BY <1>1, <1>10, <2>1 DEF IssueUniform
  <2> QED
    BY <1>1, <1>10, <2>2, IssueType DEF IssueUniform
<1>11. CASE IssueDispatch
  <2>1. DispatchOp(mem[ctx.pso].fn, uniform[ctx.pso], ctx) \in GpuOp
    BY <1>1, <1>4, DispatchType
  <2>2. stream' \in Seq(GpuOp)
    BY <1>1, <1>11, <2>1, EnqueueType DEF IssueDispatch
  <2> QED
    BY <1>1, <1>11, <2>2, IssueType DEF IssueDispatch, context
<1>12. CASE IssueUpload
  <2>1. call.src \in GLObject /\ call.dst \in GLObject
    BY <1>2, <1>3, <1>12, CallFields DEF IssueUpload, Issue
  <2>2. ApiOp("upload", <<>>, "unpack", call.src, "upload", call.dst) \in GpuOp
    <3>1. <<>> \in Seq(Int)
      OBVIOUS
    <3> QED
      BY <2>1, <3>1, ApiType DEF Producer, Via
  <2>3. stream' \in Seq(GpuOp)
    BY <1>12, <2>2, EnqueueType DEF IssueUpload
  <2>4. ctx' \in Context
    BY <1>2, <1>5, <1>6, <1>12 DEF IssueUpload
  <2> QED
    BY <1>1, <1>12, <2>3, <2>4, IssueType DEF IssueUpload
<1>13. CASE IssueDownload
  <2>1. call.src \in GLObject /\ call.dst \in GLObject /\ call.bytes \in Nat
    BY <1>2, <1>3, <1>13, CallFields DEF IssueDownload, Issue
  <2>2. <<call.bytes>> \in Seq(Int)
    BY <2>1
  <2>3. ApiOp("download", <<call.bytes>>, "download", call.src, "pack", call.dst) \in GpuOp
    BY <2>1, <2>2, ApiType DEF Producer, Via
  <2>4. stream' \in Seq(GpuOp)
    BY <1>13, <2>3, EnqueueType DEF IssueDownload
  <2>5. ctx' \in Context
    BY <1>5, <1>6, <1>13, <2>1 DEF IssueDownload
  <2> QED
    BY <1>1, <1>13, <2>4, <2>5, IssueType DEF IssueDownload
<1>14. CASE IssueCopy
  <2>1. call.src \in GLObject /\ call.dst \in GLObject
    BY <1>2, <1>3, <1>14, CallFields DEF IssueCopy, Issue
  <2>2. ApiOp("copy", <<>>, "copy", call.src, "copy", call.dst) \in GpuOp
    <3>1. <<>> \in Seq(Int)
      OBVIOUS
    <3> QED
      BY <2>1, <3>1, ApiType DEF Producer, Via
  <2>3. stream' \in Seq(GpuOp)
    BY <1>14, <2>2, EnqueueType DEF IssueCopy
  <2> QED
    BY <1>1, <1>14, <2>3, IssueType DEF IssueCopy, context
<1>15. CASE IssueBarrier
  <2>1. BarrierOp(call.bits) \in GpuOp
    BY <1>3, <1>15, CallFields DEF IssueBarrier, Issue, BarrierOp, GpuOp
  <2>2. stream' \in Seq(GpuOp)
    BY <1>15, <2>1, EnqueueType DEF IssueBarrier
  <2> QED
    BY <1>1, <1>15, <2>2, IssueType DEF IssueBarrier, context
<1>16. CASE IssueFinish
  BY <1>1, <1>16, IssueType DEF IssueFinish, context
<1> QED
  BY <1>7, <1>8, <1>9, <1>10, <1>11, <1>12, <1>13, <1>14, <1>15, <1>16 DEF IssueCall
-----------------------------------------------------------------------------
(* Type correctness: the GPU.                                              *)

(* What the GPU finds in the fields of an operation.                       *)
LEMMA OperationFields ==
  ASSUME NEW op \in GpuOp, op.kind # "barrier"
  PROVE  /\ op.fn \in Producer
         /\ op.in \in Seq(AccessTo(GLObject)) \ {<<>>}
         /\ op.out \in Stores({0}) \cup Stores({0, 1}) \cup Stores({0, 2})
BY DEF GpuOp

(* Removing an operation leaves a sequence of operations, all of them      *)
(* operations of the old one.                                              *)
LEMMA WithoutType ==
  ASSUME NEW S, NEW s \in Seq(S), NEW i \in DOMAIN s
  PROVE  /\ Without(s, i) \in Seq(S)
         /\ \A k \in DOMAIN Without(s, i) :
              \E m \in DOMAIN s : Without(s, i)[k] = s[m]
<1> DEFINE front == SubSeq(s, 1, i - 1)
           back == SubSeq(s, i + 1, Len(s))
<1>1. Len(s) \in Nat /\ DOMAIN s = 1 .. Len(s) /\ i \in 1 .. Len(s)
  BY LenProperties
<1>2. \A k \in 1 .. Len(s) : s[k] \in S
  BY ElementOfSeq
<1>3. /\ front \in Seq(S) /\ Len(front) = i - 1
      /\ \A k \in 1 .. (i - 1) : front[k] = s[k]
  <2>1. \A k \in 1 .. (i - 1) : s[k] \in S
    BY <1>1, <1>2
  <2> QED
    BY <1>1, <2>1, SubSeqProperties
<1>4. /\ back \in Seq(S) /\ Len(back) = Len(s) - i
      /\ \A k \in 1 .. (Len(s) - i) : back[k] = s[i + k]
  <2>1. \A k \in (i + 1) .. Len(s) : s[k] \in S
    BY <1>1, <1>2
  <2> QED
    BY <1>1, <2>1, SubSeqProperties
<1>5. /\ front \o back \in Seq(S)
      /\ Len(front \o back) = Len(front) + Len(back)
      /\ \A k \in 1 .. Len(front) + Len(back) :
           (front \o back)[k] = IF k <= Len(front) THEN front[k] ELSE back[k - Len(front)]
  BY <1>3, <1>4, ConcatProperties
<1> HIDE DEF front, back
<1>6. ASSUME NEW k \in 1 .. (Len(s) - 1)
      PROVE  \E m \in DOMAIN s : (front \o back)[k] = s[m]
  <2>1. k \in 1 .. Len(front) + Len(back)
    BY <1>1, <1>3, <1>4
  <2>2. CASE k <= i - 1
    <3>1. (front \o back)[k] = front[k] /\ k \in 1 .. (i - 1)
      BY <1>1, <1>3, <1>5, <2>1, <2>2
    <3>2. (front \o back)[k] = s[k] /\ k \in DOMAIN s
      BY <1>1, <1>3, <3>1
    <3> QED
      BY <3>2
  <2>3. CASE k > i - 1
    <3> DEFINE j == k - (i - 1)
    <3>1. j \in 1 .. (Len(s) - i) /\ i + j = k + 1 /\ k + 1 \in DOMAIN s
      BY <1>1, <2>3
    <3>2. (front \o back)[k] = back[j]
      BY <1>1, <1>3, <1>5, <2>1, <2>3
    <3>3. back[j] = s[k + 1]
      BY <1>4, <3>1
    <3> QED
      BY <3>1, <3>2, <3>3
  <2>4. k <= i - 1 \/ k > i - 1
    BY <1>1
  <2> QED
    BY <2>2, <2>3, <2>4
<1>7. DOMAIN (front \o back) = 1 .. (Len(s) - 1)
  <2>1. Len(front) + Len(back) = Len(s) - 1
    BY <1>1, <1>3, <1>4
  <2>2. Len(front \o back) = Len(s) - 1
    BY <1>5, <2>1
  <2> QED
    BY <1>5, <2>2, LenProperties
<1>8. Without(s, i) = front \o back
  BY DEF Without, front, back
<1> QED
  BY <1>5, <1>6, <1>7, <1>8

(* Executing an operation or retiring a barrier keeps the types.           *)
LEMMA GPUType ==
  ASSUME TypeOK, RepeatsLeft, GPU
  PROVE  TypeOK' /\ RepeatsLeft'
<1>1. CASE RetireBarrier
  <2>1. stream' \in Seq(GpuOp)
    BY <1>1, HeadTailProperties DEF RetireBarrier, TypeOK
  <2> QED
    BY <1>1, <2>1 DEF RetireBarrier, TypeOK, RepeatsLeft, context
<1>2. ASSUME NEW i \in DOMAIN stream, Execute(i)
      PROVE  TypeOK' /\ RepeatsLeft'
  <2> DEFINE op == stream[i]
  <2>1. stream \in Seq(GpuOp) /\ stream' = Without(stream, i) /\ stream' \in Seq(GpuOp)
    BY <1>2, WithoutType DEF TypeOK, Execute
  <2>2. op \in GpuOp /\ op.kind # "barrier"
    BY <1>2, <2>1, ElementOfSeq, LenProperties DEF Execute, CanExecute, GpuOps
  <2>3. DOMAIN mem = GLObject /\ \A o \in GLObject : mem[o].fn \in Producer
    BY DEF TypeOK
  <2>4. op.in[1] \in AccessTo(GLObject)
    <3>1. Len(op.in) \in Nat \ {0}
      BY <2>2, OperationFields, EmptySeq
    <3> QED
      BY <2>2, <3>1, OperationFields, ElementOfSeq
  <2>5. ValueRead(mem, op.in[1]).fn \in Producer
    BY <2>3, <2>4 DEF ValueRead, AccessTo, Undefined, Leaf, Producer
  <2>6. 1 \in DOMAIN op.in
    BY <2>2, OperationFields, EmptySeq, LenProperties
  <2>7. \A u : Result(mem, op, u).fn \in Producer
    BY <2>2, <2>5, <2>6, OperationFields
       DEF Result, Output, SourceImage, Leaf, Producer
  <2>8. DOMAIN mem' = GLObject /\ \A o \in GLObject : mem'[o].fn \in Producer
    BY <1>2, <2>3, <2>7 DEF Execute, AfterOp
  <2> QED
    BY <1>2, <2>1, <2>8 DEF Execute, TypeOK, RepeatsLeft, context
<1> QED
  BY <1>1, <1>2 DEF GPU

-----------------------------------------------------------------------------
TypeInvariant == TypeOK /\ RepeatsLeft

(* The program starts with the types right.                                *)
LEMMA InitType == Init => TypeInvariant
<1> SUFFICES ASSUME Init PROVE TypeInvariant
  OBVIOUS
<1>1. NoObject \in GLObject /\ Undefined.fn \in Producer
  BY DEF GLObject, Undefined, Leaf, Producer
<1>2. request \in [Encoder -> Request]
  BY DEF Init
<1>3. /\ stage \in [Encoder -> Stages] /\ repeat \in [Encoder -> 0 .. 2]
      /\ \A e \in Encoder : repeat[e] > 0
  BY DEF Init, Stages
<1>4. ctx \in Context
  BY <1>1 DEF Init, NoContext, Context
<1>5. /\ calls = <<>> /\ stream = <<>> /\ live = {}
      /\ uniform \in [GLObject -> Seq(Int)]
      /\ DOMAIN mem = GLObject /\ \A o \in GLObject : mem[o].fn \in Producer
      /\ DOMAIN outImage = Encoder /\ DOMAIN file = Encoder
  BY <1>1 DEF Init
<1> QED
  BY <1>2, <1>3, <1>4, <1>5 DEF TypeInvariant, TypeOK, RepeatsLeft, Context

(* Every step of the program keeps the types.                              *)
LEMMA NextType == TypeInvariant /\ [Next]_vars => TypeInvariant'
<1> SUFFICES ASSUME TypeOK, RepeatsLeft, [Next]_vars
             PROVE  TypeOK' /\ RepeatsLeft'
  BY DEF TypeInvariant
<1>1. ASSUME NEW e \in Encoder, Method(e) PROVE TypeOK' /\ RepeatsLeft'
  BY <1>1, MethodType
<1>2. CASE IssueCall
  BY <1>2, IssueCallType
<1>3. CASE GPU
  BY <1>3, GPUType
<1>4. CASE UNCHANGED vars
  BY <1>4 DEF vars, TypeOK, RepeatsLeft
<1> QED
  BY <1>1, <1>2, <1>3, <1>4 DEF Next, Terminating

(* The state of the program, of the driver and of the GPU keeps its types  *)
(* whatever the encoders, their requests and the schedule: every call      *)
(* names an object of an encoder, every operation reads something and      *)
(* writes one or two images, and main's repeat counter stays within 0 .. 2.*)
THEOREM TypeCorrect == Spec => []TypeOK
<1>1. TypeInvariant => TypeOK
  BY DEF TypeInvariant
<1> QED
  BY <1>1, InitType, NextType, PTL DEF Spec

-----------------------------------------------------------------------------
staging(e) == Object(e, "m_downloadStaging")

(* A call of encoder d leaves the download buffer of any other encoder     *)
(* alone, and binds no download buffer as an image.                        *)
LEMMA OwnCallFields ==
  ASSUME NEW d \in Encoder, NEW c \in OwnCall(d), NEW e \in Encoder
  PROVE  /\ c.op = "bindUav" => c.name # staging(e)
         /\ e # d => /\ ~Generates(c, staging(e)) /\ ~Destroys(c, staging(e))
                     /\ c.op \in {"upload", "download", "copy"} => c.dst # staging(e)
<1>1. c \in Call({d} \X Field)
  BY DEF OwnCall
<1>2. c.op \in {"create", "destroy", "bindUav"} => c.name \in {d} \X Field
  BY <1>1, CallFields
<1>3. c.op \in {"upload", "copy", "download"} => c.dst \in {d} \X Field
  BY <1>1, CallFields
<1>4. e # d => staging(e) \notin {d} \X Field
  BY DEF staging, Object
<1>5. e = d => (c.op = "bindUav" => c.name # staging(e))
  BY DEF OwnCall, staging
<1> QED
  BY <1>2, <1>3, <1>4, <1>5 DEF Generates, Destroys

(* What a list of calls of e can do to the staging buffer of e.            *)
LEMMA OwnListFields ==
  ASSUME NEW d \in Encoder, NEW s \in Seq(OwnCall(d)), NEW e \in Encoder
  PROVE  \A k \in DOMAIN s :
           /\ s[k].op = "bindUav" => s[k].name # staging(e)
           /\ e # d => /\ ~Generates(s[k], staging(e)) /\ ~Destroys(s[k], staging(e))
                       /\ s[k].op \in {"upload", "download", "copy"}
                            => s[k].dst # staging(e)
<1> SUFFICES ASSUME NEW k \in DOMAIN s
             PROVE  s[k] \in OwnCall(d)
  BY OwnCallFields
<1> QED
  BY ElementOfSeq, LenProperties

(* Concatenations of short lists, element by element.                      *)
LEMMA ConcatTuples ==
  ASSUME NEW b, NEW x, NEW c, NEW t
  PROVE  /\ <<b>> \o <<x>> \o <<c, t>> = <<b, x, c, t>>
         /\ <<b>> \o <<>> \o <<c, t>> = <<b, c, t>>
<1> DEFINE S == {b, x, c, t}
<1>1. /\ <<b>> \in Seq(S) /\ <<x>> \in Seq(S) /\ <<c, t>> \in Seq(S)
      /\ <<b, x>> \in Seq(S) /\ <<b, x, c, t>> \in Seq(S) /\ <<b, c, t>> \in Seq(S)
      /\ Len(<<b>>) = 1 /\ Len(<<x>>) = 1 /\ Len(<<c, t>>) = 2
      /\ Len(<<b, x>>) = 2 /\ Len(<<b, x, c, t>>) = 4 /\ Len(<<b, c, t>>) = 3
  OBVIOUS
<1> HIDE DEF S
<1>2. <<b>> \o <<x>> = <<b, x>>
  <2>1. /\ <<b>> \o <<x>> \in Seq(S) /\ Len(<<b>> \o <<x>>) = 2
        /\ \A i \in 1 .. 2 : (<<b>> \o <<x>>)[i] = IF i <= 1 THEN b ELSE x
    BY <1>1, ConcatProperties
  <2>2. \A i \in 1 .. 2 : (<<b>> \o <<x>>)[i] = <<b, x>>[i]
    BY <2>1
  <2> QED
    BY <1>1, <2>1, <2>2, SeqEqual
<1>3. <<b, x>> \o <<c, t>> = <<b, x, c, t>>
  <2>1. /\ <<b, x>> \o <<c, t>> \in Seq(S) /\ Len(<<b, x>> \o <<c, t>>) = 4
        /\ \A i \in 1 .. 4 : (<<b, x>> \o <<c, t>>)[i]
                              = IF i <= 2 THEN <<b, x>>[i] ELSE <<c, t>>[i - 2]
    BY <1>1, ConcatProperties
  <2>2. \A i \in 1 .. 4 : (<<b, x>> \o <<c, t>>)[i] = <<b, x, c, t>>[i]
    BY <2>1
  <2> QED
    BY <1>1, <2>1, <2>2, SeqEqual
<1>4. <<b>> \o <<c, t>> = <<b, c, t>>
  <2>1. /\ <<b>> \o <<c, t>> \in Seq(S) /\ Len(<<b>> \o <<c, t>>) = 3
        /\ \A i \in 1 .. 3 : (<<b>> \o <<c, t>>)[i]
                              = IF i <= 1 THEN b ELSE <<c, t>>[i - 1]
    BY <1>1, ConcatProperties
  <2>2. \A i \in 1 .. 3 : (<<b>> \o <<c, t>>)[i] = <<b, c, t>>[i]
    BY <2>1
  <2> QED
    BY <1>1, <2>1, <2>2, SeqEqual
<1>5. <<b>> \o <<>> = <<b>>
  BY <1>1, ConcatEmptySeq
<1> QED
  BY <1>2, <1>3, <1>4, <1>5

(* startDownload generates the buffer after destroying the previous one.   *)
LEMMA DownloadGenerates ==
  ASSUME NEW e \in Encoder, NEW objects, NEW f \in Field, NEW n \in Nat
  PROVE  LET s == downloadResult(e, objects, f, n)
         IN  \E m \in DOMAIN s :
               /\ Generates(s[m], staging(e))
               /\ \A k \in DOMAIN s : Destroys(s[k], staging(e)) => k < m
<1> DEFINE b == glMemoryBarrier({"PIXEL_BUFFER"})
           x == destroy(staging(e))
           c == createStagingTexture(staging(e))
           t == downloadStagingTexture(Object(e, f), staging(e), n)
<1>1. Generates(c, staging(e)) /\ ~Destroys(c, staging(e))
  BY DEF createStagingTexture, Generates, Destroys
<1>2. ~Destroys(b, staging(e)) /\ ~Destroys(t, staging(e))
  BY DEF glMemoryBarrier, downloadStagingTexture, Destroys
<1>3. CASE staging(e) \in objects
  <2>1. downloadResult(e, objects, f, n) = <<b, x, c, t>>
    BY <1>3, ConcatTuples DEF downloadResult, destroyDownloadStaging, When, staging
  <2> HIDE DEF b, x, c, t
  <2> QED
    BY <1>1, <1>2, <2>1
<1>4. CASE staging(e) \notin objects
  <2>1. downloadResult(e, objects, f, n) = <<b, c, t>>
    BY <1>4, ConcatTuples DEF downloadResult, destroyDownloadStaging, When, staging
  <2> HIDE DEF b, x, c, t
  <2> QED
    BY <1>1, <1>2, <2>1
<1> QED
  BY <1>3, <1>4
(* Every startDownload generates the staging buffer and downloads into it  *)
(* last.                                                                   *)
LEMMA StartDownloadGenerates ==
  ASSUME NEW e \in Encoder, NEW r \in Request
  PROVE  LET s == StartDownloadCalls(e, r)
         IN  \E m \in DOMAIN s :
               /\ Generates(s[m], staging(e))
               /\ \A k \in DOMAIN s : Destroys(s[k], staging(e)) => k < m
<1>1. \E f \in Field, n \in Nat : ETC1_startDownload(e, r, live) = downloadResult(e, live, f, n)
  BY DEF ETC1_startDownload, Field
<1>2. \E f \in Field, n \in Nat : ETC2_startDownload(e, r, live) = downloadResult(e, live, f, n)
  BY DEF ETC2_startDownload, ETC2_resultTexture, Field
<1>3. \E f \in Field, n \in Nat : EAC_startDownload(e, r, live) = downloadResult(e, live, f, n)
  BY DEF EAC_startDownload, Field
<1>4. \E f \in Field, n \in Nat : BC1_startDownload(e, r, live) = downloadResult(e, live, f, n)
  BY DEF BC1_startDownload, BC1_resultTexture, Field
<1>5. \E f \in Field, n \in Nat : BC4_startDownload(e, r, live) = downloadResult(e, live, f, n)
  BY DEF BC4_startDownload, BC4_resultTexture, Field
<1>6. \E f \in Field, n \in Nat : BC6H_startDownload(e, r, live) = downloadResult(e, live, f, n)
  BY DEF BC6H_startDownload, Field
<1>7. \E f \in Field, n \in Nat : StartDownloadCalls(e, r) = downloadResult(e, live, f, n)
  BY <1>1, <1>2, <1>3, <1>4, <1>5, <1>6 DEF StartDownloadCalls
<1> QED
  BY <1>7, DownloadGenerates

-----------------------------------------------------------------------------
(* The methods keep the buffer.                                            *)

Kept(e) == StagingIsKept(e, staging(e))

(* A method of another encoder does not touch it.                          *)
LEMMA OtherMethod ==
  ASSUME TypeOK, NEW d \in Encoder, NEW e \in Encoder, d # e, Kept(e),
         NEW m, NEW glCalls \in Seq(OwnCall(d)), Enter(d, m, glCalls),
         stage'[e] = stage[e], outImage'[e] = outImage[e]
  PROVE  Kept(e)'
<1> DEFINE o == staging(e)
<1>1. /\ calls = <<>> /\ calls' = glCalls
      /\ ctx' = ctx /\ live' = live /\ stream' = stream
  BY DEF Enter
<1>2. \A k \in DOMAIN calls' :
        /\ calls'[k].op = "bindUav" => calls'[k].name # o
        /\ ~Generates(calls'[k], o) /\ ~Destroys(calls'[k], o)
        /\ calls'[k].op \in {"upload", "download", "copy"} => calls'[k].dst # o
  BY <1>1, OwnListFields
<1> HIDE DEF o
<1>3. NeverAnImage(o)'
  BY <1>1, <1>2 DEF Kept, StagingIsKept, NeverAnImage, o
<1>4. stage'[e] \in {"downloadTo", "save"} => StaysGenerated(o)'
  BY <1>1, <1>2 DEF Kept, StagingIsKept, StaysGenerated, o
<1>5. stage'[e] = "save" => outImage'[e].data = o /\ NotTargeted(o)'
  BY <1>1, <1>2 DEF Kept, StagingIsKept, NotTargeted, o
<1>6. stage'[e] = "save" => NotWritten(o)'
  BY <1>1 DEF Kept, StagingIsKept, NotWritten, WillFinish, o
<1> QED
  BY <1>3, <1>4, <1>5, <1>6 DEF Kept, StagingIsKept, o, staging

(* A method of e itself, startDownload and downloadTo aside, leads to a    *)
(* stage that asks nothing of the buffer.                                  *)
LEMMA OwnMethod ==
  ASSUME TypeOK, NEW e \in Encoder, Kept(e),
         NEW m, NEW glCalls \in Seq(OwnCall(e)), Enter(e, m, glCalls),
         stage'[e] \notin {"downloadTo", "save"}
  PROVE  Kept(e)'
<1>1. calls' = glCalls /\ ctx' = ctx
  BY DEF Enter
<1>2. NeverAnImage(staging(e))'
  BY <1>1, OwnListFields DEF Kept, StagingIsKept, NeverAnImage, staging
<1> QED
  BY <1>2 DEF Kept, StagingIsKept, staging
(* The stages of the other encoders, and their images, stay.               *)
LEMMA MethodKeeps ==
  ASSUME TypeOK, StagingInvariant, NEW d \in Encoder, Method(d)
  PROVE  StagingInvariant'
<1> DEFINE r == request[d]
<1>1. /\ r \in Request
      /\ stage \in [Encoder -> Stages] /\ DOMAIN outImage = Encoder
  BY DEF TypeOK
<1>2. \A e \in Encoder : Kept(e)
  BY DEF StagingInvariant, Kept, staging
<1>3. SUFFICES ASSUME NEW e \in Encoder PROVE Kept(e)'
  BY DEF StagingInvariant, Kept, staging
<1>4. ASSUME NEW m, NEW glCalls \in Seq(OwnCall(d)), Enter(d, m, glCalls),
             NEW s \in Stages \ {"downloadTo", "save"}, GoTo(d, s),
             outImage' = outImage \/ outImage' = [outImage EXCEPT ![d] = NoImage]
      PROVE  Kept(e)'
  <2>1. CASE e = d
    <3>1. stage'[e] \notin {"downloadTo", "save"}
      BY <1>1, <1>4, <2>1 DEF GoTo
    <3> QED
      BY <1>2, <1>4, <2>1, <3>1, OwnMethod
  <2>2. CASE e # d
    <3>1. stage'[e] = stage[e] /\ outImage'[e] = outImage[e]
      BY <1>1, <1>4, <2>2 DEF GoTo
    <3> QED
      BY <1>2, <1>4, <2>2, <3>1, OtherMethod
  <2> QED
    BY <2>1, <2>2
<1>5. ASSUME NEW m, NEW glCalls \in Seq(OwnCall(d)), Enter(d, m, glCalls),
             EndOfIteration(d), UNCHANGED outImage
      PROVE  Kept(e)'
  <2>1. \E s \in Stages \ {"downloadTo", "save"} : GoTo(d, s)
    BY <1>5 DEF EndOfIteration, LoopStart, Stages
  <2> QED
    BY <1>4, <1>5, <2>1
<1>6. CASE InitResources(d)
  <2>1. LoopStart(r) \in Stages \ {"downloadTo", "save"}
    BY DEF LoopStart, Stages
  <2> QED
    BY <1>1, <1>4, <1>6, <2>1, MethodCalls DEF InitResources
<1>7. CASE Execute00(d)
  <2>1. "execute01" \in Stages \ {"downloadTo", "save"}
    BY DEF Stages
  <2> QED
    BY <1>1, <1>4, <1>7, <2>1, MethodCalls DEF Execute00
<1>8. CASE Execute01(d)
  <2>1. "execute02" \in Stages \ {"downloadTo", "save"}
    BY DEF Stages
  <2> QED
    BY <1>1, <1>4, <1>5, <1>8, <2>1, MethodCalls DEF Execute01
<1>9. CASE Execute02(d)
  <2>1. "execute03" \in Stages \ {"downloadTo", "save"}
    BY DEF Stages
  <2> QED
    BY <1>1, <1>4, <1>5, <1>9, <2>1, MethodCalls DEF Execute02
<1>10. CASE Execute03(d)
  BY <1>1, <1>5, <1>10, MethodCalls DEF Execute03
<1>11. CASE Save(d)
  <2>1. "deinitResources" \in Stages \ {"downloadTo", "save"}
    BY DEF Stages
  <2>2. <<>> \in Seq(OwnCall(d))
    OBVIOUS
  <2> QED
    BY <1>4, <1>11, <2>1, <2>2 DEF Save
<1>12. CASE DeinitResources(d)
  <2>1. "done" \in Stages \ {"downloadTo", "save"}
    BY DEF Stages
  <2> QED
    BY <1>1, <1>4, <1>12, <2>1, DownloadCalls DEF DeinitResources
<1>13. CASE StartDownload(d)
  <2>1. /\ Enter(d, "startDownload", StartDownloadCalls(d, r))
        /\ StartDownloadCalls(d, r) \in Seq(OwnCall(d))
        /\ GoTo(d, "downloadTo") /\ outImage' = outImage
    BY <1>1, <1>13, DownloadCalls DEF StartDownload
  <2>2. CASE e # d
    <3>1. stage'[e] = stage[e] /\ outImage'[e] = outImage[e]
      BY <1>1, <2>1, <2>2 DEF GoTo
    <3> QED
      BY <1>2, <2>1, <2>2, <3>1, OtherMethod
  <2>3. CASE e = d
    <3>1. calls' = StartDownloadCalls(e, r) /\ ctx' = ctx
      BY <2>1, <2>3 DEF Enter
    <3>2. stage'[e] = "downloadTo"
      BY <1>1, <2>1, <2>3 DEF GoTo
    <3>3. NeverAnImage(staging(e))'
      BY <1>2, <2>1, <2>3, <3>1, OwnListFields
         DEF Kept, StagingIsKept, NeverAnImage, staging
    <3>4. PICK m \in DOMAIN calls' :
            /\ Generates(calls'[m], staging(e))
            /\ \A k \in DOMAIN calls' : Destroys(calls'[k], staging(e)) => k < m
      BY <1>1, <2>3, <3>1, StartDownloadGenerates
    <3>5. StaysGenerated(staging(e))'
      <4>1. \A k \in DOMAIN calls' : Destroys(calls'[k], staging(e)) => m > k
        <5>1. DOMAIN calls' \subseteq Int
          BY <2>1, <2>3, <3>1, LenProperties
        <5> QED
          BY <3>4, <5>1
      <4> QED
        BY <3>4, <4>1 DEF StaysGenerated, staging
    <3> QED
      BY <3>2, <3>3, <3>5 DEF Kept, StagingIsKept, staging
  <2> QED
    BY <2>2, <2>3
<1>14. CASE DownloadTo(d)
  <2>1. /\ Enter(d, "downloadTo", <<glFinish>>) /\ <<glFinish>> \in Seq(OwnCall(d))
        /\ GoTo(d, "save")
    BY <1>14, OwnPlain DEF DownloadTo
  <2>2. CASE e # d
    <3>1. stage'[e] = stage[e] /\ outImage'[e] = outImage[e]
      BY <1>1, <1>14, <2>1, <2>2 DEF GoTo, DownloadTo
    <3> QED
      BY <1>2, <2>1, <2>2, <3>1, OtherMethod
  <2>3. CASE e = d
    <3>1. /\ calls = <<>> /\ calls' = <<glFinish>> /\ ctx' = ctx /\ live' = live
          /\ stage[e] = "downloadTo"
      BY <2>1, <2>3 DEF Enter
    <3>2. DOMAIN calls' = {1} /\ calls'[1].op = "finish"
      BY <3>1 DEF glFinish
    <3>3. NeverAnImage(staging(e))' /\ NotTargeted(staging(e))' /\ WillFinish'
      BY <1>2, <3>1, <3>2
         DEF Kept, StagingIsKept, NeverAnImage, NotTargeted, WillFinish, staging
    <3>4. staging(e) \in live
      BY <1>2, <3>1 DEF Kept, StagingIsKept, StaysGenerated
    <3>5. StaysGenerated(staging(e))'
      BY <3>1, <3>2, <3>4 DEF StaysGenerated, Destroys, staging
    <3>6. outImage'[e].data = staging(e)
      BY <1>1, <1>14, <2>3 DEF DownloadTo, staging
    <3> QED
      BY <3>3, <3>5, <3>6 DEF Kept, StagingIsKept, staging
  <2> QED
    BY <2>2, <2>3
<1> QED
  BY <1>6, <1>7, <1>8, <1>9, <1>10, <1>11, <1>12, <1>13, <1>14 DEF Method
-----------------------------------------------------------------------------
(* Issuing a call keeps the buffer.                                        *)

(* What holds of the calls left to make holds once the first of them is    *)
(* made.                                                                   *)
LEMMA TailFields ==
  ASSUME TypeOK, NEW op, Issue(op)
  PROVE  /\ 1 \in DOMAIN calls /\ call = calls[1] /\ call.op = op
         /\ \A k \in DOMAIN calls' :
              k \in Int /\ k > 0 /\ k + 1 \in DOMAIN calls /\ calls'[k] = calls[k + 1]
         /\ \A k \in DOMAIN calls :
              /\ k \in Int
              /\ k > 1 => k - 1 \in DOMAIN calls' /\ calls'[k - 1] = calls[k]
              /\ k = 1 \/ k > 1
<1>1. calls \in Seq(Call(Encoder \X Field)) /\ calls # <<>> /\ calls' = Tail(calls)
  BY DEF TypeOK, Issue
<1>2. Len(calls) \in Nat \ {0} /\ DOMAIN calls = 1 .. Len(calls)
  BY <1>1, EmptySeq, LenProperties
<1>3. /\ calls' \in Seq(Call(Encoder \X Field)) /\ Len(calls') = Len(calls) - 1
      /\ \A i \in 1 .. Len(calls') : calls'[i] = calls[i + 1]
  BY <1>1, HeadTailProperties
<1>4. DOMAIN calls' = 1 .. (Len(calls) - 1)
  BY <1>3, LenProperties
<1>5. 1 \in DOMAIN calls /\ call = calls[1] /\ call.op = op
  BY <1>1, <1>2 DEF call, Issue
<1>6. \A k \in DOMAIN calls' :
        k \in Int /\ k > 0 /\ k + 1 \in DOMAIN calls /\ calls'[k] = calls[k + 1]
  BY <1>2, <1>3, <1>4
<1>7. ASSUME NEW k \in DOMAIN calls
      PROVE  /\ k \in Int
             /\ k > 1 => k - 1 \in DOMAIN calls' /\ calls'[k - 1] = calls[k]
             /\ k = 1 \/ k > 1
  <2>1. k \in Int /\ (k = 1 \/ k > 1)
    BY <1>2
  <2>2. ASSUME k > 1 PROVE k - 1 \in DOMAIN calls' /\ calls'[k - 1] = calls[k]
    <3>1. k - 1 \in 1 .. (Len(calls) - 1) /\ (k - 1) + 1 = k
      BY <1>2, <2>1, <2>2
    <3> QED
      BY <1>3, <1>4, <3>1
  <2> QED
    BY <2>1, <2>2
<1> QED
  BY <1>5, <1>6, <1>7

(* The buffer stays generated: a call that destroys it is followed by one  *)
(* that generates it.                                                      *)
LEMMA IssueStaysGenerated ==
  ASSUME TypeOK, NEW op, Issue(op), NEW o, StaysGenerated(o),
         live' = CASE op = "create" -> live \cup {call.name}
                   [] op = "destroy" -> live \ {call.name}
                   [] OTHER -> live
  PROVE  StaysGenerated(o)'
<1>1. \A k \in DOMAIN calls' :
        Destroys(calls'[k], o) =>
          \E m \in DOMAIN calls' : m > k /\ Generates(calls'[m], o)
  <2> SUFFICES ASSUME NEW k \in DOMAIN calls', Destroys(calls'[k], o)
               PROVE  \E m \in DOMAIN calls' : m > k /\ Generates(calls'[m], o)
    OBVIOUS
  <2>1. k \in Int /\ k > 0 /\ k + 1 \in DOMAIN calls /\ Destroys(calls[k + 1], o)
    BY TailFields
  <2>2. PICK m \in DOMAIN calls : m > k + 1 /\ Generates(calls[m], o)
    BY <2>1 DEF StaysGenerated
  <2>3. m \in Int
    BY <2>2, TailFields
  <2>4. m > 1
    BY <2>1, <2>2, <2>3
  <2>5. m - 1 \in DOMAIN calls' /\ Generates(calls'[m - 1], o)
    BY <2>2, <2>4, TailFields
  <2>6. m - 1 > k
    BY <2>1, <2>2, <2>3
  <2> QED
    BY <2>5, <2>6
<1>2. ASSUME NEW m \in DOMAIN calls, m > 1, Generates(calls[m], o)
      PROVE  \E k \in DOMAIN calls' : Generates(calls'[k], o)
  BY <1>2, TailFields
<1>3. o \in live' \/ \E k \in DOMAIN calls' : Generates(calls'[k], o)
  <2>1. CASE \E m \in DOMAIN calls : m > 1 /\ Generates(calls[m], o)
    BY <1>2, <2>1
  <2>2. CASE ~\E m \in DOMAIN calls : m > 1 /\ Generates(calls[m], o)
    <3>1. ~Destroys(call, o)
      BY <2>2, TailFields DEF StaysGenerated
    <3>2. o \in live \/ Generates(call, o)
      BY <2>2, TailFields DEF StaysGenerated
    <3>3. call.op = op
      BY TailFields
    <3> QED
      BY <3>1, <3>2, <3>3 DEF Generates, Destroys
  <2> QED
    BY <2>1, <2>2
<1> QED
  BY <1>1, <1>3 DEF StaysGenerated
(* Issuing a call keeps the staging invariant if it keeps the buffer       *)
(* alive, off the image units and, once the file is being saved,           *)
(* unwritten.                                                              *)
LEMMA IssueKept ==
  ASSUME TypeOK, NEW op, Issue(op), NEW e \in Encoder, Kept(e),
         \A u \in ImageUnits : ctx'.img[u].name # staging(e),
         live' = CASE op = "create" -> live \cup {call.name}
                   [] op = "destroy" -> live \ {call.name}
                   [] OTHER -> live,
         stage[e] = "save" /\ NotWritten(staging(e)) => NotWritten(staging(e))',
         op = "finish" => NotWritten(staging(e))'
  PROVE  Kept(e)'
<1> DEFINE o == staging(e)
<1>1. stage' = stage /\ outImage' = outImage
  BY DEF Issue
<1>2. \A k \in DOMAIN calls' : k + 1 \in DOMAIN calls /\ calls'[k] = calls[k + 1]
  BY TailFields
<1> HIDE DEF o
<1>3. NeverAnImage(o)'
  BY <1>2 DEF Kept, StagingIsKept, NeverAnImage, o
<1>4. stage'[e] \in {"downloadTo", "save"} => StaysGenerated(o)'
  BY <1>1, IssueStaysGenerated DEF Kept, StagingIsKept, o
<1>5. ASSUME stage[e] = "save"
      PROVE  outImage'[e].data = o /\ NotTargeted(o)'
  BY <1>1, <1>2, <1>5 DEF Kept, StagingIsKept, NotTargeted, o
<1>6. ASSUME stage[e] = "save"
      PROVE  NotWritten(o)' \/ WillFinish'
  <2>1. CASE NotWritten(o)
    BY <1>6, <2>1 DEF o
  <2>2. CASE ~NotWritten(o)
    <3>1. PICK k \in DOMAIN calls : calls[k].op = "finish"
      BY <1>6, <2>2 DEF Kept, StagingIsKept, WillFinish, o
    <3>2. CASE k = 1
      BY <3>1, <3>2, TailFields DEF o
    <3>3. CASE k > 1
      <4>1. k - 1 \in DOMAIN calls' /\ calls'[k - 1] = calls[k]
        BY <3>3, TailFields
      <4> QED
        BY <3>1, <4>1 DEF WillFinish
    <3> QED
      BY <3>2, <3>3, TailFields
  <2> QED
    BY <2>1, <2>2
<1> QED
  BY <1>1, <1>3, <1>4, <1>5, <1>6 DEF Kept, StagingIsKept, o, staging

(* Appending an operation that does not write o leaves o unwritten.        *)
LEMMA EnqueueNotWritten ==
  ASSUME TypeOK, NEW op \in GpuOp, Enqueue(op), NEW o, NotWritten(o),
         op.kind # "barrier" => \A a \in WritesOf(op) : a.name # o
  PROVE  NotWritten(o)'
<1>1. stream \in Seq(GpuOp) /\ stream' = Append(stream, op)
  BY DEF TypeOK, Enqueue
<1>2. \A i \in DOMAIN stream' : (i \in DOMAIN stream /\ stream'[i] = stream[i])
                                  \/ stream'[i] = op
  BY <1>1
<1>3. ASSUME NEW i \in GpuOps(stream'), NEW a \in WritesOf(stream'[i])
      PROVE  a.name # o
  <2>1. i \in DOMAIN stream' /\ stream'[i].kind # "barrier"
    BY DEF GpuOps
  <2>2. CASE i \in DOMAIN stream /\ stream'[i] = stream[i]
    BY <1>3, <2>1, <2>2 DEF NotWritten, GpuOps
  <2>3. CASE stream'[i] = op
    BY <1>3, <2>1, <2>3
  <2> QED
    BY <1>2, <2>1, <2>2, <2>3
<1> QED
  BY <1>3 DEF NotWritten
(* An api operation writes its destination, a dispatch the images bound.   *)
LEMMA ApiWrites ==
  ASSUME NEW fn, NEW uni, NEW from, NEW src, NEW to, NEW dst,
         NEW a \in WritesOf(ApiOp(fn, uni, from, src, to, dst))
  PROVE  a.name = dst
BY DEF WritesOf, ApiOp, Access

(* A dispatch writes only what an image unit holds.                        *)
LEMMA DispatchWrites ==
  ASSUME NEW fn, NEW uni, NEW c \in Context, NEW a \in WritesOf(DispatchOp(fn, uni, c))
  PROVE  \E u \in ImageUnits : a.name = c.img[u].name
<1>1. ShaderInterface(fn).store \subseteq ImageUnits
  BY InterfaceType DEF ImageUnits
<1>2. DispatchOp(fn, uni, c).out
        = [u \in ShaderInterface(fn).store |-> Access("image", c.img[u].name, TRUE)]
  BY DEF DispatchOp
<1>3. PICK u \in ShaderInterface(fn).store : a = Access("image", c.img[u].name, TRUE)
  BY <1>2 DEF WritesOf
<1> QED
  BY <1>1, <1>3 DEF Access

(* Issuing any of the GL calls keeps the staging invariant.                *)
LEMMA IssueKeeps ==
  ASSUME TypeOK, StagingInvariant, IssueCall
  PROVE  StagingInvariant'
<1>1. \A e \in Encoder : Kept(e)
  BY DEF StagingInvariant, Kept, staging
<1>2. SUFFICES ASSUME NEW e \in Encoder PROVE Kept(e)'
  BY DEF StagingInvariant, Kept, staging
<1> DEFINE o == staging(e)
<1>3. /\ \A u \in ImageUnits : ctx.img[u].name # o
      /\ \A k \in DOMAIN calls : calls[k].op = "bindUav" => calls[k].name # o
      /\ stage[e] = "save" => NotTargeted(o)
  BY <1>1 DEF Kept, StagingIsKept, NeverAnImage
<1>4. calls # <<>> => call \in Call(Encoder \X Field)
  BY IssuedCall
<1>5. NoObject # o
  BY DEF NoObject, Null, staging, Object
<1>6. /\ ctx \in Context
      /\ ctx.img \in [ImageUnits -> [name : GLObject, access : {"Write", "ReadWrite"}]]
  BY DEF TypeOK, Context
<1>7. Encoder \X Field \subseteq GLObject
  BY DEF GLObject
<1> HIDE DEF o
<1>8. CASE IssueCreate
  <2>1. ctx'.img = ctx.img /\ stream' = stream /\ live' = live \cup {call.name}
    BY <1>6, <1>8 DEF IssueCreate, Context
  <2> QED
    BY <1>1, <1>3, <1>8, <2>1, IssueKept DEF IssueCreate, NotWritten, o
<1>9. CASE IssueDestroy
  <2>1. \A u \in ImageUnits : ctx'.img[u].name # o
    BY <1>3, <1>5, <1>6, <1>9 DEF IssueDestroy, NoContext, Context
  <2> QED
    BY <1>1, <1>9, <2>1, IssueKept DEF IssueDestroy, NotWritten, o
<1>10. CASE IssueBind
  <2>1. CASE Issue("bindUav") /\ ctx' = [ctx EXCEPT !.img[call.slot] =
                                           [name |-> call.name, access |-> call.access]]
    <3>1. call.name # o
      BY <1>3, <2>1, TailFields
    <3>2. \A u \in ImageUnits : ctx'.img[u].name # o
      BY <1>3, <1>6, <2>1, <3>1 DEF Context
    <3> QED
      BY <1>1, <1>10, <2>1, <3>2, IssueKept DEF IssueBind, NotWritten, o
  <2>2. ASSUME NEW op \in {"bindTexture", "bindUavBuffer", "bindComputePso"},
               Issue(op), ctx'.img = ctx.img
        PROVE  Kept(e)'
    BY <1>1, <1>3, <1>10, <2>2, IssueKept DEF IssueBind, NotWritten, o
  <2>3. CASE Issue("bindTexture") /\ ctx' = [ctx EXCEPT !.tex[call.slot] = call.name]
    BY <1>6, <2>2, <2>3 DEF Context
  <2>4. CASE Issue("bindUavBuffer") /\ ctx' = [ctx EXCEPT !.buf[call.slot] = call.name]
    BY <1>6, <2>2, <2>4 DEF Context
  <2>5. CASE /\ Issue("bindComputePso")
             /\ ctx' = IF Links(mem[call.name].fn) THEN [ctx EXCEPT !.pso = call.name]
                                                   ELSE ctx
    BY <1>6, <2>2, <2>5 DEF Context
  <2> QED
    BY <1>10, <2>1, <2>3, <2>4, <2>5 DEF IssueBind
<1>11. CASE IssueUniform
  BY <1>1, <1>3, <1>11, IssueKept DEF IssueUniform, NotWritten, o
<1>12. CASE IssueDispatch
  <2> DEFINE op == DispatchOp(mem[ctx.pso].fn, uniform[ctx.pso], ctx)
  <2>1. op \in GpuOp
    BY <1>6, DispatchType DEF TypeOK, Context
  <2>2. \A a \in WritesOf(op) : a.name # o
    BY <1>3, <1>6, DispatchWrites
  <2> HIDE DEF op
  <2>3. NotWritten(o) => NotWritten(o)'
    <3>1. CASE Enqueue(op)
      BY <2>1, <2>2, <3>1, EnqueueNotWritten
    <3>2. CASE UNCHANGED stream
      BY <3>2 DEF NotWritten
    <3> QED
      BY <1>12, <3>1, <3>2 DEF IssueDispatch, op
  <2> QED
    BY <1>1, <1>3, <1>12, <2>3, IssueKept DEF IssueDispatch, context, o
<1>13. ASSUME NEW op \in {"upload", "download", "copy"}, Issue(op),
              NEW g \in GpuOp, Enqueue(g),
              \A a \in WritesOf(g) : a.name = call.dst,
              ctx'.img = ctx.img, UNCHANGED live
       PROVE  Kept(e)'
  <2>1. ASSUME stage[e] = "save", NotWritten(o) PROVE NotWritten(o)'
    <3>1. call.dst # o
      BY <1>3, <1>13, <2>1, TailFields DEF NotTargeted
    <3> QED
      BY <1>13, <2>1, <3>1, EnqueueNotWritten
  <2> QED
    BY <1>1, <1>3, <1>13, <2>1, IssueKept DEF o
<1>14. CASE IssueUpload
  <2> DEFINE g == ApiOp("upload", <<>>, "unpack", call.src, "upload", call.dst)
  <2>1. call.src \in GLObject /\ call.dst \in GLObject
    BY <1>4, <1>7, <1>14, CallFields DEF IssueUpload, Issue
  <2>2. <<>> \in Seq(Int)
    OBVIOUS
  <2>3. g \in GpuOp
    BY <2>1, <2>2, ApiType DEF Producer, Via
  <2>4. \A a \in WritesOf(g) : a.name = call.dst
    BY ApiWrites
  <2>5. ctx'.img = ctx.img
    BY <1>6, <1>14 DEF IssueUpload, Context
  <2> QED
    BY <1>13, <1>14, <2>3, <2>4, <2>5 DEF IssueUpload
<1>15. CASE IssueDownload
  <2> DEFINE g == ApiOp("download", <<call.bytes>>, "download", call.src, "pack", call.dst)
  <2>1. call.src \in GLObject /\ call.dst \in GLObject /\ call.bytes \in Nat
    BY <1>4, <1>7, <1>15, CallFields DEF IssueDownload, Issue
  <2>2. <<call.bytes>> \in Seq(Int)
    BY <2>1
  <2>3. g \in GpuOp
    BY <2>1, <2>2, ApiType DEF Producer, Via
  <2>4. \A a \in WritesOf(g) : a.name = call.dst
    BY ApiWrites
  <2>5. ctx'.img = ctx.img
    BY <1>6, <1>15 DEF IssueDownload, Context
  <2> QED
    BY <1>13, <1>15, <2>3, <2>4, <2>5 DEF IssueDownload
<1>16. CASE IssueCopy
  <2> DEFINE g == ApiOp("copy", <<>>, "copy", call.src, "copy", call.dst)
  <2>1. call.src \in GLObject /\ call.dst \in GLObject
    BY <1>4, <1>7, <1>16, CallFields DEF IssueCopy, Issue
  <2>2. <<>> \in Seq(Int)
    OBVIOUS
  <2>3. g \in GpuOp
    BY <2>1, <2>2, ApiType DEF Producer, Via
  <2>4. \A a \in WritesOf(g) : a.name = call.dst
    BY ApiWrites
  <2> QED
    BY <1>13, <1>16, <2>3, <2>4 DEF IssueCopy, context
<1>17. CASE IssueBarrier
  <2>1. BarrierOp(call.bits) \in GpuOp /\ BarrierOp(call.bits).kind = "barrier"
    BY <1>4, <1>17, CallFields DEF IssueBarrier, Issue, BarrierOp, GpuOp
  <2>2. NotWritten(o) => NotWritten(o)'
    BY <1>17, <2>1, EnqueueNotWritten DEF IssueBarrier
  <2> QED
    BY <1>1, <1>3, <1>17, <2>2, IssueKept DEF IssueBarrier, context, o
<1>18. CASE IssueFinish
  <2>1. stream' = <<>>
    BY <1>18 DEF IssueFinish
  <2>2. NotWritten(o)'
    BY <2>1 DEF NotWritten, GpuOps
  <2> QED
    BY <1>1, <1>3, <1>18, <2>2, IssueKept DEF IssueFinish, context, o
<1> QED
  BY <1>8, <1>9, <1>10, <1>11, <1>12, <1>14, <1>15, <1>16, <1>17, <1>18 DEF IssueCall
-----------------------------------------------------------------------------
(* The GPU removes operations and adds none.                               *)

(* The GPU only removes operations, so it keeps the staging invariant.     *)
LEMMA GPUKeeps ==
  ASSUME TypeOK, StagingInvariant, GPU
  PROVE  StagingInvariant'
<1>1. /\ stage' = stage /\ calls' = calls /\ ctx' = ctx /\ live' = live
      /\ outImage' = outImage
  BY DEF GPU, RetireBarrier, Execute, context
<1>2. \A k \in DOMAIN stream' : \E m \in DOMAIN stream : stream'[k] = stream[m]
  <2>1. CASE RetireBarrier
    <3>1. /\ stream \in Seq(GpuOp) /\ stream # <<>> /\ stream' = Tail(stream)
      BY <2>1 DEF RetireBarrier, TypeOK
    <3>2. Len(stream) \in Nat \ {0} /\ DOMAIN stream = 1 .. Len(stream)
      BY <3>1, EmptySeq, LenProperties
    <3>3. /\ DOMAIN stream' = 1 .. (Len(stream) - 1)
          /\ \A i \in DOMAIN stream' : stream'[i] = stream[i + 1]
      BY <3>1, <3>2, HeadTailProperties, LenProperties
    <3> QED
      BY <3>2, <3>3
  <2>2. ASSUME NEW i \in DOMAIN stream, Execute(i)
        PROVE  \A k \in DOMAIN stream' : \E m \in DOMAIN stream : stream'[k] = stream[m]
    BY <2>2, WithoutType DEF Execute, TypeOK
  <2> QED
    BY <2>1, <2>2 DEF GPU
<1>3. ASSUME NEW o, NotWritten(o) PROVE NotWritten(o)'
  BY <1>2, <1>3 DEF NotWritten, GpuOps
<1> QED
  BY <1>1, <1>3 DEF StagingInvariant, StagingIsKept, NeverAnImage,
     StaysGenerated, NotTargeted, WillFinish

-----------------------------------------------------------------------------
(* The program starts in the staging invariant.                            *)
LEMMA InitStaging == Init => StagingInvariant
<1> SUFFICES ASSUME Init, NEW e \in Encoder
             PROVE  StagingIsKept(e, staging(e))
  BY DEF StagingInvariant, staging
<1>1. \A u \in ImageUnits : ctx.img[u].name # staging(e)
  BY DEF Init, NoContext, NoObject, Null, staging, Object
<1>2. calls = <<>> /\ stage[e] = "initResources"
  BY DEF Init
<1> QED
  BY <1>1, <1>2 DEF StagingIsKept, NeverAnImage

(* Every step of the program keeps the staging invariant.                  *)
LEMMA NextStaging ==
  TypeInvariant /\ StagingInvariant /\ [Next]_vars => StagingInvariant'
<1> SUFFICES ASSUME TypeOK, StagingInvariant, [Next]_vars
             PROVE  StagingInvariant'
  BY DEF TypeInvariant
<1>1. ASSUME NEW e \in Encoder, Method(e) PROVE StagingInvariant'
  BY <1>1, MethodKeeps
<1>2. CASE IssueCall
  BY <1>2, IssueKeeps
<1>3. CASE GPU
  BY <1>3, GPUKeeps
<1>4. CASE UNCHANGED vars
  BY <1>4 DEF vars, StagingInvariant, StagingIsKept, NeverAnImage,
     StaysGenerated, NotTargeted, NotWritten, WillFinish
<1> QED
  BY <1>1, <1>2, <1>3, <1>4 DEF Next, Terminating

(* While FormatKTX::save can read the pointer downloadTo handed out, the   *)
(* buffer behind it exists and no GPU operation in flight writes to it,    *)
(* for any number of encoders sharing the context and any schedule.        *)
THEOREM PointerIsStable == Spec => []MappedPointerIsStable
<1>1. StagingInvariant => MappedPointerIsStable
  <2> SUFFICES ASSUME StagingInvariant, NEW e \in Encoder,
                      stage[e] = "save", calls = <<>>
               PROVE  /\ outImage[e].data \in live
                      /\ NotWritten(outImage[e].data)
    BY DEF MappedPointerIsStable, NotWritten
  <2>1. StagingIsKept(e, staging(e))
    BY DEF StagingInvariant, staging
  <2>2. staging(e) \in live
    BY <2>1 DEF StagingIsKept, StaysGenerated
  <2>3. NotWritten(staging(e))
    BY <2>1 DEF StagingIsKept, WillFinish
  <2> QED
    BY <2>1, <2>2, <2>3 DEF StagingIsKept
<1> QED
  BY <1>1, InitType, NextType, InitStaging, NextStaging, PTL DEF Spec

-----------------------------------------------------------------------------
(* No call names a GL object that does not exist, and what is still alive  *)
(* when main returns is what deinitResources forgets.                      *)

(* The objects a call needs to exist.                                      *)
Named(c) ==
  CASE c.op \in {"destroy", "bindTexture", "bindUav", "bindUavBuffer",
                 "bindComputePso"} -> {c.name}
    [] c.op \in {"copy", "upload", "download"} -> {c.src, c.dst}
    [] OTHER -> {}

(* Object o exists when the list s, begun with the objects in L, reaches   *)
(* its k-th call.                                                          *)
ExistsAt(s, L, k, o) ==
  \/ o \in L /\ \A m \in DOMAIN s : m < k => ~Destroys(s[m], o)
  \/ \E m \in DOMAIN s :
       /\ m < k /\ Generates(s[m], o)
       /\ \A j \in DOMAIN s : m < j /\ j < k => ~Destroys(s[j], o)

(* Every call of s finds the objects it names.                             *)
Finds(s, L) == \A k \in DOMAIN s : \A o \in Named(s[k]) : ExistsAt(s, L, k, o)

(* The objects s leaves behind.                                            *)
Leaves(s, L, o) == ExistsAt(s, L, Len(s) + 1, o)

(* The fields initResources generates for request r and keeps.             *)
EtcFields(r) ==
  {"m_srcTexture", "m_compressTargetRes", "m_dstTexture", "m_etc1TablesSsbo",
   "m_compressPso"}
  \cup (IF r.dither THEN {"m_ditheredTexture", "m_ditherPso"} ELSE {})
  \cup (IF forEtc2(r) THEN {"m_etc1Error"} ELSE {})
  \cup (IF hasAlpha(r) THEN {"m_eacTargetRes", "m_stitchedTarget", "m_eacPso"} ELSE {})
  \cup (IF hasAlpha(r) /\ ~forEtc2(r) THEN {"m_stitchPso"} ELSE {})

ModeFields ==
  {"m_thModesTargetRes", "m_thModesError", "m_thModesC0C1", "m_pModeTargetRes",
   "m_pModeError", "m_thModesPso", "m_thModesFindBestC0C1", "m_pModePso", "m_stitchPso"}

Resources(r) ==
  CASE UsesETC1(r) -> EtcFields(r)
    [] UsesETC2(r) -> EtcFields(r) \cup ModeFields
    [] UsesEAC(r) -> {"m_srcTexture", "m_eacTargetRes[0]", "m_eacPso"}
         \cup (IF rg11(r) THEN {"m_eacTargetRes[1]", "m_stitchedTarget", "m_stitchPso"}
                          ELSE {})
    [] UsesBC1(r) -> {"m_srcTexture", "m_bc1TargetRes", "m_dstTexture",
                      "m_bc1TablesSsbo", "m_bc1Pso"}
         \cup (IF useBC3(r) THEN {"m_bc4TargetRes", "m_stitchedTarget", "m_bc4Pso",
                                  "m_stitchPso"} ELSE {})
    [] UsesBC4(r) -> {"m_srcTexture", "m_bc4TargetRes[0]", "m_bc4Pso", "m_dstTexture"}
         \cup (IF redGreen(r) THEN {"m_bc4TargetRes[1]", "m_stitchedTarget",
                                    "m_stitchPso"} ELSE {})
    [] OTHER -> {"m_srcTexture", "m_compressTargetRes", "m_dstTexture", "m_compressPso"}

(* The upload buffers that stay: BC6H's and that of ETC2's execute03.      *)
Scratch(r) == IF UsesETC2(r) \/ UsesBC6H(r) THEN {"stagingTex"} ELSE {}

(* What deinitResources forgets.                                           *)
Leaked(r) ==
  CASE UsesETC2(r) -> {"m_thModesC0C1", "stagingTex"}
                        \cup (IF hasAlpha(r) THEN {} ELSE {"m_stitchPso"})
    [] UsesBC1(r)  -> {"m_bc1TablesSsbo"}
                        \cup (IF useBC3(r) THEN {"m_bc4TargetRes", "m_bc4Pso"} ELSE {})
    [] UsesBC6H(r) -> {"stagingTex"}
    [] OTHER -> {}

MayHold(r, s) ==
  CASE s = "initResources" -> {}
    [] s = "done" -> Leaked(r)
    [] OTHER -> Resources(r) \cup {"m_downloadStaging"} \cup Scratch(r)

MustHold(r, s) == IF s \in {"initResources", "done"} THEN {} ELSE Resources(r)

Lifetimes(e) ==
  /\ \A f \in MustHold(request[e], stage[e]) : Leaves(calls, live, Object(e, f))
  /\ \A f \in Field :
       Leaves(calls, live, Object(e, f)) => f \in MayHold(request[e], stage[e])

(* main calls a method only of an encoder that has it.                     *)
StageFits(e) ==
  /\ stage[e] = "execute00" => Has00(request[e])
  /\ stage[e] = "execute02" => Has02(request[e])
  /\ stage[e] = "execute03" => Loops(request[e])

LifetimeInvariant ==
  Finds(calls, live) /\ \A e \in Encoder : Lifetimes(e) /\ StageFits(e)

-----------------------------------------------------------------------------
(* What a list of calls of encoder e does to the set of existing objects:  *)
(* begun with L it finds every object it names, and it leaves M.           *)
Runs(e, s, L, M) ==
  /\ s \in Seq(OwnCall(e))
  /\ Finds(s, L)
  /\ \A o : Leaves(s, L, o) <=> o \in M

(* The calls of e that neither generate nor delete, on the fields in F.    *)
UseCall(e, F) ==
  {c \in OwnCall(e) : /\ c.op \notin {"create", "destroy"}
                      /\ Named(c) \subseteq {e} \X F}

(* The calls of e that generate field f.                                   *)
MakeCall(e, f) == {c \in OwnCall(e) : Generates(c, Object(e, f))}

(* The objects named by a list of calls that generate or delete.           *)
NamesIn(s) == {s[k].name : k \in DOMAIN s}

(* Lists that only generate, or only delete each once, the fields in F.    *)
Makes(e, s, F) ==
  /\ s \in Seq({c \in OwnCall(e) : c.op = "create"})
  /\ NamesIn(s) = {e} \X F

Frees(e, s, F) ==
  /\ s \in Seq({c \in OwnCall(e) : c.op = "destroy"})
  /\ NamesIn(s) = {e} \X F
  /\ \A j, k \in DOMAIN s : s[j].name = s[k].name => j = k

(* The positions of a list are its indices.                                *)
LEMMA Positions ==
  ASSUME NEW S, NEW s \in Seq(S)
  PROVE  /\ Len(s) \in Nat /\ DOMAIN s = 1 .. Len(s)
         /\ \A k \in DOMAIN s : s[k] \in S /\ k \in Int /\ 1 <= k /\ k < Len(s) + 1
<1>1. Len(s) \in Nat /\ DOMAIN s = 1 .. Len(s)
  BY LenProperties
<1> QED
  BY <1>1, ElementOfSeq

(* The positions of a concatenation.                                       *)
LEMMA ConcatPositions ==
  ASSUME NEW S, NEW s \in Seq(S), NEW t \in Seq(S)
  PROVE  /\ s \o t \in Seq(S) /\ Len(s \o t) = Len(s) + Len(t)
         /\ Len(s) \in Nat /\ Len(t) \in Nat
         /\ DOMAIN s = 1 .. Len(s) /\ DOMAIN t = 1 .. Len(t)
         /\ DOMAIN (s \o t) = 1 .. (Len(s) + Len(t))
         /\ \A k \in DOMAIN s : k \in DOMAIN (s \o t) /\ (s \o t)[k] = s[k]
         /\ \A k \in DOMAIN t : /\ k + Len(s) \in DOMAIN (s \o t)
                                /\ (s \o t)[k + Len(s)] = t[k]
         /\ \A k \in DOMAIN (s \o t) :
              k \notin DOMAIN s => k - Len(s) \in DOMAIN t /\ (s \o t)[k] = t[k - Len(s)]
<1>1. /\ s \o t \in Seq(S) /\ Len(s \o t) = Len(s) + Len(t)
      /\ \A i \in 1 .. Len(s) + Len(t) :
           (s \o t)[i] = IF i <= Len(s) THEN s[i] ELSE t[i - Len(s)]
  BY ConcatProperties
<1>2. /\ Len(s) \in Nat /\ Len(t) \in Nat /\ DOMAIN s = 1 .. Len(s)
      /\ DOMAIN t = 1 .. Len(t)
      /\ DOMAIN (s \o t) = 1 .. (Len(s) + Len(t))
  BY <1>1, LenProperties
<1>3. ASSUME NEW k \in DOMAIN s
      PROVE  k \in DOMAIN (s \o t) /\ (s \o t)[k] = s[k]
  BY <1>1, <1>2
<1>4. ASSUME NEW k \in DOMAIN t
      PROVE  k + Len(s) \in DOMAIN (s \o t) /\ (s \o t)[k + Len(s)] = t[k]
  <2>1. k + Len(s) \in 1 .. (Len(s) + Len(t)) /\ ~(k + Len(s) <= Len(s))
        /\ (k + Len(s)) - Len(s) = k
    BY <1>2
  <2> QED
    BY <1>1, <1>2, <2>1
<1>5. ASSUME NEW k \in DOMAIN (s \o t), k \notin DOMAIN s
      PROVE  k - Len(s) \in DOMAIN t /\ (s \o t)[k] = t[k - Len(s)]
  BY <1>1, <1>2, <1>5
<1> QED
  BY <1>1, <1>2, <1>3, <1>4, <1>5

(* In the first part of a concatenation objects exist as they do there...  *)
LEMMA ExistsInFirst ==
  ASSUME NEW S, NEW s \in Seq(S), NEW t \in Seq(S), NEW L, NEW o,
         NEW k \in 1 .. (Len(s) + 1)
  PROVE  ExistsAt(s \o t, L, k, o) <=> ExistsAt(s, L, k, o)
<1>1. \A m \in DOMAIN (s \o t) : m < k => m \in DOMAIN s /\ (s \o t)[m] = s[m]
  BY ConcatPositions
<1>2. \A m \in DOMAIN s : m \in DOMAIN (s \o t) /\ (s \o t)[m] = s[m]
  BY ConcatPositions
<1> QED
  BY <1>1, <1>2 DEF ExistsAt

(* ... and in the second as they do from what the first leaves.            *)
LEMMA ExistsInSecond ==
  ASSUME NEW S, NEW s \in Seq(S), NEW t \in Seq(S), NEW L, NEW M, NEW o,
         Leaves(s, L, o) <=> o \in M,
         NEW k \in 1 .. (Len(t) + 1)
  PROVE  ExistsAt(s \o t, L, k + Len(s), o) <=> ExistsAt(t, M, k, o)
<1> DEFINE u == s \o t
           n == Len(s)
<1>1. /\ n \in Nat /\ Len(t) \in Nat /\ k \in Int /\ k >= 1
      /\ DOMAIN s = 1 .. n /\ DOMAIN t = 1 .. Len(t) /\ DOMAIN u = 1 .. (n + Len(t))
      /\ \A m \in DOMAIN s : m \in DOMAIN u /\ u[m] = s[m]
      /\ \A m \in DOMAIN t : m + n \in DOMAIN u /\ u[m + n] = t[m]
      /\ \A m \in DOMAIN u : m \notin DOMAIN s => m - n \in DOMAIN t /\ u[m] = t[m - n]
  BY ConcatPositions
<1> HIDE DEF u, n
<1>2. /\ \A m \in DOMAIN s : m \in Int /\ m <= n /\ m < n + 1 /\ m < k + n
      /\ \A m \in DOMAIN t : m \in Int /\ 0 < m /\ (m + n < k + n <=> m < k)
      /\ \A m \in DOMAIN u : m \in Int /\ (m \notin DOMAIN s => n < m)
                             /\ (m < k + n <=> m - n < k)
  BY <1>1
<1>3. o \in M <=> ExistsAt(s, L, n + 1, o)
  BY DEF Leaves, n
<1>4. ASSUME ExistsAt(u, L, k + n, o) PROVE ExistsAt(t, M, k, o)
  <2>1. CASE o \in L /\ \A m \in DOMAIN u : m < k + n => ~Destroys(u[m], o)
    <3>1. \A m \in DOMAIN s : ~Destroys(s[m], o)
      BY <1>1, <1>2, <2>1
    <3>2. o \in M
      BY <1>3, <2>1, <3>1 DEF ExistsAt
    <3>3. \A m \in DOMAIN t : m < k => ~Destroys(t[m], o)
      BY <1>1, <1>2, <2>1
    <3> QED
      BY <3>2, <3>3 DEF ExistsAt
  <2>2. ASSUME NEW m \in DOMAIN u, m < k + n, Generates(u[m], o),
               \A j \in DOMAIN u : m < j /\ j < k + n => ~Destroys(u[j], o)
        PROVE  ExistsAt(t, M, k, o)
    <3>1. CASE m \in DOMAIN s
      <4>1. \A j \in DOMAIN s : m < j => ~Destroys(s[j], o)
        BY <1>1, <1>2, <2>2
      <4>2. o \in M
        BY <1>1, <1>2, <1>3, <2>2, <3>1, <4>1 DEF ExistsAt
      <4>3. \A j \in DOMAIN t : m < j + n
        BY <1>1, <1>2, <3>1
      <4>4. \A j \in DOMAIN t : j < k => ~Destroys(t[j], o)
        BY <1>1, <1>2, <2>2, <4>3
      <4> QED
        BY <4>2, <4>4 DEF ExistsAt
    <3>2. CASE m \notin DOMAIN s
      <4>1. m - n \in DOMAIN t /\ u[m] = t[m - n] /\ m - n < k
        BY <1>1, <1>2, <2>2, <3>2
      <4>2. \A j \in DOMAIN t : m - n < j => m < j + n
        BY <1>1, <1>2
      <4>3. \A j \in DOMAIN t : m - n < j /\ j < k => ~Destroys(t[j], o)
        BY <1>1, <1>2, <2>2, <4>2
      <4> QED
        BY <2>2, <4>1, <4>3 DEF ExistsAt
    <3> QED
      BY <3>1, <3>2
  <2> QED
    BY <1>4, <2>1, <2>2 DEF ExistsAt
<1>5. ASSUME ExistsAt(t, M, k, o) PROVE ExistsAt(u, L, k + n, o)
  <2>1. CASE o \in M /\ \A m \in DOMAIN t : m < k => ~Destroys(t[m], o)
    <3>1. \A m \in DOMAIN u : m \notin DOMAIN s /\ m < k + n => ~Destroys(u[m], o)
      BY <1>1, <1>2, <2>1
    <3>2. CASE o \in L /\ \A m \in DOMAIN s : m < n + 1 => ~Destroys(s[m], o)
      <4>1. \A m \in DOMAIN u : m < k + n => ~Destroys(u[m], o)
        BY <1>1, <1>2, <3>1, <3>2
      <4> QED
        BY <3>2, <4>1 DEF ExistsAt
    <3>3. ASSUME NEW m \in DOMAIN s, Generates(s[m], o),
                 \A j \in DOMAIN s : m < j /\ j < n + 1 => ~Destroys(s[j], o)
          PROVE  ExistsAt(u, L, k + n, o)
      <4>1. \A j \in DOMAIN u : m < j /\ j < k + n => ~Destroys(u[j], o)
        BY <1>1, <1>2, <3>1, <3>3
      <4>2. m \in DOMAIN u /\ m < k + n /\ Generates(u[m], o)
        BY <1>1, <1>2, <3>3
      <4> QED
        BY <4>1, <4>2 DEF ExistsAt
    <3> QED
      BY <1>3, <2>1, <3>2, <3>3 DEF ExistsAt
  <2>2. ASSUME NEW m \in DOMAIN t, m < k, Generates(t[m], o),
               \A j \in DOMAIN t : m < j /\ j < k => ~Destroys(t[j], o)
        PROVE  ExistsAt(u, L, k + n, o)
    <3>1. m + n \in DOMAIN u /\ m + n < k + n /\ Generates(u[m + n], o)
      BY <1>1, <1>2, <2>2
    <3>2. ASSUME NEW j \in DOMAIN u, m + n < j, j < k + n PROVE ~Destroys(u[j], o)
      <4>1. j \notin DOMAIN s /\ m < j - n /\ j - n < k
        BY <1>1, <1>2, <3>2
      <4> QED
        BY <1>1, <2>2, <4>1
    <3> QED
      BY <3>1, <3>2 DEF ExistsAt
  <2> QED
    BY <1>5, <2>1, <2>2 DEF ExistsAt
<1> QED
  BY <1>4, <1>5 DEF u, n

(* One list after the other.                                               *)
LEMMA RunsConcat ==
  ASSUME NEW e, NEW s, NEW t, NEW L, NEW M, NEW N, Runs(e, s, L, M), Runs(e, t, M, N)
  PROVE  Runs(e, s \o t, L, N)
<1>1. s \in Seq(OwnCall(e)) /\ t \in Seq(OwnCall(e))
  BY DEF Runs
<1>2. /\ s \o t \in Seq(OwnCall(e)) /\ Len(s \o t) = Len(s) + Len(t)
      /\ Len(s) \in Nat /\ Len(t) \in Nat
      /\ DOMAIN s = 1 .. Len(s) /\ DOMAIN t = 1 .. Len(t)
  BY <1>1, ConcatPositions
<1>3. ASSUME NEW k \in DOMAIN (s \o t), NEW o \in Named((s \o t)[k])
      PROVE  ExistsAt(s \o t, L, k, o)
  <2>1. CASE k \in DOMAIN s
    <3>1. (s \o t)[k] = s[k] /\ k \in 1 .. (Len(s) + 1)
      BY <1>1, <1>2, <2>1, ConcatPositions
    <3>2. ExistsAt(s, L, k, o)
      BY <1>3, <2>1, <3>1 DEF Runs, Finds
    <3> QED
      BY <1>1, <3>1, <3>2, ExistsInFirst
  <2>2. CASE k \notin DOMAIN s
    <3>1. k - Len(s) \in DOMAIN t /\ (s \o t)[k] = t[k - Len(s)] /\ k \in Int
      BY <1>1, <2>2, ConcatPositions
    <3>2. /\ k - Len(s) \in 1 .. (Len(t) + 1)
          /\ (k - Len(s)) + Len(s) = k
      BY <1>2, <3>1
    <3>3. ExistsAt(t, M, k - Len(s), o)
      BY <1>3, <3>1 DEF Runs, Finds
    <3>4. Leaves(s, L, o) <=> o \in M
      BY DEF Runs
    <3> QED
      BY <1>1, <3>2, <3>3, <3>4, ExistsInSecond
  <2> QED
    BY <2>1, <2>2
<1>4. ASSUME NEW o
      PROVE  Leaves(s \o t, L, o) <=> o \in N
  <2>1. Leaves(s, L, o) <=> o \in M
    BY DEF Runs
  <2>2. /\ Len(t) + 1 \in 1 .. (Len(t) + 1)
        /\ (Len(t) + 1) + Len(s) = Len(s \o t) + 1
    BY <1>2
  <2>3. ExistsAt(s \o t, L, (Len(t) + 1) + Len(s), o) <=> ExistsAt(t, M, Len(t) + 1, o)
    BY <1>1, <2>1, <2>2, ExistsInSecond
  <2>4. Leaves(t, M, o) <=> o \in N
    BY DEF Runs
  <2> QED
    BY <2>2, <2>3, <2>4 DEF Leaves
<1> QED
  BY <1>2, <1>3, <1>4 DEF Runs, Finds

(* Calls that only use objects leave all as it is.                         *)
LEMMA RunsUses ==
  ASSUME NEW e, NEW F, NEW s \in Seq(UseCall(e, F)), NEW L, {e} \X F \subseteq L
  PROVE  Runs(e, s, L, L)
<1>1. s \in Seq(OwnCall(e))
  <2>1. UseCall(e, F) \subseteq OwnCall(e)
    BY DEF UseCall
  <2> QED
    BY <2>1, SeqMonotonic
<1>2. \A k \in DOMAIN s :
        /\ ~Generates(s[k], s[k].name) /\ s[k].op # "create" /\ s[k].op # "destroy"
        /\ Named(s[k]) \subseteq L
  BY Positions DEF UseCall, Generates
<1>3. \A k, o : ExistsAt(s, L, k, o) <=> o \in L
  BY <1>2 DEF ExistsAt, Generates, Destroys
<1> QED
  BY <1>1, <1>2, <1>3 DEF Runs, Finds, Leaves

(* Calls that only generate add their objects.                             *)
LEMMA RunsMakes ==
  ASSUME NEW e, NEW F, NEW s, Makes(e, s, F), NEW L
  PROVE  Runs(e, s, L, L \cup ({e} \X F))
<1>1. s \in Seq({c \in OwnCall(e) : c.op = "create"})
  BY DEF Makes
<1>2. s \in Seq(OwnCall(e))
  <2>1. {c \in OwnCall(e) : c.op = "create"} \subseteq OwnCall(e)
    OBVIOUS
  <2> QED
    BY <1>1, <2>1, SeqMonotonic
<1>3. \A k \in DOMAIN s : s[k].op = "create" /\ k < Len(s) + 1
  BY <1>1, Positions
<1>4. Finds(s, L)
  BY <1>3 DEF Finds, Named
<1>5. \A o : o \in {e} \X F <=> \E k \in DOMAIN s : s[k].name = o
  BY DEF Makes, NamesIn
<1>6. ASSUME NEW o PROVE Leaves(s, L, o) <=> o \in L \cup ({e} \X F)
  BY <1>3, <1>5 DEF Leaves, ExistsAt, Generates, Destroys
<1> QED
  BY <1>2, <1>4, <1>6 DEF Runs

(* Calls that only delete, each object once, remove their objects.         *)
LEMMA RunsFrees ==
  ASSUME NEW e, NEW F, NEW s, Frees(e, s, F), NEW L, {e} \X F \subseteq L
  PROVE  Runs(e, s, L, L \ ({e} \X F))
<1>1. s \in Seq({c \in OwnCall(e) : c.op = "destroy"})
  BY DEF Frees
<1>2. s \in Seq(OwnCall(e))
  <2>1. {c \in OwnCall(e) : c.op = "destroy"} \subseteq OwnCall(e)
    OBVIOUS
  <2> QED
    BY <1>1, <2>1, SeqMonotonic
<1>3. \A k \in DOMAIN s : s[k].op = "destroy" /\ k < Len(s) + 1 /\ k \in Int
  BY <1>1, Positions
<1>4. \A o : o \in {e} \X F <=> \E k \in DOMAIN s : s[k].name = o
  BY DEF Frees, NamesIn
<1>5. Finds(s, L)
  <2> SUFFICES ASSUME NEW k \in DOMAIN s, NEW o \in Named(s[k])
               PROVE  ExistsAt(s, L, k, o)
    BY DEF Finds
  <2>1. s[k].name = o /\ o \in L
    BY <1>3, <1>4 DEF Named
  <2>2. \A m \in DOMAIN s : m < k => s[m].name # o
    BY <1>3, <2>1 DEF Frees
  <2> QED
    BY <2>1, <2>2 DEF ExistsAt, Destroys
<1>6. ASSUME NEW o PROVE Leaves(s, L, o) <=> o \in L \ ({e} \X F)
  BY <1>3, <1>4 DEF Leaves, ExistsAt, Generates, Destroys
<1> QED
  BY <1>2, <1>5, <1>6 DEF Runs

(* Calls that generate one object and then use it add that object.         *)
LEMMA RunsScratch ==
  ASSUME NEW e, NEW s \in Seq(OwnCall(e)), NEW L, NEW o, NEW p \in DOMAIN s,
         Generates(s[p], o),
         \A k \in DOMAIN s \ {p} :
           /\ s[k].op \notin {"create", "destroy"}
           /\ Named(s[k]) \subseteq IF p < k THEN L \cup {o} ELSE L
  PROVE  Runs(e, s, L, L \cup {o})
<1>1. /\ Len(s) \in Nat
      /\ \A k \in DOMAIN s : k \in Int /\ k < Len(s) + 1 /\ ~Destroys(s[k], o)
                             /\ \A x : ~Destroys(s[k], x)
  BY Positions DEF Generates, Destroys
<1>2. \A k \in DOMAIN s : \A x : Generates(s[k], x) => k = p /\ x = o
  BY DEF Generates
<1>3. Finds(s, L)
  <2> SUFFICES ASSUME NEW k \in DOMAIN s, NEW x \in Named(s[k])
               PROVE  ExistsAt(s, L, k, x)
    BY DEF Finds
  <2>1. k # p
    BY DEF Named, Generates
  <2>2. CASE x \in L
    BY <1>1, <2>2 DEF ExistsAt
  <2>3. CASE x \notin L
    <3>1. p < k /\ x = o
      BY <2>1, <2>3
    <3> QED
      BY <1>1, <3>1 DEF ExistsAt
  <2> QED
    BY <2>2, <2>3
<1>4. ASSUME NEW x PROVE Leaves(s, L, x) <=> x \in L \cup {o}
  BY <1>1, <1>2 DEF Leaves, ExistsAt
<1> QED
  BY <1>3, <1>4 DEF Runs

-----------------------------------------------------------------------------
(* Lists that only generate or only delete, put together.                  *)

(* The names of a concatenation.                                           *)
LEMMA ConcatNames ==
  ASSUME NEW S, NEW s \in Seq(S), NEW t \in Seq(S)
  PROVE  NamesIn(s \o t) = NamesIn(s) \cup NamesIn(t)
<1>1. ASSUME NEW k \in DOMAIN (s \o t)
      PROVE  (s \o t)[k].name \in NamesIn(s) \cup NamesIn(t)
  BY ConcatPositions DEF NamesIn
<1>2. ASSUME NEW k \in DOMAIN s
      PROVE  s[k].name \in NamesIn(s \o t)
  BY ConcatPositions DEF NamesIn
<1>3. ASSUME NEW k \in DOMAIN t
      PROVE  t[k].name \in NamesIn(s \o t)
  <2>1. k + Len(s) \in DOMAIN (s \o t) /\ (s \o t)[k + Len(s)] = t[k]
    BY ConcatPositions
  <2> QED
    BY <2>1 DEF NamesIn
<1> QED
  BY <1>1, <1>2, <1>3 DEF NamesIn

(* What is generated by two lists is generated by one after the other.     *)
LEMMA MakesConcat ==
  ASSUME NEW e, NEW s, NEW t, NEW F, NEW G, Makes(e, s, F), Makes(e, t, G)
  PROVE  Makes(e, s \o t, F \cup G)
<1> DEFINE S == {c \in OwnCall(e) : c.op = "create"}
<1>1. s \in Seq(S) /\ t \in Seq(S)
  BY DEF Makes
<1> HIDE DEF S
<1>2. s \o t \in Seq(S)
  BY <1>1, ConcatProperties
<1>3. NamesIn(s \o t) = ({e} \X F) \cup ({e} \X G)
  BY <1>1, ConcatNames DEF Makes
<1>4. ({e} \X F) \cup ({e} \X G) = {e} \X (F \cup G)
  OBVIOUS
<1> QED
  BY <1>2, <1>3, <1>4 DEF Makes, S

(* What is deleted by two lists without a common object is deleted once by *)
(* one after the other.                                                    *)
LEMMA FreesConcat ==
  ASSUME NEW e, NEW s, NEW t, NEW F, NEW G, Frees(e, s, F), Frees(e, t, G),
         F \cap G = {}
  PROVE  Frees(e, s \o t, F \cup G)
<1> DEFINE S == {c \in OwnCall(e) : c.op = "destroy"}
<1>1. s \in Seq(S) /\ t \in Seq(S)
  BY DEF Frees
<1> HIDE DEF S
<1>2. s \o t \in Seq(S)
  BY <1>1, ConcatProperties
<1>3. NamesIn(s \o t) = ({e} \X F) \cup ({e} \X G)
  BY <1>1, ConcatNames DEF Frees
<1>4. ({e} \X F) \cup ({e} \X G) = {e} \X (F \cup G)
  OBVIOUS
<1>5. ({e} \X F) \cap ({e} \X G) = {}
  OBVIOUS
<1>6. ASSUME NEW j \in DOMAIN (s \o t), NEW k \in DOMAIN (s \o t),
             (s \o t)[j].name = (s \o t)[k].name
      PROVE  j = k
  <2>1. /\ Len(s) \in Nat /\ j \in Int /\ k \in Int
        /\ \A i \in {j, k} : i \in DOMAIN s => (s \o t)[i] = s[i]
        /\ \A i \in {j, k} :
             i \notin DOMAIN s => i - Len(s) \in DOMAIN t /\ (s \o t)[i] = t[i - Len(s)]
    BY <1>1, ConcatPositions
  <2>2. \A i \in DOMAIN s : s[i].name \in {e} \X F
    BY DEF Frees, NamesIn
  <2>3. \A i \in DOMAIN t : t[i].name \in {e} \X G
    BY DEF Frees, NamesIn
  <2>4. CASE j \in DOMAIN s /\ k \in DOMAIN s
    BY <1>6, <2>1, <2>4 DEF Frees
  <2>5. CASE j \notin DOMAIN s /\ k \notin DOMAIN s
    <3>1. j - Len(s) = k - Len(s)
      BY <1>6, <2>1, <2>5 DEF Frees
    <3> QED
      BY <2>1, <3>1
  <2>6. CASE j \in DOMAIN s /\ k \notin DOMAIN s
    BY <1>5, <1>6, <2>1, <2>2, <2>3, <2>6
  <2>7. CASE j \notin DOMAIN s /\ k \in DOMAIN s
    BY <1>5, <1>6, <2>1, <2>2, <2>3, <2>7
  <2> QED
    BY <2>4, <2>5, <2>6, <2>7
<1> QED
  BY <1>2, <1>3, <1>4, <1>6 DEF Frees, S

(* Objects generated under a condition.                                    *)
LEMMA MakesWhen ==
  ASSUME NEW e, NEW s, NEW F, NEW cond, Makes(e, s, F)
  PROVE  Makes(e, When(cond, s), IF cond THEN F ELSE {})
BY DEF Makes, NamesIn, When

(* Objects deleted under a condition.                                      *)
LEMMA FreesWhen ==
  ASSUME NEW e, NEW s, NEW F, NEW cond, Frees(e, s, F)
  PROVE  Frees(e, When(cond, s), IF cond THEN F ELSE {})
BY DEF Frees, NamesIn, When

(* Lists of one to four calls that generate.                               *)
LEMMA MakesOne ==
  ASSUME NEW e, NEW f \in Field, NEW c \in MakeCall(e, f)
  PROVE  Makes(e, <<c>>, {f})
BY DEF Makes, NamesIn, MakeCall, Generates, Object

(* Two calls that generate,                                                *)
LEMMA MakesTwo ==
  ASSUME NEW e, NEW f \in Field, NEW c \in MakeCall(e, f),
         NEW g \in Field, NEW d \in MakeCall(e, g)
  PROVE  Makes(e, <<c, d>>, {f, g})
BY DEF Makes, NamesIn, MakeCall, Generates, Object

(* three,                                                                  *)
LEMMA MakesThree ==
  ASSUME NEW e, NEW f \in Field, NEW c \in MakeCall(e, f),
         NEW g \in Field, NEW d \in MakeCall(e, g),
         NEW h \in Field, NEW x \in MakeCall(e, h)
  PROVE  Makes(e, <<c, d, x>>, {f, g, h})
BY DEF Makes, NamesIn, MakeCall, Generates, Object

(* four,                                                                   *)
LEMMA MakesFour ==
  ASSUME NEW e, NEW f \in Field, NEW c \in MakeCall(e, f),
         NEW g \in Field, NEW d \in MakeCall(e, g),
         NEW h \in Field, NEW x \in MakeCall(e, h),
         NEW i \in Field, NEW y \in MakeCall(e, i)
  PROVE  Makes(e, <<c, d, x, y>>, {f, g, h, i})
BY DEF Makes, NamesIn, MakeCall, Generates, Object

(* five.                                                                   *)
LEMMA MakesFive ==
  ASSUME NEW e, NEW f \in Field, NEW c \in MakeCall(e, f),
         NEW g \in Field, NEW d \in MakeCall(e, g),
         NEW h \in Field, NEW x \in MakeCall(e, h),
         NEW i \in Field, NEW y \in MakeCall(e, i),
         NEW j \in Field, NEW z \in MakeCall(e, j)
  PROVE  Makes(e, <<c, d, x, y, z>>, {f, g, h, i, j})
BY DEF Makes, NamesIn, MakeCall, Generates, Object

(* Lists of one to three calls that delete different objects.              *)
LEMMA FreesOne ==
  ASSUME NEW e \in Encoder, NEW f \in Field
  PROVE  Frees(e, <<destroy(Object(e, f))>>, {f})
BY OwnBind DEF Frees, NamesIn, destroy, Object

(* Two calls that delete,                                                  *)
LEMMA FreesTwo ==
  ASSUME NEW e \in Encoder, NEW f \in Field, NEW g \in Field, f # g
  PROVE  Frees(e, <<destroy(Object(e, f)), destroy(Object(e, g))>>, {f, g})
BY OwnBind DEF Frees, NamesIn, destroy, Object

(* three.                                                                  *)
LEMMA FreesThree ==
  ASSUME NEW e \in Encoder, NEW f \in Field, NEW g \in Field, NEW h \in Field,
         f # g, f # h, g # h
  PROVE  Frees(e, <<destroy(Object(e, f)), destroy(Object(e, g)), destroy(Object(e, h))>>,
               {f, g, h})
BY OwnBind DEF Frees, NamesIn, destroy, Object

-----------------------------------------------------------------------------
(* initResources.                                                          *)

stagingTex(e) == Object(e, "stagingTex")

(* main's switch: exactly one encoder class serves a codec.                *)
LEMMA OneEncoder ==
  ASSUME NEW r
  PROVE  /\ UsesETC1(r) => ~(UsesETC2(r) \/ UsesEAC(r) \/ UsesBC1(r) \/ UsesBC4(r) \/ UsesBC6H(r))
         /\ UsesETC2(r) => ~(UsesETC1(r) \/ UsesEAC(r) \/ UsesBC1(r) \/ UsesBC4(r) \/ UsesBC6H(r))
         /\ UsesEAC(r) => ~(UsesETC1(r) \/ UsesETC2(r) \/ UsesBC1(r) \/ UsesBC4(r) \/ UsesBC6H(r))
         /\ UsesBC1(r) => ~(UsesETC1(r) \/ UsesETC2(r) \/ UsesEAC(r) \/ UsesBC4(r) \/ UsesBC6H(r))
         /\ UsesBC4(r) => ~(UsesETC1(r) \/ UsesETC2(r) \/ UsesEAC(r) \/ UsesBC1(r) \/ UsesBC6H(r))
         /\ UsesBC6H(r) => ~(UsesETC1(r) \/ UsesETC2(r) \/ UsesEAC(r) \/ UsesBC1(r) \/ UsesBC4(r))
BY DEF UsesBC6H, UsesBC4, UsesBC1, UsesEAC, UsesETC1, UsesETC2

(* ... and every codec has one.                                            *)
LEMMA SomeEncoder ==
  ASSUME NEW r \in Request
  PROVE  \/ UsesETC1(r) \/ UsesETC2(r) \/ UsesEAC(r)
         \/ UsesBC1(r) \/ UsesBC4(r) \/ UsesBC6H(r)
BY RequestAssumption
   DEF Codec, UsesBC6H, UsesBC4, UsesBC1, UsesEAC, UsesETC1, UsesETC2

(* What the wrappers that create an object generate.                       *)
LEMMA CreateMakes ==
  ASSUME NEW e \in Encoder, NEW f \in Field
  PROVE  /\ createTexture(Object(e, f)) \in MakeCall(e, f)
         /\ createTextureArray(Object(e, f)) \in MakeCall(e, f)
         /\ createStagingTexture(Object(e, f)) \in MakeCall(e, f)
         /\ createUavBuffer(Object(e, f), "etc1_tables") \in MakeCall(e, f)
         /\ createUavBuffer(Object(e, f), "bc1_tables") \in MakeCall(e, f)
BY OwnCreate, OwnTables
   DEF MakeCall, Generates, createTexture, createTextureArray, createStagingTexture,
       createUavBuffer

(* createComputePso generates its program.                                 *)
LEMMA ProgramMakes ==
  ASSUME NEW e \in Encoder, NEW f \in Field, NEW glsl \in Shader
  PROVE  createComputePsoFromFile(Object(e, f), glsl) \in MakeCall(e, f)
BY OwnProgram DEF MakeCall, Generates, createComputePsoFromFile

(* uploadSource adds its staging buffer.                                   *)
LEMMA UploadRuns ==
  ASSUME NEW e \in Encoder, NEW L, Object(e, "m_srcTexture") \in L
  PROVE  Runs(e, uploadSource(e), L, L \cup {stagingTex(e)})
<1> DEFINE c == createStagingTexture(stagingTex(e))
           u == uploadStagingTexture(stagingTex(e), Object(e, "m_srcTexture"))
<1>1. uploadSource(e) = <<c, u>> /\ uploadSource(e) \in Seq(OwnCall(e))
  BY OwnUpload DEF uploadSource, stagingTex
<1>2. Generates(c, stagingTex(e))
  BY CreateMakes DEF MakeCall, stagingTex, Field
<1>3. /\ u.op \notin {"create", "destroy"}
      /\ Named(u) \subseteq L \cup {stagingTex(e)}
  BY DEF uploadStagingTexture, Named
<1> HIDE DEF c, u
<1>4. /\ 1 \in DOMAIN <<c, u>> /\ <<c, u>>[1] = c
      /\ \A k \in DOMAIN <<c, u>> \ {1} : 1 < k /\ <<c, u>>[k] = u
  OBVIOUS
<1> DEFINE s == <<c, u>>
<1>5. /\ s \in Seq(OwnCall(e)) /\ 1 \in DOMAIN s /\ Generates(s[1], stagingTex(e))
      /\ \A k \in DOMAIN s \ {1} :
           /\ s[k].op \notin {"create", "destroy"}
           /\ Named(s[k]) \subseteq IF 1 < k THEN L \cup {stagingTex(e)} ELSE L
  BY <1>1, <1>2, <1>3, <1>4
<1> HIDE DEF s
<1>6. Runs(e, s, L, L \cup {stagingTex(e)})
  BY <1>5, RunsScratch
<1> QED
  BY <1>1, <1>6 DEF s

(* Destroying one object that exists removes it.                           *)
LEMMA DestroyRuns ==
  ASSUME NEW e \in Encoder, NEW f \in Field, NEW L, Object(e, f) \in L
  PROVE  Runs(e, <<destroy(Object(e, f))>>, L, L \ {Object(e, f)})
<1>1. {e} \X {f} = {Object(e, f)}
  BY DEF Object
<1>2. Frees(e, <<destroy(Object(e, f))>>, {f})
  BY FreesOne
<1> QED
  BY <1>1, <1>2, RunsFrees

(* The end of every initResources but BC6H's: the source is uploaded and   *)
(* the staging buffer is gone again.                                       *)
LEMMA InitRuns ==
  ASSUME NEW e \in Encoder, NEW s, NEW F, Makes(e, s, F), "m_srcTexture" \in F, NEW L
  PROVE  /\ Runs(e, s \o uploadSource(e), L, L \cup ({e} \X F) \cup {stagingTex(e)})
         /\ Runs(e, s \o uploadSource(e) \o <<destroy(stagingTex(e))>>, L,
                 (L \cup ({e} \X F)) \ {stagingTex(e)})
<1> DEFINE M == L \cup ({e} \X F)
<1>1. Runs(e, s, L, M)
  BY RunsMakes
<1>2. Object(e, "m_srcTexture") \in M
  BY DEF Object
<1> HIDE DEF M
<1>3. Runs(e, uploadSource(e), M, M \cup {stagingTex(e)})
  BY <1>2, UploadRuns
<1>4. Runs(e, s \o uploadSource(e), L, M \cup {stagingTex(e)})
  BY <1>1, <1>3, RunsConcat
<1>5. Runs(e, <<destroy(stagingTex(e))>>, M \cup {stagingTex(e)},
           (M \cup {stagingTex(e)}) \ {stagingTex(e)})
  BY DestroyRuns DEF stagingTex, Field
<1>6. (M \cup {stagingTex(e)}) \ {stagingTex(e)} = M \ {stagingTex(e)}
  OBVIOUS
<1> QED
  BY <1>4, <1>5, <1>6, RunsConcat DEF M

(* What EncoderETC1::initResources generates before the upload.            *)
LEMMA ETC1Init ==
  ASSUME NEW e \in Encoder, NEW r \in Request, NEW L
  PROVE  Runs(e, ETC1_initResources(e, r), L,
              (L \cup ({e} \X EtcFields(r))) \ {stagingTex(e)})
<1> DEFINE a1 == <<createTexture(Object(e, "m_srcTexture"))>>
           a2 == <<createTexture(Object(e, "m_ditheredTexture")),
                   createComputePsoFromFile(Object(e, "m_ditherPso"), "dither555.glsl")>>
           a3 == <<createTexture(Object(e, "m_compressTargetRes"))>>
           a4 == <<createTexture(Object(e, "m_etc1Error"))>>
           a5 == <<createTexture(Object(e, "m_dstTexture")),
                   createUavBuffer(Object(e, "m_etc1TablesSsbo"), "etc1_tables"),
                   createComputePsoFromFile(Object(e, "m_compressPso"),
                     IF forEtc2(r) THEN "etc1_with_error.glsl" ELSE "etc1.glsl")>>
           a6 == <<createTexture(Object(e, "m_eacTargetRes")),
                   createTexture(Object(e, "m_stitchedTarget")),
                   createComputePsoFromFile(Object(e, "m_eacPso"), "eac.glsl")>>
           a7 == <<createComputePsoFromFile(Object(e, "m_stitchPso"),
                                            "etc2_rgba_stitch.glsl")>>
           dith == IF r.dither THEN {"m_ditheredTexture", "m_ditherPso"} ELSE {}
           err == IF forEtc2(r) THEN {"m_etc1Error"} ELSE {}
           alpha == IF hasAlpha(r)
                      THEN {"m_eacTargetRes", "m_stitchedTarget", "m_eacPso"}
                             \cup (IF ~forEtc2(r) THEN {"m_stitchPso"} ELSE {})
                      ELSE {}
<1>1. Makes(e, a1, {"m_srcTexture"})
  BY MakesOne, CreateMakes DEF Field
<1>2. Makes(e, a2, {"m_ditheredTexture", "m_ditherPso"})
  BY MakesTwo, CreateMakes, ProgramMakes DEF Field, Shader
<1>3. Makes(e, a3, {"m_compressTargetRes"})
  BY MakesOne, CreateMakes DEF Field
<1>4. Makes(e, a4, {"m_etc1Error"})
  BY MakesOne, CreateMakes DEF Field
<1>5. Makes(e, a5, {"m_dstTexture", "m_etc1TablesSsbo", "m_compressPso"})
  <2>1. /\ createTexture(Object(e, "m_dstTexture")) \in MakeCall(e, "m_dstTexture")
        /\ createUavBuffer(Object(e, "m_etc1TablesSsbo"), "etc1_tables")
             \in MakeCall(e, "m_etc1TablesSsbo")
    BY CreateMakes DEF Field
  <2>2. createComputePsoFromFile(Object(e, "m_compressPso"),
          IF forEtc2(r) THEN "etc1_with_error.glsl" ELSE "etc1.glsl")
          \in MakeCall(e, "m_compressPso")
    BY ProgramMakes DEF Field, Shader
  <2>3. {"m_dstTexture", "m_etc1TablesSsbo", "m_compressPso"} \subseteq Field
    BY DEF Field
  <2> QED
    BY <2>1, <2>2, <2>3, MakesThree
<1>6. Makes(e, a6, {"m_eacTargetRes", "m_stitchedTarget", "m_eacPso"})
  <2>1. /\ createTexture(Object(e, "m_eacTargetRes")) \in MakeCall(e, "m_eacTargetRes")
        /\ createTexture(Object(e, "m_stitchedTarget")) \in MakeCall(e, "m_stitchedTarget")
        /\ createComputePsoFromFile(Object(e, "m_eacPso"), "eac.glsl")
             \in MakeCall(e, "m_eacPso")
    BY CreateMakes, ProgramMakes DEF Field, Shader
  <2>2. {"m_eacTargetRes", "m_stitchedTarget", "m_eacPso"} \subseteq Field
    BY DEF Field
  <2> QED
    BY <2>1, <2>2, MakesThree
<1>7. Makes(e, a7, {"m_stitchPso"})
  BY MakesOne, ProgramMakes DEF Field, Shader
<1>8. ETC1_initResources(e, r)
        = a1 \o When(r.dither, a2) \o a3 \o When(forEtc2(r), a4) \o a5
          \o When(hasAlpha(r), a6 \o When(~forEtc2(r), a7))
          \o uploadSource(e) \o <<destroy(stagingTex(e))>>
  BY DEF ETC1_initResources, stagingTex
<1> HIDE DEF a1, a2, a3, a4, a5, a6, a7
<1>9. /\ Makes(e, When(r.dither, a2), dith) /\ Makes(e, When(forEtc2(r), a4), err)
      /\ Makes(e, When(hasAlpha(r), a6 \o When(~forEtc2(r), a7)), alpha)
  BY <1>2, <1>4, <1>6, <1>7, MakesWhen, MakesConcat
<1> HIDE DEF dith, err, alpha
<1> DEFINE head == a1 \o When(r.dither, a2) \o a3 \o When(forEtc2(r), a4) \o a5
                   \o When(hasAlpha(r), a6 \o When(~forEtc2(r), a7))
           made == {"m_srcTexture"} \cup dith \cup {"m_compressTargetRes"} \cup err
                   \cup {"m_dstTexture", "m_etc1TablesSsbo", "m_compressPso"} \cup alpha
<1>10. Makes(e, head, made)
  BY <1>1, <1>3, <1>5, <1>9, MakesConcat
<1>11. made = EtcFields(r)
  BY DEF made, dith, err, alpha, EtcFields
<1> HIDE DEF head, made
<1>12. "m_srcTexture" \in made
  BY <1>11 DEF EtcFields
<1>13. Runs(e, head \o uploadSource(e) \o <<destroy(stagingTex(e))>>, L,
            (L \cup ({e} \X made)) \ {stagingTex(e)})
  BY <1>10, <1>12, InitRuns
<1> QED
  BY <1>8, <1>11, <1>13 DEF head

(* EncoderETC2 adds its own objects.                                       *)
LEMMA ETC2Init ==
  ASSUME NEW e \in Encoder, NEW r \in Request, NEW L
  PROVE  Runs(e, ETC2_initResources(e, r), L,
              ((L \cup ({e} \X EtcFields(r))) \ {stagingTex(e)}) \cup ({e} \X ModeFields))
<1> DEFINE a == createTexture(Object(e, "m_thModesTargetRes"))
           b == createTexture(Object(e, "m_thModesError"))
           c == createTextureArray(Object(e, "m_thModesC0C1"))
           d == createTexture(Object(e, "m_pModeTargetRes"))
           g == createTexture(Object(e, "m_pModeError"))
           h == createComputePsoFromFile(Object(e, "m_thModesPso"), "etc2_th.glsl")
           i == createComputePsoFromFile(Object(e, "m_thModesFindBestC0C1"),
                                         "etc2_th_find_best_c0c1_k_means.glsl")
           j == createComputePsoFromFile(Object(e, "m_pModePso"), "etc2_p.glsl")
           k == createComputePsoFromFile(Object(e, "m_stitchPso"),
                  IF hasAlpha(r) THEN "etc2_rgba_selector.glsl"
                                 ELSE "etc2_rgb_selector.glsl")
           s == <<a, b, c, d, g, h, i, j, k>>
<1>1. /\ a \in MakeCall(e, "m_thModesTargetRes") /\ b \in MakeCall(e, "m_thModesError")
      /\ c \in MakeCall(e, "m_thModesC0C1") /\ d \in MakeCall(e, "m_pModeTargetRes")
      /\ g \in MakeCall(e, "m_pModeError")
  BY CreateMakes DEF Field
<1>2. h \in MakeCall(e, "m_thModesPso") /\ i \in MakeCall(e, "m_thModesFindBestC0C1")
  BY ProgramMakes DEF Field, Shader
<1>3. j \in MakeCall(e, "m_pModePso") /\ k \in MakeCall(e, "m_stitchPso")
  BY ProgramMakes DEF Field, Shader
<1>4. ETC2_initResources(e, r) = ETC1_initResources(e, r) \o s
  BY DEF ETC2_initResources
<1> HIDE DEF a, b, c, d, g, h, i, j, k
<1>5. /\ \A x \in {a, b, c, d, g, h, i, j, k} : x \in OwnCall(e) /\ x.op = "create"
      /\ a.name = <<e, "m_thModesTargetRes">> /\ b.name = <<e, "m_thModesError">>
      /\ c.name = <<e, "m_thModesC0C1">> /\ d.name = <<e, "m_pModeTargetRes">>
      /\ g.name = <<e, "m_pModeError">> /\ h.name = <<e, "m_thModesPso">>
      /\ i.name = <<e, "m_thModesFindBestC0C1">> /\ j.name = <<e, "m_pModePso">>
      /\ k.name = <<e, "m_stitchPso">>
  BY <1>1, <1>2, <1>3 DEF MakeCall, Generates, Object
<1>6. s \in Seq({x \in OwnCall(e) : x.op = "create"})
  BY <1>5
<1>7. NamesIn(s) = {a.name, b.name, c.name, d.name, g.name, h.name, i.name, j.name, k.name}
  BY DEF NamesIn
<1>8. {a.name, b.name, c.name, d.name, g.name, h.name, i.name, j.name, k.name}
        = {e} \X ModeFields
  BY <1>5 DEF ModeFields
<1>9. Makes(e, s, ModeFields)
  BY <1>6, <1>7, <1>8 DEF Makes
<1> HIDE DEF s
<1> DEFINE M == (L \cup ({e} \X EtcFields(r))) \ {stagingTex(e)}
<1>10. Runs(e, ETC1_initResources(e, r), L, M)
  BY ETC1Init
<1> HIDE DEF M
<1>11. Runs(e, s, M, M \cup ({e} \X ModeFields))
  BY <1>9, RunsMakes
<1> QED
  BY <1>4, <1>10, <1>11, RunsConcat DEF M

(* EncoderEAC: the second channel and the stitching are there for RG11.    *)
LEMMA EACInit ==
  ASSUME NEW e \in Encoder, NEW r \in Request, UsesEAC(r), NEW L
  PROVE  Runs(e, EAC_initResources(e, r), L,
              (L \cup ({e} \X Resources(r))) \ {stagingTex(e)})
<1> DEFINE a1 == <<createTexture(Object(e, "m_srcTexture")),
                   createTexture(Object(e, "m_eacTargetRes[0]"))>>
           a2 == <<createTexture(Object(e, "m_eacTargetRes[1]"))>>
           a3 == <<createComputePsoFromFile(Object(e, "m_eacPso"), "eac_r11.glsl")>>
           a4 == <<createTexture(Object(e, "m_stitchedTarget")),
                   createComputePsoFromFile(Object(e, "m_stitchPso"),
                                            "etc2_rgba_stitch.glsl")>>
           f2 == IF rg11(r) THEN {"m_eacTargetRes[1]"} ELSE {}
           f4 == IF rg11(r) THEN {"m_stitchedTarget", "m_stitchPso"} ELSE {}
<1>1. Makes(e, a1, {"m_srcTexture", "m_eacTargetRes[0]"})
  BY MakesTwo, CreateMakes DEF Field
<1>2. Makes(e, a2, {"m_eacTargetRes[1]"})
  BY MakesOne, CreateMakes DEF Field
<1>3. Makes(e, a3, {"m_eacPso"})
  BY MakesOne, ProgramMakes DEF Field, Shader
<1>4. Makes(e, a4, {"m_stitchedTarget", "m_stitchPso"})
  BY MakesTwo, CreateMakes, ProgramMakes DEF Field, Shader
<1>5. EAC_initResources(e, r)
        = a1 \o When(rg11(r), a2) \o a3 \o When(rg11(r), a4)
          \o uploadSource(e) \o <<destroy(stagingTex(e))>>
  BY DEF EAC_initResources, stagingTex
<1> HIDE DEF a1, a2, a3, a4
<1>6. Makes(e, When(rg11(r), a2), f2) /\ Makes(e, When(rg11(r), a4), f4)
  BY <1>2, <1>4, MakesWhen
<1> HIDE DEF f2, f4
<1> DEFINE head == a1 \o When(rg11(r), a2) \o a3 \o When(rg11(r), a4)
           made == {"m_srcTexture", "m_eacTargetRes[0]"} \cup f2 \cup {"m_eacPso"} \cup f4
<1>7. Makes(e, head, made)
  BY <1>1, <1>3, <1>6, MakesConcat
<1>8. made = Resources(r) /\ "m_srcTexture" \in made
  BY OneEncoder DEF made, f2, f4, Resources
<1> HIDE DEF head, made
<1>9. Runs(e, head \o uploadSource(e) \o <<destroy(stagingTex(e))>>, L,
           (L \cup ({e} \X made)) \ {stagingTex(e)})
  BY <1>7, <1>8, InitRuns
<1> QED
  BY <1>5, <1>8, <1>9 DEF head

(* EncoderBC1: the alpha blocks and the stitching are there for BC3.       *)
LEMMA BC1Init ==
  ASSUME NEW e \in Encoder, NEW r \in Request, UsesBC1(r), NEW L
  PROVE  Runs(e, BC1_initResources(e, r), L,
              (L \cup ({e} \X Resources(r))) \ {stagingTex(e)})
<1> DEFINE x1 == createTexture(Object(e, "m_srcTexture"))
           x2 == createTexture(Object(e, "m_bc1TargetRes"))
           x3 == createTexture(Object(e, "m_dstTexture"))
           x4 == createUavBuffer(Object(e, "m_bc1TablesSsbo"), "bc1_tables")
           x5 == createComputePsoFromFile(Object(e, "m_bc1Pso"),
                   IF r.dither THEN "bc1_dither.glsl" ELSE "bc1.glsl")
           a2 == <<createTexture(Object(e, "m_bc4TargetRes")),
                   createTexture(Object(e, "m_stitchedTarget")),
                   createComputePsoFromFile(Object(e, "m_bc4Pso"), "bc4.glsl"),
                   createComputePsoFromFile(Object(e, "m_stitchPso"),
                                            "etc2_rgba_stitch.glsl")>>
           base == {"m_srcTexture", "m_bc1TargetRes", "m_dstTexture",
                    "m_bc1TablesSsbo", "m_bc1Pso"}
           f2 == IF useBC3(r) THEN {"m_bc4TargetRes", "m_stitchedTarget", "m_bc4Pso",
                                    "m_stitchPso"} ELSE {}
<1>1. /\ x1 \in MakeCall(e, "m_srcTexture") /\ x2 \in MakeCall(e, "m_bc1TargetRes")
      /\ x3 \in MakeCall(e, "m_dstTexture") /\ x4 \in MakeCall(e, "m_bc1TablesSsbo")
  BY CreateMakes DEF Field
<1>2. x5 \in MakeCall(e, "m_bc1Pso")
  BY ProgramMakes DEF Field, Shader
<1>3. base \subseteq Field
  BY DEF Field
<1>4. Makes(e, a2, {"m_bc4TargetRes", "m_stitchedTarget", "m_bc4Pso", "m_stitchPso"})
  <2>1. /\ createTexture(Object(e, "m_bc4TargetRes")) \in MakeCall(e, "m_bc4TargetRes")
        /\ createTexture(Object(e, "m_stitchedTarget")) \in MakeCall(e, "m_stitchedTarget")
    BY CreateMakes DEF Field
  <2>2. /\ createComputePsoFromFile(Object(e, "m_bc4Pso"), "bc4.glsl")
             \in MakeCall(e, "m_bc4Pso")
        /\ createComputePsoFromFile(Object(e, "m_stitchPso"), "etc2_rgba_stitch.glsl")
             \in MakeCall(e, "m_stitchPso")
    BY ProgramMakes DEF Field, Shader
  <2>3. {"m_bc4TargetRes", "m_stitchedTarget", "m_bc4Pso", "m_stitchPso"} \subseteq Field
    BY DEF Field
  <2> QED
    BY <2>1, <2>2, <2>3, MakesFour
<1>5. BC1_initResources(e, r)
        = <<x1, x2, x3, x4, x5>> \o When(useBC3(r), a2)
          \o uploadSource(e) \o <<destroy(stagingTex(e))>>
  BY DEF BC1_initResources, stagingTex
<1> HIDE DEF x1, x2, x3, x4, x5, a2
<1>6. Makes(e, <<x1, x2, x3, x4, x5>>, base)
  BY <1>1, <1>2, <1>3, MakesFive
<1>7. Makes(e, When(useBC3(r), a2), f2)
  BY <1>4, MakesWhen
<1> DEFINE head == <<x1, x2, x3, x4, x5>> \o When(useBC3(r), a2)
<1> HIDE DEF base, f2
<1>8. Makes(e, head, base \cup f2)
  BY <1>6, <1>7, MakesConcat
<1>9. base \cup f2 = Resources(r) /\ "m_srcTexture" \in base \cup f2
  BY OneEncoder DEF base, f2, Resources
<1> HIDE DEF head
<1>10. Runs(e, head \o uploadSource(e) \o <<destroy(stagingTex(e))>>, L,
            (L \cup ({e} \X (base \cup f2))) \ {stagingTex(e)})
  BY <1>8, <1>9, InitRuns
<1> QED
  BY <1>5, <1>9, <1>10 DEF head

(* EncoderBC4: the second channel and the stitching are there for BC5.     *)
LEMMA BC4Init ==
  ASSUME NEW e \in Encoder, NEW r \in Request, UsesBC4(r), NEW L
  PROVE  Runs(e, BC4_initResources(e, r), L,
              (L \cup ({e} \X Resources(r))) \ {stagingTex(e)})
<1> DEFINE a1 == <<createTexture(Object(e, "m_srcTexture")),
                   createTexture(Object(e, "m_bc4TargetRes[0]"))>>
           a2 == <<createTexture(Object(e, "m_bc4TargetRes[1]"))>>
           a3 == <<createComputePsoFromFile(Object(e, "m_bc4Pso"), "bc4.glsl")>>
           a4 == <<createTexture(Object(e, "m_stitchedTarget")),
                   createComputePsoFromFile(Object(e, "m_stitchPso"),
                                            "etc2_rgba_stitch.glsl")>>
           a5 == <<createTexture(Object(e, "m_dstTexture"))>>
           f2 == IF redGreen(r) THEN {"m_bc4TargetRes[1]"} ELSE {}
           f4 == IF redGreen(r) THEN {"m_stitchedTarget", "m_stitchPso"} ELSE {}
<1>1. Makes(e, a1, {"m_srcTexture", "m_bc4TargetRes[0]"})
  BY MakesTwo, CreateMakes DEF Field
<1>2. Makes(e, a2, {"m_bc4TargetRes[1]"}) /\ Makes(e, a5, {"m_dstTexture"})
  BY MakesOne, CreateMakes DEF Field
<1>3. Makes(e, a3, {"m_bc4Pso"})
  BY MakesOne, ProgramMakes DEF Field, Shader
<1>4. Makes(e, a4, {"m_stitchedTarget", "m_stitchPso"})
  BY MakesTwo, CreateMakes, ProgramMakes DEF Field, Shader
<1>5. BC4_initResources(e, r)
        = a1 \o When(redGreen(r), a2) \o a3 \o When(redGreen(r), a4) \o a5
          \o uploadSource(e) \o <<destroy(stagingTex(e))>>
  BY DEF BC4_initResources, stagingTex
<1> HIDE DEF a1, a2, a3, a4, a5
<1>6. Makes(e, When(redGreen(r), a2), f2) /\ Makes(e, When(redGreen(r), a4), f4)
  BY <1>2, <1>4, MakesWhen
<1> HIDE DEF f2, f4
<1> DEFINE head == a1 \o When(redGreen(r), a2) \o a3 \o When(redGreen(r), a4) \o a5
           made == {"m_srcTexture", "m_bc4TargetRes[0]"} \cup f2 \cup {"m_bc4Pso"}
                   \cup f4 \cup {"m_dstTexture"}
<1>7. Makes(e, head, made)
  BY <1>1, <1>2, <1>3, <1>6, MakesConcat
<1>8. made = Resources(r) /\ "m_srcTexture" \in made
  BY OneEncoder DEF made, f2, f4, Resources
<1> HIDE DEF head, made
<1>9. Runs(e, head \o uploadSource(e) \o <<destroy(stagingTex(e))>>, L,
           (L \cup ({e} \X made)) \ {stagingTex(e)})
  BY <1>7, <1>8, InitRuns
<1> QED
  BY <1>5, <1>8, <1>9 DEF head

(* EncoderBC6H keeps the upload buffer.                                    *)
LEMMA BC6HInit ==
  ASSUME NEW e \in Encoder, NEW r, NEW L
  PROVE  Runs(e, BC6H_initResources(e, r), L,
              L \cup ({e} \X {"m_srcTexture", "m_compressTargetRes", "m_dstTexture",
                               "m_compressPso"}) \cup {stagingTex(e)})
<1> DEFINE F == {"m_srcTexture", "m_compressTargetRes", "m_dstTexture", "m_compressPso"}
           s == <<createTexture(Object(e, "m_srcTexture")),
                  createTexture(Object(e, "m_compressTargetRes")),
                  createTexture(Object(e, "m_dstTexture")),
                  createComputePsoFromFile(Object(e, "m_compressPso"), "bc6h.glsl")>>
<1>1. /\ createTexture(Object(e, "m_srcTexture")) \in MakeCall(e, "m_srcTexture")
      /\ createTexture(Object(e, "m_compressTargetRes")) \in MakeCall(e, "m_compressTargetRes")
      /\ createTexture(Object(e, "m_dstTexture")) \in MakeCall(e, "m_dstTexture")
  BY CreateMakes DEF Field
<1>2. createComputePsoFromFile(Object(e, "m_compressPso"), "bc6h.glsl")
        \in MakeCall(e, "m_compressPso")
  BY ProgramMakes DEF Field, Shader
<1>3. F \subseteq Field
  BY DEF Field
<1>4. Makes(e, s, F)
  BY <1>1, <1>2, <1>3, MakesFour
<1>5. BC6H_initResources(e, r) = s \o uploadSource(e)
  BY DEF BC6H_initResources
<1>6. "m_srcTexture" \in F
  OBVIOUS
<1> HIDE DEF s, F
<1>7. Runs(e, s \o uploadSource(e), L, L \cup ({e} \X F) \cup {stagingTex(e)})
  BY <1>4, <1>6, InitRuns
<1> QED
  BY <1>5, <1>7 DEF F

(* After initResources the encoder's objects are those of Resources, and,  *)
(* with BC6H, the upload buffer.                                           *)
LEMMA InitResourcesRuns ==
  ASSUME NEW e \in Encoder, NEW r \in Request, NEW L, ({e} \X Field) \cap L = {}
  PROVE  \E M : /\ Runs(e, InitResourcesCalls(e, r), L, M)
                /\ {e} \X Resources(r) \subseteq M
                /\ \A f \in Field : Object(e, f) \in M => f \in Resources(r) \cup Scratch(r)
<1>1. /\ stagingTex(e) \in {e} \X {"stagingTex"}
      /\ "stagingTex" \notin EtcFields(r) \cup Resources(r) \cup ModeFields
  BY DEF stagingTex, Object, EtcFields, Resources, ModeFields
<1>2. \A f \in Field : Object(e, f) \notin L /\ Object(e, f) = <<e, f>>
  BY DEF Object
<1>3. CASE UsesETC1(r)
  <2> DEFINE M == (L \cup ({e} \X EtcFields(r))) \ {stagingTex(e)}
  <2>1. InitResourcesCalls(e, r) = ETC1_initResources(e, r)
    BY <1>3, OneEncoder DEF InitResourcesCalls
  <2>2. Runs(e, InitResourcesCalls(e, r), L, M)
    BY <1>3, <2>1, ETC1Init
  <2>3. Resources(r) = EtcFields(r)
    BY <1>3, OneEncoder DEF Resources, Scratch
  <2>4. {e} \X Resources(r) \subseteq M
    BY <1>1, <2>3
  <2>5. \A f \in Field : Object(e, f) \in M => f \in Resources(r) \cup Scratch(r)
    BY <1>1, <1>2, <2>3
  <2> QED
    BY <2>2, <2>4, <2>5
<1>4. CASE UsesETC2(r)
  <2> DEFINE M == ((L \cup ({e} \X EtcFields(r))) \ {stagingTex(e)}) \cup ({e} \X ModeFields)
  <2>1. InitResourcesCalls(e, r) = ETC2_initResources(e, r)
    BY <1>4, OneEncoder DEF InitResourcesCalls
  <2>2. Runs(e, InitResourcesCalls(e, r), L, M)
    BY <1>4, <2>1, ETC2Init
  <2>3. Resources(r) = EtcFields(r) \cup ModeFields
    BY <1>4, OneEncoder DEF Resources, Scratch
  <2>4. {e} \X Resources(r) \subseteq M
    BY <1>1, <2>3
  <2>5. \A f \in Field : Object(e, f) \in M => f \in Resources(r) \cup Scratch(r)
    BY <1>1, <1>2, <2>3
  <2> QED
    BY <2>2, <2>4, <2>5
<1>5. CASE UsesEAC(r)
  <2> DEFINE M == (L \cup ({e} \X Resources(r))) \ {stagingTex(e)}
  <2>1. InitResourcesCalls(e, r) = EAC_initResources(e, r)
    BY <1>5, OneEncoder DEF InitResourcesCalls
  <2>2. Runs(e, InitResourcesCalls(e, r), L, M)
    BY <1>5, <2>1, EACInit
  <2>3. {e} \X Resources(r) \subseteq M
    BY <1>1
  <2>4. \A f \in Field : Object(e, f) \in M => f \in Resources(r) \cup Scratch(r)
    BY <1>1, <1>2
  <2> QED
    BY <2>2, <2>3, <2>4
<1>6. CASE UsesBC1(r)
  <2> DEFINE M == (L \cup ({e} \X Resources(r))) \ {stagingTex(e)}
  <2>1. InitResourcesCalls(e, r) = BC1_initResources(e, r)
    BY <1>6, OneEncoder DEF InitResourcesCalls
  <2>2. Runs(e, InitResourcesCalls(e, r), L, M)
    BY <1>6, <2>1, BC1Init
  <2>3. {e} \X Resources(r) \subseteq M
    BY <1>1
  <2>4. \A f \in Field : Object(e, f) \in M => f \in Resources(r) \cup Scratch(r)
    BY <1>1, <1>2
  <2> QED
    BY <2>2, <2>3, <2>4
<1>7. CASE UsesBC4(r)
  <2> DEFINE M == (L \cup ({e} \X Resources(r))) \ {stagingTex(e)}
  <2>1. InitResourcesCalls(e, r) = BC4_initResources(e, r)
    BY <1>7, OneEncoder DEF InitResourcesCalls
  <2>2. Runs(e, InitResourcesCalls(e, r), L, M)
    BY <1>7, <2>1, BC4Init
  <2>3. {e} \X Resources(r) \subseteq M
    BY <1>1
  <2>4. \A f \in Field : Object(e, f) \in M => f \in Resources(r) \cup Scratch(r)
    BY <1>1, <1>2
  <2> QED
    BY <2>2, <2>3, <2>4
<1>8. CASE UsesBC6H(r)
  <2> DEFINE M == L \cup ({e} \X {"m_srcTexture", "m_compressTargetRes", "m_dstTexture",
                               "m_compressPso"}) \cup {stagingTex(e)}
  <2>1. InitResourcesCalls(e, r) = BC6H_initResources(e, r)
    BY <1>8, OneEncoder DEF InitResourcesCalls
  <2>2. Runs(e, InitResourcesCalls(e, r), L, M)
    BY <1>8, <2>1, BC6HInit
  <2>3. /\ Resources(r) = {"m_srcTexture", "m_compressTargetRes", "m_dstTexture",
                          "m_compressPso"}
        /\ Scratch(r) = {"stagingTex"}
    BY <1>8, OneEncoder DEF Resources, Scratch
  <2>4. {e} \X Resources(r) \subseteq M
    BY <1>1, <2>3
  <2>5. \A f \in Field : Object(e, f) \in M => f \in Resources(r) \cup Scratch(r)
    BY <1>1, <1>2, <2>3
  <2> QED
    BY <2>2, <2>4, <2>5
<1> QED
  BY <1>3, <1>4, <1>5, <1>6, <1>7, <1>8, SomeEncoder

-----------------------------------------------------------------------------
(* The execute methods use what initResources generated.                   *)

(* Binding fields in F, and calls that name no object, use F only.         *)
LEMMA UseBind ==
  ASSUME NEW e \in Encoder, NEW F \in SUBSET Field, NEW f \in F
  PROVE  /\ \A slot \in TexUnits : bindTexture(slot, Object(e, f)) \in UseCall(e, F)
         /\ bindUavBuffer(1, Object(e, f)) \in UseCall(e, F)
         /\ bindComputePso(Object(e, f)) \in UseCall(e, F)
         /\ \A slot \in ImageUnits, access \in {"Write", "ReadWrite"} :
              f # "m_downloadStaging" =>
                bindUav(slot, Object(e, f), access) \in UseCall(e, F)
BY OwnBind, OwnBindUav
   DEF UseCall, Named, bindTexture, bindUavBuffer, bindComputePso, bindUav, Object

(* A copy between fields in F uses F only.                                 *)
LEMMA UseCopy ==
  ASSUME NEW e \in Encoder, NEW F \in SUBSET Field, NEW f \in F, NEW g \in F
  PROVE  copyImage(Object(e, f), Object(e, g)) \in UseCall(e, F)
BY OwnTransfer DEF UseCall, Named, copyImage, Object

(* Calls that name no object use F only.                                   *)
LEMMA UsePlain ==
  ASSUME NEW e \in Encoder, NEW F
  PROVE  /\ glDispatchCompute \in UseCall(e, F)
         /\ glFinish \in UseCall(e, F)
         /\ \A v \in Int : glUniform(<<v>>) \in UseCall(e, F)
         /\ \A v, w \in Int : glUniform(<<v, w>>) \in UseCall(e, F)
         /\ \A bits \in SUBSET Bit : glMemoryBarrier(bits) \in UseCall(e, F)
BY OwnPlain
   DEF UseCall, Named, glDispatchCompute, glFinish, glUniform, glMemoryBarrier

(* EncoderETC1's and, as its base, EncoderETC2's.                          *)
LEMMA ETC1Uses ==
  ASSUME NEW e \in Encoder, NEW r \in Request, NEW F \in SUBSET Field,
         EtcFields(r) \subseteq F
  PROVE  /\ ETC1_execute00(e, r) \in Seq(UseCall(e, F))
         /\ ETC1_execute01(e, r) \in Seq(UseCall(e, F))
         /\ ~forEtc2(r) => ETC1_execute02(e, r) \in Seq(UseCall(e, F))
<1>1. /\ {"m_srcTexture", "m_compressTargetRes", "m_etc1TablesSsbo", "m_compressPso"}
           \subseteq F
      /\ r.dither => {"m_ditheredTexture", "m_ditherPso"} \subseteq F
      /\ forEtc2(r) => "m_etc1Error" \in F
      /\ hasAlpha(r) => {"m_eacTargetRes", "m_stitchedTarget", "m_eacPso"} \subseteq F
      /\ hasAlpha(r) /\ ~forEtc2(r) => "m_stitchPso" \in F
      /\ ditheredTexture(r) \in F
  BY DEF EtcFields, ditheredTexture
<1>2. ETC1_execute00(e, r) \in Seq(UseCall(e, F))
  BY <1>1, UseBind, UsePlain DEF ETC1_execute00, When, TexUnits, ImageUnits, Bit
<1>3. ETC1_execute01(e, r) \in Seq(UseCall(e, F))
  BY <1>1, RequestType, UseBind, UsePlain DEF ETC1_execute01, When, TexUnits, ImageUnits
<1>4. ~forEtc2(r) => ETC1_execute02(e, r) \in Seq(UseCall(e, F))
  BY <1>1, UseBind, UsePlain DEF ETC1_execute02, When, TexUnits, ImageUnits, Bit
<1> QED
  BY <1>2, <1>3, <1>4

(* EncoderETC2's own.                                                      *)
LEMMA ETC2Uses ==
  ASSUME NEW e \in Encoder, NEW r \in Request, UsesETC2(r), NEW F \in SUBSET Field,
         EtcFields(r) \cup ModeFields \subseteq F
  PROVE  /\ ETC2_execute00(e, r) \in Seq(UseCall(e, F))
         /\ ETC2_execute01(e, r) \in Seq(UseCall(e, F))
         /\ ETC2_execute02(e, r) \in Seq(UseCall(e, F))
<1>1. /\ {"m_srcTexture", "m_compressTargetRes", "m_etc1Error"} \subseteq F
      /\ {"m_thModesTargetRes", "m_thModesError", "m_thModesC0C1"} \subseteq F
      /\ {"m_pModeTargetRes", "m_pModeError"} \subseteq F
      /\ {"m_thModesPso", "m_thModesFindBestC0C1", "m_pModePso", "m_stitchPso"} \subseteq F
      /\ hasAlpha(r) => {"m_eacTargetRes", "m_stitchedTarget"} \subseteq F
      /\ ditheredTexture(r) \in F
  BY DEF EtcFields, ModeFields, ditheredTexture, UsesETC2, forEtc2
<1>2. ETC2_execute00(e, r) \in Seq(UseCall(e, F))
  BY <1>1, ETC1Uses, UseBind, UsePlain DEF ETC2_execute00, TexUnits, ImageUnits, Bit
<1>3. ETC2_execute01(e, r) \in Seq(UseCall(e, F))
  BY <1>1, ETC1Uses, UseBind, UsePlain DEF ETC2_execute01, TexUnits, ImageUnits
<1>4. ETC2_execute02(e, r) \in Seq(UseCall(e, F))
  BY <1>1, UseBind, UsePlain DEF ETC2_execute02, TexUnits, ImageUnits, Bit
<1> QED
  BY <1>2, <1>3, <1>4

(* EncoderEAC's.                                                           *)
LEMMA EACUses ==
  ASSUME NEW e \in Encoder, NEW r \in Request, UsesEAC(r), NEW F \in SUBSET Field,
         Resources(r) \subseteq F
  PROVE  /\ EAC_execute01(e, r) \in Seq(UseCall(e, F))
         /\ EAC_execute02(e, r) \in Seq(UseCall(e, F))
<1>1. /\ {"m_srcTexture", "m_eacTargetRes[0]", "m_eacPso"} \subseteq F
      /\ rg11(r) => {"m_eacTargetRes[1]", "m_stitchedTarget", "m_stitchPso"} \subseteq F
  BY OneEncoder DEF Resources
<1>2. EAC_execute01(e, r) \in Seq(UseCall(e, F))
  BY <1>1, UseBind, UsePlain
     DEF EAC_execute01, EAC_compressChannel, When, TexUnits, ImageUnits
<1>3. EAC_execute02(e, r) \in Seq(UseCall(e, F))
  BY <1>1, UseBind, UsePlain DEF EAC_execute02, When, TexUnits, ImageUnits, Bit
<1> QED
  BY <1>2, <1>3

(* EncoderBC1's.                                                           *)
LEMMA BC1Uses ==
  ASSUME NEW e \in Encoder, NEW r \in Request, UsesBC1(r), NEW F \in SUBSET Field,
         Resources(r) \subseteq F
  PROVE  /\ BC1_execute01(e, r) \in Seq(UseCall(e, F))
         /\ BC1_execute02(e, r) \in Seq(UseCall(e, F))
         /\ BC1_execute03(e, r) \in Seq(UseCall(e, F))
<1>1. /\ {"m_srcTexture", "m_bc1TargetRes", "m_dstTexture", "m_bc1TablesSsbo",
          "m_bc1Pso"} \subseteq F
      /\ useBC3(r) => {"m_bc4TargetRes", "m_stitchedTarget", "m_bc4Pso", "m_stitchPso"}
                        \subseteq F
      /\ BC1_resultTexture(r) \in F
  BY OneEncoder DEF Resources, BC1_resultTexture
<1>2. BC1_execute01(e, r) \in Seq(UseCall(e, F))
  BY <1>1, UseBind, UsePlain DEF BC1_execute01, When, TexUnits, ImageUnits
<1>3. BC1_execute02(e, r) \in Seq(UseCall(e, F))
  BY <1>1, UseBind, UsePlain DEF BC1_execute02, When, TexUnits, ImageUnits, Bit
<1>4. BC1_execute03(e, r) \in Seq(UseCall(e, F))
  BY <1>1, UseCopy, UsePlain DEF BC1_execute03, Bit
<1> QED
  BY <1>2, <1>3, <1>4

(* EncoderBC4's.                                                           *)
LEMMA BC4Uses ==
  ASSUME NEW e \in Encoder, NEW r \in Request, UsesBC4(r), NEW F \in SUBSET Field,
         Resources(r) \subseteq F
  PROVE  /\ BC4_execute01(e, r) \in Seq(UseCall(e, F))
         /\ BC4_execute02(e, r) \in Seq(UseCall(e, F))
         /\ BC4_execute03(e, r) \in Seq(UseCall(e, F))
<1>1. /\ {"m_srcTexture", "m_bc4TargetRes[0]", "m_bc4Pso", "m_dstTexture"} \subseteq F
      /\ redGreen(r) => {"m_bc4TargetRes[1]", "m_stitchedTarget", "m_stitchPso"} \subseteq F
      /\ BC4_resultTexture(r) \in F
  BY OneEncoder DEF Resources, BC4_resultTexture
<1>2. BC4_execute01(e, r) \in Seq(UseCall(e, F))
  BY <1>1, UseBind, UsePlain
     DEF BC4_execute01, BC4_compressChannel, When, TexUnits, ImageUnits
<1>3. BC4_execute02(e, r) \in Seq(UseCall(e, F))
  BY <1>1, UseBind, UsePlain DEF BC4_execute02, When, TexUnits, ImageUnits, Bit
<1>4. BC4_execute03(e, r) \in Seq(UseCall(e, F))
  BY <1>1, UseCopy, UsePlain DEF BC4_execute03, Bit
<1> QED
  BY <1>2, <1>3, <1>4

(* EncoderBC6H's.                                                          *)
LEMMA BC6HUses ==
  ASSUME NEW e \in Encoder, NEW r \in Request, UsesBC6H(r), NEW F \in SUBSET Field,
         Resources(r) \subseteq F
  PROVE  BC6H_execute01(e, r) \in Seq(UseCall(e, F))
<1>1. {"m_srcTexture", "m_compressTargetRes", "m_compressPso"} \subseteq F
  BY OneEncoder DEF Resources
<1> QED
  BY <1>1, UseBind, UsePlain DEF BC6H_execute01, TexUnits, ImageUnits

(* The resources are fields, none of them a staging buffer.                *)
LEMMA ResourcesAreFields ==
  ASSUME NEW r \in Request
  PROVE  /\ Resources(r) \in SUBSET Field
         /\ "m_downloadStaging" \notin Resources(r) /\ "stagingTex" \notin Resources(r)
BY SomeEncoder, OneEncoder DEF Resources, EtcFields, ModeFields, Field

(* execute00, 01 and 02 leave all objects as they are.                     *)
LEMMA ExecuteRuns ==
  ASSUME NEW e \in Encoder, NEW r \in Request, NEW L, {e} \X Resources(r) \subseteq L
  PROVE  /\ UsesETC1(r) => Runs(e, ETC1_execute00(e, r), L, L)
         /\ UsesETC2(r) => Runs(e, ETC2_execute00(e, r), L, L)
         /\ Runs(e, Execute01Calls(e, r), L, L)
         /\ Has02(r) => Runs(e, Execute02Calls(e, r), L, L)
<1> DEFINE F == Resources(r)
<1>1. F \in SUBSET Field
  BY ResourcesAreFields
<1>2. \A s \in Seq(UseCall(e, F)) : Runs(e, s, L, L)
  BY RunsUses
<1>3. CASE UsesETC1(r)
  <2>1. /\ EtcFields(r) \subseteq F /\ ~forEtc2(r) /\ ~UsesETC2(r)
        /\ Execute01Calls(e, r) = ETC1_execute01(e, r)
        /\ Execute02Calls(e, r) = ETC1_execute02(e, r)
    BY <1>3, OneEncoder DEF Resources, Execute01Calls, Execute02Calls, forEtc2, UsesETC2
  <2> HIDE DEF F
  <2> QED
    BY <1>1, <1>2, <2>1, ETC1Uses
<1>4. CASE UsesETC2(r)
  <2>1. /\ EtcFields(r) \cup ModeFields \subseteq F /\ ~UsesETC1(r)
        /\ Execute01Calls(e, r) = ETC2_execute01(e, r)
        /\ Execute02Calls(e, r) = ETC2_execute02(e, r)
    BY <1>4, OneEncoder DEF Resources, Execute01Calls, Execute02Calls
  <2> HIDE DEF F
  <2> QED
    BY <1>1, <1>2, <1>4, <2>1, ETC2Uses
<1>5. CASE UsesEAC(r)
  <2>1. /\ ~UsesETC1(r) /\ ~UsesETC2(r)
        /\ Execute01Calls(e, r) = EAC_execute01(e, r)
        /\ Execute02Calls(e, r) = EAC_execute02(e, r)
    BY <1>5, OneEncoder DEF Execute01Calls, Execute02Calls
  <2> QED
    BY <1>1, <1>2, <1>5, <2>1, EACUses
<1>6. CASE UsesBC1(r)
  <2>1. /\ ~UsesETC1(r) /\ ~UsesETC2(r)
        /\ Execute01Calls(e, r) = BC1_execute01(e, r)
        /\ Execute02Calls(e, r) = BC1_execute02(e, r)
    BY <1>6, OneEncoder DEF Execute01Calls, Execute02Calls
  <2> QED
    BY <1>1, <1>2, <1>6, <2>1, BC1Uses
<1>7. CASE UsesBC4(r)
  <2>1. /\ ~UsesETC1(r) /\ ~UsesETC2(r)
        /\ Execute01Calls(e, r) = BC4_execute01(e, r)
        /\ Execute02Calls(e, r) = BC4_execute02(e, r)
    BY <1>7, OneEncoder DEF Execute01Calls, Execute02Calls
  <2> QED
    BY <1>1, <1>2, <1>7, <2>1, BC4Uses
<1>8. CASE UsesBC6H(r)
  <2>1. /\ ~UsesETC1(r) /\ ~UsesETC2(r) /\ ~Has02(r)
        /\ Execute01Calls(e, r) = BC6H_execute01(e, r)
    BY <1>8, OneEncoder DEF Execute01Calls, Has02
  <2> QED
    BY <1>1, <1>2, <1>8, <2>1, BC6HUses
<1> QED
  BY <1>3, <1>4, <1>5, <1>6, <1>7, <1>8, SomeEncoder

-----------------------------------------------------------------------------
(* execute03 and startDownload.                                            *)

(* A list extended by one call, element by element.                        *)
LEMMA AppendTuple ==
  ASSUME NEW a, NEW b, NEW c, NEW d, NEW f, NEW g
  PROVE  <<a, b, c, d, f>> \o <<g>> = <<a, b, c, d, f, g>>
<1> DEFINE S == {a, b, c, d, f, g}
<1>1. /\ <<a, b, c, d, f>> \in Seq(S) /\ <<g>> \in Seq(S)
      /\ <<a, b, c, d, f, g>> \in Seq(S)
      /\ Len(<<a, b, c, d, f>>) = 5 /\ Len(<<g>>) = 1
      /\ Len(<<a, b, c, d, f, g>>) = 6
  OBVIOUS
<1> HIDE DEF S
<1>2. /\ <<a, b, c, d, f>> \o <<g>> \in Seq(S) /\ Len(<<a, b, c, d, f>> \o <<g>>) = 6
      /\ \A i \in 1 .. 6 : (<<a, b, c, d, f>> \o <<g>>)[i]
                            = IF i <= 5 THEN <<a, b, c, d, f>>[i] ELSE <<g>>[i - 5]
  BY <1>1, ConcatProperties
<1>3. \A i \in 1 .. 6 : (<<a, b, c, d, f>> \o <<g>>)[i] = <<a, b, c, d, f, g>>[i]
  BY <1>2
<1> QED
  BY <1>1, <1>2, <1>3, SeqEqual

(* EncoderETC1::execute03 deletes its staging buffer.                      *)
LEMMA ETC1Execute03Runs ==
  ASSUME NEW e \in Encoder, NEW r \in Request, NEW L, {e} \X EtcFields(r) \subseteq L
  PROVE  Runs(e, ETC1_execute03(e, r), L, L \ {stagingTex(e)})
<1> DEFINE a == glMemoryBarrier({"TEXTURE_UPDATE", "SHADER_IMAGE_ACCESS"})
           b == copyImage(Object(e, "m_compressTargetRes"), Object(e, "m_dstTexture"))
           c == createStagingTexture(stagingTex(e))
           d == downloadStagingTexture(Object(e, "m_compressTargetRes"), stagingTex(e), 8)
           g == destroy(stagingTex(e))
           s == <<a, b, c, d, glFinish>>
<1>1. ETC1_execute03(e, r) = <<a, b, c, d, glFinish, g>>
  BY DEF ETC1_execute03, stagingTex
<1>2. {a, b, c, d, glFinish} \subseteq OwnCall(e)
  BY OwnPlain, OwnCreate, OwnTransfer DEF Field, Bit, stagingTex
<1>3. Object(e, "m_compressTargetRes") \in L /\ Object(e, "m_dstTexture") \in L
  BY DEF EtcFields, Object
<1>4. /\ Generates(c, stagingTex(e))
      /\ \A x \in {a, b, d, glFinish} : x.op \notin {"create", "destroy"}
      /\ Named(a) = {} /\ Named(glFinish) = {} /\ Named(b) \subseteq L
      /\ Named(d) \subseteq L \cup {stagingTex(e)}
  BY <1>3 DEF Generates, glMemoryBarrier, copyImage, createStagingTexture,
              downloadStagingTexture, glFinish, Named
<1>5. Runs(e, <<g>>, L \cup {stagingTex(e)}, (L \cup {stagingTex(e)}) \ {stagingTex(e)})
  BY DestroyRuns DEF stagingTex, Field
<1> HIDE DEF a, b, c, d, g
<1>6. /\ s \in Seq(OwnCall(e)) /\ 3 \in DOMAIN s /\ s[3] = c
      /\ \A k \in DOMAIN s \ {3} :
           s[k] \in {a, b, d, glFinish} /\ (s[k] = d => k = 4 \/ d \in {a, b, glFinish})
  BY <1>2
<1>7. \A k \in DOMAIN s \ {3} :
        /\ s[k].op \notin {"create", "destroy"}
        /\ Named(s[k]) \subseteq IF 3 < k THEN L \cup {stagingTex(e)} ELSE L
  BY <1>4, <1>6
<1> HIDE DEF s
<1>8. Runs(e, s, L, L \cup {stagingTex(e)})
  BY <1>4, <1>6, <1>7, RunsScratch
<1>9. Runs(e, s \o <<g>>, L, (L \cup {stagingTex(e)}) \ {stagingTex(e)})
  BY <1>5, <1>8, RunsConcat
<1>10. s \o <<g>> = <<a, b, c, d, glFinish, g>>
  BY AppendTuple DEF s
<1>11. (L \cup {stagingTex(e)}) \ {stagingTex(e)} = L \ {stagingTex(e)}
  OBVIOUS
<1> QED
  BY <1>1, <1>9, <1>10, <1>11

(* EncoderETC2::execute03 keeps it.                                        *)
LEMMA ETC2Execute03Runs ==
  ASSUME NEW e \in Encoder, NEW r \in Request, NEW L,
         {e} \X (EtcFields(r) \cup ModeFields) \subseteq L
  PROVE  Runs(e, ETC2_execute03(e, r), L, L \cup {stagingTex(e)})
<1> DEFINE a == copyImage(Object(e, ETC2_resultTexture(r)), Object(e, "m_dstTexture"))
           b == createStagingTexture(stagingTex(e))
           c == downloadStagingTexture(Object(e, "m_pModeTargetRes"), stagingTex(e), 8)
           s == <<a, b, c, glFinish>>
<1>1. ETC2_execute03(e, r) = s
  BY DEF ETC2_execute03, stagingTex
<1>2. s \in Seq(OwnCall(e))
  BY <1>1, ETC2Calls
<1>3. /\ Object(e, ETC2_resultTexture(r)) \in L /\ Object(e, "m_dstTexture") \in L
      /\ Object(e, "m_pModeTargetRes") \in L
  BY DEF ETC2_resultTexture, EtcFields, ModeFields, Object
<1>4. /\ Generates(b, stagingTex(e))
      /\ \A x \in {a, c, glFinish} : x.op \notin {"create", "destroy"}
      /\ Named(glFinish) = {} /\ Named(a) \subseteq L
      /\ Named(c) \subseteq L \cup {stagingTex(e)}
  BY <1>3 DEF Generates, copyImage, createStagingTexture, downloadStagingTexture,
              glFinish, Named
<1> HIDE DEF a, b, c
<1>5. /\ 2 \in DOMAIN s /\ s[2] = b
      /\ \A k \in DOMAIN s \ {2} :
           s[k] \in {a, c, glFinish} /\ (s[k] = c => k = 3 \/ c \in {a, glFinish})
  OBVIOUS
<1>6. \A k \in DOMAIN s \ {2} :
        /\ s[k].op \notin {"create", "destroy"}
        /\ Named(s[k]) \subseteq IF 2 < k THEN L \cup {stagingTex(e)} ELSE L
  BY <1>4, <1>5
<1> HIDE DEF s
<1> QED
  BY <1>1, <1>2, <1>4, <1>5, <1>6, RunsScratch

(* main calls execute03 for the encoders that loop.                        *)
LEMMA Execute03Runs ==
  ASSUME NEW e \in Encoder, NEW r \in Request, Loops(r),
         NEW L, {e} \X Resources(r) \subseteq L
  PROVE  \E M : /\ Runs(e, Execute03Calls(e, r), L, M)
                /\ {e} \X Resources(r) \subseteq M
                /\ \A f \in Field \ Scratch(r) : Object(e, f) \in M => Object(e, f) \in L
<1>1. /\ stagingTex(e) \notin {e} \X Resources(r)
      /\ \A f \in Field : Object(e, f) = stagingTex(e) => f = "stagingTex"
  BY ResourcesAreFields DEF stagingTex, Object
<1>2. CASE UsesETC1(r)
  <2>1. Execute03Calls(e, r) = ETC1_execute03(e, r) /\ Resources(r) = EtcFields(r)
    BY <1>2, OneEncoder DEF Execute03Calls, Resources
  <2>2. Runs(e, Execute03Calls(e, r), L, L \ {stagingTex(e)})
    BY <2>1, ETC1Execute03Runs
  <2> QED
    BY <1>1, <2>2
<1>3. CASE UsesETC2(r)
  <2>1. /\ Execute03Calls(e, r) = ETC2_execute03(e, r)
        /\ Resources(r) = EtcFields(r) \cup ModeFields
        /\ Scratch(r) = {"stagingTex"}
    BY <1>3, OneEncoder DEF Execute03Calls, Resources, Scratch
  <2>2. Runs(e, Execute03Calls(e, r), L, L \cup {stagingTex(e)})
    BY <2>1, ETC2Execute03Runs
  <2> QED
    BY <1>1, <2>1, <2>2
<1>4. CASE UsesBC1(r)
  <2>1. Execute03Calls(e, r) = BC1_execute03(e, r)
    BY <1>4, OneEncoder DEF Execute03Calls
  <2>2. Runs(e, Execute03Calls(e, r), L, L)
    BY <1>4, <2>1, ResourcesAreFields, BC1Uses, RunsUses
  <2> QED
    BY <2>2
<1>5. CASE UsesBC4(r)
  <2>1. Execute03Calls(e, r) = BC4_execute03(e, r)
    BY <1>5, OneEncoder DEF Execute03Calls
  <2>2. Runs(e, Execute03Calls(e, r), L, L)
    BY <1>5, <2>1, ResourcesAreFields, BC4Uses, RunsUses
  <2> QED
    BY <2>2
<1> QED
  BY <1>2, <1>3, <1>4, <1>5, SomeEncoder DEF Loops

(* The download replaces the download buffer by a new one.                 *)
LEMMA DownloadRuns ==
  ASSUME NEW e \in Encoder, NEW L, NEW f \in Field, f # "m_downloadStaging",
         Object(e, f) \in L, NEW n \in Nat
  PROVE  Runs(e, downloadResult(e, L, f, n), L, L \cup {staging(e)})
<1> DEFINE a == glMemoryBarrier({"PIXEL_BUFFER"})
           c == createStagingTexture(staging(e))
           t == downloadStagingTexture(Object(e, f), staging(e), n)
           s == <<c, t>>
           M == L \ {staging(e)}
<1>1. downloadResult(e, L, f, n) = <<a>> \o destroyDownloadStaging(e, L) \o s
  BY DEF downloadResult, staging
<1>2. Runs(e, <<a>>, L, L)
  <2>1. a \in UseCall(e, {})
    BY UsePlain DEF Bit
  <2>2. <<a>> \in Seq(UseCall(e, {})) /\ {e} \X {} \subseteq L
    BY <2>1
  <2> QED
    BY <2>2, RunsUses
<1>3. Runs(e, destroyDownloadStaging(e, L), L, M)
  <2>1. CASE staging(e) \in L
    BY <2>1, DestroyRuns DEF destroyDownloadStaging, When, staging, Field
  <2>2. CASE staging(e) \notin L
    <3>1. destroyDownloadStaging(e, L) = <<>> /\ M = L
      BY <2>2 DEF destroyDownloadStaging, When, staging
    <3>2. <<>> \in Seq(UseCall(e, {})) /\ {e} \X {} \subseteq L
      OBVIOUS
    <3>3. Runs(e, <<>>, L, L)
      BY <3>2, RunsUses
    <3> HIDE DEF M
    <3> QED
      BY <3>1, <3>3
  <2> QED
    BY <2>1, <2>2
<1>4. Object(e, f) \in M
  BY DEF staging, Object
<1>5. c \in OwnCall(e) /\ t \in OwnCall(e)
  BY OwnCreate, OwnTransfer DEF staging, Field
<1>6. /\ Generates(c, staging(e)) /\ t.op \notin {"create", "destroy"}
      /\ Named(t) \subseteq M \cup {staging(e)}
  BY <1>4 DEF Generates, createStagingTexture, downloadStagingTexture, Named
<1> HIDE DEF a, c, t
<1>7. /\ s \in Seq(OwnCall(e)) /\ 1 \in DOMAIN s /\ Generates(s[1], staging(e))
      /\ \A k \in DOMAIN s \ {1} :
           /\ s[k].op \notin {"create", "destroy"}
           /\ Named(s[k]) \subseteq IF 1 < k THEN M \cup {staging(e)} ELSE M
  BY <1>5, <1>6
<1>8. M \cup {staging(e)} = L \cup {staging(e)}
  OBVIOUS
<1> HIDE DEF s, M
<1>9. Runs(e, s, M, M \cup {staging(e)})
  BY <1>7, RunsScratch
<1>10. Runs(e, <<a>> \o destroyDownloadStaging(e, L), L, M)
  BY <1>2, <1>3, RunsConcat
<1>11. Runs(e, <<a>> \o destroyDownloadStaging(e, L) \o s, L, M \cup {staging(e)})
  BY <1>9, <1>10, RunsConcat
<1> QED
  BY <1>1, <1>8, <1>11

(* Every startDownload downloads a texture initResources generated.        *)
LEMMA StartDownloadRuns ==
  ASSUME NEW e \in Encoder, NEW r \in Request, {e} \X Resources(r) \subseteq live
  PROVE  Runs(e, StartDownloadCalls(e, r), live, live \cup {staging(e)})
<1>1. \E f \in Resources(r), n \in Nat :
        StartDownloadCalls(e, r) = downloadResult(e, live, f, n)
  <2>1. CASE UsesETC1(r)
    <3>1. StartDownloadCalls(e, r) = ETC1_startDownload(e, r, live)
      BY <2>1, OneEncoder DEF StartDownloadCalls
    <3>2. (IF hasAlpha(r) THEN "m_stitchedTarget" ELSE "m_compressTargetRes") \in Resources(r)
      BY <2>1, OneEncoder DEF Resources, EtcFields
    <3> QED
      BY <3>1, <3>2 DEF ETC1_startDownload
  <2>2. CASE UsesETC2(r)
    <3>1. StartDownloadCalls(e, r) = ETC2_startDownload(e, r, live)
      BY <2>2, OneEncoder DEF StartDownloadCalls
    <3>2. ETC2_resultTexture(r) \in Resources(r)
      BY <2>2, OneEncoder DEF Resources, EtcFields, ModeFields, ETC2_resultTexture
    <3> QED
      BY <3>1, <3>2 DEF ETC2_startDownload
  <2>3. CASE UsesEAC(r)
    <3>1. StartDownloadCalls(e, r) = EAC_startDownload(e, r, live)
      BY <2>3, OneEncoder DEF StartDownloadCalls
    <3>2. (IF rg11(r) THEN "m_stitchedTarget" ELSE "m_eacTargetRes[0]") \in Resources(r)
      BY <2>3, OneEncoder DEF Resources
    <3> QED
      BY <3>1, <3>2 DEF EAC_startDownload
  <2>4. CASE UsesBC1(r)
    <3>1. StartDownloadCalls(e, r) = BC1_startDownload(e, r, live)
      BY <2>4, OneEncoder DEF StartDownloadCalls
    <3>2. BC1_resultTexture(r) \in Resources(r)
      BY <2>4, OneEncoder DEF Resources, BC1_resultTexture
    <3> QED
      BY <3>1, <3>2 DEF BC1_startDownload
  <2>5. CASE UsesBC4(r)
    <3>1. StartDownloadCalls(e, r) = BC4_startDownload(e, r, live)
      BY <2>5, OneEncoder DEF StartDownloadCalls
    <3>2. BC4_resultTexture(r) \in Resources(r)
      BY <2>5, OneEncoder DEF Resources, BC4_resultTexture
    <3> QED
      BY <3>1, <3>2 DEF BC4_startDownload
  <2>6. CASE UsesBC6H(r)
    <3>1. StartDownloadCalls(e, r) = BC6H_startDownload(e, r, live)
      BY <2>6, OneEncoder DEF StartDownloadCalls
    <3>2. "m_compressTargetRes" \in Resources(r)
      BY <2>6, OneEncoder DEF Resources
    <3> QED
      BY <3>1, <3>2 DEF BC6H_startDownload
  <2> QED
    BY <2>1, <2>2, <2>3, <2>4, <2>5, <2>6, SomeEncoder
<1>2. PICK f \in Resources(r), n \in Nat :
        StartDownloadCalls(e, r) = downloadResult(e, live, f, n)
  BY <1>1
<1>3. f \in Field /\ f # "m_downloadStaging" /\ Object(e, f) \in live
  BY ResourcesAreFields DEF Object
<1> QED
  BY <1>2, <1>3, DownloadRuns

-----------------------------------------------------------------------------
(* deinitResources.                                                        *)

(* The download buffer is deleted if it exists.                            *)
StagingIn(e, L) == IF staging(e) \in L THEN {"m_downloadStaging"} ELSE {}

(* destroyDownloadStaging deletes the buffer if it exists.                 *)
LEMMA StagingFrees ==
  ASSUME NEW e \in Encoder, NEW L
  PROVE  Frees(e, destroyDownloadStaging(e, L), StagingIn(e, L))
<1>1. Frees(e, <<destroy(staging(e))>>, {"m_downloadStaging"})
  BY FreesOne DEF staging, Field
<1>2. destroyDownloadStaging(e, L) = When(staging(e) \in L, <<destroy(staging(e))>>)
  BY DEF destroyDownloadStaging, staging
<1> QED
  BY <1>1, <1>2, FreesWhen DEF StagingIn

(* EncoderETC1 deletes all it generated, and when it compresses alpha also *)
(* the stitching program, whoever generated that.                          *)
ETC1Freed(e, r, L) ==
  EtcFields(r) \cup StagingIn(e, L) \cup (IF hasAlpha(r) THEN {"m_stitchPso"} ELSE {})

(* EncoderETC1::deinitResources deletes ETC1Freed.                         *)
LEMMA ETC1Frees ==
  ASSUME NEW e \in Encoder, NEW r \in Request, NEW L
  PROVE  Frees(e, ETC1_deinitResources(e, r, L), ETC1Freed(e, r, L))
<1> DEFINE a1 == <<destroy(Object(e, "m_etc1TablesSsbo")), destroy(Object(e, "m_dstTexture"))>>
           a2 == <<destroy(Object(e, "m_etc1Error"))>>
           a3 == <<destroy(Object(e, "m_compressTargetRes"))>>
           a4 == <<destroy(Object(e, "m_stitchedTarget")),
                   destroy(Object(e, "m_eacTargetRes"))>>
           a5 == <<destroy(Object(e, "m_ditheredTexture")), destroy(Object(e, "m_ditherPso"))>>
           a6 == <<destroy(Object(e, "m_srcTexture"))>>
           a7 == destroyDownloadStaging(e, L)
           a8 == <<destroy(Object(e, "m_stitchPso")), destroy(Object(e, "m_eacPso"))>>
           a9 == <<destroy(Object(e, "m_compressPso"))>>
           f1 == {"m_etc1TablesSsbo", "m_dstTexture"}
           f2 == IF forEtc2(r) THEN {"m_etc1Error"} ELSE {}
           f3 == {"m_compressTargetRes"}
           f4 == IF hasAlpha(r) THEN {"m_stitchedTarget", "m_eacTargetRes"} ELSE {}
           f5 == IF r.dither THEN {"m_ditheredTexture", "m_ditherPso"} ELSE {}
           f6 == {"m_srcTexture"}
           f7 == StagingIn(e, L)
           f8 == IF hasAlpha(r) THEN {"m_stitchPso", "m_eacPso"} ELSE {}
           f9 == {"m_compressPso"}
<1>1. Frees(e, a1, f1)
  BY FreesTwo DEF Field
<1>2. Frees(e, When(forEtc2(r), a2), f2)
  <2>1. Frees(e, a2, {"m_etc1Error"})
    BY FreesOne DEF Field
  <2> QED
    BY <2>1, FreesWhen
<1>3. Frees(e, a3, f3) /\ Frees(e, a6, f6) /\ Frees(e, a9, f9)
  BY FreesOne DEF Field
<1>4. Frees(e, When(hasAlpha(r), a4), f4)
  <2>1. Frees(e, a4, {"m_stitchedTarget", "m_eacTargetRes"})
    BY FreesTwo DEF Field
  <2> QED
    BY <2>1, FreesWhen
<1>5. Frees(e, When(r.dither, a5), f5)
  <2>1. Frees(e, a5, {"m_ditheredTexture", "m_ditherPso"})
    BY FreesTwo DEF Field
  <2> QED
    BY <2>1, FreesWhen
<1>7. Frees(e, a7, f7)
  BY StagingFrees
<1>8. Frees(e, When(hasAlpha(r), a8), f8)
  <2>1. Frees(e, a8, {"m_stitchPso", "m_eacPso"})
    BY FreesTwo DEF Field
  <2> QED
    BY <2>1, FreesWhen
<1>9. ETC1_deinitResources(e, r, L)
        = a1 \o When(forEtc2(r), a2) \o a3 \o When(hasAlpha(r), a4) \o When(r.dither, a5)
          \o a6 \o a7 \o When(hasAlpha(r), a8) \o a9
  BY DEF ETC1_deinitResources
<1>10. /\ f1 \cap f2 = {} /\ (f1 \cup f2) \cap f3 = {}
       /\ (f1 \cup f2 \cup f3) \cap f4 = {} /\ (f1 \cup f2 \cup f3 \cup f4) \cap f5 = {}
       /\ (f1 \cup f2 \cup f3 \cup f4 \cup f5) \cap f6 = {}
       /\ (f1 \cup f2 \cup f3 \cup f4 \cup f5 \cup f6) \cap f7 = {}
       /\ (f1 \cup f2 \cup f3 \cup f4 \cup f5 \cup f6 \cup f7) \cap f8 = {}
       /\ (f1 \cup f2 \cup f3 \cup f4 \cup f5 \cup f6 \cup f7 \cup f8) \cap f9 = {}
  BY DEF StagingIn
<1>11. f1 \cup f2 \cup f3 \cup f4 \cup f5 \cup f6 \cup f7 \cup f8 \cup f9
         = ETC1Freed(e, r, L)
  BY DEF ETC1Freed, EtcFields
<1> HIDE DEF a1, a2, a3, a4, a5, a6, a7, a8, a9, f1, f2, f3, f4, f5, f6, f7, f8, f9
<1>12. Frees(e, a1 \o When(forEtc2(r), a2) \o a3, f1 \cup f2 \cup f3)
  BY <1>1, <1>2, <1>3, <1>10, FreesConcat
<1>13. Frees(e, a1 \o When(forEtc2(r), a2) \o a3 \o When(hasAlpha(r), a4)
                \o When(r.dither, a5) \o a6, f1 \cup f2 \cup f3 \cup f4 \cup f5 \cup f6)
  BY <1>3, <1>4, <1>5, <1>10, <1>12, FreesConcat
<1>14. Frees(e, a1 \o When(forEtc2(r), a2) \o a3 \o When(hasAlpha(r), a4)
                \o When(r.dither, a5) \o a6 \o a7 \o When(hasAlpha(r), a8) \o a9,
             f1 \cup f2 \cup f3 \cup f4 \cup f5 \cup f6 \cup f7 \cup f8 \cup f9)
  BY <1>3, <1>7, <1>8, <1>10, <1>13, FreesConcat
<1> QED
  BY <1>9, <1>11, <1>14

(* EncoderETC2 deletes its own objects first, the cluster pairs excepted.  *)
ETC2OwnFreed ==
  {"m_pModeError", "m_pModeTargetRes", "m_thModesError", "m_thModesTargetRes",
   "m_pModePso", "m_thModesFindBestC0C1", "m_thModesPso"}

(* EncoderETC2::deinitResources deletes its own and then EncoderETC1's.    *)
LEMMA ETC2Frees ==
  ASSUME NEW e \in Encoder, NEW r \in Request, NEW L
  PROVE  Frees(e, ETC2_deinitResources(e, r, L), ETC2OwnFreed \cup ETC1Freed(e, r, L))
<1> DEFINE a == destroy(Object(e, "m_pModeError"))
           b == destroy(Object(e, "m_pModeTargetRes"))
           c == destroy(Object(e, "m_thModesError"))
           d == destroy(Object(e, "m_thModesTargetRes"))
           g == destroy(Object(e, "m_pModePso"))
           h == destroy(Object(e, "m_thModesFindBestC0C1"))
           i == destroy(Object(e, "m_thModesPso"))
           s == <<a, b, c, d, g, h, i>>
<1>1. {a, b, c, d, g, h, i} \subseteq OwnCall(e)
  BY OwnBind DEF Field
<1>2. /\ a.op = "destroy" /\ b.op = "destroy" /\ c.op = "destroy" /\ d.op = "destroy"
      /\ g.op = "destroy" /\ h.op = "destroy" /\ i.op = "destroy"
      /\ a.name = <<e, "m_pModeError">> /\ b.name = <<e, "m_pModeTargetRes">>
      /\ c.name = <<e, "m_thModesError">> /\ d.name = <<e, "m_thModesTargetRes">>
      /\ g.name = <<e, "m_pModePso">> /\ h.name = <<e, "m_thModesFindBestC0C1">>
      /\ i.name = <<e, "m_thModesPso">>
  BY DEF destroy, Object
<1>3. ETC2_deinitResources(e, r, L) = s \o ETC1_deinitResources(e, r, L)
  BY DEF ETC2_deinitResources
<1> HIDE DEF a, b, c, d, g, h, i
<1>4. s \in Seq({x \in OwnCall(e) : x.op = "destroy"})
  BY <1>1, <1>2
<1>5. NamesIn(s) = {a.name, b.name, c.name, d.name, g.name, h.name, i.name}
  BY DEF NamesIn
<1>6. {a.name, b.name, c.name, d.name, g.name, h.name, i.name} = {e} \X ETC2OwnFreed
  BY <1>2 DEF ETC2OwnFreed
<1>7. \A j, k \in DOMAIN s : s[j].name = s[k].name => j = k
  BY <1>2
<1>8. Frees(e, s, ETC2OwnFreed)
  BY <1>4, <1>5, <1>6, <1>7 DEF Frees
<1> HIDE DEF s
<1>9. ETC2OwnFreed \cap ETC1Freed(e, r, L) = {}
  BY DEF ETC2OwnFreed, ETC1Freed, EtcFields, StagingIn
<1> QED
  BY <1>3, <1>8, <1>9, ETC1Frees, FreesConcat

(* EncoderEAC deletes all it generated.                                    *)
LEMMA EACFrees ==
  ASSUME NEW e \in Encoder, NEW r \in Request, UsesEAC(r), NEW L
  PROVE  Frees(e, EAC_deinitResources(e, r, L), Resources(r) \cup StagingIn(e, L))
<1> DEFINE a1 == <<destroy(Object(e, "m_stitchedTarget"))>>
           a2 == <<destroy(Object(e, "m_eacTargetRes[0]"))>>
           a3 == <<destroy(Object(e, "m_eacTargetRes[1]"))>>
           a4 == <<destroy(Object(e, "m_srcTexture"))>>
           a5 == destroyDownloadStaging(e, L)
           a6 == <<destroy(Object(e, "m_eacPso"))>>
           a7 == <<destroy(Object(e, "m_stitchPso"))>>
           f1 == IF rg11(r) THEN {"m_stitchedTarget"} ELSE {}
           f2 == {"m_eacTargetRes[0]"}
           f3 == IF rg11(r) THEN {"m_eacTargetRes[1]"} ELSE {}
           f4 == {"m_srcTexture"}
           f5 == StagingIn(e, L)
           f6 == {"m_eacPso"}
           f7 == IF rg11(r) THEN {"m_stitchPso"} ELSE {}
<1>1. /\ Frees(e, a1, {"m_stitchedTarget"}) /\ Frees(e, a2, f2)
      /\ Frees(e, a3, {"m_eacTargetRes[1]"}) /\ Frees(e, a4, f4)
      /\ Frees(e, a6, f6) /\ Frees(e, a7, {"m_stitchPso"})
  BY FreesOne DEF Field
<1>2. Frees(e, a5, f5)
  BY StagingFrees
<1>3. EAC_deinitResources(e, r, L)
        = When(rg11(r), a1) \o a2 \o When(rg11(r), a3) \o a4 \o a5 \o a6 \o When(rg11(r), a7)
  BY DEF EAC_deinitResources
<1> HIDE DEF a1, a2, a3, a4, a5, a6, a7
<1>4. /\ Frees(e, When(rg11(r), a1), f1) /\ Frees(e, When(rg11(r), a3), f3)
      /\ Frees(e, When(rg11(r), a7), f7)
  BY <1>1, FreesWhen
<1>5. /\ f1 \cap f2 = {} /\ (f1 \cup f2) \cap f3 = {} /\ (f1 \cup f2 \cup f3) \cap f4 = {}
      /\ (f1 \cup f2 \cup f3 \cup f4) \cap f5 = {}
      /\ (f1 \cup f2 \cup f3 \cup f4 \cup f5) \cap f6 = {}
      /\ (f1 \cup f2 \cup f3 \cup f4 \cup f5 \cup f6) \cap f7 = {}
  BY DEF StagingIn
<1>6. f1 \cup f2 \cup f3 \cup f4 \cup f5 \cup f6 \cup f7 = Resources(r) \cup StagingIn(e, L)
  BY OneEncoder DEF Resources
<1> HIDE DEF f1, f2, f3, f4, f5, f6, f7
<1>7. Frees(e, When(rg11(r), a1) \o a2 \o When(rg11(r), a3) \o a4,
            f1 \cup f2 \cup f3 \cup f4)
  BY <1>1, <1>4, <1>5, FreesConcat
<1>8. Frees(e, When(rg11(r), a1) \o a2 \o When(rg11(r), a3) \o a4 \o a5 \o a6
               \o When(rg11(r), a7),
            f1 \cup f2 \cup f3 \cup f4 \cup f5 \cup f6 \cup f7)
  BY <1>1, <1>2, <1>4, <1>5, <1>7, FreesConcat
<1> QED
  BY <1>3, <1>6, <1>8

(* EncoderBC1 forgets its table and, with BC3, the alpha target and program.*)
LEMMA BC1Frees ==
  ASSUME NEW e \in Encoder, NEW r \in Request, UsesBC1(r), NEW L
  PROVE  Frees(e, BC1_deinitResources(e, r, L),
               (Resources(r) \ Leaked(r)) \cup StagingIn(e, L))
<1> DEFINE a1 == <<destroy(Object(e, "m_dstTexture"))>>
           a2 == <<destroy(Object(e, "m_stitchedTarget"))>>
           a3 == <<destroy(Object(e, "m_bc1TargetRes")), destroy(Object(e, "m_srcTexture"))>>
           a4 == destroyDownloadStaging(e, L)
           a5 == <<destroy(Object(e, "m_bc1Pso"))>>
           a6 == <<destroy(Object(e, "m_stitchPso"))>>
           f1 == {"m_dstTexture"}
           f2 == IF useBC3(r) THEN {"m_stitchedTarget"} ELSE {}
           f3 == {"m_bc1TargetRes", "m_srcTexture"}
           f4 == StagingIn(e, L)
           f5 == {"m_bc1Pso"}
           f6 == IF useBC3(r) THEN {"m_stitchPso"} ELSE {}
<1>1. /\ Frees(e, a1, f1) /\ Frees(e, a2, {"m_stitchedTarget"})
      /\ Frees(e, a5, f5) /\ Frees(e, a6, {"m_stitchPso"})
  BY FreesOne DEF Field
<1>2. Frees(e, a3, f3) /\ Frees(e, a4, f4)
  BY FreesTwo, StagingFrees DEF Field
<1>3. BC1_deinitResources(e, r, L)
        = a1 \o When(useBC3(r), a2) \o a3 \o a4 \o a5 \o When(useBC3(r), a6)
  BY DEF BC1_deinitResources
<1> HIDE DEF a1, a2, a3, a4, a5, a6
<1>4. Frees(e, When(useBC3(r), a2), f2) /\ Frees(e, When(useBC3(r), a6), f6)
  BY <1>1, FreesWhen
<1>5. /\ f1 \cap f2 = {} /\ (f1 \cup f2) \cap f3 = {} /\ (f1 \cup f2 \cup f3) \cap f4 = {}
      /\ (f1 \cup f2 \cup f3 \cup f4) \cap f5 = {}
      /\ (f1 \cup f2 \cup f3 \cup f4 \cup f5) \cap f6 = {}
  BY DEF StagingIn
<1>6. f1 \cup f2 \cup f3 \cup f4 \cup f5 \cup f6
        = (Resources(r) \ Leaked(r)) \cup StagingIn(e, L)
  BY OneEncoder DEF Resources, Leaked
<1> HIDE DEF f1, f2, f3, f4, f5, f6
<1>7. Frees(e, a1 \o When(useBC3(r), a2) \o a3, f1 \cup f2 \cup f3)
  BY <1>1, <1>2, <1>4, <1>5, FreesConcat
<1>8. Frees(e, a1 \o When(useBC3(r), a2) \o a3 \o a4 \o a5 \o When(useBC3(r), a6),
            f1 \cup f2 \cup f3 \cup f4 \cup f5 \cup f6)
  BY <1>1, <1>2, <1>4, <1>5, <1>7, FreesConcat
<1> QED
  BY <1>3, <1>6, <1>8

(* EncoderBC4 deletes all it generated.                                    *)
LEMMA BC4Frees ==
  ASSUME NEW e \in Encoder, NEW r \in Request, UsesBC4(r), NEW L
  PROVE  Frees(e, BC4_deinitResources(e, r, L), Resources(r) \cup StagingIn(e, L))
<1> DEFINE a0 == <<destroy(Object(e, "m_dstTexture"))>>
           a1 == <<destroy(Object(e, "m_stitchedTarget"))>>
           a2 == <<destroy(Object(e, "m_bc4TargetRes[0]"))>>
           a3 == <<destroy(Object(e, "m_bc4TargetRes[1]"))>>
           a4 == <<destroy(Object(e, "m_srcTexture"))>>
           a5 == destroyDownloadStaging(e, L)
           a6 == <<destroy(Object(e, "m_bc4Pso"))>>
           a7 == <<destroy(Object(e, "m_stitchPso"))>>
           f0 == {"m_dstTexture"}
           f1 == IF redGreen(r) THEN {"m_stitchedTarget"} ELSE {}
           f2 == {"m_bc4TargetRes[0]"}
           f3 == IF redGreen(r) THEN {"m_bc4TargetRes[1]"} ELSE {}
           f4 == {"m_srcTexture"}
           f5 == StagingIn(e, L)
           f6 == {"m_bc4Pso"}
           f7 == IF redGreen(r) THEN {"m_stitchPso"} ELSE {}
<1>1. /\ Frees(e, a0, f0) /\ Frees(e, a1, {"m_stitchedTarget"}) /\ Frees(e, a2, f2)
      /\ Frees(e, a3, {"m_bc4TargetRes[1]"}) /\ Frees(e, a4, f4)
      /\ Frees(e, a6, f6) /\ Frees(e, a7, {"m_stitchPso"})
  BY FreesOne DEF Field
<1>2. Frees(e, a5, f5)
  BY StagingFrees
<1>3. BC4_deinitResources(e, r, L)
        = a0 \o When(redGreen(r), a1) \o a2 \o When(redGreen(r), a3) \o a4 \o a5 \o a6
          \o When(redGreen(r), a7)
  BY DEF BC4_deinitResources
<1> HIDE DEF a0, a1, a2, a3, a4, a5, a6, a7
<1>4. /\ Frees(e, When(redGreen(r), a1), f1) /\ Frees(e, When(redGreen(r), a3), f3)
      /\ Frees(e, When(redGreen(r), a7), f7)
  BY <1>1, FreesWhen
<1>5. /\ f0 \cap f1 = {} /\ (f0 \cup f1) \cap f2 = {} /\ (f0 \cup f1 \cup f2) \cap f3 = {}
      /\ (f0 \cup f1 \cup f2 \cup f3) \cap f4 = {}
      /\ (f0 \cup f1 \cup f2 \cup f3 \cup f4) \cap f5 = {}
      /\ (f0 \cup f1 \cup f2 \cup f3 \cup f4 \cup f5) \cap f6 = {}
      /\ (f0 \cup f1 \cup f2 \cup f3 \cup f4 \cup f5 \cup f6) \cap f7 = {}
  BY DEF StagingIn
<1>6. f0 \cup f1 \cup f2 \cup f3 \cup f4 \cup f5 \cup f6 \cup f7
        = Resources(r) \cup StagingIn(e, L)
  BY OneEncoder DEF Resources
<1> HIDE DEF f0, f1, f2, f3, f4, f5, f6, f7
<1>7. Frees(e, a0 \o When(redGreen(r), a1) \o a2 \o When(redGreen(r), a3),
            f0 \cup f1 \cup f2 \cup f3)
  BY <1>1, <1>4, <1>5, FreesConcat
<1>8. Frees(e, a0 \o When(redGreen(r), a1) \o a2 \o When(redGreen(r), a3) \o a4 \o a5 \o a6
               \o When(redGreen(r), a7),
            f0 \cup f1 \cup f2 \cup f3 \cup f4 \cup f5 \cup f6 \cup f7)
  BY <1>1, <1>2, <1>4, <1>5, <1>7, FreesConcat
<1> QED
  BY <1>3, <1>6, <1>8

(* EncoderBC6H deletes all but the upload buffer.                          *)
LEMMA BC6HFrees ==
  ASSUME NEW e \in Encoder, NEW r \in Request, UsesBC6H(r), NEW L
  PROVE  Frees(e, BC6H_deinitResources(e, r, L), Resources(r) \cup StagingIn(e, L))
<1> DEFINE a1 == <<destroy(Object(e, "m_dstTexture")),
                   destroy(Object(e, "m_compressTargetRes")),
                   destroy(Object(e, "m_srcTexture"))>>
           a2 == destroyDownloadStaging(e, L)
           a3 == <<destroy(Object(e, "m_compressPso"))>>
           f1 == {"m_dstTexture", "m_compressTargetRes", "m_srcTexture"}
           f2 == StagingIn(e, L)
           f3 == {"m_compressPso"}
<1>1. Frees(e, a1, f1) /\ Frees(e, a2, f2) /\ Frees(e, a3, f3)
  <2>1. Frees(e, a1, f1)
    <3>1. /\ {"m_dstTexture", "m_compressTargetRes", "m_srcTexture"} \subseteq Field
          /\ "m_dstTexture" # "m_compressTargetRes" /\ "m_dstTexture" # "m_srcTexture"
          /\ "m_compressTargetRes" # "m_srcTexture"
      BY DEF Field
    <3> QED
      BY <3>1, FreesThree
  <2>2. Frees(e, a2, f2)
    BY StagingFrees
  <2>3. Frees(e, a3, f3)
    BY FreesOne DEF Field
  <2> QED
    BY <2>1, <2>2, <2>3
<1>2. BC6H_deinitResources(e, r, L) = a1 \o a2 \o a3
  BY DEF BC6H_deinitResources
<1>3. f1 \cap f2 = {} /\ (f1 \cup f2) \cap f3 = {}
  BY DEF StagingIn
<1>4. f1 \cup f2 \cup f3 = Resources(r) \cup StagingIn(e, L)
  BY OneEncoder DEF Resources
<1> HIDE DEF a1, a2, a3, f1, f2, f3
<1>5. Frees(e, a1 \o a2, f1 \cup f2)
  BY <1>1, <1>3, FreesConcat
<1>6. Frees(e, a1 \o a2 \o a3, f1 \cup f2 \cup f3)
  BY <1>1, <1>3, <1>5, FreesConcat
<1> QED
  BY <1>2, <1>4, <1>6

(* deinitResources deletes objects that exist and leaves, of those the     *)
(* encoder may hold, only the leaked ones.                                 *)
LEMMA DeinitRuns ==
  ASSUME NEW e \in Encoder, NEW r \in Request, {e} \X Resources(r) \subseteq live,
         \A f \in Field : Object(e, f) \in live =>
           f \in Resources(r) \cup {"m_downloadStaging"} \cup Scratch(r)
  PROVE  \E M : /\ Runs(e, DeinitResourcesCalls(e, r), live, M)
                /\ \A f \in Field : Object(e, f) \in M => f \in Leaked(r)
<1> DEFINE S == StagingIn(e, live)
<1>1. ASSUME NEW s, NEW D, Frees(e, s, D), D \subseteq Resources(r) \cup S,
             (Resources(r) \cup S \cup Scratch(r)) \ D \subseteq Leaked(r)
      PROVE  \E M : /\ Runs(e, s, live, M)
                    /\ \A f \in Field : Object(e, f) \in M => f \in Leaked(r)
  <2>1. {e} \X S \subseteq live
    BY DEF StagingIn, staging, Object
  <2>2. {e} \X D \subseteq live
    BY <1>1, <2>1
  <2>3. Runs(e, s, live, live \ ({e} \X D))
    BY <1>1, <2>2, RunsFrees
  <2>4. ASSUME NEW f \in Field, Object(e, f) \in live \ ({e} \X D)
        PROVE  f \in Leaked(r)
    <3>1. f \notin D
      BY <2>4 DEF Object
    <3>2. f \in Resources(r) \cup S \cup Scratch(r)
      BY <2>4 DEF StagingIn, staging
    <3> QED
      BY <1>1, <3>1, <3>2
  <2> QED
    BY <2>3, <2>4
<1> HIDE DEF S
<1>2. "stagingTex" \notin Resources(r)
  BY ResourcesAreFields
<1>3. CASE UsesETC1(r)
  <2>1. DeinitResourcesCalls(e, r) = ETC1_deinitResources(e, r, live)
    BY <1>3, OneEncoder DEF DeinitResourcesCalls
  <2>2. ETC1Freed(e, r, live) = Resources(r) \cup S /\ Scratch(r) = {}
    BY <1>3, OneEncoder
       DEF ETC1Freed, Resources, EtcFields, Scratch, UsesETC1, forEtc2, S
  <2> QED
    BY <1>1, <2>1, <2>2, ETC1Frees
<1>4. CASE UsesETC2(r)
  <2>1. DeinitResourcesCalls(e, r) = ETC2_deinitResources(e, r, live)
    BY <1>4, OneEncoder DEF DeinitResourcesCalls
  <2>2. /\ Resources(r) = EtcFields(r) \cup ModeFields /\ Scratch(r) = {"stagingTex"}
        /\ Leaked(r) = {"m_thModesC0C1", "stagingTex"}
                         \cup (IF hasAlpha(r) THEN {} ELSE {"m_stitchPso"})
    BY <1>4, OneEncoder DEF Resources, Scratch, Leaked
  <2>3. /\ ETC2OwnFreed \cup ETC1Freed(e, r, live) \subseteq Resources(r) \cup S
        /\ (Resources(r) \cup S \cup Scratch(r)) \ (ETC2OwnFreed \cup ETC1Freed(e, r, live))
             \subseteq Leaked(r)
    BY <2>2 DEF ETC1Freed, ETC2OwnFreed, ModeFields, S
  <2> QED
    BY <1>1, <2>1, <2>3, ETC2Frees
<1>5. CASE UsesEAC(r)
  <2>1. DeinitResourcesCalls(e, r) = EAC_deinitResources(e, r, live) /\ Scratch(r) = {}
    BY <1>5, OneEncoder DEF DeinitResourcesCalls, Scratch
  <2> QED
    BY <1>1, <1>5, <2>1, EACFrees DEF S
<1>6. CASE UsesBC1(r)
  <2>1. DeinitResourcesCalls(e, r) = BC1_deinitResources(e, r, live) /\ Scratch(r) = {}
    BY <1>6, OneEncoder DEF DeinitResourcesCalls, Scratch
  <2>2. Frees(e, BC1_deinitResources(e, r, live), (Resources(r) \ Leaked(r)) \cup S)
    BY <1>6, BC1Frees DEF S
  <2> QED
    BY <1>1, <2>1, <2>2
<1>7. CASE UsesBC4(r)
  <2>1. DeinitResourcesCalls(e, r) = BC4_deinitResources(e, r, live) /\ Scratch(r) = {}
    BY <1>7, OneEncoder DEF DeinitResourcesCalls, Scratch
  <2> QED
    BY <1>1, <1>7, <2>1, BC4Frees DEF S
<1>8. CASE UsesBC6H(r)
  <2>1. /\ DeinitResourcesCalls(e, r) = BC6H_deinitResources(e, r, live)
        /\ Scratch(r) = {"stagingTex"} /\ Leaked(r) = {"stagingTex"}
    BY <1>8, OneEncoder DEF DeinitResourcesCalls, Scratch, Leaked
  <2>2. Frees(e, BC6H_deinitResources(e, r, live), Resources(r) \cup S)
    BY <1>8, BC6HFrees DEF S
  <2> QED
    BY <1>1, <2>1, <2>2
<1> QED
  BY <1>3, <1>4, <1>5, <1>6, <1>7, <1>8, SomeEncoder

-----------------------------------------------------------------------------
(* The methods keep the lifetimes.                                         *)

(* A list of calls of one encoder leaves the objects of another alone.     *)
LEMMA OthersLeft ==
  ASSUME NEW d \in Encoder, NEW e \in Encoder, d # e,
         NEW s \in Seq(OwnCall(d)), NEW L, NEW f
  PROVE  Leaves(s, L, Object(e, f)) <=> Object(e, f) \in L
<1> DEFINE o == Object(e, f)
<1>1. o \notin {d} \X Field
  BY DEF Object
<1>2. ASSUME NEW k \in DOMAIN s PROVE ~Generates(s[k], o) /\ ~Destroys(s[k], o)
  <2>1. s[k] \in Call({d} \X Field)
    BY <1>2, Positions DEF OwnCall
  <2>2. s[k].op \in {"create", "destroy"} => s[k].name \in {d} \X Field
    BY <2>1, CallFields
  <2> QED
    BY <1>1, <2>2 DEF Generates, Destroys
<1> HIDE DEF o
<1> QED
  BY <1>2 DEF Leaves, ExistsAt, o

(* With no call left, what is left is what exists.                         *)
LEMMA NothingRuns ==
  ASSUME NEW L, NEW o
  PROVE  Leaves(<<>>, L, o) <=> o \in L
BY DEF Leaves, ExistsAt

(* A method whose calls run, and whose next stage asks for no more and no  *)
(* less than they leave, keeps the lifetimes.                              *)
LEMMA EnterKeeps ==
  ASSUME TypeOK, LifetimeInvariant, NEW d \in Encoder, NEW m, NEW s, Enter(d, m, s),
         NEW M, Runs(d, s, live, M), NEW t, GoTo(d, t),
         \A f \in MustHold(request[d], t) : Object(d, f) \in M,
         \A f \in Field : Object(d, f) \in M => f \in MayHold(request[d], t),
         t = "execute00" => Has00(request[d]),
         t = "execute02" => Has02(request[d]),
         t = "execute03" => Loops(request[d])
  PROVE  LifetimeInvariant'
<1>1. calls = <<>> /\ calls' = s /\ request' = request /\ live' = live
  BY DEF Enter
<1>2. /\ s \in Seq(OwnCall(d)) /\ Finds(s, live)
      /\ \A o : Leaves(s, live, o) <=> o \in M
  BY DEF Runs
<1>3. stage \in [Encoder -> Stages]
  BY DEF TypeOK
<1>4. ASSUME NEW e \in Encoder PROVE Lifetimes(e)' /\ StageFits(e)'
  <2>1. CASE e = d
    <3>1. stage'[e] = t
      BY <1>3, <2>1 DEF GoTo
    <3> QED
      BY <1>1, <1>2, <2>1, <3>1 DEF Lifetimes, StageFits
  <2>2. CASE e # d
    <3>1. stage'[e] = stage[e]
      BY <1>3, <2>2 DEF GoTo
    <3>2. Lifetimes(e) /\ StageFits(e)
      BY DEF LifetimeInvariant
    <3>3. \A f : Leaves(calls', live', Object(e, f)) <=> Leaves(calls, live, Object(e, f))
      BY <1>1, <1>2, <2>2, OthersLeft, NothingRuns
    <3> QED
      BY <1>1, <3>1, <3>2, <3>3 DEF Lifetimes, StageFits
  <2> QED
    BY <2>1, <2>2
<1> QED
  BY <1>1, <1>2, <1>4 DEF LifetimeInvariant

(* What an encoder holds between two of its methods.                       *)
LEMMA Held ==
  ASSUME LifetimeInvariant, NEW d \in Encoder, calls = <<>>
  PROVE  /\ stage[d] \notin {"initResources", "done"} =>
              /\ {d} \X Resources(request[d]) \subseteq live
              /\ \A f \in Field : Object(d, f) \in live =>
                   f \in Resources(request[d]) \cup {"m_downloadStaging"}
                           \cup Scratch(request[d])
         /\ stage[d] = "initResources" => ({d} \X Field) \cap live = {}
<1>1. /\ \A f \in MustHold(request[d], stage[d]) : Object(d, f) \in live
      /\ \A f \in Field : Object(d, f) \in live => f \in MayHold(request[d], stage[d])
  BY NothingRuns DEF LifetimeInvariant, Lifetimes
<1>2. ASSUME stage[d] \notin {"initResources", "done"}
      PROVE  /\ {d} \X Resources(request[d]) \subseteq live
             /\ \A f \in Field : Object(d, f) \in live =>
                  f \in Resources(request[d]) \cup {"m_downloadStaging"}
                          \cup Scratch(request[d])
  <2>1. \A f \in Resources(request[d]) : <<d, f>> \in live
    BY <1>1, <1>2 DEF MustHold, Object
  <2> QED
    BY <1>1, <1>2, <2>1 DEF MayHold
<1>3. ASSUME stage[d] = "initResources"
      PROVE  ({d} \X Field) \cap live = {}
  BY <1>1, <1>3 DEF MayHold, Object
<1> QED
  BY <1>2, <1>3

(* A method that leaves the resources and generates at most scratch or the *)
(* download buffer keeps the lifetimes, whatever stage of the work is next.*)
LEMMA WorkKeeps ==
  ASSUME TypeOK, LifetimeInvariant, NEW d \in Encoder, NEW m, NEW s, Enter(d, m, s),
         NEW M, Runs(d, s, live, M), NEW t, t \notin {"initResources", "done"}, GoTo(d, t),
         {d} \X Resources(request[d]) \subseteq M,
         \A f \in Field : Object(d, f) \in M =>
           f \in Resources(request[d]) \cup {"m_downloadStaging"} \cup Scratch(request[d]),
         t = "execute00" => Has00(request[d]),
         t = "execute02" => Has02(request[d]),
         t = "execute03" => Loops(request[d])
  PROVE  LifetimeInvariant'
<1>1. \A f \in MustHold(request[d], t) : Object(d, f) \in M
  BY DEF MustHold, Object
<1>2. \A f \in Field : Object(d, f) \in M => f \in MayHold(request[d], t)
  BY DEF MayHold
<1> QED
  BY <1>1, <1>2, EnterKeeps

(* Each method runs: it finds what it names, and leaves what it should.    *)
LEMMA MethodLifetimes ==
  ASSUME TypeOK, LifetimeInvariant, NEW d \in Encoder, Method(d)
  PROVE  LifetimeInvariant'
<1> DEFINE r == request[d]
           res == Resources(r)
           may == res \cup {"m_downloadStaging"} \cup Scratch(r)
<1>1. r \in Request /\ calls = <<>>
  BY DEF TypeOK, Method, Enter, InitResources, Execute00, Execute01, Execute02,
     Execute03, StartDownload, DownloadTo, Save, DeinitResources
<1>2. StageFits(d)
  BY DEF LifetimeInvariant
<1>3. ASSUME NEW m, NEW s, Enter(d, m, s), m \notin {"initResources", "done"}
      PROVE  /\ {d} \X res \subseteq live
             /\ \A f \in Field : Object(d, f) \in live => f \in may
  BY <1>1, <1>3, Held DEF Enter
<1>4. LoopStart(r) \notin {"initResources", "done", "execute02", "execute03"}
      /\ (LoopStart(r) = "execute00" => Has00(r))
  BY DEF LoopStart
<1>5. ASSUME NEW m, NEW s, Enter(d, m, s), NEW M, Runs(d, s, live, M), EndOfIteration(d),
             {d} \X res \subseteq M,
             \A f \in Field : Object(d, f) \in M => f \in may
      PROVE  LifetimeInvariant'
  <2>1. PICK t \in {LoopStart(r), "startDownload"} : GoTo(d, t)
    BY <1>5 DEF EndOfIteration
  <2> QED
    BY <1>4, <1>5, <2>1, WorkKeeps
<1>6. CASE InitResources(d)
  <2>1. Enter(d, "initResources", InitResourcesCalls(d, r)) /\ GoTo(d, LoopStart(r))
    BY <1>6 DEF InitResources
  <2>2. ({d} \X Field) \cap live = {}
    BY <1>1, <2>1, Held DEF Enter
  <2>3. PICK M : /\ Runs(d, InitResourcesCalls(d, r), live, M) /\ {d} \X res \subseteq M
                 /\ \A f \in Field : Object(d, f) \in M => f \in res \cup Scratch(r)
    BY <1>1, <2>2, InitResourcesRuns
  <2> QED
    BY <1>4, <2>1, <2>3, WorkKeeps
<1>7. CASE Execute00(d)
  <2>1. /\ Enter(d, "execute00", IF UsesETC1(r) THEN ETC1_execute00(d, r)
                                                ELSE ETC2_execute00(d, r))
        /\ GoTo(d, "execute01")
    BY <1>7 DEF Execute00
  <2>2. UsesETC1(r) \/ UsesETC2(r)
    BY <1>2, <2>1 DEF Enter, StageFits, Has00
  <2>3. /\ {d} \X res \subseteq live
        /\ \A f \in Field : Object(d, f) \in live => f \in may
    BY <1>3, <2>1
  <2>4. Runs(d, IF UsesETC1(r) THEN ETC1_execute00(d, r) ELSE ETC2_execute00(d, r),
             live, live)
    BY <1>1, <2>2, <2>3, ExecuteRuns
  <2> QED
    BY <2>1, <2>3, <2>4, WorkKeeps
<1>8. CASE Execute01(d)
  <2>1. Enter(d, "execute01", Execute01Calls(d, r))
    BY <1>8 DEF Execute01
  <2>2. /\ {d} \X res \subseteq live
        /\ \A f \in Field : Object(d, f) \in live => f \in may
    BY <1>3, <2>1
  <2>3. Runs(d, Execute01Calls(d, r), live, live)
    BY <1>1, <2>2, ExecuteRuns
  <2>4. CASE Has02(r) /\ GoTo(d, "execute02")
    BY <2>1, <2>2, <2>3, <2>4, WorkKeeps
  <2>5. CASE EndOfIteration(d)
    BY <1>5, <2>1, <2>2, <2>3, <2>5
  <2> QED
    BY <1>8, <2>4, <2>5 DEF Execute01
<1>9. CASE Execute02(d)
  <2>1. Enter(d, "execute02", Execute02Calls(d, r))
    BY <1>9 DEF Execute02
  <2>2. /\ {d} \X res \subseteq live
        /\ \A f \in Field : Object(d, f) \in live => f \in may
    BY <1>3, <2>1
  <2>3. Runs(d, Execute02Calls(d, r), live, live)
    BY <1>1, <1>2, <2>1, <2>2, ExecuteRuns DEF Enter, StageFits
  <2>4. CASE Loops(r) /\ GoTo(d, "execute03")
    BY <2>1, <2>2, <2>3, <2>4, WorkKeeps
  <2>5. CASE EndOfIteration(d)
    BY <1>5, <2>1, <2>2, <2>3, <2>5
  <2> QED
    BY <1>9, <2>4, <2>5 DEF Execute02
<1>10. CASE Execute03(d)
  <2>1. Enter(d, "execute03", Execute03Calls(d, r)) /\ EndOfIteration(d)
    BY <1>10 DEF Execute03
  <2>2. /\ {d} \X res \subseteq live
        /\ \A f \in Field : Object(d, f) \in live => f \in may
    BY <1>3, <2>1
  <2>3. Loops(r)
    BY <1>2, <2>1 DEF Enter, StageFits
  <2>4. PICK M : /\ Runs(d, Execute03Calls(d, r), live, M) /\ {d} \X res \subseteq M
                 /\ \A f \in Field \ Scratch(r) : Object(d, f) \in M => Object(d, f) \in live
    BY <1>1, <2>2, <2>3, Execute03Runs
  <2>5. \A f \in Field : Object(d, f) \in M => f \in may
    BY <2>2, <2>4
  <2> QED
    BY <1>5, <2>1, <2>4, <2>5
<1>11. CASE StartDownload(d)
  <2>1. Enter(d, "startDownload", StartDownloadCalls(d, r)) /\ GoTo(d, "downloadTo")
    BY <1>11 DEF StartDownload
  <2>2. /\ {d} \X res \subseteq live
        /\ \A f \in Field : Object(d, f) \in live => f \in may
    BY <1>3, <2>1
  <2>3. Runs(d, StartDownloadCalls(d, r), live, live \cup {staging(d)})
    BY <1>1, <2>2, StartDownloadRuns
  <2>4. \A f \in Field : Object(d, f) \in live \cup {staging(d)} => f \in may
    BY <2>2 DEF staging, Object
  <2> QED
    BY <2>1, <2>2, <2>3, <2>4, WorkKeeps
<1>12. CASE DownloadTo(d)
  <2>1. Enter(d, "downloadTo", <<glFinish>>) /\ GoTo(d, "save")
    BY <1>12 DEF DownloadTo
  <2>2. /\ {d} \X res \subseteq live
        /\ \A f \in Field : Object(d, f) \in live => f \in may
    BY <1>3, <2>1
  <2>3. Runs(d, <<glFinish>>, live, live)
    <3>1. <<glFinish>> \in Seq(UseCall(d, {}))
      BY OwnPlain DEF UseCall, Named, glFinish
    <3>2. {d} \X {} \subseteq live
      OBVIOUS
    <3> HIDE DEF r, res, may
    <3> QED
      BY <3>1, <3>2, RunsUses
  <2> QED
    BY <2>1, <2>2, <2>3, WorkKeeps
<1>13. CASE Save(d)
  <2>1. Enter(d, "save", <<>>) /\ GoTo(d, "deinitResources")
    BY <1>13 DEF Save
  <2>2. /\ {d} \X res \subseteq live
        /\ \A f \in Field : Object(d, f) \in live => f \in may
    BY <1>3, <2>1
  <2>3. Runs(d, <<>>, live, live)
    BY NothingRuns DEF Runs, Finds
  <2> QED
    BY <2>1, <2>2, <2>3, WorkKeeps
<1>14. CASE DeinitResources(d)
  <2>1. Enter(d, "deinitResources", DeinitResourcesCalls(d, r)) /\ GoTo(d, "done")
    BY <1>14 DEF DeinitResources
  <2>2. /\ {d} \X res \subseteq live
        /\ \A f \in Field : Object(d, f) \in live => f \in may
    BY <1>3, <2>1
  <2>3. PICK M : /\ Runs(d, DeinitResourcesCalls(d, r), live, M)
                 /\ \A f \in Field : Object(d, f) \in M => f \in Leaked(r)
    BY <1>1, <2>2, DeinitRuns
  <2>4. MustHold(r, "done") = {} /\ MayHold(r, "done") = Leaked(r)
    BY DEF MustHold, MayHold
  <2> QED
    BY <2>1, <2>3, <2>4, EnterKeeps
<1> QED
  BY <1>6, <1>7, <1>8, <1>9, <1>10, <1>11, <1>12, <1>13, <1>14 DEF Method

-----------------------------------------------------------------------------
(* Issuing a call keeps the lifetimes.                                     *)

LiveAfter(op) ==
  CASE op = "create" -> live \cup {call.name}
    [] op = "destroy" -> live \ {call.name}
    [] OTHER -> live

(* An object exists at a call to come if and only if it did before.        *)
LEMMA IssueExists ==
  ASSUME TypeOK, NEW op, Issue(op), live' = LiveAfter(op), NEW k \in Nat \ {0}, NEW o
  PROVE  ExistsAt(calls', live', k, o) <=> ExistsAt(calls, live, k + 1, o)
<1>1. /\ 1 \in DOMAIN calls /\ call = calls[1] /\ call.op = op
      /\ \A m \in DOMAIN calls' :
           m \in Int /\ m > 0 /\ m + 1 \in DOMAIN calls /\ calls'[m] = calls[m + 1]
      /\ \A m \in DOMAIN calls :
           /\ m \in Int
           /\ m > 1 => m - 1 \in DOMAIN calls' /\ calls'[m - 1] = calls[m]
           /\ m = 1 \/ m > 1
  BY TailFields
<1>2. /\ Generates(call, o) <=> op = "create" /\ call.name = o
      /\ Destroys(call, o) <=> op = "destroy" /\ call.name = o
  BY <1>1 DEF Generates, Destroys
<1>3. /\ Generates(call, o) => o \in live'
      /\ Destroys(call, o) => o \notin live'
      /\ ~Generates(call, o) /\ ~Destroys(call, o) => (o \in live' <=> o \in live)
      /\ ~(Generates(call, o) /\ Destroys(call, o))
  BY <1>2 DEF LiveAfter
<1>4. /\ \A m \in DOMAIN calls' : (m < k <=> m + 1 < k + 1) /\ 1 < m + 1
      /\ \A m \in DOMAIN calls : m > 1 => (m - 1 < k <=> m < k + 1)
      /\ 1 < k + 1
  BY <1>1
<1>5. ASSUME ExistsAt(calls', live', k, o) PROVE ExistsAt(calls, live, k + 1, o)
  <2>1. CASE o \in live' /\ \A m \in DOMAIN calls' : m < k => ~Destroys(calls'[m], o)
    <3>1. \A m \in DOMAIN calls : m > 1 /\ m < k + 1 => ~Destroys(calls[m], o)
      BY <1>1, <1>4, <2>1
    <3>2. CASE Generates(call, o)
      BY <1>1, <1>4, <3>1, <3>2 DEF ExistsAt
    <3>3. CASE ~Generates(call, o)
      <4>1. o \in live /\ ~Destroys(calls[1], o)
        BY <1>1, <1>3, <2>1, <3>3
      <4> QED
        BY <1>1, <3>1, <4>1 DEF ExistsAt
    <3> QED
      BY <3>2, <3>3
  <2>2. ASSUME NEW m \in DOMAIN calls', m < k, Generates(calls'[m], o),
               \A j \in DOMAIN calls' : m < j /\ j < k => ~Destroys(calls'[j], o)
        PROVE  ExistsAt(calls, live, k + 1, o)
    <3>1. m + 1 \in DOMAIN calls /\ m + 1 < k + 1 /\ Generates(calls[m + 1], o)
      BY <1>1, <1>4, <2>2
    <3>2. ASSUME NEW j \in DOMAIN calls, m + 1 < j, j < k + 1
          PROVE  ~Destroys(calls[j], o)
      <4>1. j > 1 /\ m < j - 1 /\ j - 1 < k
        BY <1>1, <1>4, <3>2
      <4> QED
        BY <1>1, <2>2, <4>1
    <3> QED
      BY <3>1, <3>2 DEF ExistsAt
  <2> QED
    BY <1>5, <2>1, <2>2 DEF ExistsAt
<1>6. ASSUME ExistsAt(calls, live, k + 1, o) PROVE ExistsAt(calls', live', k, o)
  <2>1. CASE o \in live /\ \A m \in DOMAIN calls : m < k + 1 => ~Destroys(calls[m], o)
    <3>1. o \in live'
      BY <1>1, <1>3, <1>4, <2>1
    <3>2. \A m \in DOMAIN calls' : m < k => ~Destroys(calls'[m], o)
      BY <1>1, <1>4, <2>1
    <3> QED
      BY <3>1, <3>2 DEF ExistsAt
  <2>2. ASSUME NEW m \in DOMAIN calls, m < k + 1, Generates(calls[m], o),
               \A j \in DOMAIN calls : m < j /\ j < k + 1 => ~Destroys(calls[j], o)
        PROVE  ExistsAt(calls', live', k, o)
    <3>1. CASE m = 1
      <4>1. o \in live'
        BY <1>1, <1>3, <2>2, <3>1
      <4>2. \A j \in DOMAIN calls' : j < k => ~Destroys(calls'[j], o)
        BY <1>1, <1>4, <2>2, <3>1
      <4> QED
        BY <4>1, <4>2 DEF ExistsAt
    <3>2. CASE m > 1
      <4>1. m - 1 \in DOMAIN calls' /\ m - 1 < k /\ Generates(calls'[m - 1], o)
        BY <1>1, <1>4, <2>2, <3>2
      <4>2. ASSUME NEW j \in DOMAIN calls', m - 1 < j, j < k
            PROVE  ~Destroys(calls'[j], o)
        <5>1. j + 1 \in DOMAIN calls /\ m < j + 1 /\ j + 1 < k + 1
          BY <1>1, <1>4, <4>2
        <5> QED
          BY <1>1, <2>2, <5>1
      <4> QED
        BY <4>1, <4>2 DEF ExistsAt
    <3> QED
      BY <1>1, <3>1, <3>2
  <2> QED
    BY <1>6, <2>1, <2>2 DEF ExistsAt
<1> QED
  BY <1>5, <1>6

(* Every GL call changes the set of objects as its operation says.         *)
LEMMA IssueCallLive ==
  ASSUME IssueCall
  PROVE  \E op : Issue(op) /\ live' = LiveAfter(op)
<1>1. CASE IssueCreate
  BY <1>1 DEF IssueCreate, LiveAfter
<1>2. CASE IssueDestroy
  BY <1>2 DEF IssueDestroy, LiveAfter
<1>3. ASSUME NEW op, op \notin {"create", "destroy"}, Issue(op), UNCHANGED live
      PROVE  \E p : Issue(p) /\ live' = LiveAfter(p)
  BY <1>3 DEF LiveAfter
<1>4. CASE IssueBind
  BY <1>3, <1>4 DEF IssueBind
<1>5. CASE IssueUniform \/ IssueUpload \/ IssueDownload
  BY <1>3, <1>5 DEF IssueUniform, IssueUpload, IssueDownload
<1>6. CASE IssueDispatch \/ IssueCopy \/ IssueBarrier \/ IssueFinish
  BY <1>3, <1>6 DEF IssueDispatch, IssueCopy, IssueBarrier, IssueFinish, context
<1> QED
  BY <1>1, <1>2, <1>4, <1>5, <1>6 DEF IssueCall

(* What the calls to come find and leave is what they did before.          *)
LEMMA IssueLifetimes ==
  ASSUME TypeOK, LifetimeInvariant, IssueCall
  PROVE  LifetimeInvariant'
<1>1. PICK op : Issue(op) /\ live' = LiveAfter(op)
  BY IssueCallLive
<1>2. request' = request /\ stage' = stage
  BY <1>1 DEF Issue
<1>3. /\ Len(calls') \in Nat /\ Len(calls) = Len(calls') + 1
      /\ DOMAIN calls' \subseteq Nat \ {0}
      /\ \A k \in DOMAIN calls' : k + 1 \in DOMAIN calls /\ calls'[k] = calls[k + 1]
  <2>1. calls \in Seq(Call(Encoder \X Field)) /\ calls # <<>> /\ calls' = Tail(calls)
    BY <1>1 DEF TypeOK, Issue
  <2>2. Len(calls) \in Nat \ {0}
    BY <2>1, EmptySeq, LenProperties
  <2>3. calls' \in Seq(Call(Encoder \X Field)) /\ Len(calls') = Len(calls) - 1
    BY <2>1, HeadTailProperties
  <2>4. DOMAIN calls' = 1 .. Len(calls')
    BY <2>3, LenProperties
  <2> QED
    BY <1>1, <2>2, <2>3, <2>4, TailFields
<1>4. Finds(calls', live')
  <2>1. SUFFICES ASSUME NEW k \in DOMAIN calls', NEW o \in Named(calls'[k])
                 PROVE  ExistsAt(calls', live', k, o)
    BY DEF Finds
  <2>2. ExistsAt(calls, live, k + 1, o)
    BY <1>3 DEF LifetimeInvariant, Finds
  <2>3. k \in Nat \ {0}
    BY <1>3
  <2> QED
    BY <1>1, <2>2, <2>3, IssueExists
<1>5. \A o : Leaves(calls', live', o) <=> Leaves(calls, live, o)
  <2>1. Len(calls') + 1 \in Nat \ {0} /\ Len(calls) + 1 = (Len(calls') + 1) + 1
    BY <1>3
  <2>2. \A o : ExistsAt(calls', live', Len(calls') + 1, o)
                 <=> ExistsAt(calls, live, (Len(calls') + 1) + 1, o)
    BY <1>1, <2>1, IssueExists
  <2> QED
    BY <2>1, <2>2 DEF Leaves
<1>6. ASSUME NEW e \in Encoder PROVE Lifetimes(e)' /\ StageFits(e)'
  BY <1>2, <1>5 DEF LifetimeInvariant, Lifetimes, StageFits
<1> QED
  BY <1>4, <1>6 DEF LifetimeInvariant

-----------------------------------------------------------------------------
(* The program starts with no object...                                    *)
LEMMA InitLifetimes == Init => LifetimeInvariant
<1> SUFFICES ASSUME Init PROVE LifetimeInvariant
  OBVIOUS
<1>1. calls = <<>> /\ live = {} /\ \A e \in Encoder : stage[e] = "initResources"
  BY DEF Init
<1>2. \A o : ~Leaves(calls, live, o)
  BY <1>1, NothingRuns
<1>3. Finds(calls, live)
  BY <1>1 DEF Finds
<1> QED
  BY <1>1, <1>2, <1>3 DEF LifetimeInvariant, Lifetimes, StageFits, MustHold

(* ... and every step keeps the lifetimes.                                 *)
LEMMA NextLifetimes ==
  TypeInvariant /\ LifetimeInvariant /\ [Next]_vars => LifetimeInvariant'
<1> SUFFICES ASSUME TypeOK, LifetimeInvariant, [Next]_vars
             PROVE  LifetimeInvariant'
  BY DEF TypeInvariant
<1>1. ASSUME NEW e \in Encoder, Method(e) PROVE LifetimeInvariant'
  BY <1>1, MethodLifetimes
<1>2. CASE IssueCall
  BY <1>2, IssueLifetimes
<1>3. ASSUME UNCHANGED <<request, stage, calls, live>> PROVE LifetimeInvariant'
  BY <1>3 DEF LifetimeInvariant, Finds, Lifetimes, Leaves, ExistsAt, StageFits
<1>4. CASE GPU
  BY <1>3, <1>4 DEF GPU, RetireBarrier, Execute, context
<1>5. CASE UNCHANGED vars
  BY <1>3, <1>5 DEF vars
<1> QED
  BY <1>1, <1>2, <1>4, <1>5 DEF Next, Terminating

(* No GL call, of any method of any encoder in whatever order they         *)
(* interleave, names an object that was deleted or is not generated yet:   *)
(* the methods test for the optional objects of a codec in the same way.   *)
THEOREM LiveObjectsAreNamed == Spec => []CallsNameLiveObjects
<1>1. TypeInvariant /\ LifetimeInvariant => CallsNameLiveObjects
  <2> SUFFICES ASSUME TypeOK, LifetimeInvariant, calls # <<>>
               PROVE  /\ call.op \in {"destroy", "bindTexture", "bindUav", "bindUavBuffer",
                                      "bindComputePso"} => call.name \in live
                      /\ call.op \in {"copy", "upload", "download"} =>
                           {call.src, call.dst} \subseteq live
    BY DEF TypeInvariant, CallsNameLiveObjects
  <2>1. 1 \in DOMAIN calls /\ call = calls[1] /\ \A m \in DOMAIN calls : m \in Int /\ 1 <= m
    <3>1. calls \in Seq(Call(Encoder \X Field))
      BY DEF TypeOK
    <3>2. Len(calls) \in Nat \ {0} /\ DOMAIN calls = 1 .. Len(calls)
      BY <3>1, EmptySeq, LenProperties
    <3> QED
      BY <3>2 DEF call
  <2>2. \A o \in Named(call) : ExistsAt(calls, live, 1, o)
    BY <2>1 DEF LifetimeInvariant, Finds
  <2>3. Named(call) \subseteq live
    BY <2>1, <2>2 DEF ExistsAt
  <2> QED
    BY <2>3 DEF Named
<1> QED
  BY <1>1, InitType, NextType, InitLifetimes, NextLifetimes, PTL DEF Spec

(* What still exists when main returns was forgotten.                      *)
LEMMA LeftWhenFinished ==
  ASSUME TypeOK, LifetimeInvariant, Finished, NEW o \in live
  PROVE  o[1] \in Encoder /\ o[2] \in Leaked(request[o[1]])
<1>1. o[1] \in Encoder /\ o[2] \in Field /\ o = Object(o[1], o[2])
  BY DEF TypeOK, Object
<1>2. calls = <<>> /\ stage[o[1]] = "done"
  BY <1>1 DEF Finished
<1>3. o[2] \in MayHold(request[o[1]], "done")
  BY <1>1, <1>2, NothingRuns DEF LifetimeInvariant, Lifetimes
<1> QED
  BY <1>1, <1>3 DEF MayHold

(* When main returns, the objects still generated are those the            *)
(* deinitResources methods forget (EncoderETC2's cluster pairs, its        *)
(* stitching program and its upload buffer, EncoderBC1's table and its     *)
(* alpha target and program, EncoderBC6H's upload buffer), and no other.   *)
THEOREM OnlyForgottenObjectsLeak ==
  Spec => [](Finished => \A o \in live : o[2] \in Leaked(request[o[1]]))
<1>1. TypeInvariant /\ LifetimeInvariant
        => (Finished => \A o \in live : o[2] \in Leaked(request[o[1]]))
  BY LeftWhenFinished DEF TypeInvariant
<1> QED
  BY <1>1, InitType, NextType, InitLifetimes, NextLifetimes, PTL DEF Spec

(* When main returns, the encoders that mean to (EncoderETC1, EncoderEAC   *)
(* and EncoderBC4) have given back every object their initResources and    *)
(* startDownload generated.                                                *)
THEOREM ObjectsAreReleased == Spec => []AllObjectsReleased
<1>1. TypeInvariant /\ LifetimeInvariant => AllObjectsReleased
  <2> SUFFICES ASSUME TypeOK, LifetimeInvariant, Finished, NEW o \in live
               PROVE  LET r == request[o[1]]
                      IN  ~(UsesETC1(r) \/ UsesEAC(r) \/ UsesBC4(r))
    BY DEF TypeInvariant, AllObjectsReleased
  <2>1. o[2] \in Leaked(request[o[1]])
    BY LeftWhenFinished
  <2> QED
    BY <2>1, OneEncoder DEF Leaked
<1> QED
  BY <1>1, InitType, NextType, InitLifetimes, NextLifetimes, PTL DEF Spec
=============================================================================
