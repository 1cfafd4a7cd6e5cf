----------------------------- MODULE EncoderBC1 ------------------------------
(***************************************************************************)
(* EncoderBC1: BC1 blocks, and for BC3 also BC4 alpha blocks stitched to   *)
(* them.                                                                   *)
(***************************************************************************)
EXTENDS GL

useBC3(r) == r.codec = "bc3"

BC1_initResources(e, r) ==
  <<createTexture(Object(e, "m_srcTexture")),
    createTexture(Object(e, "m_bc1TargetRes")),
    createTexture(Object(e, "m_dstTexture")),
    createUavBuffer(Object(e, "m_bc1TablesSsbo"), "bc1_tables"),
    createComputePsoFromFile(Object(e, "m_bc1Pso"),
      IF r.dither THEN "bc1_dither.glsl" ELSE "bc1.glsl")>>
  \o When(useBC3(r),
       <<createTexture(Object(e, "m_bc4TargetRes")),
         createTexture(Object(e, "m_stitchedTarget")),
         createComputePsoFromFile(Object(e, "m_bc4Pso"), "bc4.glsl"),
         createComputePsoFromFile(Object(e, "m_stitchPso"), "etc2_rgba_stitch.glsl")>>)
  \o uploadSource(e) \o <<destroy(Object(e, "stagingTex"))>>

(* m_bc4TargetRes, m_bc4Pso and m_bc1TablesSsbo are not destroyed.         *)
BC1_deinitResources(e, r, live) ==
  <<destroy(Object(e, "m_dstTexture"))>>
  \o When(useBC3(r), <<destroy(Object(e, "m_stitchedTarget"))>>)
  \o <<destroy(Object(e, "m_bc1TargetRes")), destroy(Object(e, "m_srcTexture"))>>
  \o destroyDownloadStaging(e, live)
  \o <<destroy(Object(e, "m_bc1Pso"))>>
  \o When(useBC3(r), <<destroy(Object(e, "m_stitchPso"))>>)

(* Mutant: the uniform is set before the program is in use.                *)
BC1_execute01UniformFirst(e, r) ==
  <<glUniform(<<2>>),
    bindTexture(0, Object(e, "m_srcTexture")),
    bindComputePso(Object(e, "m_bc1Pso")),
    bindUav(0, Object(e, "m_bc1TargetRes"), "Write"),
    bindUavBuffer(1, Object(e, "m_bc1TablesSsbo")),
    glDispatchCompute>>
  \o When(useBC3(r),
       <<bindComputePso(Object(e, "m_bc4Pso")),
         bindUav(0, Object(e, "m_bc4TargetRes"), "Write"),
         glUniform(<<3, 0>>),
         glDispatchCompute>>)

(* Mutant: the source texture is expected to be bound already.             *)
BC1_execute01NoTexture(e, r) ==
  <<bindComputePso(Object(e, "m_bc1Pso")),
    bindUav(0, Object(e, "m_bc1TargetRes"), "Write"),
    bindUavBuffer(1, Object(e, "m_bc1TablesSsbo")),
    glUniform(<<2>>),
    glDispatchCompute>>

(* Uniforms: two refinements; then BC4 of channel 3, not snorm.            *)
BC1_execute01(e, r) ==
  <<bindTexture(0, Object(e, "m_srcTexture")),
    bindComputePso(Object(e, "m_bc1Pso")),
    bindUav(0, Object(e, "m_bc1TargetRes"), "Write"),
    bindUavBuffer(1, Object(e, "m_bc1TablesSsbo")),
    glUniform(<<2>>),
    glDispatchCompute>>
  \o When(useBC3(r),
       <<bindComputePso(Object(e, "m_bc4Pso")),
         bindUav(0, Object(e, "m_bc4TargetRes"), "Write"),
         glUniform(<<3, 0>>),
         glDispatchCompute>>)

BC1_execute02(e, r) ==
  When(useBC3(r),
    <<glMemoryBarrier({"TEXTURE_FETCH"}),
      bindTexture(0, Object(e, "m_bc1TargetRes")),
      bindTexture(1, Object(e, "m_bc4TargetRes")),
      bindUav(0, Object(e, "m_stitchedTarget"), "Write"),
      bindComputePso(Object(e, "m_stitchPso")),
      glDispatchCompute>>)

BC1_resultTexture(r) == IF useBC3(r) THEN "m_stitchedTarget" ELSE "m_bc1TargetRes"

BC1_execute03(e, r) ==
  <<glMemoryBarrier({"TEXTURE_UPDATE", "SHADER_IMAGE_ACCESS"}),
    copyImage(Object(e, BC1_resultTexture(r)), Object(e, "m_dstTexture"))>>

BC1_startDownload(e, r, live) ==
  downloadResult(e, live, BC1_resultTexture(r),
                 IF useBC3(r) THEN 16 ELSE 8)

BC1_downloadFormat(r) == IF useBC3(r) THEN "PFG_BC3_UNORM" ELSE "PFG_BC1_UNORM"
=============================================================================
