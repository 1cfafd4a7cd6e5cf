----------------------------- MODULE EncoderETC1 -----------------------------
(***************************************************************************)
(* EncoderETC1: the GL calls each of its methods issues, in order.         *)
(* A request r is what the caller passed to initResources and execute01;   *)
(* o(f) is the GL object held in field f of the encoder.                   *)
(***************************************************************************)
EXTENDS GL

(* m_eacTargetRes # 0: created by initResources iff bCompressAlpha.        *)
hasAlpha(r) == r.codec \in {"etc2_rgba_etc1", "etc2_rgba"}
forEtc2(r) == r.codec \in {"etc2_rgb", "etc2_rgba"}

(* Without dithering m_ditheredTexture is an alias of m_srcTexture.        *)
ditheredTexture(r) == IF r.dither THEN "m_ditheredTexture" ELSE "m_srcTexture"

ETC1_initResources(e, r) ==
  <<createTexture(Object(e, "m_srcTexture"))>>
  \o When(r.dither,
       <<createTexture(Object(e, "m_ditheredTexture")),
         createComputePsoFromFile(Object(e, "m_ditherPso"), "dither555.glsl")>>)
  \o <<createTexture(Object(e, "m_compressTargetRes"))>>
  \o When(forEtc2(r), <<createTexture(Object(e, "m_etc1Error"))>>)
  \o <<createTexture(Object(e, "m_dstTexture")),
       createUavBuffer(Object(e, "m_etc1TablesSsbo"), "etc1_tables"),
       createComputePsoFromFile(Object(e, "m_compressPso"),
         IF forEtc2(r) THEN "etc1_with_error.glsl" ELSE "etc1.glsl")>>
  \o When(hasAlpha(r),
       <<createTexture(Object(e, "m_eacTargetRes")),
         createTexture(Object(e, "m_stitchedTarget")),
         createComputePsoFromFile(Object(e, "m_eacPso"), "eac.glsl")>>
       \o When(~forEtc2(r),
            <<createComputePsoFromFile(Object(e, "m_stitchPso"),
                                       "etc2_rgba_stitch.glsl")>>))
  \o uploadSource(e) \o <<destroy(Object(e, "stagingTex"))>>

(* Mutant: the alpha targets are forgotten.                                *)
ETC1_deinitNoAlpha(e, r, live) ==
  <<destroy(Object(e, "m_etc1TablesSsbo")), destroy(Object(e, "m_dstTexture")),
    destroy(Object(e, "m_compressTargetRes"))>>
  \o When(r.dither, <<destroy(Object(e, "m_ditheredTexture")),
                      destroy(Object(e, "m_ditherPso"))>>)
  \o <<destroy(Object(e, "m_srcTexture"))>>
  \o destroyDownloadStaging(e, live)
  \o <<destroy(Object(e, "m_compressPso"))>>

ETC1_deinitResources(e, r, live) ==
  <<destroy(Object(e, "m_etc1TablesSsbo")), destroy(Object(e, "m_dstTexture"))>>
  \o When(forEtc2(r), <<destroy(Object(e, "m_etc1Error"))>>)
  \o <<destroy(Object(e, "m_compressTargetRes"))>>
  \o When(hasAlpha(r), <<destroy(Object(e, "m_stitchedTarget")),
                         destroy(Object(e, "m_eacTargetRes"))>>)
  \o When(r.dither, <<destroy(Object(e, "m_ditheredTexture")),
                      destroy(Object(e, "m_ditherPso"))>>)
  \o <<destroy(Object(e, "m_srcTexture"))>>
  \o destroyDownloadStaging(e, live)
  \o When(hasAlpha(r), <<destroy(Object(e, "m_stitchPso")),
                         destroy(Object(e, "m_eacPso"))>>)
  \o <<destroy(Object(e, "m_compressPso"))>>

(* Mutant: the dithered image is read without a barrier.                   *)
ETC1_execute00NoBarrier(e, r) ==
  When(r.dither,
    <<bindTexture(0, Object(e, "m_srcTexture")),
      bindUav(0, Object(e, "m_ditheredTexture"), "Write"),
      bindComputePso(Object(e, "m_ditherPso")),
      glDispatchCompute>>)

ETC1_execute00(e, r) ==
  When(r.dither,
    <<bindTexture(0, Object(e, "m_srcTexture")),
      bindUav(0, Object(e, "m_ditheredTexture"), "Write"),
      bindComputePso(Object(e, "m_ditherPso")),
      glDispatchCompute,
      glMemoryBarrier({"TEXTURE_FETCH"})>>)

(* The four floats of Params are a function of the quality alone.          *)
ETC1_execute01(e, r) ==
  <<bindTexture(0, Object(e, ditheredTexture(r))),
    bindUav(0, Object(e, "m_compressTargetRes"), "Write"),
    bindUavBuffer(1, Object(e, "m_etc1TablesSsbo"))>>
  \o When(forEtc2(r), <<bindUav(2, Object(e, "m_etc1Error"), "Write")>>)
  \o <<bindComputePso(Object(e, "m_compressPso")),
       glUniform(<<r.quality>>),
       glDispatchCompute>>
  \o When(hasAlpha(r),
       <<bindTexture(0, Object(e, "m_srcTexture")),
         bindUav(0, Object(e, "m_eacTargetRes"), "Write"),
         bindComputePso(Object(e, "m_eacPso")),
         glDispatchCompute>>)

ETC1_execute02(e, r) ==
  When(hasAlpha(r),
    <<glMemoryBarrier({"TEXTURE_FETCH"}),
      bindTexture(0, Object(e, "m_compressTargetRes")),
      bindTexture(1, Object(e, "m_eacTargetRes")),
      bindUav(0, Object(e, "m_stitchedTarget"), "Write"),
      bindComputePso(Object(e, "m_stitchPso")),
      glDispatchCompute>>)

(* The block it prints afterwards comes from stagingTex.                   *)
ETC1_execute03(e, r) ==
  <<glMemoryBarrier({"TEXTURE_UPDATE", "SHADER_IMAGE_ACCESS"}),
    copyImage(Object(e, "m_compressTargetRes"), Object(e, "m_dstTexture")),
    createStagingTexture(Object(e, "stagingTex")),
    downloadStagingTexture(Object(e, "m_compressTargetRes"),
                           Object(e, "stagingTex"), 8),
    glFinish,
    destroy(Object(e, "stagingTex"))>>

ETC1_startDownload(e, r, live) ==
  downloadResult(e, live, IF hasAlpha(r) THEN "m_stitchedTarget" ELSE "m_compressTargetRes",
                 IF hasAlpha(r) THEN 16 ELSE 8)

ETC1_downloadFormat(r) ==
  IF hasAlpha(r) THEN "PFG_ETC2_RGBA8_UNORM" ELSE "PFG_ETC1_RGB8_UNORM"
=============================================================================
