----------------------------- MODULE EncoderETC2 -----------------------------
(***************************************************************************)
(* EncoderETC2 extends EncoderETC1: the ETC1 blocks, the T/H blocks and    *)
(* the P blocks are computed side by side, and execute02 keeps the best.   *)
(***************************************************************************)
EXTENDS EncoderETC1

ETC2_initResources(e, r) ==
  ETC1_initResources(e, r)
  \o <<createTexture(Object(e, "m_thModesTargetRes")),
       createTexture(Object(e, "m_thModesError")),
       createTextureArray(Object(e, "m_thModesC0C1")),
       createTexture(Object(e, "m_pModeTargetRes")),
       createTexture(Object(e, "m_pModeError")),
       createComputePsoFromFile(Object(e, "m_thModesPso"), "etc2_th.glsl"),
       createComputePsoFromFile(Object(e, "m_thModesFindBestC0C1"),
                                "etc2_th_find_best_c0c1_k_means.glsl"),
       createComputePsoFromFile(Object(e, "m_pModePso"), "etc2_p.glsl"),
       createComputePsoFromFile(Object(e, "m_stitchPso"),
         IF hasAlpha(r) THEN "etc2_rgba_selector.glsl"
                        ELSE "etc2_rgb_selector.glsl")>>

ETC2_deinitResources(e, r, live) ==
  <<destroy(Object(e, "m_pModeError")), destroy(Object(e, "m_pModeTargetRes")),
    destroy(Object(e, "m_thModesError")), destroy(Object(e, "m_thModesTargetRes")),
    destroy(Object(e, "m_pModePso")), destroy(Object(e, "m_thModesFindBestC0C1")),
    destroy(Object(e, "m_thModesPso"))>>
  \o ETC1_deinitResources(e, r, live)

(* Mutant: etc2_th may load the cluster pairs before they are stored.      *)
ETC2_execute00NoBarrier(e, r) ==
  ETC1_execute00(e, r)
  \o <<bindTexture(0, Object(e, ditheredTexture(r))),
       bindUav(0, Object(e, "m_thModesC0C1"), "Write"),
       bindComputePso(Object(e, "m_thModesFindBestC0C1")),
       glDispatchCompute>>

ETC2_execute00(e, r) ==
  ETC1_execute00(e, r)
  \o <<bindTexture(0, Object(e, ditheredTexture(r))),
       bindUav(0, Object(e, "m_thModesC0C1"), "Write"),
       bindComputePso(Object(e, "m_thModesFindBestC0C1")),
       glDispatchCompute,
       glMemoryBarrier({"SHADER_IMAGE_ACCESS"})>>

(* Mutant: texture unit 0 is left as ETC1::execute01 bound it.             *)
ETC2_execute01NoRebind(e, r) ==
  ETC1_execute01(e, r)
  \o <<bindUav(0, Object(e, "m_thModesTargetRes"), "Write"),
       bindUav(1, Object(e, "m_thModesError"), "Write"),
       bindUav(2, Object(e, "m_thModesC0C1"), "Write"),
       bindComputePso(Object(e, "m_thModesPso")),
       glDispatchCompute,
       bindUav(0, Object(e, "m_pModeTargetRes"), "Write"),
       bindUav(1, Object(e, "m_pModeError"), "Write"),
       bindComputePso(Object(e, "m_pModePso")),
       glDispatchCompute>>

ETC2_execute01(e, r) ==
  ETC1_execute01(e, r)
  \o <<bindTexture(0, Object(e, ditheredTexture(r))),
       bindUav(0, Object(e, "m_thModesTargetRes"), "Write"),
       bindUav(1, Object(e, "m_thModesError"), "Write"),
       bindUav(2, Object(e, "m_thModesC0C1"), "Write"),
       bindComputePso(Object(e, "m_thModesPso")),
       glDispatchCompute,
       bindUav(0, Object(e, "m_pModeTargetRes"), "Write"),
       bindUav(1, Object(e, "m_pModeError"), "Write"),
       bindComputePso(Object(e, "m_pModePso")),
       glDispatchCompute>>

(* Without alpha the winner replaces the P-mode block in place.            *)
ETC2_execute02(e, r) ==
  <<glMemoryBarrier({"TEXTURE_UPDATE", "SHADER_IMAGE_ACCESS"}),
    bindTexture(0, Object(e, "m_etc1Error")),
    bindTexture(1, Object(e, "m_thModesError")),
    bindTexture(2, Object(e, "m_pModeError")),
    bindTexture(3, Object(e, "m_compressTargetRes")),
    bindTexture(4, Object(e, "m_thModesTargetRes"))>>
  \o (IF hasAlpha(r)
        THEN <<bindTexture(5, Object(e, "m_pModeTargetRes")),
               bindTexture(6, Object(e, "m_eacTargetRes")),
               bindUav(0, Object(e, "m_stitchedTarget"), "Write")>>
        ELSE <<bindUav(0, Object(e, "m_pModeTargetRes"), "ReadWrite")>>)
  \o <<bindComputePso(Object(e, "m_stitchPso")), glDispatchCompute>>

ETC2_resultTexture(r) == IF hasAlpha(r) THEN "m_stitchedTarget" ELSE "m_pModeTargetRes"

(* Its staging buffer is never destroyed.                                  *)
ETC2_execute03(e, r) ==
  <<copyImage(Object(e, ETC2_resultTexture(r)), Object(e, "m_dstTexture")),
    createStagingTexture(Object(e, "stagingTex")),
    downloadStagingTexture(Object(e, "m_pModeTargetRes"),
                           Object(e, "stagingTex"), 8),
    glFinish>>

ETC2_startDownload(e, r, live) ==
  downloadResult(e, live, ETC2_resultTexture(r),
                 IF hasAlpha(r) THEN 16 ELSE 8)

ETC2_downloadFormat(r) == ETC1_downloadFormat(r)
=============================================================================
