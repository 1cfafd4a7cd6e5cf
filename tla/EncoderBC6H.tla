----------------------------- MODULE EncoderBC6H -----------------------------
(***************************************************************************)
(* EncoderBC6H: a single dispatch; execute02, which the program does not   *)
(* call, copies the blocks to a compressed texture.                        *)
(***************************************************************************)
EXTENDS GL

(* The upload buffer stagingTex is not destroyed.                          *)
BC6H_initResources(e, r) ==
  <<createTexture(Object(e, "m_srcTexture")),
    createTexture(Object(e, "m_compressTargetRes")),
    createTexture(Object(e, "m_dstTexture")),
    createComputePsoFromFile(Object(e, "m_compressPso"), "bc6h.glsl")>>
  \o uploadSource(e)

BC6H_deinitResources(e, r, live) ==
  <<destroy(Object(e, "m_dstTexture")), destroy(Object(e, "m_compressTargetRes")),
    destroy(Object(e, "m_srcTexture"))>>
  \o destroyDownloadStaging(e, live)
  \o <<destroy(Object(e, "m_compressPso"))>>

(* The uniform holds the reciprocal of the texture's size.                 *)
BC6H_execute01(e, r) ==
  <<bindTexture(0, Object(e, "m_srcTexture")),
    bindUav(0, Object(e, "m_compressTargetRes"), "Write"),
    bindComputePso(Object(e, "m_compressPso")),
    glUniform(<<1>>),
    glDispatchCompute>>

BC6H_execute02(e, r) ==
  <<glMemoryBarrier({"TEXTURE_UPDATE", "SHADER_IMAGE_ACCESS"}),
    copyImage(Object(e, "m_compressTargetRes"), Object(e, "m_dstTexture"))>>

(* The staging buffer is sized for RG32, half of the target's RGBA32.      *)
BC6H_startDownload(e, r, live) ==
  downloadResult(e, live, "m_compressTargetRes", 8)

BC6H_downloadFormat(r) == "PFG_BC6H_UF16"
=============================================================================
