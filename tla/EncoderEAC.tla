----------------------------- MODULE EncoderEAC ------------------------------
(***************************************************************************)
(* EncoderEAC: one or two channels compressed by the same program, told    *)
(* apart by a uniform, then stitched for RG11.                             *)
(***************************************************************************)
EXTENDS GL

rg11(r) == r.codec = "eac_rg11"

EAC_initResources(e, r) ==
  <<createTexture(Object(e, "m_srcTexture")),
    createTexture(Object(e, "m_eacTargetRes[0]"))>>
  \o When(rg11(r), <<createTexture(Object(e, "m_eacTargetRes[1]"))>>)
  \o <<createComputePsoFromFile(Object(e, "m_eacPso"), "eac_r11.glsl")>>
  \o When(rg11(r), <<createTexture(Object(e, "m_stitchedTarget")),
                     createComputePsoFromFile(Object(e, "m_stitchPso"),
                                              "etc2_rgba_stitch.glsl")>>)
  \o uploadSource(e) \o <<destroy(Object(e, "stagingTex"))>>

EAC_deinitResources(e, r, live) ==
  When(rg11(r), <<destroy(Object(e, "m_stitchedTarget"))>>)
  \o <<destroy(Object(e, "m_eacTargetRes[0]"))>>
  \o When(rg11(r), <<destroy(Object(e, "m_eacTargetRes[1]"))>>)
  \o <<destroy(Object(e, "m_srcTexture"))>>
  \o destroyDownloadStaging(e, live)
  \o <<destroy(Object(e, "m_eacPso"))>>
  \o When(rg11(r), <<destroy(Object(e, "m_stitchPso"))>>)

EAC_compressChannel(e, target, channel) ==
  <<bindUav(0, Object(e, target), "Write"), glUniform(<<channel>>), glDispatchCompute>>

EAC_execute01(e, r) ==
  <<bindTexture(0, Object(e, "m_srcTexture")), bindComputePso(Object(e, "m_eacPso"))>>
  \o EAC_compressChannel(e, "m_eacTargetRes[0]", 0)
  \o When(rg11(r), EAC_compressChannel(e, "m_eacTargetRes[1]", 1))

(* Mutant: R11 is stitched too.                                            *)
EAC_execute02Always(e, r) ==
  <<glMemoryBarrier({"TEXTURE_FETCH"}),
    bindTexture(0, Object(e, "m_eacTargetRes[1]")),
    bindTexture(1, Object(e, "m_eacTargetRes[0]")),
    bindUav(0, Object(e, "m_stitchedTarget"), "Write"),
    bindComputePso(Object(e, "m_stitchPso")),
    glDispatchCompute>>

EAC_execute02(e, r) ==
  When(rg11(r),
    <<glMemoryBarrier({"TEXTURE_FETCH"}),
      bindTexture(0, Object(e, "m_eacTargetRes[1]")),
      bindTexture(1, Object(e, "m_eacTargetRes[0]")),
      bindUav(0, Object(e, "m_stitchedTarget"), "Write"),
      bindComputePso(Object(e, "m_stitchPso")),
      glDispatchCompute>>)

EAC_startDownload(e, r, live) ==
  downloadResult(e, live, IF rg11(r) THEN "m_stitchedTarget" ELSE "m_eacTargetRes[0]",
                 IF rg11(r) THEN 16 ELSE 8)

EAC_downloadFormat(r) == IF rg11(r) THEN "PFG_EAC_R11_UNORM" ELSE "PFG_EAC_RG11_UNORM"
=============================================================================
