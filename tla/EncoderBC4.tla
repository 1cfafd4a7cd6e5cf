----------------------------- MODULE EncoderBC4 ------------------------------
(***************************************************************************)
(* EncoderBC4: BC4 of the red channel, or of red and green stitched into   *)
(* BC5, in the unorm or the snorm variant.                                 *)
(***************************************************************************)
EXTENDS GL

redGreen(r) == r.codec \in {"bc5", "bc5_snorm"}
encodeSNorm(r) == r.codec \in {"bc4_snorm", "bc5_snorm"}

BC4_initResources(e, r) ==
  <<createTexture(Object(e, "m_srcTexture")),
    createTexture(Object(e, "m_bc4TargetRes[0]"))>>
  \o When(redGreen(r), <<createTexture(Object(e, "m_bc4TargetRes[1]"))>>)
  \o <<createComputePsoFromFile(Object(e, "m_bc4Pso"), "bc4.glsl")>>
  \o When(redGreen(r), <<createTexture(Object(e, "m_stitchedTarget")),
                         createComputePsoFromFile(Object(e, "m_stitchPso"),
                                                  "etc2_rgba_stitch.glsl")>>)
  \o <<createTexture(Object(e, "m_dstTexture"))>>
  \o uploadSource(e) \o <<destroy(Object(e, "stagingTex"))>>

BC4_deinitResources(e, r, live) ==
  <<destroy(Object(e, "m_dstTexture"))>>
  \o When(redGreen(r), <<destroy(Object(e, "m_stitchedTarget"))>>)
  \o <<destroy(Object(e, "m_bc4TargetRes[0]"))>>
  \o When(redGreen(r), <<destroy(Object(e, "m_bc4TargetRes[1]"))>>)
  \o <<destroy(Object(e, "m_srcTexture"))>>
  \o destroyDownloadStaging(e, live)
  \o <<destroy(Object(e, "m_bc4Pso"))>>
  \o When(redGreen(r), <<destroy(Object(e, "m_stitchPso"))>>)

(* Uniform: channel index, snorm flag.                                     *)
BC4_compressChannel(e, r, target, channel) ==
  <<bindUav(0, Object(e, target), "Write"),
    glUniform(<<channel, IF encodeSNorm(r) THEN 1 ELSE 0>>),
    glDispatchCompute>>

BC4_execute01(e, r) ==
  <<bindTexture(0, Object(e, "m_srcTexture")), bindComputePso(Object(e, "m_bc4Pso"))>>
  \o BC4_compressChannel(e, r, "m_bc4TargetRes[0]", 0)
  \o When(redGreen(r), BC4_compressChannel(e, r, "m_bc4TargetRes[1]", 1))

BC4_execute02(e, r) ==
  When(redGreen(r),
    <<glMemoryBarrier({"TEXTURE_FETCH"}),
      bindTexture(0, Object(e, "m_bc4TargetRes[1]")),
      bindTexture(1, Object(e, "m_bc4TargetRes[0]")),
      bindUav(0, Object(e, "m_stitchedTarget"), "Write"),
      bindComputePso(Object(e, "m_stitchPso")),
      glDispatchCompute>>)

BC4_resultTexture(r) == IF redGreen(r) THEN "m_stitchedTarget" ELSE "m_bc4TargetRes[0]"

BC4_execute03(e, r) ==
  <<glMemoryBarrier({"TEXTURE_UPDATE", "SHADER_IMAGE_ACCESS"}),
    copyImage(Object(e, BC4_resultTexture(r)), Object(e, "m_dstTexture"))>>

BC4_startDownload(e, r, live) ==
  downloadResult(e, live, BC4_resultTexture(r),
                 IF redGreen(r) THEN 16 ELSE 8)

BC4_downloadFormat(r) == IF redGreen(r) THEN "PFG_BC5_UNORM" ELSE "PFG_BC4_UNORM"
=============================================================================
