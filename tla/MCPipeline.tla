----------------------------- MODULE MCPipeline ------------------------------
(***************************************************************************)
(* Requests for model checking the pipeline.                               *)
(***************************************************************************)
EXTENDS PipelineProps

CONSTANTS Codecs, Dithers, RenderDocs

(* The encoders main passes --dither to.                                   *)
Dithering ==
  {"etc1", "etc2_rgba_etc1", "etc2_rgb", "etc2_rgba", "bc1", "bc3"}

Requests(codecs, dithers) ==
  [codec : codecs, dither : dithers, quality : {2}, usingRenderDoc : RenderDocs]

AnyRequest ==
  Requests(Codecs \cap Dithering, Dithers) \cup Requests(Codecs \ Dithering, {FALSE})

(* ETC2 without RenderDoc: the copy of its execute03 is not ordered.       *)
MCRequest == {r \in AnyRequest : UsesETC2(r) => ~r.usingRenderDoc}
=============================================================================
