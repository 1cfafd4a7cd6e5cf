SPECIFICATION Spec
CONSTANTS
  Encoder = {"A", "B"}
  Codecs = {"etc2_rgba_etc1", "bc3"}
  Dithers = {FALSE}
  RenderDocs = {FALSE}
  Request <- MCRequest
  FetchBits = {"TEXTURE_FETCH"}
  DownloadBits = {"TEXTURE_UPDATE", "PIXEL_BUFFER"}
  ImageAccessIsEnforced = FALSE
  MaxInFlight = 3
INVARIANTS
  NoForeignBindings
PROPERTIES
  DeliversWhatWasAsked
