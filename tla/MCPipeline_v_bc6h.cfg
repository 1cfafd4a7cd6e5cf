SPECIFICATION Spec
CONSTANTS
  Encoder = {"A"}
  Codecs = {"bc6h"}
  Dithers = {FALSE}
  RenderDocs = {FALSE}
  Request <- MCRequest
  FetchBits = {"TEXTURE_FETCH"}
  DownloadBits = {"TEXTURE_UPDATE", "PIXEL_BUFFER"}
  ImageAccessIsEnforced = FALSE
  MaxInFlight = 20
INVARIANTS
  PayloadIsComplete
