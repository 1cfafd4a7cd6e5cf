SPECIFICATION Spec
CONSTANTS
  Encoder = {"A"}
  Codecs = {"etc1", "etc2_rgba_etc1", "etc2_rgb", "etc2_rgba", "bc1", "bc3", "bc4", "bc5"}
  Dithers = {FALSE, TRUE}
  RenderDocs = {FALSE, TRUE}
  Request <- MCRequest
  FetchBits = {"TEXTURE_FETCH", "SHADER_IMAGE_ACCESS"}
  DownloadBits = {"TEXTURE_UPDATE", "PIXEL_BUFFER"}
  ImageAccessIsEnforced = FALSE
  MaxInFlight = 20
INVARIANTS
  ConflictsAreOrdered
PROPERTIES
  DeliversWhatWasAsked
