SPECIFICATION Spec
CONSTANTS
  Encoder = {"A"}
  Codecs = {"etc1", "etc2_rgba_etc1", "eac_r11", "eac_rg11", "bc1", "bc3", "bc4", "bc4_snorm",
            "bc5", "bc5_snorm", "bc6h"}
  Dithers = {FALSE, TRUE}
  RenderDocs = {FALSE, TRUE}
  Request <- MCRequest
  FetchBits = {"TEXTURE_FETCH"}
  DownloadBits = {"TEXTURE_UPDATE", "PIXEL_BUFFER"}
  ImageAccessIsEnforced = FALSE
  MaxInFlight = 20
INVARIANTS
  TypeOK
  ConflictsAreOrdered
  MappedPointerIsStable
  CallsNameLiveObjects
  AllObjectsReleased
PROPERTIES
  EventuallyFinished
