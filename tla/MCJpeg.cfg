SPECIFICATION Spec
CONSTANTS
  OutBufSize = 512
  JpgBufLen = 768
  Formats = {"GRAYSCALE", "RGB888", "RGB565", "YUV422"}
  Widths = {2, 18}
  Heights = {16, 18}
  Qualities = {60}
  Patterns = {"ramp", "edges", "grid"}
  Source <- MCSource
INVARIANTS
  TypeOK
  BeginningKept
  NoMarkerInScan
  MemoryReturned
  PictureShowsFrame
