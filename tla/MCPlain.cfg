CONSTANTS
  Visits = FALSE
  Post = "none"
  Pics = {p1, p2}
  Formats = {"YUYV", "MJPEG", "NV12"}
  RingCap = 2
  HttpQueueLen = 1
  MaxRetry = 2
  Junk = {7}
  Faults = {"unplug", "descriptor", "stream", "encode", "fopen", "diskfull"}
  Garbage = garbage
  NoFile = nofile
  PicSize <- MCPicSize
  p1 = p1
  p2 = p2
SPECIFICATION Spec
INVARIANT TypeOK
INVARIANT OneFrameInFlight
INVARIANT FrameNotOverwritten
