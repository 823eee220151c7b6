CONSTANTS
  Visits = FALSE
  Post = "mqtt"
  Pics = {p1, p2}
  Formats = {"MJPEG"}
  RingCap = 2
  HttpQueueLen = 1
  MaxRetry = 2
  Junk = {7}
  Faults = {"broker"}
  Garbage = garbage
  NoFile = nofile
  PicSize <- MCPicSize
  p1 = p1
  p2 = p2
SPECIFICATION Spec
INVARIANT AnswerWillCome
