CONSTANTS
  Visits = FALSE
  Post = "mqtt"
  Pics = {p1, p2}
  Formats = {"YUYV", "MJPEG"}
  RingCap = 2
  HttpQueueLen = 1
  MaxRetry = 2
  Junk = {7}
  Faults = {"broker", "fopen", "diskfull"}
  Garbage = garbage
  NoFile = nofile
  PicSize <- MCPicSize
  p1 = p1
  p2 = p2
SPECIFICATION FairSpec
INVARIANTS
  MessageIsFile
PROPERTIES
  ImplementsLoan
  LoanEnds
