---------------------------- MODULE SharedObjects ----------------------------
(***************************************************************************)
(* What the tasks share: the objects app_main creates before it starts     *)
(* them (main.c:476-486), the notification words of the two tasks that     *)
(* sleep in ulTaskNotifyTake, the picture file on SPIFFS, and whether an   *)
(* assertion or a bad access has stopped the chip.                         *)
(***************************************************************************)
EXTENDS FreeRTOS

CONSTANTS
    Post,          \* POST_SELECT of Kconfig: "none", "http" or "mqtt"
    Pics,          \* the pictures a camera may deliver
    PicSize,       \* their JPEG length, in 128-byte chunks
    Formats,       \* frame formats the attached camera streams
    RingCap,       \* frames that fit in the ring buffer
    HttpQueueLen,  \* capacity of xQueueHttp
    MaxRetry,      \* stream negotiations before the camera is refused
    Junk,          \* what an uninitialised size_t may hold
    Faults,        \* the faults the environment may commit in this instance
    Garbage,       \* the contents of memory that was freed
    NoFile         \* the picture file does not exist

KnownFaults ==
    {"unplug", "descriptor", "stream", "encode", "fopen", "diskfull", "net", "broker"}

ASSUME PostAssumption == Post \in {"none", "http", "mqtt"}
ASSUME PictureAssumption ==
    /\ PicSize \in [Pics -> Nat \ {0}]
    /\ Garbage \notin Pics
ASSUME CapacityAssumption ==
    /\ RingCap \in Nat \ {0}
    /\ HttpQueueLen \in Nat \ {0}
    /\ MaxRetry \in Nat \ {0}
ASSUME JunkAssumption == Junk \subseteq Nat
ASSUME FaultAssumption == Faults \subseteq KnownFaults

CmdQueueLen == 1
RequestQueueLen == 1

\* A file is a byte string: whose picture it is, and how much of it is there.
File == [pic : Pics \cup {Garbage}, len : Nat]
Frame == [format : Formats, pic : Pics]
Ring == [out : Seq(Frame), queue : Seq(Frame)]
Request == [size : Nat]
Notification == [value : Nat, state : {"none", "waiting", "received"}]

ASSUME NoFileAssumption == NoFile \notin File

VARIABLES
    cmdQ,         \* xQueueCmd: shutters -> main
    reqQ,         \* xQueueRequest: main -> POST task
    httpQ,        \* xQueueHttp: main -> HTTP task
    ring,         \* xRingbuffer: camera -> main
    camNotify,    \* notification word of the USB task
    mainNotify,   \* notification word of the main task
    file,         \* /spiffs/picture.jpg
    buf,          \* frame buffer of the open stream: frame->data points to it
    panicked      \* the chip has stopped and will reboot

sharedVars == <<cmdQ, reqQ, httpQ, ring, camNotify, mainNotify, file, buf, panicked>>

\* Everything but the file is created anew at every boot.
SharedBoot ==
    /\ cmdQ = <<>>
    /\ reqQ = <<>>
    /\ httpQ = <<>>
    /\ ring = EmptyRing
    /\ camNotify = NoNotification
    /\ mainNotify = NoNotification
    /\ buf = Garbage
    /\ panicked = FALSE

SharedTypeOK ==
    /\ cmdQ \in Seq({"TAKE"}) /\ Len(cmdQ) <= CmdQueueLen
    /\ reqQ \in Seq(Request) /\ Len(reqQ) <= RequestQueueLen
    /\ httpQ \in Seq({"picture.jpg"}) /\ Len(httpQ) <= HttpQueueLen
    /\ ring \in Ring
    /\ camNotify \in Notification
    /\ mainNotify \in Notification
    /\ file \in File \cup {NoFile}
    /\ buf \in Pics \cup {Garbage}
    /\ panicked \in BOOLEAN
=============================================================================
