------------------------------ MODULE Snapshot ------------------------------
(***************************************************************************)
(* The whole program: the tasks app_main starts (main.c:487-530), main's   *)
(* own loop, the camera's user and the broker, interleaved.  Nothing runs  *)
(* on a chip that has panicked; the panic handler reboots it, the file     *)
(* system and the camera's plug survive.                                   *)
(***************************************************************************)
EXTENDS UsbCamera, MainTask, HttpPost, MqttPub, HttpServer, Shutter

vars == <<sharedVars, camVars, mainVars, httpPostVars, mqttPubVars, httpServerVars>>

Boot ==
    /\ SharedBoot
    /\ CamBoot
    /\ MainBoot
    /\ HttpPostBoot
    /\ MqttPubBoot
    /\ HttpServerBoot

Init ==
    /\ file = NoFile
    /\ attached \in BOOLEAN
    /\ Boot

\* One step of each task leaves the private state of the others alone.
Camera == CamTask /\ UNCHANGED <<mainVars, httpPostVars, mqttPubVars, httpServerVars>>
User   == UserStep /\ UNCHANGED <<mainVars, httpPostVars, mqttPubVars, httpServerVars>>
Main   == MainStep /\ UNCHANGED <<camVars, httpPostVars, mqttPubVars, httpServerVars>>
Poster == HttpPostStep /\ UNCHANGED <<camVars, mainVars, mqttPubVars, httpServerVars>>
Mqtt   == MqttPubStep /\ UNCHANGED <<camVars, mainVars, httpPostVars, httpServerVars>>
Broker == BrokerStep /\ UNCHANGED <<camVars, mainVars, httpPostVars, httpServerVars>>
Http   == ReceiveName /\ UNCHANGED <<camVars, mainVars, httpPostVars, mqttPubVars>>
Visitor == VisitRoot /\ UNCHANGED <<camVars, mainVars, httpPostVars, mqttPubVars>>
Httpd  == RootGetHandler /\ UNCHANGED <<camVars, mainVars, httpPostVars, mqttPubVars>>
Trigger == SendTake /\ UNCHANGED <<camVars, mainVars, httpPostVars, mqttPubVars, httpServerVars>>

WebServer == Http \/ Visitor \/ Httpd

Run == Camera \/ User \/ Main \/ Poster \/ Mqtt \/ Broker \/ WebServer \/ Trigger

\* abort() or a bad access reboots the chip: all but the file is lost.
Reboot ==
    /\ panicked
    /\ panicked' = FALSE
    /\ UNCHANGED <<file, attached>>
    /\ cmdQ' = <<>> /\ reqQ' = <<>> /\ httpQ' = <<>>
    /\ ring' = EmptyRing /\ buf' = Garbage
    /\ camNotify' = NoNotification /\ mainNotify' = NoNotification
    /\ appFlags' = (IF attached THEN {"CONNECTED"} ELSE {})
    /\ camPc' = "wait" /\ retry' = 0 /\ res' = "ok"
    /\ format' \in Formats /\ session' = "none"
    /\ mainPc' = "waitCmd" /\ jpg' = Garbage /\ picSize' = 0
    /\ postPc' = "idle" /\ upload' = NoUpload
    /\ mqttPc' = "start" /\ mqttUp' = FALSE
    /\ request' = NoRequest /\ message' = NoMessage
    /\ localFileName' = FALSE /\ pagePc' = "idle" /\ page' = NoPage

Next == (~panicked /\ Run) \/ Reboot

Spec == Init /\ [][Next]_vars

\* FreeRTOS runs every task that is ready, and each of these tasks blocks when
\* it has nothing to do, so none keeps another from running for ever.  The
\* user plugs a camera in sooner or later (README.md:204).  The panic handler
\* of the default configuration reboots.
FairSpec ==
    /\ Spec
    /\ WF_vars(Reboot)
    /\ WF_vars(~panicked /\ Camera)
    /\ WF_vars(~panicked /\ Main)
    /\ WF_vars(~panicked /\ Poster)
    /\ WF_vars(~panicked /\ Mqtt)
    /\ WF_vars(~panicked /\ Http)
    /\ WF_vars(~panicked /\ Httpd)
    /\ WF_vars(~panicked /\ User /\ Plug)

-----------------------------------------------------------------------------
(* Typing *)

\* Every variable stays in the range its declaration describes.
TypeOK ==
    /\ SharedTypeOK
    /\ CamTypeOK
    /\ MainTypeOK
    /\ HttpPostTypeOK
    /\ MqttPubTypeOK
    /\ HttpServerTypeOK

\* What keeps the types: the frame being sent is a picture, main handles a
\* frame it has received, and a retry is still allowed while retrying.
TypeInv ==
    /\ TypeOK
    /\ camPc = "send" => buf \in Pics
    /\ camPc = "renegotiate" => retry < MaxRetry
    /\ HoldingFrame => ring.out # <<>>

-----------------------------------------------------------------------------
(* Main and the camera: one frame per trigger.                             *)

\* A frame on its way from the camera to main, counted once.
FramesInFlight ==
    camNotify.value + (IF camPc \in {"getframe", "send"} THEN 1 ELSE 0) + Len(ring.queue)

\* Main asks for a frame (main.c:93) only after it has taken the one it asked
\* for before: never more than one is asked for, being polled or queued, and
\* none unless main is waiting for it.  A second one would overwrite the
\* buffer main reads through frame->data, or serve a later trigger a stale
\* picture.
OneFrameInFlight ==
    /\ FramesInFlight <= 1
    /\ FramesInFlight = 1 => mainPc = "receive"

\* The ring carries only the frame's header (usb_camera.c:304).  While main
\* encodes or writes what frame->data points to, the camera never overwrites
\* it: what main reads is the picture it received, or memory that uvc_close
\* freed because the camera was unplugged in between.
FrameNotOverwritten ==
    HoldingFrame => buf \in {Head(ring.out).pic, Garbage}

\* What passes the size check of main.c:586-592 and is offered to the POST
\* task and the web server is no torn picture, even on a full disk or after a
\* failed fopen left pictureSize uninitialised: the file is gone, or has the
\* length of the request and, while no camera is unplugged, one picture's data.
CheckedFileIsWhole ==
    /\ mainPc \in {"post", "take", "blocked", "publish"}
    /\ file # NoFile
    => /\ file.pic \in Pics
       /\ file.len = PicSize[file.pic]
       /\ picSize = file.len

-----------------------------------------------------------------------------
(* Main and the POST task: the file is lent, not copied.                   *)

MqttAtRest == mqttPc \in {"start", "waiting", "idle"}

PosterIdle == postPc = "idle" /\ MqttAtRest

\* The file is in the POST task's hands: it waits in the queue or is served.
FileOnLoan == reqQ # <<>> \/ ~PosterIdle

\* main.c:610 can never fail: when main sends a request the queue is empty and
\* the POST task has finished with the one before, so no turn of the loop
\* publishes a picture while an older one is still being sent.
RequestQueueHasRoom == mainPc = "post" => ~FileOnLoan

\* Main rewrites the picture file at every trigger (main.c:574, :123); it
\* does so only when the POST task is not about to read it.
LentFileStable == [][FileOnLoan => file' = file]_vars

\* What an upload has delivered when its reply is read (http_post.c:55-181)
\* comes from the picture file as it is now and is announced with its length:
\* the file's beginning without a gap, and all of it if the task still has the
\* connection it opened.  Main, the disk and the task share nothing but the
\* file's name, and a write that failed has closed the socket, not the upload.
UploadIsFile ==
    postPc = "reply" =>
        /\ file # NoFile
        /\ upload.pic = file.pic
        /\ upload.declared = file.len
        /\ upload.sent <= file.len
        /\ upload.open <=> upload.sent = file.len

\* What is published on MQTT (mqtt_pub.c:114-127) is the file as it is now,
\* as long as the size the request carries says: main has not rewritten it
\* between the task's fopen and its freads.
MessageIsFile ==
    mqttPc = "notify" /\ message # NoMessage =>
        /\ file # NoFile
        /\ message = file

\* The exchange follows the protocol of Rendezvous, which knows no queue, no
\* notification and no task: each step of the code is one step of it or none.
LoanPhase ==
    IF reqQ # <<>> THEN "offered"
    ELSE IF ~PosterIdle THEN "lent"
    ELSE IF Awoken THEN "answered"
    ELSE IF AwaitingPost THEN "lost"
    ELSE "home"

Loan == INSTANCE Rendezvous WITH
    phase <- LoanPhase,
    doc <- file,
    down <- panicked,
    Docs <- File \cup {NoFile}

ImplementsLoan == Loan!Spec

\* main.c:613 waits without a timeout.  While it sleeps, the answer is still
\* to come or has just come: the request is queued, being served, or main has
\* been notified.  (mqtt_pub.c:140, http_post.c:201: "send task notify".)
AnswerWillCome == mainPc = "blocked" => FileOnLoan \/ Awoken

\* The MQTT task waits for its first connection without a timeout
\* (mqtt_pub.c:103); from then on it serves connected or not.
BrokerReached == Post = "mqtt" => mqttPc \notin {"start", "waiting"}

\* However often the network fails, the POST task is done with the file some
\* day, once it has reached its broker, if it needs one: it finishes or gives
\* up.  That main hears of it is not said, and not so (PictureViewable).
LoanEnds == (FileOnLoan /\ BrokerReached) ~> ~FileOnLoan

-----------------------------------------------------------------------------
(* What the user sees.                                                     *)

\* A trigger main.c:567 can receive leads to a picture announced to the web
\* server, through the camera's task, the ring buffer and the file.
TriggerServed == cmdQ # <<>> ~> mainPc = "publish"

\* "You can view the pictures taken using the built-in WEB server"
\* (README.md:217): a picture that passed the size check reaches it.
PictureViewable == mainPc = "post" ~> localFileName

\* The root page shows a picture that was taken, and all of it ("You can view
\* the pictures taken", README.md:217), although main may rewrite the file
\* between the handler's stat, fopen and freads (http_server.c:100, :73, :78).
PageShowsPicture ==
    pagePc = "reply" => page.pic \in Pics /\ page.size = PicSize[page.pic]

\* The page's image is sent by a length computed before the picture was read
\* (http_server.c:109, :131).  It is the length mbedtls has written: no byte is
\* sent that nobody wrote, none is left out, and the encoder is never refused.
PageTextIsWhole ==
    pagePc = "reply" => page.text = calcBase64EncodedSize(page.size * ChunkBytes)

\* Nothing locks the file while a page is built (http_server.c:73-131), but once
\* main leaves it alone the pages become right and stay right: a page under way
\* when main last wrote the file is the last one that may be torn.
PagesSettle == <>[][UNCHANGED file]_vars => <>[]PageShowsPicture

\* "Supports plugging and unplugging USB cameras" (README.md:10): with a camera
\* that stays plugged in, the USB task comes back to serving frames.
CameraComesBack == <>[]attached => []<>(camPc = "loop")
=============================================================================
