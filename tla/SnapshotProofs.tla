--------------------------- MODULE SnapshotProofs ---------------------------
(***************************************************************************)
(* Proofs about Snapshot for all values of its constants: types, and the   *)
(* frame on its way from the camera to main.                               *)
(***************************************************************************)
EXTENDS Snapshot, TLAPS

(***************************************************************************)
(* What each task leaves alone.                                            *)
(***************************************************************************)

\* The camera task touches, of what is shared, its own notification word, the
\* ring and its buffer; and it may panic.
LEMMA CameraFrame ==
    Camera => UNCHANGED <<cmdQ, reqQ, httpQ, mainNotify, file,
                          mainVars, httpPostVars, mqttPubVars, httpServerVars>>
  BY DEF Camera, CamTask, sharedVars, camVars, WaitForEvent, OpenCamera,
         RefuseDescriptor, AssertFails, Negotiate, Renegotiate, StartStream,
         NoticeDisconnect, WakeUp, GetFrame, GetFrameFails, SendFrame, CloseCamera

\* The user and the broker touch nothing shared, nor give a POST task work.
LEMMA OutsideFrame ==
    User \/ Broker => UNCHANGED <<sharedVars, mainVars, httpPostVars,
                                  MqttAtRest, request, message, httpServerVars>>
  BY DEF MqttAtRest, User, UserStep, Broker, BrokerStep, Plug, Unplug, BrokerConnects,
         BrokerDisconnects, mqttPubVars

\* A trigger and the web server touch only their own queue.
LEMMA QueueFrame ==
    Trigger \/ WebServer => UNCHANGED <<reqQ, ring, camNotify, mainNotify, file, buf, panicked,
                                   camVars, mainVars, httpPostVars, mqttPubVars>>
  BY DEF Trigger, SendTake, WebServer, Http, Visitor, Httpd, ReceiveName, VisitRoot,
         RootGetHandler, StatPicture, NoPicture, OpenPicture, OpenPictureFails, ReadPicture,
         EncodePicture, SendPage, sharedVars

(***************************************************************************)
(* Types                                                                   *)
(***************************************************************************)

LEMMA NotificationTypes ==
    /\ NoNotification \in Notification
    /\ \A n \in Notification : /\ NotifyGive(n) \in Notification
                               /\ StartWaiting(n) \in Notification
                               /\ NotifyOverwrite(n, 0) \in Notification
  BY DEF NoNotification, NotifyGive, StartWaiting, NotifyOverwrite, Notification

LEMMA RingTypes ==
    /\ EmptyRing \in Ring
    /\ \A r \in Ring : /\ RingReceive(r) \in Ring
                       /\ RingReturn(r) \in Ring
                       /\ RingDrain(r) \in Ring
                       /\ \A f \in Frame : /\ RingSend(r, f, RingCap) \in Ring
                                           /\ RingSend(r, f, RingCap).out = r.out
  <1>1. EmptyRing \in Ring
    BY DEF EmptyRing, Ring
  <1>2. ASSUME NEW r \in Ring
        PROVE  /\ RingReceive(r) \in Ring
               /\ RingReturn(r) \in Ring
               /\ RingDrain(r) \in Ring
    <2>1. RingReceive(r) \in Ring
      BY DEF Ring, RingReceive
    <2>2. RingReturn(r) \in Ring
      BY DEF Ring, RingReturn
    <2> QED
      BY <1>1, <2>1, <2>2 DEF RingDrain
  <1>3. ASSUME NEW r \in Ring, NEW f \in Frame
        PROVE  /\ RingSend(r, f, RingCap) \in Ring
               /\ RingSend(r, f, RingCap).out = r.out
    <2>1. Append(r.queue, f) \in Seq(Frame)
      BY DEF Ring
    <2> QED
      BY <2>1 DEF Ring, RingSend
  <1> QED
    BY <1>1, <1>2, <1>3

\* xQueueSend keeps a bounded queue bounded.
LEMMA QueueSendType ==
    ASSUME NEW S, NEW q \in Seq(S), NEW x \in S, NEW n \in Nat, Len(q) <= n
    PROVE  QueueSend(q, x, n) \in Seq(S) /\ Len(QueueSend(q, x, n)) <= n
  BY DEF QueueSend, QueueHasRoom

LEMMA TailType ==
    ASSUME NEW S, NEW q \in Seq(S), q # <<>>, NEW n \in Nat, Len(q) <= n
    PROVE  Tail(q) \in Seq(S) /\ Len(Tail(q)) <= n /\ Head(q) \in S
  OBVIOUS

\* The frame main holds is one the camera sent.
LEMMA HeldFrame ==
    ASSUME TypeInv, HoldingFrame
    PROVE  /\ Head(ring.out) \in Frame
           /\ Head(ring.out).pic \in Pics
           /\ PicSize[Head(ring.out).pic] \in Nat \ {0}
  <1>1. ring.out \in Seq(Frame) /\ ring.out # <<>>
    BY DEF TypeInv, TypeOK, SharedTypeOK, Ring
  <1>2. Head(ring.out) \in Frame
    BY <1>1
  <1>3. Head(ring.out).pic \in Pics
    BY <1>2 DEF Frame
  <1> QED
    BY <1>2, <1>3, PictureAssumption

LEMMA InitTypes == Init => TypeInv
  <1> SUFFICES ASSUME Init PROVE TypeInv
    OBVIOUS
  <1> USE DEF Init, Boot
  <1>1. SharedTypeOK
    <2>1. cmdQ = <<>> /\ reqQ = <<>> /\ httpQ = <<>>
      BY DEF SharedBoot
    <2>2. HttpQueueLen \in Nat
      BY CapacityAssumption
    <2>3. ring \in Ring /\ camNotify \in Notification /\ mainNotify \in Notification
      BY NotificationTypes, RingTypes DEF SharedBoot
    <2>4. buf \in Pics \cup {Garbage} /\ file \in File \cup {NoFile} /\ panicked \in BOOLEAN
      BY DEF SharedBoot
    <2> QED
      BY <2>1, <2>2, <2>3, <2>4 DEF SharedTypeOK, CmdQueueLen, RequestQueueLen
  <1>2. CamTypeOK
    BY CapacityAssumption DEF CamBoot, CamTypeOK, CamPcs
  <1>3. MainTypeOK /\ HttpPostTypeOK /\ MqttPubTypeOK /\ HttpServerTypeOK
    BY DEF MainBoot, MainTypeOK, MainPcs, HttpPostBoot, HttpPostTypeOK, PostPcs, Upload, NoUpload,
           MqttPubBoot, MqttPubTypeOK, MqttPcs, NoRequest, NoMessage, Request, File,
           HttpServerBoot, HttpServerTypeOK, PagePcs, NoPage
  <1> QED
    BY <1>1, <1>2, <1>3 DEF TypeInv, TypeOK, CamBoot, MainBoot, HoldingFrame

\* The camera task, the user and the types
LEMMA CameraKeepsTypes == TypeInv /\ (Camera \/ User) => TypeInv'
  <1> SUFFICES ASSUME TypeInv, Camera \/ User PROVE TypeInv'
    OBVIOUS
  <1>0. TypeOK /\ SharedTypeOK /\ CamTypeOK
    BY DEF TypeInv, TypeOK
  <1>1. UNCHANGED <<cmdQ, reqQ, httpQ, mainNotify, file,
                    mainVars, httpPostVars, mqttPubVars, httpServerVars>>
    BY CameraFrame, OutsideFrame DEF User, sharedVars, mqttPubVars
  <1>2. MainTypeOK' /\ HttpPostTypeOK' /\ MqttPubTypeOK' /\ HttpServerTypeOK'
    BY <1>1 DEF TypeInv, TypeOK, MainTypeOK, HttpPostTypeOK, MqttPubTypeOK,
       HttpServerTypeOK, mainVars, httpPostVars, mqttPubVars, httpServerVars
  <1>3. /\ ring' \in Ring
        /\ ring'.out = ring.out
        /\ camNotify' \in Notification
        /\ buf' \in Pics \cup {Garbage}
        /\ panicked' \in BOOLEAN
        /\ CamTypeOK'
        /\ camPc' = "send" => buf' \in Pics
        /\ camPc' = "renegotiate" => retry' < MaxRetry
    <2> USE <1>0 DEF SharedTypeOK, CamTypeOK, CamPcs, sharedVars
    <2>1. CASE UserStep
      BY <2>1, ZenonT(40) DEF TypeInv, UserStep, Plug, Unplug
    <2>2. CASE WaitForEvent \/ OpenCamera \/ RefuseDescriptor \/ StartStream
               \/ NoticeDisconnect
      BY <2>2 DEF TypeInv, WaitForEvent, OpenCamera, RefuseDescriptor, StartStream,
         NoticeDisconnect, Answers
    <2>3. CASE AssertFails
      BY <2>3 DEF TypeInv, AssertFails, camVars
    <2>4. CASE Negotiate
      BY <2>4, CapacityAssumption DEF Negotiate, Answers
    <2>5. CASE Renegotiate
      BY <2>5, CapacityAssumption DEF TypeInv, Renegotiate, AfterRetry, Answers
    <2>6. CASE WakeUp
      BY <2>6, NotificationTypes DEF WakeUp
    <2>7. CASE GetFrame \/ GetFrameFails
      BY <2>7 DEF GetFrame, GetFrameFails
    <2>8. CASE SendFrame
      <3>1. [format |-> format, pic |-> buf] \in Frame
        BY <2>8 DEF TypeInv, SendFrame, Frame
      <3> QED
        BY <2>8, <3>1, RingTypes DEF SendFrame, AfterSend
    <2>9. CASE CloseCamera
      BY <2>9 DEF CloseCamera
    <2> QED
      BY <2>1, <2>2, <2>3, <2>4, <2>5, <2>6, <2>7, <2>8, <2>9 DEF Camera, CamTask, User
  <1>4. SharedTypeOK'
    BY <1>0, <1>1, <1>3 DEF SharedTypeOK
  <1>5. HoldingFrame' => ring'.out # <<>>
    BY <1>1, <1>3 DEF TypeInv, HoldingFrame, mainVars
  <1> QED
    BY <1>2, <1>3, <1>4, <1>5 DEF TypeInv, TypeOK

LEMMA MainKeepsTypes == TypeInv /\ Main => TypeInv'
  <1> SUFFICES ASSUME TypeInv, Main PROVE TypeInv'
    OBVIOUS
  <1>0. TypeOK /\ SharedTypeOK /\ MainTypeOK
    BY DEF TypeInv, TypeOK
  <1>1. UNCHANGED <<camVars, httpPostVars, mqttPubVars, httpServerVars>>
    BY DEF Main
  <1>2. CamTypeOK' /\ HttpPostTypeOK' /\ MqttPubTypeOK' /\ HttpServerTypeOK'
    BY <1>1 DEF TypeInv, TypeOK, CamTypeOK, HttpPostTypeOK, MqttPubTypeOK,
       HttpServerTypeOK, camVars, httpPostVars, mqttPubVars, httpServerVars
  <1>3. buf' = buf /\ panicked' = panicked
    BY DEF Main, MainStep, ReceiveCommand, DeleteLocalFile, ClearAndNotify, ReceiveFrame,
       Encode, EncodeFails, OpenFile, OpenFileFails, WriteFile, CheckSize, SendRequest,
       TakeNotification, Resume, Publish, sharedVars
  <1>4. /\ SharedTypeOK'
        /\ MainTypeOK'
        /\ HoldingFrame' => ring'.out # <<>>
    <2> USE <1>0, <1>3 DEF SharedTypeOK, MainTypeOK, MainPcs, HoldingFrame, sharedVars
    <2>1. CASE ReceiveCommand
      <3>1. cmdQ' \in Seq({"TAKE"}) /\ Len(cmdQ') <= CmdQueueLen
        BY <2>1, TailType DEF ReceiveCommand, CmdQueueLen
      <3> QED
        BY <2>1, <3>1 DEF ReceiveCommand
    <2>2. CASE DeleteLocalFile
      BY <2>2 DEF DeleteLocalFile
    <2>3. CASE ClearAndNotify
      BY <2>3, RingTypes, NotificationTypes DEF ClearAndNotify
    <2>4. CASE ReceiveFrame
      <3>1. ring'.out # <<>> /\ ring' \in Ring
        BY <2>4, RingTypes DEF ReceiveFrame, Receivable, RingReceive
      <3>2. mainPc' \in {"encode", "fopen", "waitCmd"}
        BY <2>4 DEF ReceiveFrame, AfterReceive
      <3> QED
        BY <2>4, <3>1, <3>2 DEF ReceiveFrame
    <2>5. CASE Encode \/ EncodeFails
      BY <2>5 DEF TypeInv, Encode, EncodeFails
    <2>6. CASE OpenFile
      <3>1. file' \in File
        BY <2>6 DEF OpenFile, File
      <3> QED
        BY <2>6, <3>1 DEF TypeInv, OpenFile
    <2>7. CASE OpenFileFails
      BY <2>7, RingTypes, JunkAssumption DEF OpenFileFails
    <2>8. CASE WriteFile
      <3>1. PicSize[Head(ring.out).pic] \in Nat \ {0}
        BY <2>8, HeldFrame DEF WriteFile
      <3>2. \A n \in Written(PicSize[Head(ring.out).pic]) : n \in Nat
        BY <3>1 DEF Written
      <3>3. file' \in File
        BY <2>8, <3>2 DEF WriteFile, JpgData, File
      <3> QED
        BY <2>8, <3>1, <3>3, RingTypes DEF WriteFile
    <2>9. CASE CheckSize
      BY <2>9 DEF CheckSize, AfterCheck
    <2>10. CASE SendRequest
      <3>1. [size |-> picSize] \in Request
        BY DEF Request
      <3>2. reqQ' \in Seq(Request) /\ Len(reqQ') <= RequestQueueLen
        BY <2>10, <3>1, QueueSendType DEF SendRequest, RequestQueueLen
      <3> QED
        BY <2>10, <3>2 DEF SendRequest
    <2>11. CASE TakeNotification
      BY <2>11, NotificationTypes DEF TakeNotification
    <2>12. CASE Resume
      BY <2>12, NotificationTypes DEF Resume
    <2>13. CASE Publish
      <3>1. httpQ' \in Seq({"picture.jpg"}) /\ Len(httpQ') <= HttpQueueLen
        BY <2>13, QueueSendType, CapacityAssumption DEF Publish
      <3> QED
        BY <2>13, <3>1 DEF Publish
    <2> QED
      BY <2>1, <2>2, <2>3, <2>4, <2>5, <2>6, <2>7, <2>8, <2>9, <2>10, <2>11, <2>12, <2>13
      DEF Main, MainStep
  <1> QED
    BY <1>1, <1>2, <1>3, <1>4 DEF TypeInv, TypeOK, camVars

LEMMA PosterKeepsTypes == TypeInv /\ Poster => TypeInv'
  <1> SUFFICES ASSUME TypeInv, Poster PROVE TypeInv'
    OBVIOUS
  <1>0. TypeOK /\ SharedTypeOK /\ HttpPostTypeOK
    BY DEF TypeInv, TypeOK
  <1>1. UNCHANGED <<camVars, mainVars, mqttPubVars, httpServerVars>>
    BY DEF Poster
  <1>2. CamTypeOK' /\ MainTypeOK' /\ MqttPubTypeOK' /\ HttpServerTypeOK'
    BY <1>1 DEF TypeInv, TypeOK, CamTypeOK, MainTypeOK, MqttPubTypeOK,
       HttpServerTypeOK, camVars, mainVars, mqttPubVars, httpServerVars
  <1>3. /\ SharedTypeOK' /\ HttpPostTypeOK'
        /\ UNCHANGED <<ring, buf>>
    <2> USE <1>0 DEF SharedTypeOK, HttpPostTypeOK, PostPcs, sharedVars, httpPostVars, GiveUp
    <2>1. CASE TakePostRequest
      <3>1. reqQ' \in Seq(Request) /\ Len(reqQ') <= RequestQueueLen
        BY <2>1, TailType DEF TakePostRequest, RequestQueueLen
      <3> QED
        BY <2>1, <3>1 DEF TakePostRequest
    <2>2. CASE StatFile
      BY <2>2 DEF StatFile, File, Upload, NoUpload
    <2>3. CASE StatFails \/ SendHeader \/ SendEnd
      BY <2>3 DEF StatFails, SendHeader, SendEnd
    <2>8. CASE Connect
      BY <2>8 DEF Connect, Upload
    <2>9. CASE SendChunkFails
      <3>1. upload.read + 1 \in Nat
        BY DEF Upload
      <3>2. [upload EXCEPT !.read = @ + 1, !.open = FALSE] \in Upload
        BY <3>1 DEF Upload
      <3> QED
        BY <2>9, <3>2 DEF SendChunkFails
    <2>4. CASE OpenForUpload
      BY <2>4 DEF OpenForUpload, File, Upload
    <2>5. CASE OpenForUploadFails
      BY <2>5 DEF OpenForUploadFails
    <2>6. CASE SendChunk
      <3>1. /\ upload.pic \in Pics \cup {Garbage} /\ upload.declared \in Nat
            /\ upload.read + 1 \in Nat /\ upload.sent + 1 \in Nat
        BY DEF Upload
      <3>2. WithChunk(upload) \in Upload
        BY <3>1 DEF WithChunk, Upload
      <3> QED
        BY <2>6, <3>2 DEF SendChunk
    <2>7. CASE ReadReply
      BY <2>7, NotificationTypes DEF ReadReply
    <2> QED
      BY <2>1, <2>2, <2>3, <2>4, <2>5, <2>6, <2>7, <2>8, <2>9 DEF Poster, HttpPostStep
  <1> QED
    BY <1>1, <1>2, <1>3 DEF TypeInv, TypeOK, HoldingFrame, camVars, mainVars

LEMMA MqttKeepsTypes == TypeInv /\ (Mqtt \/ Broker) => TypeInv'
  <1> SUFFICES ASSUME TypeInv, Mqtt \/ Broker PROVE TypeInv'
    OBVIOUS
  <1>0. TypeOK /\ SharedTypeOK /\ MqttPubTypeOK
    BY DEF TypeInv, TypeOK
  <1>1. UNCHANGED <<camVars, mainVars, httpPostVars, httpServerVars>>
    BY DEF Mqtt, Broker
  <1>2. CamTypeOK' /\ MainTypeOK' /\ HttpPostTypeOK' /\ HttpServerTypeOK'
    BY <1>1 DEF TypeInv, TypeOK, CamTypeOK, MainTypeOK, HttpPostTypeOK,
       HttpServerTypeOK, camVars, mainVars, httpPostVars, httpServerVars
  <1>3. /\ SharedTypeOK' /\ MqttPubTypeOK'
        /\ UNCHANGED <<ring, buf>>
    <2> USE <1>0 DEF SharedTypeOK, MqttPubTypeOK, MqttPcs, sharedVars
    <2>1. CASE BrokerStep
      BY <2>1 DEF BrokerStep, BrokerConnects, BrokerDisconnects
    <2>2. CASE TakeMqttRequest
      <3>1. reqQ' \in Seq(Request) /\ Len(reqQ') <= RequestQueueLen /\ request' \in Request
        BY <2>2, TailType DEF TakeMqttRequest, RequestQueueLen
      <3> QED
        BY <2>2, <3>1 DEF TakeMqttRequest, NoMessage, File
    <2>3. CASE WaitForBroker \/ CheckConnected \/ PublishFails
      BY <2>3 DEF WaitForBroker, CheckConnected, PublishFails, NoMessage, File
    <2>4. CASE OpenForPublish \/ PublishPicture
      BY <2>4 DEF OpenForPublish, PublishPicture, File, Request
    <2>5. CASE NotifyMain
      BY <2>5, NotificationTypes DEF NotifyMain
    <2> QED
      BY <2>1, <2>2, <2>3, <2>4, <2>5 DEF Mqtt, MqttPubStep, Broker
  <1> QED
    BY <1>1, <1>2, <1>3 DEF TypeInv, TypeOK, HoldingFrame, camVars, mainVars

\* The length of an encoded picture is a number of characters.
LEMMA EncodedIsNat ==
  ASSUME NEW n \in Nat, NEW room PROVE Encoded(n, room) \in Nat
  BY DEF Encoded, Base64Length

LEMMA QueuesKeepTypes == TypeInv /\ (Trigger \/ WebServer) => TypeInv'
  <1> SUFFICES ASSUME TypeInv, Trigger \/ WebServer PROVE TypeInv'
    OBVIOUS
  <1>0. TypeOK /\ SharedTypeOK /\ HttpServerTypeOK
    BY DEF TypeInv, TypeOK
  <1>1. UNCHANGED <<reqQ, ring, camNotify, mainNotify, file, buf, panicked,
                    camVars, mainVars, httpPostVars, mqttPubVars>>
    BY QueueFrame
  <1>2. /\ cmdQ' \in Seq({"TAKE"}) /\ Len(cmdQ') <= CmdQueueLen
        /\ httpQ' \in Seq({"picture.jpg"}) /\ Len(httpQ') <= HttpQueueLen
        /\ HttpServerTypeOK'
    <2>1. CASE Trigger
      <3>1. UNCHANGED <<httpQ, httpServerVars>>
        BY <2>1 DEF Trigger, SendTake
      <3>2. cmdQ' \in Seq({"TAKE"}) /\ Len(cmdQ') <= CmdQueueLen
        BY <1>0, <2>1 DEF Trigger, SendTake, SharedTypeOK, QueueHasRoom, CmdQueueLen
      <3> QED
        BY <1>0, <3>1, <3>2 DEF SharedTypeOK, HttpServerTypeOK, httpServerVars
    <2>2. CASE Http
      <3>1. httpQ' \in Seq({"picture.jpg"}) /\ Len(httpQ') <= HttpQueueLen
        BY <1>0, <2>2, TailType, CapacityAssumption DEF Http, ReceiveName, SharedTypeOK
      <3> QED
        BY <1>0, <2>2, <3>1 DEF Http, ReceiveName, SharedTypeOK, HttpServerTypeOK
    <2>3. CASE Visitor \/ Httpd
      <3>1. UNCHANGED sharedVars
        BY <2>3 DEF Visitor, Httpd, VisitRoot, RootGetHandler, StatPicture, NoPicture,
           OpenPicture, OpenPictureFails, ReadPicture, EncodePicture, SendPage
      <3>2. HttpServerTypeOK'
        <4> USE <1>0 DEF HttpServerTypeOK, PagePcs
        <4>1. CASE StatPicture
          <5>1. file.len \in Nat
            BY <4>1 DEF SharedTypeOK, StatPicture, File
          <5> QED
            BY <4>1, <5>1 DEF StatPicture, NoPage, sharedVars
        <4>2. CASE OpenPicture
          <5>1. file.pic \in Pics \cup {Garbage}
            BY <4>2 DEF SharedTypeOK, OpenPicture, File
          <5> QED
            BY <4>2, <5>1 DEF OpenPicture
        <4>3. CASE ReadPicture
          <5>1. page.pic \in Pics \cup {Garbage} /\ page.got + 1 \in Nat
            OBVIOUS
          <5>2. Read(page) \in [pic : Pics \cup {Garbage}, size : Nat, got : Nat, text : Nat]
            BY <5>1 DEF Read
          <5> QED
            BY <4>3, <5>2 DEF ReadPicture
        <4>4. CASE EncodePicture
          <5> DEFINE bytes == page.size * ChunkBytes
                     text == Encoded(bytes, calcBase64EncodedSize(bytes) + 1)
          <5>1. text \in Nat
            BY EncodedIsNat DEF ChunkBytes
          <5>2. page' = [page EXCEPT !.text = text] /\ pagePc' = "reply"
                /\ localFileName' = localFileName
            BY <4>4 DEF EncodePicture
          <5> QED
            BY <5>1, <5>2
        <4>5. CASE VisitRoot \/ NoPicture \/ OpenPictureFails \/ SendPage
          BY <4>5 DEF VisitRoot, NoPicture, OpenPictureFails, SendPage, NoPage
        <4> QED
          BY <2>3, <4>1, <4>2, <4>3, <4>4, <4>5 DEF Visitor, Httpd, RootGetHandler
      <3> QED
        BY <1>0, <3>1, <3>2 DEF SharedTypeOK, sharedVars
    <2> QED
      BY <2>1, <2>2, <2>3 DEF WebServer
  <1>3. SharedTypeOK'
    BY <1>0, <1>1, <1>2 DEF SharedTypeOK
  <1> QED
    BY <1>1, <1>2, <1>3 DEF TypeInv, TypeOK, CamTypeOK, MainTypeOK, HttpPostTypeOK,
       MqttPubTypeOK, HoldingFrame, camVars, mainVars, httpPostVars, mqttPubVars

LEMMA RebootKeepsTypes == TypeInv /\ Reboot => TypeInv'
  <1> SUFFICES ASSUME TypeInv, Reboot PROVE TypeInv'
    OBVIOUS
  <1> USE DEF Reboot
  <1>1. SharedTypeOK'
    <2>1. HttpQueueLen \in Nat
      BY CapacityAssumption
    <2>2. file' \in File \cup {NoFile}
      BY DEF TypeInv, TypeOK, SharedTypeOK
    <2>3. ring' \in Ring /\ camNotify' \in Notification /\ mainNotify' \in Notification
      BY NotificationTypes, RingTypes
    <2>4. cmdQ' = <<>> /\ reqQ' = <<>> /\ httpQ' = <<>>
      OBVIOUS
    <2>5. buf' \in Pics \cup {Garbage} /\ panicked' \in BOOLEAN
      OBVIOUS
    <2> QED
      BY <2>1, <2>2, <2>3, <2>4, <2>5 DEF SharedTypeOK, CmdQueueLen, RequestQueueLen
  <1>2. CamTypeOK'
    BY CapacityAssumption DEF TypeInv, TypeOK, CamTypeOK, CamPcs
  <1>3. MainTypeOK' /\ HttpPostTypeOK' /\ MqttPubTypeOK' /\ HttpServerTypeOK'
    BY DEF MainTypeOK, MainPcs, HttpPostTypeOK, PostPcs, Upload, NoUpload, MqttPubTypeOK, MqttPcs,
           NoRequest, NoMessage, Request, File, HttpServerTypeOK,
           PagePcs, NoPage
  <1> QED
    BY <1>1, <1>2, <1>3 DEF TypeInv, TypeOK, HoldingFrame

\* Stuttering
LEMMA StutterKeepsTypes == TypeInv /\ UNCHANGED vars => TypeInv'
  BY DEF vars, TypeInv, TypeOK, SharedTypeOK, CamTypeOK, MainTypeOK, HttpPostTypeOK,
     MqttPubTypeOK, HttpServerTypeOK, HoldingFrame, sharedVars, camVars, mainVars,
     httpPostVars, mqttPubVars, httpServerVars

LEMMA TypeInvariant == Spec => []TypeInv
  <1>1. TypeInv /\ [Next]_vars => TypeInv'
    BY CameraKeepsTypes, MainKeepsTypes, PosterKeepsTypes, MqttKeepsTypes,
       QueuesKeepTypes, RebootKeepsTypes, StutterKeepsTypes DEF Next, Run
  <1> QED
    BY InitTypes, <1>1, PTL DEF Spec

\* Every step of every task leaves every variable in its range, and the frame
\* main handles is always one it received: the types are invariant.
THEOREM TypeCorrect == Spec => []TypeOK
  <1>1. TypeInv => TypeOK
    BY DEF TypeInv
  <1> QED
    BY <1>1, TypeInvariant, PTL
-----------------------------------------------------------------------------
(***************************************************************************)
(* Main and the camera: at most one frame is under way, and the buffer     *)
(* main reads through frame->data is not overwritten.                      *)
(***************************************************************************)

Polling == camPc \in {"getframe", "send"}

\* OneFrameInFlight, case by case, without the sum.
FlightInv ==
    /\ camNotify.value \in {0, 1}
    /\ Len(ring.queue) \in {0, 1}
    /\ camNotify.value = 1 => ~Polling /\ Len(ring.queue) = 0
    /\ Polling => Len(ring.queue) = 0
    /\ camNotify.value = 1 \/ Polling \/ Len(ring.queue) = 1 => mainPc = "receive"

LEMMA FlightCases == FlightInv => OneFrameInFlight
  <1> SUFFICES ASSUME FlightInv PROVE OneFrameInFlight
    OBVIOUS
  <1> DEFINE asked == camNotify.value
             queued == Len(ring.queue)
             polled == IF camPc \in {"getframe", "send"} THEN 1 ELSE 0
  <1>1. /\ asked \in {0, 1} /\ queued \in {0, 1} /\ polled \in {0, 1}
        /\ asked = 1 => polled = 0 /\ queued = 0
        /\ polled = 1 => queued = 0
        /\ asked = 1 \/ polled = 1 \/ queued = 1 => mainPc = "receive"
    BY DEF FlightInv, Polling
  <1>2. FramesInFlight = asked + polled + queued
    BY DEF FramesInFlight
  <1> HIDE DEF asked, queued, polled
  <1>3. FramesInFlight <= 1 /\ (FramesInFlight = 1 => mainPc = "receive")
    BY <1>1, <1>2
  <1> QED
    BY <1>3 DEF OneFrameInFlight

\* What is in the camera's buffer is the frame that main handles or will
\* handle, unless the camera was closed in between.
BufferInv ==
    /\ FrameNotOverwritten
    /\ ring.queue # <<>> => buf \in {Head(ring.queue).pic, Garbage}

CaptureInv == FlightInv /\ BufferInv

captureVars == <<ring, camNotify, buf, camPc, mainPc>>

LEMMA InitCapture == Init => CaptureInv
  <1> SUFFICES ASSUME Init PROVE CaptureInv
    OBVIOUS
  <1>1. /\ ring = EmptyRing /\ camNotify = NoNotification
        /\ camPc = "wait" /\ mainPc = "waitCmd"
    BY DEF Init, Boot, SharedBoot, CamBoot, MainBoot
  <1> QED
    BY <1>1 DEF CaptureInv, FlightInv, Polling, BufferInv, FrameNotOverwritten,
       HoldingFrame, EmptyRing, NoNotification

LEMMA CaptureFrame == CaptureInv /\ UNCHANGED captureVars => CaptureInv'
  BY DEF CaptureInv, captureVars, FlightInv, Polling, BufferInv,
     FrameNotOverwritten, HoldingFrame

LEMMA RebootRestoresCapture == Reboot => CaptureInv'
  BY DEF Reboot, CaptureInv, FlightInv, Polling, BufferInv,
     FrameNotOverwritten, HoldingFrame, EmptyRing, NoNotification

LEMMA CameraKeepsCapture == TypeInv /\ TypeInv' /\ CaptureInv /\ (Camera \/ User) => CaptureInv'
  <1> SUFFICES ASSUME TypeInv, TypeInv', CaptureInv, Camera \/ User PROVE CaptureInv'
    OBVIOUS
  <1>0. mainPc' = mainPc
    BY CameraFrame, OutsideFrame DEF mainVars
  <1>1. FlightInv
    BY DEF CaptureInv
  <1>2. ring \in Ring /\ buf \in Pics \cup {Garbage}
    BY DEF TypeInv, TypeOK, SharedTypeOK
  <1>3. ring.queue \in Seq(Frame)
    BY <1>2 DEF Ring
  <1>4. CASE WakeUp
    <2>1. /\ camNotify'.value = 0 /\ camNotify.value = 1
          /\ UNCHANGED <<ring, buf>>
      BY <1>1, <1>4 DEF FlightInv, WakeUp, TakeReturnsAtOnce, NoNotification
    <2>2. FlightInv'
      BY <1>0, <1>1, <2>1 DEF FlightInv, Polling
    <2> QED
      BY <1>0, <2>1, <2>2 DEF CaptureInv, BufferInv, FrameNotOverwritten, HoldingFrame
  <1>5. CASE GetFrame
    <2>1. Len(ring.queue) = 0 /\ mainPc = "receive" /\ camPc' = "send"
          /\ UNCHANGED <<ring, camNotify>>
      BY <1>1, <1>5 DEF GetFrame, FlightInv, Polling
    <2>2. FlightInv'
      BY <1>0, <1>1, <1>5, <2>1 DEF FlightInv, Polling, GetFrame
    <2>3. ring.queue = <<>>
      BY <1>3, <2>1
    <2> QED
      BY <1>0, <2>1, <2>2, <2>3 DEF CaptureInv, BufferInv, FrameNotOverwritten, HoldingFrame
  <1>6. CASE SendFrame
    <2> DEFINE frame == [format |-> format, pic |-> buf]
    <2>1. ring.queue = <<>> /\ mainPc = "receive" /\ camNotify.value = 0
      BY <1>1, <1>3, <1>6 DEF SendFrame, FlightInv, Polling
    <2>2. camPc' = "loop" /\ UNCHANGED <<camNotify, buf>>
      BY <1>6 DEF SendFrame, AfterSend
    <2>3. ring'.queue = <<>> \/ ring'.queue = <<frame>>
      BY <1>6, <2>1 DEF SendFrame, RingSend
    <2>4. ring'.queue # <<>> => Head(ring'.queue).pic = buf
      BY <2>3
    <2>5. Len(ring'.queue) \in {0, 1}
      <3>1. Len(<<>>) = 0 /\ Len(<<frame>>) = 1
        OBVIOUS
      <3> HIDE DEF frame
      <3> QED
        BY <2>3, <3>1
    <2>6. FlightInv'
      BY <1>0, <2>1, <2>2, <2>5 DEF FlightInv, Polling
    <2> QED
      BY <1>0, <2>1, <2>2, <2>4, <2>6 DEF CaptureInv, BufferInv, FrameNotOverwritten, HoldingFrame
  <1>7. CASE CloseCamera \/ GetFrameFails
    <2>1. /\ UNCHANGED <<ring, camNotify>>
          /\ camPc' \in {"wait", "refused"}
          /\ buf' \in {buf, Garbage}
      BY <1>7 DEF CloseCamera, GetFrameFails, sharedVars
    <2>2. FlightInv'
      BY <1>0, <1>1, <2>1 DEF FlightInv, Polling
    <2> QED
      BY <1>0, <2>1, <2>2 DEF CaptureInv, BufferInv, FrameNotOverwritten, HoldingFrame
  <1>8. CASE UserStep \/ WaitForEvent \/ OpenCamera \/ RefuseDescriptor \/ AssertFails
             \/ Negotiate \/ Renegotiate \/ StartStream \/ NoticeDisconnect
    <2>1. /\ UNCHANGED <<ring, camNotify, buf>>
          /\ camPc' \in {"getframe", "send"} <=> camPc \in {"getframe", "send"}
      BY <1>8 DEF UserStep, Plug, Unplug, WaitForEvent, OpenCamera, RefuseDescriptor,
         AssertFails, Negotiate, Renegotiate, AfterRetry, StartStream, NoticeDisconnect,
         sharedVars, camVars
    <2> QED
      BY <1>0, <2>1 DEF CaptureInv, FlightInv, Polling, BufferInv,
         FrameNotOverwritten, HoldingFrame
  <1> QED
    BY <1>4, <1>5, <1>6, <1>7, <1>8 DEF Camera, CamTask, User

LEMMA MainKeepsCapture == TypeInv /\ CaptureInv /\ Main => CaptureInv'
  <1> SUFFICES ASSUME TypeInv, CaptureInv, Main PROVE CaptureInv'
    OBVIOUS
  <1>0. camPc' = camPc
    BY DEF Main, camVars
  <1>1. FlightInv
    BY DEF CaptureInv
  <1>2. ring \in Ring /\ ring.queue \in Seq(Frame)
    BY DEF TypeInv, TypeOK, SharedTypeOK, Ring
  <1>3. CASE ClearAndNotify
    <2>1. /\ camNotify.value = 0 /\ ~Polling /\ ring.queue = <<>>
      BY <1>1, <1>2, <1>3 DEF ClearAndNotify, FlightInv, Polling
    <2>2. /\ ring' = ring /\ camNotify'.value = 1 /\ mainPc' = "receive"
      BY <1>3, <2>1 DEF ClearAndNotify, RingDrain, Receivable, NotifyGive
    <2> QED
      BY <1>0, <2>1, <2>2 DEF CaptureInv, FlightInv, Polling,
         BufferInv, FrameNotOverwritten, HoldingFrame
  <1>4. CASE ReceiveFrame
    <2>1. ring.queue # <<>> /\ ring'.out = ring.queue /\ ring'.queue = <<>>
          /\ UNCHANGED <<camNotify, buf>>
      BY <1>4 DEF ReceiveFrame, Receivable, RingReceive
    <2>2. Len(ring.queue) = 1
      BY <1>1, <1>2, <2>1 DEF FlightInv
    <2>3. FlightInv'
      BY <1>0, <1>1, <2>1, <2>2 DEF FlightInv, Polling
    <2> QED
      BY <2>1, <2>3 DEF CaptureInv, BufferInv, FrameNotOverwritten
  <1>5. CASE ~ClearAndNotify /\ ~ReceiveFrame
    <2>1. CASE OpenFileFails \/ WriteFile
      <3>1. /\ mainPc # "receive" /\ mainPc' = "stat"
            /\ ring'.queue = ring.queue /\ UNCHANGED <<camNotify, buf>>
        BY <2>1 DEF OpenFileFails, WriteFile, RingReturn
      <3> QED
        BY <1>0, <1>1, <3>1 DEF CaptureInv, FlightInv, Polling, BufferInv, FrameNotOverwritten,
           HoldingFrame
    <2>2. CASE Encode \/ EncodeFails \/ OpenFile
      <3>1. /\ HoldingFrame /\ mainPc' \in {"fopen", "fwrite", "waitCmd"}
            /\ UNCHANGED <<ring, camNotify, buf>>
        BY <2>2 DEF Encode, EncodeFails, OpenFile, HoldingFrame, sharedVars
      <3> QED
        BY <1>0, <1>1, <3>1 DEF CaptureInv, FlightInv, Polling, BufferInv, FrameNotOverwritten,
           HoldingFrame
    <2>3. CASE ReceiveCommand \/ DeleteLocalFile \/ CheckSize \/ SendRequest
               \/ TakeNotification \/ Resume \/ Publish
      <3>1. /\ mainPc # "receive"
            /\ mainPc' \in {"waitCmd", "unlink", "clear", "post", "take", "blocked", "publish"}
            /\ UNCHANGED <<ring, camNotify, buf>>
        BY <2>3 DEF ReceiveCommand, ReadyForCommand, DeleteLocalFile, CheckSize, AfterCheck,
           SendRequest, TakeNotification, Resume, Awoken, Publish, sharedVars
      <3> QED
        BY <1>0, <1>1, <3>1 DEF CaptureInv, FlightInv, Polling, BufferInv, FrameNotOverwritten,
           HoldingFrame
    <2> QED
      BY <1>5, <2>1, <2>2, <2>3 DEF Main, MainStep
  <1> QED
    BY <1>3, <1>4, <1>5

LEMMA NextKeepsCapture == TypeInv /\ TypeInv' /\ CaptureInv /\ [Next]_vars => CaptureInv'
  <1> SUFFICES ASSUME TypeInv, TypeInv', CaptureInv, [Next]_vars PROVE CaptureInv'
    OBVIOUS
  <1>1. CASE Poster \/ Mqtt \/ Broker \/ Trigger \/ WebServer
    <2>1. UNCHANGED captureVars
      BY <1>1, OutsideFrame, QueueFrame
      DEF captureVars, sharedVars, camVars, mainVars, Poster, Mqtt, Broker, HttpPostStep,
          TakePostRequest, StatFile, StatFails, Connect, SendHeader, OpenForUpload,
          OpenForUploadFails, SendChunk, SendChunkFails, SendEnd, ReadReply,
          MqttPubStep, WaitForBroker, TakeMqttRequest, CheckConnected, OpenForPublish,
          PublishPicture,
          PublishFails, NotifyMain
    <2> QED
      BY <2>1, CaptureFrame
  <1>2. CASE UNCHANGED vars
    <2>1. UNCHANGED captureVars
      BY <1>2 DEF vars, captureVars, sharedVars, camVars, mainVars
    <2> QED
      BY <2>1, CaptureFrame
  <1> QED
    BY <1>1, <1>2, CameraKeepsCapture, MainKeepsCapture, RebootRestoresCapture DEF Next, Run

LEMMA CaptureInvariant == Spec => []CaptureInv
  BY InitCapture, NextKeepsCapture, TypeInvariant, PTL DEF Spec

\* One trigger, one frame: whatever is plugged, unplugged or fails, at most one
\* frame is asked for, polled or queued, and only while main waits for it.
THEOREM OneFramePerTrigger == Spec => []OneFrameInFlight
  <1>1. CaptureInv => OneFrameInFlight
    BY FlightCases DEF CaptureInv
  <1> QED
    BY <1>1, CaptureInvariant, PTL

\* Although only the header of a frame is copied into the ring buffer, the
\* camera never overwrites the data main reads through it.
THEOREM FrameSafe == Spec => []FrameNotOverwritten
  <1>1. CaptureInv => FrameNotOverwritten
    BY DEF CaptureInv, BufferInv
  <1> QED
    BY <1>1, CaptureInvariant, PTL
=============================================================================
