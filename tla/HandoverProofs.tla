--------------------------- MODULE HandoverProofs ---------------------------
(***************************************************************************)
(* Proofs about the hand-over of the picture file from main to the POST    *)
(* task: main never finds the request queue full, the file does not change *)
(* while it is lent, and the exchange implements Rendezvous.               *)
(***************************************************************************)
EXTENDS SnapshotProofs

\* Only main offers the file and only a poster takes it; at most one of the
\* POST tasks is busy; a notification never leaves a count behind, so main
\* always blocks, and it is woken only after the file has come back.
HandoverInv ==
    /\ mainNotify.value = 0
    /\ FileOnLoan => AwaitingPost
    /\ reqQ # <<>> => PosterIdle
    /\ postPc # "idle" => MqttAtRest
    /\ Awoken => ~FileOnLoan

\* All that HandoverInv reads
handoverVars == <<reqQ, mainNotify, mainPc, postPc, MqttAtRest>>

LEMMA InitHandover == Init => HandoverInv
  <1> SUFFICES ASSUME Init PROVE HandoverInv
    OBVIOUS
  <1>1. /\ reqQ = <<>> /\ mainNotify = NoNotification
        /\ mainPc = "waitCmd" /\ postPc = "idle" /\ mqttPc = "start"
    BY DEF Init, Boot, SharedBoot, MainBoot, HttpPostBoot, MqttPubBoot
  <1> QED
    BY <1>1 DEF HandoverInv, FileOnLoan, PosterIdle, MqttAtRest, Awoken, NoNotification

LEMMA HandoverFrame == HandoverInv /\ UNCHANGED handoverVars => HandoverInv'
  BY DEF HandoverInv, handoverVars, FileOnLoan, PosterIdle, MqttAtRest,
     AwaitingPost, Awoken

LEMMA RebootRestoresHandover == Reboot => HandoverInv'
  BY DEF Reboot, HandoverInv, FileOnLoan, PosterIdle, MqttAtRest, Awoken, NoNotification

\* The queue holds one request, so taking it empties the queue.
LEMMA TakingEmptiesQueue ==
    ASSUME TypeInv, reqQ # <<>>
    PROVE  Tail(reqQ) = <<>>
  <1>1. reqQ \in Seq(Request) /\ Len(reqQ) <= 1
    BY DEF TypeInv, TypeOK, SharedTypeOK, RequestQueueLen
  <1> QED
    BY <1>1

\* Outside the exchange main does not touch what it hangs on.
LEMMA MainOutside ==
    ASSUME MainStep, ~SendRequest, ~TakeNotification, ~Resume
    PROVE  /\ mainPc \notin {"take", "blocked"}
           /\ mainPc' \notin {"take", "blocked"}
           /\ UNCHANGED <<reqQ, mainNotify>>
  BY DEF MainStep, ReceiveCommand, ReadyForCommand, DeleteLocalFile, ClearAndNotify,
     ReceiveFrame, AfterReceive, Encode, EncodeFails, OpenFile, OpenFileFails, WriteFile,
     CheckSize, AfterCheck, Publish, sharedVars

LEMMA MainKeepsHandover == TypeInv /\ HandoverInv /\ Main => HandoverInv'
  <1> SUFFICES ASSUME TypeInv, HandoverInv, Main PROVE HandoverInv'
    OBVIOUS
  <1> USE DEF HandoverInv
  <1>1. UNCHANGED <<postPc, mqttPc>>
    BY DEF Main, httpPostVars, mqttPubVars
  <1>2. CASE SendRequest
    <2>1. reqQ = <<>> /\ PosterIdle
      BY <1>2 DEF SendRequest, FileOnLoan, AwaitingPost
    <2>2. mainPc' = "take" /\ mainNotify' = mainNotify
      BY <1>2, <2>1 DEF SendRequest, QueueHasRoom, RequestQueueLen
    <2> QED
      BY <1>1, <2>1, <2>2 DEF PosterIdle, MqttAtRest, AwaitingPost, Awoken
  <1>3. CASE TakeNotification
    <2>1. mainNotify \in Notification
      BY DEF TypeInv, TypeOK, SharedTypeOK
    <2>2. /\ mainNotify' = StartWaiting(mainNotify)
          /\ mainPc = "take" /\ mainPc' = "blocked" /\ reqQ' = reqQ
      BY <1>3 DEF TakeNotification, TakeReturnsAtOnce
    <2>3. mainNotify'.value = 0 /\ mainNotify'.state = "waiting"
      BY <2>1, <2>2 DEF StartWaiting, Notification
    <2> QED
      BY <1>1, <2>2, <2>3 DEF FileOnLoan, PosterIdle, MqttAtRest, AwaitingPost, Awoken
  <1>4. CASE Resume
    BY <1>1, <1>4 DEF Resume, FileOnLoan, PosterIdle, MqttAtRest, Awoken, NoNotification
  <1>5. CASE ~SendRequest /\ ~TakeNotification /\ ~Resume
    BY <1>1, <1>5, MainOutside DEF Main, FileOnLoan, PosterIdle, MqttAtRest, AwaitingPost, Awoken
  <1> QED
    BY <1>2, <1>3, <1>4, <1>5

LEMMA PosterKeepsHandover == TypeInv /\ HandoverInv /\ Poster => HandoverInv'
  <1> SUFFICES ASSUME TypeInv, HandoverInv, Poster PROVE HandoverInv'
    OBVIOUS
  <1> USE DEF HandoverInv, FileOnLoan, PosterIdle, MqttAtRest, AwaitingPost, Awoken
  <1>1. UNCHANGED <<mainPc, mqttPc>>
    BY DEF Poster, mainVars, mqttPubVars
  <1>2. CASE TakePostRequest
    BY <1>1, <1>2, TakingEmptiesQueue DEF TakePostRequest
  <1>3. CASE ReadReply
    BY <1>1, <1>3 DEF ReadReply, NotifyOverwrite
  <1>4. CASE ~TakePostRequest /\ ~ReadReply
    <2>1. postPc # "idle" /\ UNCHANGED <<reqQ, mainNotify>>
      BY <1>4 DEF Poster, HttpPostStep, StatFile, StatFails, Connect, SendHeader,
         OpenForUpload, OpenForUploadFails, SendChunk, SendChunkFails, SendEnd,
         sharedVars
    <2> QED
      BY <1>1, <2>1
  <1> QED
    BY <1>2, <1>3, <1>4

LEMMA MqttKeepsHandover == TypeInv /\ HandoverInv /\ Mqtt => HandoverInv'
  <1> SUFFICES ASSUME TypeInv, HandoverInv, Mqtt PROVE HandoverInv'
    OBVIOUS
  <1> USE DEF HandoverInv, FileOnLoan, PosterIdle, MqttAtRest, AwaitingPost, Awoken
  <1>1. UNCHANGED <<mainPc, postPc>>
    BY DEF Mqtt, mainVars, httpPostVars
  <1>2. CASE TakeMqttRequest
    BY <1>1, <1>2, TakingEmptiesQueue DEF TakeMqttRequest
  <1>3. CASE NotifyMain
    BY <1>1, <1>3 DEF NotifyMain, NotifyOverwrite
  <1>4. CASE WaitForBroker
    BY <1>1, <1>4 DEF WaitForBroker, sharedVars
  <1>5. CASE CheckConnected \/ OpenForPublish \/ PublishPicture \/ PublishFails
    <2>1. mqttPc \in {"check", "read", "publish"} /\ UNCHANGED <<reqQ, mainNotify>>
      BY <1>5 DEF CheckConnected, OpenForPublish, PublishPicture, PublishFails, sharedVars
    <2> QED
      BY <1>1, <2>1
  <1> QED
    BY <1>2, <1>3, <1>4, <1>5 DEF Mqtt, MqttPubStep

LEMMA NextKeepsHandover == TypeInv /\ HandoverInv /\ [Next]_vars => HandoverInv'
  <1> SUFFICES ASSUME TypeInv, HandoverInv, [Next]_vars PROVE HandoverInv'
    OBVIOUS
  <1>1. CASE Camera \/ User \/ Broker \/ Trigger \/ WebServer
    <2>1. UNCHANGED handoverVars
      BY <1>1, CameraFrame, OutsideFrame, QueueFrame
      DEF handoverVars, MqttAtRest, sharedVars, mainVars, httpPostVars, mqttPubVars
    <2> QED
      BY <2>1, HandoverFrame
  <1>2. CASE UNCHANGED vars
    <2>1. UNCHANGED handoverVars
      BY <1>2 DEF vars, handoverVars, MqttAtRest, sharedVars, mainVars, httpPostVars, mqttPubVars
    <2> QED
      BY <2>1, HandoverFrame
  <1> QED
    BY <1>1, <1>2, MainKeepsHandover, PosterKeepsHandover, MqttKeepsHandover,
       RebootRestoresHandover DEF Next, Run

LEMMA HandoverInvariant == Spec => []HandoverInv
  BY InitHandover, NextKeepsHandover, TypeInvariant, PTL DEF Spec

\* Whenever main is about to offer the file (main.c:610) the queue is empty
\* and the POST task has finished with the file of the turn before.
THEOREM OfferFindsRoom == Spec => []RequestQueueHasRoom
  <1>1. HandoverInv => RequestQueueHasRoom
    BY DEF HandoverInv, RequestQueueHasRoom, AwaitingPost
  <1> QED
    BY <1>1, HandoverInvariant, PTL

\* Who may change the file: main, when it deletes, opens or writes it.
LEMMA FileWriters ==
    ASSUME TypeInv, HandoverInv, Next, FileOnLoan
    PROVE  file' = file
  <1>1. CASE Camera \/ User \/ Broker \/ Trigger \/ WebServer
    BY <1>1, CameraFrame, OutsideFrame, QueueFrame DEF sharedVars
  <1>2. CASE Main
    <2>1. mainPc \in {"take", "blocked"}
      BY DEF HandoverInv, AwaitingPost
    <2> QED
      BY <1>2, <2>1 DEF Main, MainStep, ReceiveCommand, ReadyForCommand, DeleteLocalFile,
         ClearAndNotify, ReceiveFrame, Encode, EncodeFails, OpenFile, OpenFileFails,
         WriteFile, CheckSize, SendRequest, TakeNotification, Resume, Publish, sharedVars
  <1>3. CASE Poster
    BY <1>3 DEF Poster, HttpPostStep, TakePostRequest, StatFile, StatFails, Connect,
       SendHeader, OpenForUpload, OpenForUploadFails, SendChunk, SendChunkFails,
       SendEnd, ReadReply, sharedVars
  <1>4. CASE Mqtt
    BY <1>4 DEF Mqtt, MqttPubStep, WaitForBroker, TakeMqttRequest, CheckConnected,
       OpenForPublish, PublishPicture, PublishFails, NotifyMain, sharedVars
  <1>5. CASE Reboot
    BY <1>5 DEF Reboot
  <1> QED
    BY <1>1, <1>2, <1>3, <1>4, <1>5 DEF Next, Run

\* From the moment main offers the picture file until the POST task is done
\* with it, nobody deletes, truncates or rewrites it.
THEOREM LentFileUntouched == Spec => LentFileStable
  <1>1. TypeInv /\ HandoverInv /\ [Next]_vars
        => [FileOnLoan => file' = file]_vars
    BY FileWriters
  <1> QED
    BY <1>1, TypeInvariant, HandoverInvariant, PTL DEF Spec, LentFileStable

(***************************************************************************)
(* Refinement: the exchange implements Rendezvous.                         *)
(***************************************************************************)

LEMMA LoanInit == Init => Loan!Init
  <1> SUFFICES ASSUME Init PROVE Loan!Init
    OBVIOUS
  <1>1. /\ reqQ = <<>> /\ mainPc = "waitCmd" /\ postPc = "idle" /\ mqttPc = "start"
        /\ file = NoFile /\ panicked = FALSE
    BY DEF Init, Boot, SharedBoot, MainBoot, HttpPostBoot, MqttPubBoot
  <1> QED
    BY <1>1 DEF Loan!Init, LoanPhase, PosterIdle, MqttAtRest, Awoken, AwaitingPost

\* A step that leaves the exchange alone maps to a stutter or to a crash.
LEMMA LoanStutter ==
    ASSUME TypeInv, ~panicked, LoanPhase' = LoanPhase, file' = file,
           panicked' = panicked \/ panicked' = TRUE
    PROVE  [Loan!Next]_Loan!vars
  BY DEF Loan!Next, Loan!Crash, Loan!vars

\* The phase depends on the variables of the hand-over only.
LEMMA PhaseFrame == UNCHANGED handoverVars => LoanPhase' = LoanPhase
  BY DEF LoanPhase, handoverVars, PosterIdle, MqttAtRest, Awoken, AwaitingPost

LEMMA OthersRefineLoan ==
    ASSUME TypeInv, ~panicked, Camera \/ User \/ Broker \/ Trigger \/ WebServer
    PROVE  [Loan!Next]_Loan!vars
  <1>1. UNCHANGED handoverVars /\ file' = file
    BY CameraFrame, OutsideFrame, QueueFrame
    DEF handoverVars, MqttAtRest, sharedVars, mainVars, httpPostVars, mqttPubVars
  <1>2. panicked' = panicked \/ panicked' = TRUE
    BY OutsideFrame, QueueFrame
    DEF Camera, CamTask, sharedVars, WaitForEvent, OpenCamera, RefuseDescriptor, AssertFails,
        Negotiate, Renegotiate, StartStream, NoticeDisconnect, WakeUp, GetFrame,
        GetFrameFails, SendFrame, CloseCamera
  <1> QED
    BY <1>1, <1>2, PhaseFrame, LoanStutter

LEMMA MainRefinesLoan ==
    ASSUME TypeInv, TypeInv', HandoverInv, ~panicked, Main
    PROVE  [Loan!Next]_Loan!vars
  <1>1. /\ UNCHANGED <<postPc, mqttPc>>
        /\ panicked' = panicked
    BY DEF Main, MainStep, httpPostVars, mqttPubVars, sharedVars, ReceiveCommand,
       DeleteLocalFile, ClearAndNotify, ReceiveFrame, Encode, EncodeFails, OpenFile,
       OpenFileFails, WriteFile, CheckSize, SendRequest, TakeNotification, Resume, Publish
  <1>2. CASE SendRequest
    <2>1. reqQ = <<>> /\ PosterIdle /\ mainPc = "post"
      BY <1>2 DEF SendRequest, HandoverInv, FileOnLoan, AwaitingPost
    <2>2. reqQ' = Append(<<>>, [size |-> picSize]) /\ file' = file
      BY <1>2, <2>1 DEF SendRequest, QueueSend, QueueHasRoom, RequestQueueLen
    <2>3. reqQ' # <<>>
      BY <2>2
    <2>4. LoanPhase = "home" /\ LoanPhase' = "offered"
      BY <2>1, <2>3 DEF LoanPhase, Awoken, AwaitingPost
    <2> QED
      BY <1>1, <2>2, <2>4 DEF Loan!Next, Loan!Offer
  <1>3. CASE TakeNotification
    <2>1. /\ mainNotify' = StartWaiting(mainNotify)
          /\ mainPc = "take" /\ mainPc' = "blocked" /\ reqQ' = reqQ /\ file' = file
      BY <1>3 DEF TakeNotification, TakeReturnsAtOnce, HandoverInv
    <2>2. mainNotify'.state = "waiting"
      BY <2>1 DEF StartWaiting, Notification, TypeInv, TypeOK, SharedTypeOK
    <2>3. LoanPhase' = LoanPhase
      BY <1>1, <2>1, <2>2 DEF LoanPhase, PosterIdle, MqttAtRest, Awoken, AwaitingPost
    <2> QED
      BY <1>1, <2>1, <2>3, LoanStutter
  <1>4. CASE Resume
    <2>1. reqQ = <<>> /\ PosterIdle /\ Awoken
      BY <1>4 DEF Resume, HandoverInv, FileOnLoan
    <2>2. reqQ' = reqQ /\ mainPc' = "publish" /\ file' = file
      BY <1>4 DEF Resume
    <2>3. LoanPhase = "answered" /\ LoanPhase' = "home"
      BY <1>1, <2>1, <2>2 DEF LoanPhase, PosterIdle, MqttAtRest, Awoken, AwaitingPost
    <2> QED
      BY <1>1, <2>2, <2>3 DEF Loan!Next, Loan!Resume
  <1>5. CASE ~SendRequest /\ ~TakeNotification /\ ~Resume
    <2>1. /\ mainPc \notin {"take", "blocked"}
          /\ mainPc' \notin {"take", "blocked"}
          /\ UNCHANGED <<reqQ, mainNotify>>
      BY <1>5, MainOutside DEF Main
    <2>2. LoanPhase = "home" /\ LoanPhase' = "home"
      BY <1>1, <2>1 DEF LoanPhase, HandoverInv, FileOnLoan, PosterIdle, MqttAtRest,
         Awoken, AwaitingPost
    <2>3. file' \in File \cup {NoFile}
      BY DEF TypeInv, TypeOK, SharedTypeOK
    <2> QED
      BY <1>1, <2>2, <2>3 DEF Loan!Next, Loan!Edit
  <1> QED
    BY <1>2, <1>3, <1>4, <1>5

\* A step of either POST task that ends its service answers main or loses the
\* answer; any other step of it is invisible.
LEMMA ServiceStep ==
    ASSUME HandoverInv, ~panicked, panicked' = panicked, file' = file, ~PosterIdle, PosterIdle',
           reqQ' = reqQ, mainPc' = mainPc
    PROVE  [Loan!Next]_Loan!vars
  <1>1. reqQ = <<>> /\ AwaitingPost
    BY DEF HandoverInv, FileOnLoan
  <1>2. LoanPhase = "lent" /\ LoanPhase' \in {"answered", "lost"}
    BY <1>1 DEF LoanPhase, AwaitingPost
  <1> QED
    BY <1>2 DEF Loan!Next, Loan!Finish

LEMMA TakingIsBorrowing ==
    ASSUME TypeInv, HandoverInv, ~panicked, panicked' = panicked, file' = file,
           reqQ # <<>>, reqQ' = Tail(reqQ), ~PosterIdle'
    PROVE  [Loan!Next]_Loan!vars
  <1>1. LoanPhase = "offered" /\ LoanPhase' = "lent"
    BY TakingEmptiesQueue DEF LoanPhase
  <1> QED
    BY <1>1 DEF Loan!Next, Loan!Borrow

LEMMA PosterRefinesLoan ==
    ASSUME TypeInv, HandoverInv, ~panicked, Poster
    PROVE  [Loan!Next]_Loan!vars
  <1>1. UNCHANGED <<mainPc, mqttPc>>
    BY DEF Poster, mainVars, mqttPubVars
  <1>2. CASE TakePostRequest
    <2>1. /\ reqQ # <<>> /\ reqQ' = Tail(reqQ) /\ file' = file /\ panicked' = panicked
          /\ postPc' = "stat"
      BY <1>2 DEF TakePostRequest
    <2>2. ~PosterIdle'
      BY <2>1 DEF PosterIdle, MqttAtRest
    <2> QED
      BY <2>1, <2>2, TakingIsBorrowing
  <1>3. CASE OpenForUploadFails
    <2>1. UNCHANGED handoverVars /\ file' = file /\ panicked' = TRUE
      BY <1>1, <1>3 DEF OpenForUploadFails, handoverVars, MqttAtRest, httpPostVars
    <2> QED
      BY <2>1, PhaseFrame, LoanStutter
  <1>4. CASE ~TakePostRequest /\ ~OpenForUploadFails
    <2>1. /\ postPc # "idle" /\ file' = file /\ reqQ' = reqQ /\ panicked' = panicked
          /\ postPc' # "idle" => mainNotify' = mainNotify
      BY <1>4 DEF Poster, HttpPostStep, StatFile, StatFails, Connect, SendHeader,
         OpenForUpload, SendChunk, SendChunkFails, SendEnd, ReadReply,
         sharedVars
    <2>2. CASE postPc' = "idle"
      <3>1. ~PosterIdle /\ PosterIdle'
        BY <1>1, <2>1, <2>2 DEF PosterIdle, MqttAtRest, HandoverInv
      <3> QED
        BY <1>1, <2>1, <3>1, ServiceStep
    <2>3. CASE postPc' # "idle"
      <3>1. LoanPhase' = LoanPhase
        BY <1>1, <2>1, <2>3 DEF LoanPhase, PosterIdle, MqttAtRest, Awoken, AwaitingPost
      <3> QED
        BY <2>1, <3>1, LoanStutter
    <2> QED
      BY <2>2, <2>3
  <1> QED
    BY <1>2, <1>3, <1>4

LEMMA MqttRefinesLoan ==
    ASSUME TypeInv, HandoverInv, ~panicked, Mqtt
    PROVE  [Loan!Next]_Loan!vars
  <1>1. UNCHANGED <<mainPc, postPc>>
    BY DEF Mqtt, mainVars, httpPostVars
  <1>2. CASE TakeMqttRequest
    <2>1. /\ reqQ # <<>> /\ reqQ' = Tail(reqQ) /\ file' = file /\ panicked' = panicked
          /\ mqttPc' = "check"
      BY <1>2 DEF TakeMqttRequest
    <2>2. ~PosterIdle'
      BY <2>1 DEF PosterIdle, MqttAtRest
    <2> QED
      BY <2>1, <2>2, TakingIsBorrowing
  <1>3. CASE NotifyMain
    <2>1. postPc = "idle"
      BY <1>3 DEF NotifyMain, MqttAtRest, HandoverInv
    <2>2. ~PosterIdle /\ PosterIdle'
      BY <1>1, <1>3, <2>1 DEF NotifyMain, PosterIdle, MqttAtRest
    <2> QED
      BY <1>1, <1>3, <2>2, ServiceStep DEF NotifyMain
  <1>4. CASE WaitForBroker \/ CheckConnected \/ OpenForPublish \/ PublishPicture \/ PublishFails
    <2>1. /\ file' = file /\ reqQ' = reqQ /\ panicked' = panicked /\ mainNotify' = mainNotify
          /\ MqttAtRest <=> MqttAtRest'
      BY <1>4 DEF MqttAtRest, WaitForBroker, CheckConnected, OpenForPublish, PublishPicture,
         PublishFails, sharedVars
    <2>2. LoanPhase' = LoanPhase
      BY <1>1, <2>1 DEF LoanPhase, PosterIdle, MqttAtRest, Awoken, AwaitingPost
    <2> QED
      BY <2>1, <2>2, LoanStutter
  <1> QED
    BY <1>2, <1>3, <1>4 DEF Mqtt, MqttPubStep

LEMMA RebootRefinesLoan ==
    ASSUME TypeInv, Reboot
    PROVE  [Loan!Next]_Loan!vars
  <1>1. LoanPhase' = "home" /\ file' = file /\ panicked = TRUE /\ panicked' = FALSE
    BY DEF Reboot, LoanPhase, PosterIdle, MqttAtRest, Awoken, AwaitingPost, TypeInv,
       TypeOK, SharedTypeOK
  <1> QED
    BY <1>1 DEF Loan!Next, Loan!Restart

\* Every step of the program, whatever the tasks' interleaving and the faults,
\* is a step of Rendezvous or invisible to it: main and the POST task keep the
\* protocol of lending the picture file.
THEOREM LoanRefinement == Spec => ImplementsLoan
  <1>1. TypeInv /\ TypeInv' /\ HandoverInv /\ [Next]_vars => [Loan!Next]_Loan!vars
    <2> SUFFICES ASSUME TypeInv, TypeInv', HandoverInv, [Next]_vars
                 PROVE  [Loan!Next]_Loan!vars
      OBVIOUS
    <2>1. CASE UNCHANGED vars
      <3>1. UNCHANGED handoverVars /\ UNCHANGED <<file, panicked>>
        BY <2>1
           DEF vars, handoverVars, MqttAtRest, sharedVars, mainVars, httpPostVars, mqttPubVars
      <3> QED
        BY <3>1, PhaseFrame DEF Loan!vars
    <2>2. CASE ~panicked /\ Run
      BY <2>2, OthersRefineLoan, MainRefinesLoan, PosterRefinesLoan, MqttRefinesLoan DEF Run
    <2>3. CASE Reboot
      BY <2>3, RebootRefinesLoan
    <2> QED
      BY <2>1, <2>2, <2>3 DEF Next
  <1> QED
    BY LoanInit, <1>1, TypeInvariant, HandoverInvariant, PTL
    DEF Spec, ImplementsLoan, Loan!Spec
-----------------------------------------------------------------------------
(***************************************************************************)
(* The picture: what an upload delivers and a published message contains   *)
(* is the file as it is, because the file does not change while it is lent *)
(* and the request carries the length main has checked.  And what passes   *)
(* that check is a whole picture, because the buffer it was written from   *)
(* was stable.  And the text in which the root page shows it.              *)
(***************************************************************************)

-----------------------------------------------------------------------------
(* The upload                                                              *)

\* How far the upload has got, step by step: the length declared is the
\* file's; once it is open the data are its own.  While the connection is open
\* everything read has been sent; once it is closed a chunk is missing for good.
UploadInv ==
    /\ postPc \in {"connect", "header", "open", "data", "reply"} =>
          file # NoFile /\ upload.declared = file.len
    /\ postPc = "connect" => upload.read = 0 /\ upload.sent = 0
    /\ postPc \in {"header", "open"} => upload.open /\ upload.read = 0 /\ upload.sent = 0
    /\ postPc \in {"data", "reply"} =>
          /\ upload.pic = file.pic
          /\ upload.read <= file.len
          /\ IF upload.open THEN upload.sent = upload.read ELSE upload.sent < upload.read
    /\ postPc = "reply" => upload.read = file.len

LEMMA InitUpload == Init => UploadInv
  BY DEF Init, Boot, HttpPostBoot, UploadInv

\* While the task is busy the file is on loan, and nobody changes it.
LEMMA OthersKeepUpload ==
    ASSUME TypeInv, HandoverInv, UploadInv, Next, UNCHANGED httpPostVars
    PROVE  UploadInv'
  <1>1. postPc # "idle" => file' = file
    BY FileWriters DEF FileOnLoan, PosterIdle
  <1> QED
    BY <1>1 DEF UploadInv, httpPostVars

LEMMA PosterKeepsUpload ==
    ASSUME TypeInv, HandoverInv, UploadInv, Poster
    PROVE  UploadInv'
  <1>1. /\ file \in File \cup {NoFile}
        /\ upload \in Upload
    BY DEF TypeInv, TypeOK, SharedTypeOK, HttpPostTypeOK
  <1>2. file' = file
    BY DEF Poster, HttpPostStep, TakePostRequest, StatFile, StatFails, Connect, SendHeader,
       OpenForUpload, OpenForUploadFails, SendChunk, SendChunkFails, SendEnd,
       ReadReply, sharedVars
  <1>3. CASE StatFile
    <2>1. /\ file # NoFile /\ postPc' = "connect"
          /\ upload'.declared = file.len /\ upload'.read = 0 /\ upload'.sent = 0
      BY <1>3 DEF StatFile, NoUpload
    <2> QED
      BY <1>2, <2>1 DEF UploadInv
  <1>4. CASE Connect
    BY <1>1, <1>2, <1>4 DEF Connect, GiveUp, UploadInv, Upload
  <1>5. CASE OpenForUpload
    <2>1. /\ postPc = "open" /\ postPc' = "data" /\ upload'.pic = file.pic
          /\ UNCHANGED <<upload.declared, upload.read, upload.sent, upload.open>>
      BY <1>1, <1>5 DEF OpenForUpload, Upload
    <2>2. file \in File
      BY <1>1, <2>1 DEF UploadInv
    <2> QED
      BY <1>1, <1>2, <2>1, <2>2 DEF UploadInv, File, Upload
  <1>6. CASE SendChunk \/ SendChunkFails
    <2>1. /\ postPc = "data" /\ postPc' = "data" /\ ~AtEndOfFile
          /\ file # NoFile /\ upload.declared = file.len /\ upload.pic = file.pic
          /\ IF upload.open THEN upload.sent = upload.read ELSE upload.sent < upload.read
      BY <1>6 DEF SendChunk, SendChunkFails, UploadInv
    <2>2. file.len \in Nat /\ upload.read \in Nat /\ upload.sent \in Nat
      BY <1>1, <2>1 DEF File, Upload
    <2>3. upload.read + 1 <= file.len
      BY <2>1, <2>2 DEF AtEndOfFile
    <2>4. /\ upload'.declared = upload.declared /\ upload'.pic = file.pic
          /\ upload'.read = upload.read + 1
          /\ IF upload'.open THEN upload.open /\ upload'.sent = upload.sent + 1
                             ELSE upload'.sent = upload.sent
      BY <1>1, <1>6, <2>1 DEF SendChunk, SendChunkFails, WithChunk, Upload
    <2>5. IF upload'.open THEN upload'.sent = upload'.read ELSE upload'.sent < upload'.read
      BY <2>1, <2>2, <2>4
    <2> QED
      BY <1>2, <2>1, <2>3, <2>4, <2>5 DEF UploadInv
  <1>7. CASE SendEnd
    <2>1. postPc = "data" /\ file # NoFile /\ upload.read <= file.len /\ upload.read >= file.len
      BY <1>7 DEF SendEnd, AtEndOfFile, UploadInv
    <2>2. upload.read = file.len
      BY <1>1, <2>1 DEF File, Upload
    <2> QED
      BY <1>2, <1>7, <2>1, <2>2 DEF SendEnd, GiveUp, UploadInv
  <1>8. CASE TakePostRequest \/ StatFails \/ SendHeader \/ OpenForUploadFails \/ ReadReply
    BY <1>2, <1>8 DEF TakePostRequest, StatFails, SendHeader, OpenForUploadFails, ReadReply,
       GiveUp, UploadInv, httpPostVars
  <1> QED
    BY <1>3, <1>4, <1>5, <1>6, <1>7, <1>8 DEF Poster, HttpPostStep

LEMMA UploadInvariant == Spec => []UploadInv
  <1>1. TypeInv /\ HandoverInv /\ UploadInv /\ [Next]_vars => UploadInv'
    <2> SUFFICES ASSUME TypeInv, HandoverInv, UploadInv, [Next]_vars PROVE UploadInv'
      OBVIOUS
    <2>1. CASE UNCHANGED vars
      BY <2>1 DEF vars, sharedVars, httpPostVars, UploadInv
    <2>2. CASE Next /\ UNCHANGED httpPostVars
      BY <2>2, OthersKeepUpload
    <2>3. CASE Poster
      BY <2>3, PosterKeepsUpload
    <2>4. CASE Reboot
      BY <2>4 DEF Reboot, UploadInv
    <2>5. Next => Poster \/ Reboot \/ UNCHANGED httpPostVars
      BY CameraFrame, OutsideFrame, QueueFrame DEF Next, Run, Main, Mqtt
    <2> QED
      BY <2>1, <2>2, <2>3, <2>4, <2>5
  <1> QED
    BY <1>1, InitUpload, TypeInvariant, HandoverInvariant, PTL DEF Spec

\* What an upload delivers is the beginning of the picture file without a gap,
\* announced with the file's length; it is all of it exactly if no write has
\* failed.  For files of every length, and however often writes fail.
THEOREM UploadWhole == Spec => []UploadIsFile
  <1>1. TypeInv /\ UploadInv => UploadIsFile
    <2> SUFFICES ASSUME TypeInv, UploadInv, postPc = "reply"
                 PROVE  /\ file # NoFile
                        /\ upload.pic = file.pic
                        /\ upload.declared = file.len
                        /\ upload.sent <= file.len
                        /\ upload.open <=> upload.sent = file.len
      BY DEF UploadIsFile
    <2>1. file # NoFile /\ upload.pic = file.pic /\ upload.declared = file.len
      BY DEF UploadInv
    <2>2. upload.sent \in Nat /\ upload.open \in BOOLEAN /\ file.len \in Nat
      BY <2>1 DEF TypeInv, TypeOK, SharedTypeOK, HttpPostTypeOK, Upload, File
    <2>3. IF upload.open THEN upload.sent = file.len ELSE upload.sent < file.len
      BY DEF UploadInv
    <2> QED
      BY <2>1, <2>2, <2>3
  <1> QED
    BY <1>1, UploadInvariant, TypeInvariant, PTL

-----------------------------------------------------------------------------
(* The message                                                             *)

\* The length main has checked is the file's, the request in the queue and the
\* one in the task's hands carry it, what the task has opened is the file, and a
\* message is the file.
MessageInv ==
    /\ mainPc \in {"post", "take", "blocked"} /\ file # NoFile => picSize = file.len
    /\ reqQ # <<>> => Head(reqQ).size = picSize
    /\ mqttPc \in {"check", "read", "publish"} => request.size = picSize
    /\ mqttPc \in {"check", "read"} => message = NoMessage
    /\ mqttPc = "publish" => file # NoFile /\ message.pic = file.pic
    /\ MessageIsFile

LEMMA InitMessage == Init => MessageInv
  BY DEF Init, Boot, SharedBoot, MainBoot, MqttPubBoot, MessageInv, MessageIsFile

\* Main changes the file and the length only while nothing is on loan.
LEMMA MainKeepsMessage ==
    ASSUME TypeInv, HandoverInv, MessageInv, Main
    PROVE  MessageInv'
  <1>1. UNCHANGED mqttPubVars
    BY DEF Main
  <1>2. CASE FileOnLoan
    <2>1. mainPc \in {"take", "blocked"}
      BY <1>2 DEF HandoverInv, AwaitingPost
    <2>2. UNCHANGED <<file, picSize, reqQ>> /\ mainPc' # "post"
      BY <2>1 DEF Main, MainStep, ReceiveCommand, ReadyForCommand, DeleteLocalFile,
         ClearAndNotify, ReceiveFrame, Encode, EncodeFails, OpenFile, OpenFileFails, WriteFile,
         CheckSize, SendRequest, TakeNotification, Resume, Publish
    <2> QED
      BY <1>1, <2>1, <2>2 DEF MessageInv, MessageIsFile, mqttPubVars
  <1>3. CASE ~FileOnLoan
    <2>1. reqQ = <<>> /\ mqttPc' \in {"start", "waiting", "idle"}
      BY <1>1, <1>3 DEF FileOnLoan, PosterIdle, MqttAtRest, mqttPubVars
    <2>2. CASE SendRequest
      <3>1. UNCHANGED <<file, picSize>> /\ mainPc = "post" /\ Head(reqQ').size = picSize
        BY <2>1, <2>2 DEF SendRequest, QueueSend, QueueHasRoom, RequestQueueLen
      <3> QED
        BY <2>1, <3>1 DEF MessageInv, MessageIsFile
    <2>3. CASE CheckSize
      BY <2>1, <2>3 DEF CheckSize, SizeIsLegal, AfterCheck, sharedVars, MessageInv, MessageIsFile
    <2>4. CASE TakeNotification \/ Resume
      BY <2>1, <2>4 DEF TakeNotification, Resume, Awoken, MessageInv, MessageIsFile
    <2>5. CASE ReceiveCommand \/ DeleteLocalFile \/ ClearAndNotify \/ ReceiveFrame \/ Encode
                 \/ EncodeFails \/ OpenFile \/ OpenFileFails \/ WriteFile \/ Publish
      <3>1. reqQ' = reqQ /\ mainPc' \notin {"post", "take", "blocked"}
        BY <2>5 DEF ReceiveCommand, DeleteLocalFile, ClearAndNotify, ReceiveFrame, AfterReceive,
           Encode, EncodeFails, OpenFile, OpenFileFails, WriteFile, Publish, sharedVars
      <3> QED
        BY <2>1, <3>1 DEF MessageInv, MessageIsFile
    <2> QED
      BY <2>2, <2>3, <2>4, <2>5 DEF Main, MainStep
  <1> QED
    BY <1>2, <1>3

LEMMA MqttKeepsMessage ==
    ASSUME TypeInv, HandoverInv, MessageInv, Mqtt
    PROVE  MessageInv'
  <1>1. UNCHANGED <<mainPc, picSize, file>>
    BY DEF Mqtt, MqttPubStep, WaitForBroker, TakeMqttRequest, CheckConnected, OpenForPublish,
       PublishPicture, PublishFails, NotifyMain, sharedVars, mainVars
  <1>2. /\ file \in File \cup {NoFile} /\ request \in Request /\ message \in File
    BY DEF TypeInv, TypeOK, SharedTypeOK, MqttPubTypeOK
  <1>3. CASE TakeMqttRequest
    <2>1. reqQ # <<>> /\ reqQ' = <<>>
      BY <1>3, TakingEmptiesQueue DEF TakeMqttRequest
    <2> QED
      BY <1>1, <1>3, <2>1 DEF TakeMqttRequest, MessageInv, MessageIsFile
  <1>4. CASE OpenForPublish
    BY <1>1, <1>4 DEF OpenForPublish, MessageInv, MessageIsFile, sharedVars
  <1>5. CASE PublishPicture
    <2>1. /\ file # NoFile /\ reqQ' = reqQ /\ mqttPc = "publish" /\ mqttPc' = "notify"
          /\ message' = [pic |-> file.pic, len |-> request.size]
      BY <1>5 DEF PublishPicture, MessageInv, sharedVars
    <2>2. mainPc \in {"take", "blocked"}
      BY <2>1 DEF HandoverInv, FileOnLoan, PosterIdle, MqttAtRest, AwaitingPost
    <2>3. request.size = file.len
      BY <2>1, <2>2 DEF MessageInv
    <2>4. message' = file
      BY <1>2, <2>1, <2>3 DEF File
    <2> QED
      BY <1>1, <2>1, <2>4 DEF MessageInv, MessageIsFile
  <1>6. CASE CheckConnected
    BY <1>1, <1>6 DEF CheckConnected, MessageInv, MessageIsFile, sharedVars
  <1>7. CASE PublishFails
    BY <1>1, <1>7 DEF PublishFails, MessageInv, MessageIsFile, sharedVars
  <1>8. CASE WaitForBroker \/ NotifyMain
    BY <1>1, <1>8 DEF WaitForBroker, NotifyMain, MessageInv, MessageIsFile, sharedVars
  <1> QED
    BY <1>3, <1>4, <1>5, <1>6, <1>7, <1>8 DEF Mqtt, MqttPubStep

LEMMA MessageInvariant == Spec => []MessageInv
  <1>1. TypeInv /\ HandoverInv /\ MessageInv /\ [Next]_vars => MessageInv'
    <2> SUFFICES ASSUME TypeInv, HandoverInv, MessageInv, [Next]_vars PROVE MessageInv'
      OBVIOUS
    <2>1. CASE UNCHANGED <<reqQ, mainPc, picSize, file, mqttPc, request, message>>
      BY <2>1 DEF MessageInv, MessageIsFile
    <2>2. CASE Camera \/ User \/ WebServer \/ Trigger \/ UNCHANGED vars
      <3>1. UNCHANGED <<reqQ, mainPc, picSize, file, mqttPc, request, message>>
        BY <2>2, CameraFrame, QueueFrame
        DEF User, UserStep, Plug, Unplug, vars, sharedVars, mainVars, mqttPubVars
      <3> QED
        BY <2>1, <3>1
    <2>3. CASE Broker
      <3>1. /\ UNCHANGED <<reqQ, mainPc, picSize, file, request, message>>
            /\ mqttPc' = mqttPc \/ mqttPc' = "idle"
        BY <2>3 DEF Broker, BrokerStep, BrokerConnects, BrokerDisconnects, sharedVars, mainVars
      <3> QED
        BY <3>1 DEF MessageInv, MessageIsFile
    <2>4. CASE Poster
      <3>1. /\ UNCHANGED <<mainPc, picSize, mqttPc, request, message, file>>
            /\ reqQ' = reqQ \/ (reqQ # <<>> /\ reqQ' = Tail(reqQ))
        BY <2>4 DEF Poster, HttpPostStep, TakePostRequest, StatFile, StatFails, Connect,
           SendHeader, OpenForUpload, OpenForUploadFails, SendChunk, SendChunkFails,
           SendEnd, ReadReply, sharedVars, mainVars, mqttPubVars
      <3> QED
        BY <3>1, TakingEmptiesQueue DEF MessageInv, MessageIsFile
    <2>5. CASE Reboot
      BY <2>5 DEF Reboot, MessageInv, MessageIsFile
    <2> QED
      BY <2>2, <2>3, <2>4, <2>5, MainKeepsMessage, MqttKeepsMessage DEF Next, Run
  <1> QED
    BY <1>1, InitMessage, TypeInvariant, HandoverInvariant, PTL DEF Spec

\* What the MQTT POST task publishes is the picture file as it is, to its last
\* byte, although the length comes from main's request.
THEOREM MessageWhole == Spec => []MessageIsFile
  <1>1. MessageInv => MessageIsFile
    BY DEF MessageInv
  <1> QED
    BY <1>1, MessageInvariant, PTL

-----------------------------------------------------------------------------
(* The picture                                                             *)

\* A camera that stays plugged in is never closed, and its buffer not freed.
PluggedInv ==
    /\ "DISCONNECTED" \notin appFlags /\ camPc # "close"
    /\ HoldingFrame \/ ring.queue # <<>> => buf # Garbage

LEMMA InitPlugged == Init => PluggedInv
  BY DEF Init, Boot, SharedBoot, CamBoot, MainBoot, PluggedInv, HoldingFrame, EmptyRing

LEMMA CameraKeepsPlugged ==
    ASSUME "unplug" \notin Faults, TypeInv, PluggedInv, Camera \/ User
    PROVE  PluggedInv'
  <1>1. mainPc' = mainPc
    BY CameraFrame, OutsideFrame DEF mainVars
  <1>2. Garbage \notin Pics
    BY PictureAssumption
  <1>3. "DISCONNECTED" \notin appFlags' /\ camPc' # "close"
    BY DEF PluggedInv, Camera, CamTask, User, UserStep, Plug, Unplug, WaitForEvent, OpenCamera,
       RefuseDescriptor, AssertFails, Negotiate, Renegotiate, AfterRetry, StartStream,
       NoticeDisconnect, WakeUp, GetFrame, GetFrameFails, SendFrame, AfterSend, CloseCamera,
       camVars
  <1>4. buf' \in Pics \/ buf' = buf
    BY DEF PluggedInv, Camera, CamTask, User, UserStep, Plug, Unplug, WaitForEvent, OpenCamera,
       RefuseDescriptor, AssertFails, Negotiate, Renegotiate, StartStream, NoticeDisconnect,
       WakeUp, GetFrame, GetFrameFails, SendFrame, CloseCamera, sharedVars
  <1>5. ring' # ring => camPc = "send"
    BY DEF Camera, CamTask, User, UserStep, Plug, Unplug, WaitForEvent, OpenCamera,
       RefuseDescriptor, AssertFails, Negotiate, Renegotiate, StartStream, NoticeDisconnect,
       WakeUp, GetFrame, GetFrameFails, SendFrame, CloseCamera, sharedVars
  <1>6. camPc = "send" => buf \in Pics
    BY DEF TypeInv
  <1> QED
    BY <1>1, <1>2, <1>3, <1>4, <1>5, <1>6 DEF PluggedInv, HoldingFrame

LEMMA MainKeepsPlugged ==
    ASSUME TypeInv, PluggedInv, Main
    PROVE  PluggedInv'
  <1>1. UNCHANGED <<appFlags, camPc, buf>>
    BY DEF Main, MainStep, camVars, sharedVars, ReceiveCommand, DeleteLocalFile, ClearAndNotify,
       ReceiveFrame, Encode, EncodeFails, OpenFile, OpenFileFails, WriteFile, CheckSize,
       SendRequest, TakeNotification, Resume, Publish
  <1>2. ring \in Ring
    BY DEF TypeInv, TypeOK, SharedTypeOK
  <1>3. HoldingFrame' => HoldingFrame \/ ring.queue # <<>>
    BY DEF Main, MainStep, HoldingFrame, ReceiveCommand, DeleteLocalFile, ClearAndNotify,
       ReceiveFrame, Receivable, Encode, EncodeFails, OpenFile, OpenFileFails, WriteFile,
       CheckSize, AfterCheck, SendRequest, TakeNotification, Resume, Publish
  <1>4. ring'.queue # <<>> => ring.queue # <<>>
    BY <1>2 DEF Main, MainStep, ReceiveCommand, DeleteLocalFile, ClearAndNotify, ReceiveFrame,
       Encode, EncodeFails, OpenFile, OpenFileFails, WriteFile, CheckSize, SendRequest,
       TakeNotification, Resume, Publish, RingDrain, EmptyRing, RingReceive, RingReturn,
       Ring, sharedVars
  <1> QED
    BY <1>1, <1>3, <1>4 DEF PluggedInv

\* The picture on its way through main: nothing on disk until the file is
\* opened, then the frame's data, then a file that is as long as the frame's
\* picture if it is as long as picSize.
PictureInv ==
    /\ mainPc \in {"clear", "receive", "encode", "fopen"} => file = NoFile
    /\ mainPc \in {"fopen", "fwrite"} =>
          (Head(ring.out).format = "YUYV" => jpg = Head(ring.out).pic)
    /\ mainPc = "stat" /\ file # NoFile => file.pic \in Pics /\ picSize = PicSize[file.pic]
    /\ CheckedFileIsWhole

pictureVars == <<mainPc, ring.out, file, jpg, picSize>>

LEMMA MainKeepsPicture ==
    ASSUME TypeInv, CaptureInv, PluggedInv, PictureInv, Main
    PROVE  PictureInv'
  <1>1. /\ file \in File \cup {NoFile} /\ ring \in Ring
        /\ buf \in Pics \cup {Garbage}
    BY DEF TypeInv, TypeOK, SharedTypeOK
  <1>2. HoldingFrame => buf = Head(ring.out).pic /\ Head(ring.out).pic \in Pics
    BY <1>1, HeldFrame DEF CaptureInv, BufferInv, FrameNotOverwritten, PluggedInv
  <1>3. CASE ReceiveCommand \/ DeleteLocalFile \/ ClearAndNotify \/ Publish \/ EncodeFails
    BY <1>3 DEF ReceiveCommand, ReadyForCommand, DeleteLocalFile, ClearAndNotify, Publish,
       EncodeFails, PictureInv, CheckedFileIsWhole, sharedVars
  <1>4. CASE ReceiveFrame
    <2>1. /\ mainPc = "receive" /\ mainPc' \in {"encode", "fopen", "waitCmd"}
          /\ file' = file /\ ring' = RingReceive(ring)
          /\ mainPc' = "fopen" => Head(ring.queue).format = "MJPEG"
      BY <1>4 DEF ReceiveFrame, AfterReceive
    <2>2. ring'.out = ring.queue
      BY <2>1 DEF RingReceive
    <2> QED
      BY <2>1, <2>2 DEF PictureInv, CheckedFileIsWhole
  <1>5. CASE Encode
    <2>1. jpg' = Head(ring.out).pic /\ UNCHANGED <<ring, file>>
      BY <1>2, <1>5 DEF Encode, HoldingFrame, sharedVars
    <2> QED
      BY <1>5, <2>1 DEF Encode, PictureInv, CheckedFileIsWhole
  <1>6. CASE OpenFile
    BY <1>6 DEF OpenFile, PictureInv, CheckedFileIsWhole
  <1>7. CASE OpenFileFails
    BY <1>7 DEF OpenFileFails, PictureInv, CheckedFileIsWhole
  <1>8. CASE WriteFile
    <2>1. JpgData = Head(ring.out).pic
      BY <1>2, <1>8 DEF WriteFile, JpgData, HoldingFrame, PictureInv
    <2>2. file'.pic = Head(ring.out).pic /\ picSize' = PicSize[Head(ring.out).pic]
      BY <1>8, <2>1 DEF WriteFile
    <2>3. Head(ring.out).pic \in Pics
      BY <1>2, <1>8 DEF WriteFile, HoldingFrame
    <2> QED
      BY <1>8, <2>2, <2>3 DEF WriteFile, PictureInv, CheckedFileIsWhole
  <1>9. CASE CheckSize
    BY <1>9 DEF CheckSize, SizeIsLegal, AfterCheck, PictureInv, CheckedFileIsWhole, sharedVars
  <1>10. CASE SendRequest \/ TakeNotification \/ Resume
    BY <1>10 DEF SendRequest, TakeNotification, Resume, Awoken, PictureInv, CheckedFileIsWhole
  <1> QED
    BY <1>3, <1>4, <1>5, <1>6, <1>7, <1>8, <1>9, <1>10 DEF Main, MainStep

LEMMA OthersKeepPicture ==
    ASSUME TypeInv, Camera \/ User \/ Poster \/ Mqtt \/ Broker \/ WebServer \/ Trigger
    PROVE  UNCHANGED pictureVars
  <1>1. UNCHANGED <<mainVars, file>>
    BY CameraFrame, OutsideFrame, QueueFrame
    DEF Poster, HttpPostStep, TakePostRequest, StatFile, StatFails, Connect, SendHeader,
        OpenForUpload, OpenForUploadFails, SendChunk, SendChunkFails, SendEnd,
        ReadReply, Mqtt, MqttPubStep, WaitForBroker, TakeMqttRequest, CheckConnected,
        OpenForPublish, PublishPicture, PublishFails, NotifyMain, sharedVars
  <1>2. ring \in Ring
    BY DEF TypeInv, TypeOK, SharedTypeOK
  <1>3. ring' = ring \/ ring' = RingSend(ring, [format |-> format, pic |-> buf], RingCap)
    BY OutsideFrame, QueueFrame
    DEF Camera, CamTask, WaitForEvent, OpenCamera, RefuseDescriptor, AssertFails, Negotiate,
        Renegotiate, StartStream, NoticeDisconnect, WakeUp, GetFrame, GetFrameFails, SendFrame,
        CloseCamera, Poster, HttpPostStep, TakePostRequest, StatFile, StatFails, Connect,
        SendHeader, OpenForUpload, OpenForUploadFails, SendChunk, SendChunkFails, SendEnd,
        ReadReply, Mqtt, MqttPubStep, WaitForBroker, TakeMqttRequest, CheckConnected,
        OpenForPublish, PublishPicture, PublishFails, NotifyMain, sharedVars
  <1>4. ring'.out = ring.out
    BY <1>2, <1>3 DEF RingSend, Ring
  <1> QED
    BY <1>1, <1>4 DEF pictureVars, mainVars

\* The two, with a camera that is never unplugged.
LEMMA PictureInvariant ==
    ASSUME "unplug" \notin Faults
    PROVE  Spec => [](PluggedInv /\ PictureInv)
  <1>1. Init => PluggedInv /\ PictureInv
    BY InitPlugged DEF Init, Boot, MainBoot, PictureInv, CheckedFileIsWhole
  <1>2. TypeInv /\ CaptureInv /\ PluggedInv /\ PictureInv /\ [Next]_vars
            => (PluggedInv /\ PictureInv)'
    <2> SUFFICES ASSUME TypeInv, CaptureInv, PluggedInv, PictureInv, [Next]_vars
                 PROVE  PluggedInv' /\ PictureInv'
      OBVIOUS
    <2>1. CASE Main
      BY <2>1, MainKeepsPlugged, MainKeepsPicture
    <2>2. CASE Camera \/ User
      BY <2>2, CameraKeepsPlugged, OthersKeepPicture
      DEF pictureVars, PictureInv, CheckedFileIsWhole
    <2>3. CASE Poster \/ Mqtt \/ Broker \/ WebServer \/ Trigger
      <3>1. UNCHANGED <<appFlags, camPc, mainPc, ring, buf>>
        BY <2>3, QueueFrame, OthersKeepPicture, OutsideFrame
        DEF pictureVars, camVars, Poster, HttpPostStep, TakePostRequest, StatFile, StatFails,
            Connect, SendHeader, OpenForUpload, OpenForUploadFails, SendChunk, SendChunkFails,
            SendEnd, ReadReply, Mqtt, MqttPubStep, WaitForBroker,
            TakeMqttRequest, CheckConnected, OpenForPublish, PublishPicture, PublishFails,
            NotifyMain, Broker,
            sharedVars
      <3> QED
        BY <2>3, <3>1, OthersKeepPicture
        DEF pictureVars, PluggedInv, HoldingFrame, PictureInv, CheckedFileIsWhole
    <2>4. CASE Reboot
      BY <2>4 DEF Reboot, EmptyRing, PluggedInv, HoldingFrame, PictureInv, CheckedFileIsWhole
    <2>5. CASE UNCHANGED vars
      BY <2>5 DEF vars, sharedVars, camVars, mainVars, PluggedInv, HoldingFrame, PictureInv,
         CheckedFileIsWhole
    <2> QED
      BY <2>1, <2>2, <2>3, <2>4, <2>5 DEF Next, Run
  <1> QED
    BY <1>1, <1>2, TypeInvariant, CaptureInvariant, PTL DEF Spec

\* With a camera that stays plugged in, whatever else fails, a file that has
\* passed the size check of main.c:586-592 is one picture, all of it.
THEOREM CheckedFileWhole ==
    ASSUME "unplug" \notin Faults
    PROVE  Spec => []CheckedFileIsWhole
  <1>1. PictureInv => CheckedFileIsWhole
    BY DEF PictureInv
  <1> QED
    BY <1>1, PictureInvariant, PTL

-----------------------------------------------------------------------------
(* The root page's text: the length http_server.c computes is the length   *)
(* of what mbedtls writes, for pictures of every size.                     *)

\* calcBase64EncodedSize rounds up twice, bits to blocks of 6 and blocks to
\* groups of 4; the encoder writes a group for every 3 bytes begun.  The two
\* agree whatever is left over after the last 3 bytes.
LEMMA SizesAgree ==
    ASSUME NEW n \in Nat
    PROVE  calcBase64EncodedSize(n) = Base64Length(n)
  <1> DEFINE q == n \div 3
             r == n % 3
  <1>1. q \in Nat /\ r \in 0..2 /\ n = 3 * q + r
    OBVIOUS
  <1>2. Base64Length(n) = 4 * q + (IF r = 0 THEN 0 ELSE 4)
    <2>1. (n + 2) \div 3 = q + (IF r = 0 THEN 0 ELSE 1)
      BY <1>1
    <2> QED
      BY <1>1, <2>1 DEF Base64Length
  <1>3. calcBase64EncodedSize(n) = 4 * q + (IF r = 0 THEN 0 ELSE 4)
    <2>1. n * 8 + 5 = 6 * (4 * q) + (8 * r + 5)
      BY <1>1
    <2>2. (n * 8 + 5) \div 6 = 4 * q + (IF r = 0 THEN 0 ELSE IF r = 1 THEN 2 ELSE 3)
      BY <1>1, <2>1
    <2>3. ((n * 8 + 5) \div 6 + 3) \div 4 = q + (IF r = 0 THEN 0 ELSE 1)
      BY <1>1, <2>2
    <2> QED
      BY <1>1, <2>3 DEF calcBase64EncodedSize
  <1> QED
    BY <1>2, <1>3

\* The web server's variables are its own.
LEMMA ServerFrame ==
    Camera \/ User \/ Main \/ Poster \/ Mqtt \/ Broker \/ Trigger => UNCHANGED httpServerVars
  BY DEF Camera, User, Main, Poster, Mqtt, Broker, Trigger

\* Only EncodePicture makes a page ready to be sent, and it leaves the text at
\* the length that will be sent.
LEMMA PageTextStep ==
    ASSUME TypeInv, PageTextIsWhole, [Next]_vars
    PROVE  PageTextIsWhole'
  <1>1. page.size \in Nat
    BY DEF TypeInv, TypeOK, HttpServerTypeOK
  <1>2. CASE UNCHANGED httpServerVars
    BY <1>2 DEF PageTextIsWhole, httpServerVars
  <1>3. CASE Reboot
    BY <1>3 DEF Reboot, PageTextIsWhole
  <1>4. CASE Http \/ Visitor
    BY <1>4 DEF Http, ReceiveName, Visitor, VisitRoot, PageTextIsWhole
  <1>5. CASE Httpd /\ EncodePicture
    <2> DEFINE bytes == page.size * ChunkBytes
    <2>1. bytes \in Nat
      BY <1>1 DEF ChunkBytes
    <2>2. calcBase64EncodedSize(bytes) = Base64Length(bytes)
      BY <2>1, SizesAgree
    <2>3. Base64Length(bytes) \in Nat
      BY <2>1 DEF Base64Length
    <2>4. Encoded(bytes, calcBase64EncodedSize(bytes) + 1) = calcBase64EncodedSize(bytes)
      BY <2>2, <2>3 DEF Encoded
    <2>5. page'.text = calcBase64EncodedSize(bytes) /\ page'.size = page.size
      BY <1>5, <2>4 DEF EncodePicture, TypeInv, TypeOK, HttpServerTypeOK
    <2> QED
      BY <2>5 DEF PageTextIsWhole
  <1>6. CASE Httpd /\ ~EncodePicture
    BY <1>6 DEF Httpd, RootGetHandler, StatPicture, NoPicture, OpenPicture,
       OpenPictureFails, ReadPicture, SendPage, PageTextIsWhole
  <1>7. CASE UNCHANGED vars
    BY <1>2, <1>7 DEF vars
  <1> QED
    BY <1>2, <1>3, <1>4, <1>5, <1>6, <1>7, ServerFrame DEF Next, Run, WebServer

\* Every page the server sends carries exactly what the encoder wrote.
THEOREM PageTextWhole == Spec => []PageTextIsWhole
  <1>1. Init => PageTextIsWhole
    BY DEF Init, Boot, HttpServerBoot, PageTextIsWhole
  <1> QED
    BY <1>1, PageTextStep, TypeInvariant, PTL DEF Spec
=============================================================================
