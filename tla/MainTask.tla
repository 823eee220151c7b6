------------------------------ MODULE MainTask ------------------------------
(***************************************************************************)
(* The main task: the loop of app_main (main.c:565-624) with               *)
(* camera_capture (main.c:76-142) inlined.  One turn serves one trigger:   *)
(* delete the old picture, ask the camera for a frame, save it as JPEG,    *)
(* check its size, hand the file to the POST task and wait for its answer, *)
(* announce it to the web server.                                          *)
(***************************************************************************)
EXTENDS SharedObjects

VARIABLES
    mainPc,    \* where the task stands
    jpg,       \* picture held by the encoder's own buffer
    picSize    \* pictureSize, the length camera_capture reported

mainVars == <<mainPc, jpg, picSize>>

MainPcs == {"waitCmd", "unlink", "clear", "receive", "encode", "fopen", "fwrite",
            "stat", "post", "take", "blocked", "publish"}

\* Between the receive and the return of a frame.
HoldingFrame == mainPc \in {"encode", "fopen", "fwrite"}

\* Between the offer of the file to the POST task and its answer.
AwaitingPost == mainPc \in {"take", "blocked"}

MainBoot ==
    /\ mainPc = "waitCmd"
    /\ jpg = Garbage
    /\ picSize = 0

MainTypeOK ==
    /\ mainPc \in MainPcs
    /\ jpg \in Pics \cup {Garbage}
    /\ picSize \in Nat

\* Mutant: a new trigger interrupts the wait for a frame.
ReadyOrReceiving == mainPc \in {"waitCmd", "receive"}

\* Only the top of the loop reads the queue.
ReadyForCommand == mainPc = "waitCmd"

\* xQueueReceive(xQueueCmd); no task ever sends CMD_HALT.
ReceiveCommand ==
    /\ ReadyForCommand
    /\ cmdQ # <<>>
    /\ cmdQ' = Tail(cmdQ)
    /\ mainPc' = "unlink"
    /\ UNCHANGED <<reqQ, httpQ, ring, camNotify, mainNotify, file, buf, panicked,
                   jpg, picSize>>

DeleteLocalFile ==
    /\ mainPc = "unlink"
    /\ file' = NoFile
    /\ mainPc' = "clear"
    /\ UNCHANGED <<cmdQ, reqQ, httpQ, ring, camNotify, mainNotify, buf, panicked,
                   jpg, picSize>>

\* "Clear RingBuffer" until a receive times out, then notify the USB task.
ClearAndNotify ==
    /\ mainPc = "clear"
    /\ ring' = RingDrain(ring)
    /\ camNotify' = NotifyGive(camNotify)
    /\ mainPc' = "receive"
    /\ UNCHANGED <<cmdQ, reqQ, httpQ, mainNotify, file, buf, panicked,
                   jpg, picSize>>

\* What camera_capture does next with a frame of this format; a format it
\* does not know makes it return, and the loop of app_main starts over.
AfterReceive(fmt) ==
    CASE fmt = "YUYV" -> "encode"
      [] fmt = "MJPEG" -> "fopen"
      [] OTHER -> "waitCmd"

ReceiveFrame ==
    /\ mainPc = "receive"
    /\ Receivable(ring)
    /\ ring' = RingReceive(ring)
    /\ mainPc' = AfterReceive(Head(ring.queue).format)
    /\ UNCHANGED <<cmdQ, reqQ, httpQ, camNotify, mainNotify, file, buf, panicked,
                   jpg, picSize>>

\* fmt2jpg reads the camera's buffer and fills one of its own.
Encode ==
    /\ mainPc = "encode"
    /\ jpg' = buf
    /\ mainPc' = "fopen"
    /\ UNCHANGED <<sharedVars, picSize>>

\* The early return leaves the frame with the ring buffer's caller.
EncodeFails ==
    /\ mainPc = "encode"
    /\ "encode" \in Faults
    /\ mainPc' = "waitCmd"
    /\ UNCHANGED <<sharedVars, jpg, picSize>>

OpenFile ==
    /\ mainPc = "fopen"
    /\ file' = [pic |-> Garbage, len |-> 0]
    /\ mainPc' = "fwrite"
    /\ UNCHANGED <<cmdQ, reqQ, httpQ, ring, camNotify, mainNotify, buf, panicked,
                   jpg, picSize>>

\* camera_capture still returns ESP_OK; pictureSize keeps what it held.
OpenFileFails ==
    /\ mainPc = "fopen"
    /\ "fopen" \in Faults
    /\ picSize' \in Junk
    /\ ring' = RingReturn(ring)
    /\ mainPc' = "stat"
    /\ UNCHANGED <<cmdQ, reqQ, httpQ, camNotify, mainNotify, file, buf, panicked,
                   jpg>>

\* _jpg_buf is the encoder's buffer, or the camera's own.
JpgData == IF Head(ring.out).format = "YUYV" THEN jpg ELSE buf

\* fwrite is not checked: on a full disk less than the picture is written.
\* It is one step with fclose: a page loaded meanwhile finds the file empty or
\* written, never half of it.
Written(size) == {size} \cup (IF "diskfull" \in Faults THEN 0..(size - 1) ELSE {})

WriteFile ==
    /\ mainPc = "fwrite"
    /\ LET size == PicSize[Head(ring.out).pic] IN
       /\ \E n \in Written(size) : file' = [pic |-> JpgData, len |-> n]
       /\ picSize' = size
    /\ ring' = RingReturn(ring)
    /\ mainPc' = "stat"
    /\ UNCHANGED <<cmdQ, reqQ, httpQ, camNotify, mainNotify, buf, panicked, jpg>>

\* Mutant: the size is not checked.
AnySizeIsLegal == TRUE

SizeIsLegal == file # NoFile => file.len = picSize

AfterCheck == IF Post = "none" THEN "publish" ELSE "post"

CheckSize ==
    /\ mainPc = "stat"
    /\ mainPc' = IF SizeIsLegal THEN AfterCheck ELSE "waitCmd"
    /\ UNCHANGED <<sharedVars, jpg, picSize>>

\* xQueueSend(xQueueRequest): wait for the answer only if it went through.
SendRequest ==
    /\ mainPc = "post"
    /\ reqQ' = QueueSend(reqQ, [size |-> picSize], RequestQueueLen)
    /\ mainPc' = IF QueueHasRoom(reqQ, RequestQueueLen) THEN "take" ELSE "publish"
    /\ UNCHANGED <<cmdQ, httpQ, ring, camNotify, mainNotify, file, buf, panicked,
                   jpg, picSize>>

\* ulTaskNotifyTake(pdTRUE, portMAX_DELAY), up to where it blocks
TakeNotification ==
    /\ mainPc = "take"
    /\ IF TakeReturnsAtOnce(mainNotify)
       THEN mainNotify' = NoNotification /\ mainPc' = "publish"
       ELSE mainNotify' = StartWaiting(mainNotify) /\ mainPc' = "blocked"
    /\ UNCHANGED <<cmdQ, reqQ, httpQ, ring, camNotify, file, buf, panicked,
                   jpg, picSize>>

\* Mutant: the wait has a timeout.
AwokenOrTimedOut == mainPc = "blocked"

Awoken == mainPc = "blocked" /\ mainNotify.state = "received"

Resume ==
    /\ Awoken
    /\ mainNotify' = NoNotification
    /\ mainPc' = "publish"
    /\ UNCHANGED <<cmdQ, reqQ, httpQ, ring, camNotify, file, buf, panicked,
                   jpg, picSize>>

\* xQueueSend(xQueueHttp); a full queue is only logged.
Publish ==
    /\ mainPc = "publish"
    /\ httpQ' = QueueSend(httpQ, "picture.jpg", HttpQueueLen)
    /\ mainPc' = "waitCmd"
    /\ UNCHANGED <<cmdQ, reqQ, ring, camNotify, mainNotify, file, buf, panicked,
                   jpg, picSize>>

MainStep ==
    \/ ReceiveCommand \/ DeleteLocalFile \/ ClearAndNotify \/ ReceiveFrame
    \/ Encode \/ EncodeFails \/ OpenFile \/ OpenFileFails \/ WriteFile \/ CheckSize
    \/ SendRequest \/ TakeNotification \/ Resume \/ Publish
=============================================================================
