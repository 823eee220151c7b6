------------------------------ MODULE UsbCamera ------------------------------
(***************************************************************************)
(* The USB task (usb_camera.c:154-319) and the adapter callback that feeds *)
(* it.  The task waits for a camera, opens it, negotiates a stream, then   *)
(* sleeps until main asks for one frame; it delivers the frame through the *)
(* ring buffer.  Only the frame's header travels: its data pointer keeps   *)
(* pointing into the stream's own buffer, which is overwritten by the next *)
(* poll and freed when the device is closed.                               *)
(***************************************************************************)
EXTENDS SharedObjects

VARIABLES
    attached,    \* a camera is plugged in
    appFlags,    \* the event group the adapter callback sets
    camPc,       \* where the task stands
    retry,       \* negotiations repeated so far
    res,         \* result of the last libuvc call
    format,      \* frame format of the open stream
    session      \* the opened device: "none", "live", or "dead" (unplugged)

camVars == <<attached, appFlags, camPc, retry, res, format, session>>

CamPcs == {"wait", "open", "negotiate", "renegotiate", "start", "loop",
           "getframe", "send", "close", "refused"}

\* A camera present at boot is enumerated and reported like one plugged later.
CamBoot ==
    /\ appFlags = IF attached THEN {"CONNECTED"} ELSE {}
    /\ camPc = "wait"
    /\ retry = 0
    /\ res = "ok"
    /\ format \in Formats
    /\ session = "none"

CamTypeOK ==
    /\ attached \in BOOLEAN
    /\ appFlags \subseteq {"CONNECTED", "DISCONNECTED"}
    /\ camPc \in CamPcs
    /\ retry \in 0..MaxRetry
    /\ res \in {"ok", "fail"}
    /\ format \in Formats
    /\ session \in {"none", "live", "dead"}

-----------------------------------------------------------------------------
(* The user, and the adapter's callback.                                   *)

Plug ==
    /\ ~attached
    /\ attached' = TRUE
    /\ appFlags' = appFlags \cup {"CONNECTED"}
    /\ UNCHANGED <<sharedVars, camPc, retry, res, format, session>>

\* The host library reports the loss of a device to the client that opened it.
Unplug ==
    /\ "unplug" \in Faults
    /\ attached
    /\ attached' = FALSE
    /\ IF session = "live"
       THEN /\ appFlags' = appFlags \cup {"DISCONNECTED"}
            /\ session' = "dead"
       ELSE UNCHANGED <<appFlags, session>>
    /\ UNCHANGED <<sharedVars, camPc, retry, res, format>>

-----------------------------------------------------------------------------
(* The task.                                                               *)

\* xEventGroupWaitBits(..., pdTRUE, ...) clears the bit it waited for.
WaitForEvent ==
    /\ camPc = "wait"
    /\ "CONNECTED" \in appFlags
    /\ appFlags' = appFlags \ {"CONNECTED"}
    /\ camPc' = "open"
    /\ UNCHANGED <<sharedVars, attached, retry, res, format, session>>

\* uvc_find_device, uvc_open and the choice of a format from the descriptor.
OpenCamera ==
    /\ camPc = "open"
    /\ attached
    /\ session' = "live"
    /\ format' \in Formats
    /\ camPc' = "negotiate"
    /\ UNCHANGED <<sharedVars, attached, appFlags, retry, res>>

\* The first format descriptor is neither uncompressed nor MJPEG.
RefuseDescriptor ==
    /\ camPc = "open"
    /\ attached
    /\ "descriptor" \in Faults
    /\ session' = "live"
    /\ camPc' = "refused"
    /\ UNCHANGED <<sharedVars, attached, appFlags, retry, res, format>>

\* UVC_CHECK asserts: the camera has gone before it is found or opened, or is
\* there and refuses.
AssertFails ==
    /\ camPc = "open"
    /\ ~attached \/ "stream" \in Faults
    /\ panicked' = TRUE
    /\ UNCHANGED <<cmdQ, reqQ, httpQ, ring, camNotify, mainNotify, file, buf, camVars>>

\* What a libuvc call on the open device may answer.
Answers ==
    (IF session = "live" THEN {"ok"} ELSE {})
        \cup (IF session = "dead" \/ "stream" \in Faults THEN {"fail"} ELSE {})

\* uvc_get_stream_ctrl_format_size, the call before the loop
Negotiate ==
    /\ camPc = "negotiate"
    /\ res' \in Answers
    /\ retry' = 0
    /\ camPc' = IF res' = "ok" THEN "start" ELSE "renegotiate"
    /\ UNCHANGED <<sharedVars, attached, appFlags, format, session>>

\* Mutant: one retry too many.
AfterRetryLate(count, answer) ==
    IF count > MaxRetry THEN "refused"
    ELSE IF answer = "ok" THEN "start" ELSE "renegotiate"

AfterRetry(count, answer) ==
    IF count = MaxRetry THEN "refused"
    ELSE IF answer = "ok" THEN "start" ELSE "renegotiate"

\* One turn of the loop: the count is tested before the answer is.
Renegotiate ==
    /\ camPc = "renegotiate"
    /\ res' \in Answers
    /\ retry' = retry + 1
    /\ camPc' = AfterRetry(retry + 1, res')
    /\ UNCHANGED <<sharedVars, attached, appFlags, format, session>>

\* uvc_stream_open_ctrl and uvc_stream_start
StartStream ==
    /\ camPc = "start"
    /\ res' \in Answers
    /\ camPc' = IF res' = "ok" THEN "loop" ELSE "refused"
    /\ UNCHANGED <<sharedVars, attached, appFlags, retry, format, session>>

\* ulTaskNotifyTake(pdTRUE, 1 s) returned 0 and the device has gone.
NoticeDisconnect ==
    /\ camPc = "loop"
    /\ ~TakeReturnsAtOnce(camNotify)
    /\ "DISCONNECTED" \in appFlags
    /\ appFlags' = appFlags \ {"DISCONNECTED"}
    /\ camPc' = "close"
    /\ UNCHANGED <<sharedVars, attached, retry, res, format, session>>

\* It returned the count, and cleared it.
WakeUp ==
    /\ camPc = "loop"
    /\ TakeReturnsAtOnce(camNotify)
    /\ camNotify' = NoNotification
    /\ camPc' = "getframe"
    /\ UNCHANGED <<cmdQ, reqQ, httpQ, ring, mainNotify, file, buf, panicked,
                   attached, appFlags, retry, res, format, session>>

\* uvc_stream_get_frame: the frame is in the stream's buffer, and stays there.
\* A stream that has just died may still hold one.
GetFrame ==
    /\ camPc = "getframe"
    /\ buf' \in Pics
    /\ res' = "ok"
    /\ camPc' = "send"
    /\ UNCHANGED <<cmdQ, reqQ, httpQ, ring, camNotify, mainNotify, file, panicked,
                   attached, appFlags, retry, format, session>>

GetFrameFails ==
    /\ camPc = "getframe"
    /\ "fail" \in Answers
    /\ res' = "fail"
    /\ camPc' = "refused"
    /\ UNCHANGED <<sharedVars, attached, appFlags, retry, format, session>>

\* Mutant: stream on without waiting to be asked.
PollAgain == "getframe"

\* One frame per notification.
AfterSend == "loop"

\* The header alone is copied into the ring.
SendFrame ==
    /\ camPc = "send"
    /\ ring' = RingSend(ring, [format |-> format, pic |-> buf], RingCap)
    /\ camPc' = AfterSend
    /\ UNCHANGED <<cmdQ, reqQ, httpQ, camNotify, mainNotify, file, buf, panicked,
                   attached, appFlags, retry, res, format, session>>

\* uvc_close frees the stream, and its frame buffer with it.
CloseCamera ==
    /\ camPc = "close"
    /\ session' = "none"
    /\ buf' = Garbage
    /\ camPc' = "wait"
    /\ UNCHANGED <<cmdQ, reqQ, httpQ, ring, camNotify, mainNotify, file, panicked,
                   attached, appFlags, retry, res, format>>

CamTask ==
    \/ WaitForEvent \/ OpenCamera \/ RefuseDescriptor \/ AssertFails
    \/ Negotiate \/ Renegotiate \/ StartStream
    \/ NoticeDisconnect \/ WakeUp \/ GetFrame \/ GetFrameFails \/ SendFrame
    \/ CloseCamera

UserStep == Plug \/ Unplug
=============================================================================
