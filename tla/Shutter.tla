------------------------------- MODULE Shutter -------------------------------
(***************************************************************************)
(* A shutter task: keyboard, GPIO, TCP, UDP, MQTT or HTTP.  Whatever wakes *)
(* it, it sends CMD_TAKE to main with a 10-tick timeout; while the queue's *)
(* single slot is taken the trigger is logged and forgotten, which changes *)
(* no state.                                                               *)
(***************************************************************************)
EXTENDS SharedObjects

SendTake ==
    /\ QueueHasRoom(cmdQ, CmdQueueLen)
    /\ cmdQ' = Append(cmdQ, "TAKE")
    /\ UNCHANGED <<reqQ, httpQ, ring, camNotify, mainNotify, file, buf, panicked>>
=============================================================================
