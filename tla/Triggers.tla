------------------------------ MODULE Triggers ------------------------------
(***************************************************************************)
(* What all shutter tasks share: the command queue, and a count of the     *)
(* times the user has asked for a picture and the shutter has not reacted  *)
(* yet.  The count is not in the code, it lies in a button, a socket's     *)
(* buffer or a broker.  The shutters of one line are here as well: Enter   *)
(* key, UDP datagram, HTTP request.                                        *)
(***************************************************************************)
EXTENDS Integers, FreeRTOS

CONSTANTS
    MaxAsked    \* bound: requests the line holds at a time

ASSUME MaxAskedAssumption == MaxAsked \in Nat \ {0}

VARIABLES
    shutter,    \* SHUTTER_SELECT of Kconfig: the one shutter of this build
    cmdQ,       \* xQueueCmd
    asked       \* requests made and not served

triggerVars == <<shutter, cmdQ, asked>>

Shutters == {"enter", "gpio", "tcp", "udp", "mqtt", "http"}

CmdQueueLen == 1

TriggersTypeOK ==
    /\ shutter \in Shutters
    /\ cmdQ \in Seq({"TAKE"}) /\ Len(cmdQ) <= CmdQueueLen
    /\ asked \in Int

Ask ==
    /\ asked < MaxAsked
    /\ asked' = asked + 1

\* xQueueSend(xQueueCmd, ..., 10): a full queue is logged, the trigger lost.
SendCommand == /\ cmdQ' = QueueSend(cmdQ, "TAKE", CmdQueueLen)
               /\ asked' = asked - 1

\* Main takes a command at the top of its loop.
MainTakes ==
    /\ cmdQ # <<>>
    /\ cmdQ' = Tail(cmdQ)
    /\ UNCHANGED <<shutter, asked>>

-----------------------------------------------------------------------------

LineShutters == {"enter", "udp", "http"}

\* Somebody hits Enter, sends a datagram or requests the shutter's URL.
AskOnLine ==
    /\ shutter \in LineShutters
    /\ Ask
    /\ UNCHANGED <<shutter, cmdQ>>

KeyIn == shutter = "enter" /\ asked > 0 /\ SendCommand /\ UNCHANGED shutter

UdpReceive == shutter = "udp" /\ asked > 0 /\ SendCommand /\ UNCHANGED shutter

\* An empty datagram, or a receive that fails: LWIP_ASSERT stops the chip, and
\* the queue and the datagrams that wait do not survive the reboot.
UdpAssertFails ==
    /\ shutter = "udp"
    /\ cmdQ' = <<>> /\ asked' = 0
    /\ UNCHANGED shutter

\* The reply says OK whatever xQueueSend returned.
ShutterHandler == shutter = "http" /\ asked > 0 /\ SendCommand /\ UNCHANGED shutter

LineTask == KeyIn \/ UdpReceive \/ UdpAssertFails \/ ShutterHandler
=============================================================================
