------------------------------ MODULE FreeRTOS ------------------------------
(***************************************************************************)
(* The kernel objects the program is built on, as operators that return    *)
(* the object's next value.  FreeRTOS is not part of the repository: these *)
(* definitions follow the calls main.c, usb_camera.c, http_post.c and      *)
(* mqtt_pub.c make and the results they test.                              *)
(*                                                                         *)
(*  - A direct-to-task notification is a counter and a state.  A task that *)
(*    finds the counter 0 goes to "waiting"; a notifier sets "received",   *)
(*    whatever value it leaves in the counter.                             *)
(*  - A queue is a sequence of bounded length.                             *)
(*  - A byte-buffer ring (RINGBUF_TYPE_BYTEBUF) is the sequence of items   *)
(*    not yet received, and the items handed out and not yet returned:     *)
(*    a receive takes all there is, and none is served while one is out.   *)
(***************************************************************************)
EXTENDS Naturals, Sequences

NoNotification == [value |-> 0, state |-> "none"]

\* xTaskNotifyGive
NotifyGive(n) == [value |-> n.value + 1, state |-> "received"]

\* xTaskNotify(task, v, eSetValueWithOverwrite)
NotifyOverwrite(n, v) == [value |-> v, state |-> "received"]

\* ulTaskNotifyTake(pdTRUE, ...) returns at once iff the counter is not 0 ...
TakeReturnsAtOnce(n) == n.value > 0

\* ... and otherwise blocks the caller until somebody notifies it.
StartWaiting(n) == [n EXCEPT !.state = "waiting"]

QueueHasRoom(q, capacity) == Len(q) < capacity

\* Mutant: the capacity is not looked at.
QueueForce(q, item, capacity) == Append(q, item)

\* xQueueSend with a finite timeout: a full queue refuses the item.
QueueSend(q, item, capacity) ==
    IF QueueHasRoom(q, capacity) THEN Append(q, item) ELSE q

EmptyRing == [out |-> <<>>, queue |-> <<>>]

Receivable(r) == r.out = <<>> /\ r.queue # <<>>

\* xRingbufferReceive
RingReceive(r) == [out |-> r.queue, queue |-> <<>>]

\* Mutant: a return that does not free the item.
RingKeep(r) == r

\* vRingbufferReturnItem
RingReturn(r) == [out |-> <<>>, queue |-> r.queue]

\* receive and return until a receive times out
RingDrain(r) == IF Receivable(r) THEN EmptyRing ELSE r

\* xRingbufferSend: items handed out still occupy their bytes.
RingSend(r, item, capacity) ==
    IF Len(r.out) + Len(r.queue) < capacity
    THEN [r EXCEPT !.queue = Append(@, item)]
    ELSE r
=============================================================================
