------------------------------ MODULE MqttSub -------------------------------
(***************************************************************************)
(* The MQTT shutter (mqtt_sub.c).  The client's own task calls             *)
(* mqtt_event_handler, which writes the event's id to a buffer on the      *)
(* shutter task's stack and then, for some events, notifies that task; the *)
(* task reads the id when it gets to run.  One word holds the last event   *)
(* only, and a notification does not say which event it was for.           *)
(***************************************************************************)
EXTENDS Triggers

VARIABLES
    link,         \* the connection to the broker
    subscribed,   \* "no", "sent" (SUBSCRIBE is on its way), or "yes"
    eventId,      \* mqttBuf.event_id
    handling,     \* the handler has written eventId and not notified yet
    subNotify,    \* notification word of the shutter task
    subPc         \* "wait", "read", "subscribe", "send", "stop" or "ended"

subVars == <<link, subscribed, eventId, handling, subNotify, subPc>>

Events == {"CONNECTED", "DISCONNECTED", "SUBSCRIBED", "DATA", "ERROR"}

SubBoot ==
    /\ link = "down"
    /\ subscribed = "no"
    /\ eventId = "none"
    /\ handling = FALSE
    /\ subNotify = NoNotification
    /\ subPc = "wait"

SubTypeOK ==
    /\ link \in {"down", "up"}
    /\ subscribed \in {"no", "sent", "yes"}
    /\ eventId \in Events \cup {"none"}
    /\ handling \in BOOLEAN
    /\ subNotify.value \in 0..MaxAsked + 3
    /\ subPc \in {"wait", "read", "subscribe", "send", "stop", "ended"}

-----------------------------------------------------------------------------
(* The client's task.                                                      *)

\* One event at a time, until the client is stopped.
Dispatch(event) ==
    /\ shutter = "mqtt"
    /\ subPc # "ended"
    /\ ~handling
    /\ subNotify.value < MaxAsked + 3
    /\ eventId' = event
    /\ handling' = TRUE
    /\ UNCHANGED <<shutter, cmdQ, subNotify, subPc>>

ClientConnected ==
    /\ link = "down"
    /\ link' = "up"
    /\ Dispatch("CONNECTED")
    /\ UNCHANGED <<asked, subscribed>>

\* The connection is lost, or could not be made.
ClientDisconnected ==
    /\ link' = "down"
    /\ subscribed' = "no"
    /\ Dispatch("DISCONNECTED")
    /\ UNCHANGED asked

ClientError ==
    /\ Dispatch("ERROR")
    /\ UNCHANGED <<asked, link, subscribed>>

SubscriptionAcknowledged ==
    /\ subscribed = "sent"
    /\ subscribed' = "yes"
    /\ Dispatch("SUBSCRIBED")
    /\ UNCHANGED <<asked, link>>

\* Somebody publishes on the topic, and the broker forwards it (asked is
\* bounded below as well: a message may trigger more than once).
MessageArrives ==
    /\ subscribed # "no"
    /\ Ask /\ asked > -MaxAsked
    /\ Dispatch("DATA")
    /\ UNCHANGED <<link, subscribed>>

\* Mutant: no notification for a message.
NotifyingButData == {"CONNECTED", "DISCONNECTED", "ERROR"}

Notifying == {"CONNECTED", "DISCONNECTED", "DATA", "ERROR"}

FinishHandler ==
    /\ handling
    /\ handling' = FALSE
    /\ subNotify' = IF eventId \in Notifying THEN NotifyGive(subNotify) ELSE subNotify
    /\ UNCHANGED <<triggerVars, link, subscribed, eventId, subPc>>

MqttClient ==
    \/ ClientConnected \/ ClientDisconnected \/ ClientError
    \/ SubscriptionAcknowledged \/ MessageArrives

-----------------------------------------------------------------------------
(* mqtt_sub                                                                *)

SubWakeUp ==
    /\ subPc = "wait"
    /\ TakeReturnsAtOnce(subNotify)
    /\ subNotify' = NoNotification
    /\ subPc' = "read"
    /\ UNCHANGED <<triggerVars, link, subscribed, eventId, handling>>

ReadEvent ==
    /\ subPc = "read"
    /\ subPc' = CASE eventId = "CONNECTED" -> "subscribe"
                  [] eventId = "DATA" -> "send"
                  [] eventId = "ERROR" -> "stop"
                  [] OTHER -> "wait"
    /\ UNCHANGED <<triggerVars, link, subscribed, eventId, handling, subNotify>>

\* esp_mqtt_client_subscribe fails unless the client is connected.
Subscribe ==
    /\ subPc = "subscribe"
    /\ subscribed' = IF link = "up" THEN "sent" ELSE subscribed
    /\ subPc' = "wait"
    /\ UNCHANGED <<triggerVars, link, eventId, handling, subNotify>>

SendOnMessage ==
    /\ subPc = "send"
    /\ SendCommand
    /\ subPc' = "wait"
    /\ UNCHANGED <<shutter, link, subscribed, eventId, handling, subNotify>>

\* After an error the client is stopped and the task deletes itself.
Stop ==
    /\ subPc = "stop"
    /\ ~handling
    /\ subPc' = "ended"
    /\ link' = "down"
    /\ subscribed' = "no"
    /\ UNCHANGED <<triggerVars, eventId, handling, subNotify>>

MqttSubTask == SubWakeUp \/ ReadEvent \/ Subscribe \/ SendOnMessage \/ Stop
=============================================================================
