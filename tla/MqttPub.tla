------------------------------- MODULE MqttPub -------------------------------
(***************************************************************************)
(* The POST task of a build with CONFIG_MQTT_POST (mqtt_pub.c:67-149) and  *)
(* its event handler (mqtt_pub.c:29-62).  The task waits once for the      *)
(* broker; from then on it takes a request, publishes the picture if the   *)
(* connection is up, skips it otherwise, and notifies main either way.     *)
(***************************************************************************)
EXTENDS SharedObjects

VARIABLES
    mqttPc,     \* where the task stands
    mqttUp,     \* MQTT_CONNECTED_BIT
    request,    \* requestBuf
    message     \* image_buffer: what is read and published for the request

mqttPubVars == <<mqttPc, mqttUp, request, message>>

MqttPcs == {"start", "waiting", "idle", "check", "read", "publish", "notify"}

NoRequest == [size |-> 0]
NoMessage == [pic |-> Garbage, len |-> 0]

MqttPubBoot ==
    /\ mqttPc = "start"
    /\ mqttUp = FALSE
    /\ request = NoRequest
    /\ message = NoMessage

MqttPubTypeOK ==
    /\ mqttPc \in MqttPcs
    /\ mqttUp \in BOOLEAN
    /\ request \in Request
    /\ message \in File

\* MQTT_EVENT_CONNECTED.  Setting the bit readies the task that waits for it,
\* which runs on even if the bit is cleared again before it does.
BrokerConnects ==
    /\ Post = "mqtt"
    /\ ~mqttUp
    /\ mqttUp' = TRUE
    /\ mqttPc' = IF mqttPc = "waiting" THEN "idle" ELSE mqttPc
    /\ UNCHANGED <<sharedVars, request, message>>

\* MQTT_EVENT_DISCONNECTED
BrokerDisconnects ==
    /\ "broker" \in Faults
    /\ mqttUp
    /\ mqttUp' = FALSE
    /\ UNCHANGED <<sharedVars, mqttPc, request, message>>

\* xEventGroupWaitBits(..., portMAX_DELAY), which leaves the bit set.
WaitForBroker ==
    /\ Post = "mqtt"
    /\ mqttPc = "start"
    /\ mqttPc' = IF mqttUp THEN "idle" ELSE "waiting"
    /\ UNCHANGED <<sharedVars, mqttUp, request, message>>

TakeMqttRequest ==
    /\ mqttPc = "idle"
    /\ reqQ # <<>>
    /\ request' = Head(reqQ)
    /\ reqQ' = Tail(reqQ)
    /\ message' = NoMessage
    /\ mqttPc' = "check"
    /\ UNCHANGED <<cmdQ, httpQ, ring, camNotify, mainNotify, file, buf, panicked, mqttUp>>

\* Mutant: it waits for the connection instead of skipping the picture.
CheckConnectedOrWait ==
    /\ mqttPc = "check"
    /\ mqttUp
    /\ mqttPc' = "read"
    /\ UNCHANGED <<sharedVars, mqttUp, request, message>>

CheckConnected ==
    /\ mqttPc = "check"
    /\ mqttPc' = IF mqttUp THEN "read" ELSE "notify"
    /\ UNCHANGED <<sharedVars, mqttUp, request, message>>

\* malloc, and fopen of the picture as it is now.
OpenForPublish ==
    /\ mqttPc = "read"
    /\ file # NoFile
    /\ message' = [pic |-> file.pic, len |-> 0]
    /\ mqttPc' = "publish"
    /\ UNCHANGED <<sharedVars, mqttUp, request>>

\* As many bytes as the request says are read and published; what the file no
\* longer has is what malloc left in the buffer.
PublishPicture ==
    /\ mqttPc = "publish"
    /\ message' = [pic |-> IF file # NoFile /\ file.pic = message.pic
                           THEN message.pic ELSE Garbage,
                   len |-> request.size]
    /\ mqttPc' = "notify"
    /\ UNCHANGED <<sharedVars, mqttUp, request>>

\* malloc or fopen fails, or the connection was lost and nothing is published.
PublishFails ==
    /\ \/ mqttPc = "read" /\ (file = NoFile \/ "fopen" \in Faults)
       \/ mqttPc = "publish" /\ ~mqttUp
    /\ message' = NoMessage
    /\ mqttPc' = "notify"
    /\ UNCHANGED <<sharedVars, mqttUp, request>>

NotifyMain ==
    /\ mqttPc = "notify"
    /\ mainNotify' = NotifyOverwrite(mainNotify, 0)
    /\ mqttPc' = "idle"
    /\ UNCHANGED <<cmdQ, reqQ, httpQ, ring, camNotify, file, buf, panicked,
                   mqttUp, request, message>>

BrokerStep == BrokerConnects \/ BrokerDisconnects

MqttPubStep ==
    \/ WaitForBroker \/ TakeMqttRequest \/ CheckConnected
    \/ OpenForPublish \/ PublishPicture \/ PublishFails \/ NotifyMain
=============================================================================
