---------------------------- MODULE ShutterTasks ----------------------------
(***************************************************************************)
(* The shutter task of a build, whichever Kconfig selects, and main taking *)
(* its commands.                                                           *)
(***************************************************************************)
EXTENDS Button, TcpServer, MqttSub

CONSTANT Selected    \* the shutters of the builds this instance looks at

ASSUME SelectedAssumption == Selected \subseteq Shutters

vars == <<triggerVars, buttonVars, tcpVars, subVars>>

Init ==
    /\ shutter \in Selected
    /\ cmdQ = <<>>
    /\ asked = 0
    /\ ButtonBoot
    /\ TcpBoot
    /\ SubBoot

MainTakesCommand == MainTakes /\ UNCHANGED <<buttonVars, tcpVars, subVars>>

Line == (AskOnLine \/ LineTask) /\ UNCHANGED <<buttonVars, tcpVars, subVars>>
ButtonUser == (Push \/ LetGo) /\ UNCHANGED <<tcpVars, subVars>>
Gpio == ButtonTask /\ UNCHANGED <<tcpVars, subVars>>
Network == ClientStep /\ UNCHANGED <<buttonVars, subVars>>
Tcp == TcpTask /\ UNCHANGED <<buttonVars, subVars>>
Mqtt == (MqttClient \/ FinishHandler) /\ UNCHANGED <<buttonVars, tcpVars>>
Sub == MqttSubTask /\ UNCHANGED <<buttonVars, tcpVars>>

Next == MainTakesCommand \/ Line \/ ButtonUser \/ Gpio \/ Network \/ Tcp \/ Mqtt \/ Sub

Spec == Init /\ [][Next]_vars

\* The tasks and the client's handler run when they can; a client that has
\* connected sends its message and, once answered, hangs up (tcp_send.py).
FairSpec ==
    /\ Spec
    /\ WF_vars(Gpio)
    /\ WF_vars(Tcp)
    /\ WF_vars(Sub)
    /\ WF_vars(FinishHandler /\ UNCHANGED <<buttonVars, tcpVars>>)
    /\ \A c \in Clients :
          WF_vars((ClientSends(c) \/ ClientCloses(c)) /\ UNCHANGED <<buttonVars, subVars>>)

-----------------------------------------------------------------------------

\* Every variable stays in its range.
TypeOK == TriggersTypeOK /\ ButtonTypeOK /\ TcpTypeOK /\ SubTypeOK

\* A shutter sends no more commands than it was asked for: in particular "a
\* picture is taken when it is turned from ON to OFF" (README.md:128), once,
\* however the button moves between two samples (gpio.c:40-55).
NoCommandUnasked == shutter # "mqtt" => asked >= 0

\* The same of the MQTT shutter: a message published on the topic triggers
\* ("You can use mosquitto_pub as trigger", README.md:151) one command at most.
OneCommandPerMessage == shutter = "mqtt" => asked >= 0

\* tcp_send.py waits for the reply without a timeout: a client that has sent
\* its message is answered, OK or FAIL, unless it dies first, even if another
\* one was connected before it and main does not take the command
\* (tcp_server.c:79-120).
ClientAnswered ==
    \A c \in Clients : client[c] = "asked" ~> client[c] \in {"answered", "closed"}

\* A message wakes the MQTT shutter up, unless another event overwrites the
\* one event_id before the task reads it (mqtt_sub.c:31, :122-128).
LastEventServed ==
    (handling /\ eventId = "DATA")
        ~> (eventId # "DATA" \/ subPc \in {"send", "stop", "ended"})
=============================================================================
