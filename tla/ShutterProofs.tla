---------------------------- MODULE ShutterProofs ----------------------------
(***************************************************************************)
(* Why no shutter sends a command nobody asked for: what the user has      *)
(* asked for is accounted for by the button's last turn, or by the clients *)
(* whose message is on its way and the one the server is about to answer.  *)
(***************************************************************************)
EXTENDS ShutterTasks, FiniteSetTheorems, TLAPS

\* Only the tasks of the selected shutter exist.
OthersAtRest ==
    /\ shutter # "gpio" => ~pushed /\ gpioPc = "poll"
    /\ shutter # "tcp" => tcpPc = "accept" /\ client = [c \in Clients |-> "away"]
    /\ shutter # "mqtt" => subPc = "wait" /\ ~handling /\ subNotify.value = 0

\* The handler notifies once for each event it was given room for.
NotifyInv == handling => subNotify.value < MaxAsked + 3

\* A release that the task has seen, or is about to see, is still asked for.
ButtonInv ==
    shutter = "gpio" =>
        /\ asked \in {0, 1}
        /\ gpioPc = "send" \/ (gpioPc = "held" /\ ~pushed) => asked = 1

Asking == {c \in Clients : client[c] = "asked"}

\* Each client that has sent a message the server has not read counts once,
\* and so does the message the server has read and not answered.
ClientInv ==
    /\ tcpPc # "accept" => conn \in Clients
    /\ shutter = "tcp" => asked = Cardinality(Asking) + (IF tcpPc = "reply" THEN 1 ELSE 0)

ShutterInv ==
    /\ TypeOK /\ OthersAtRest /\ NotifyInv
    /\ ButtonInv /\ ClientInv /\ NoCommandUnasked

LEMMA CommandTypes ==
    ASSUME TriggersTypeOK
    PROVE  /\ QueueSend(cmdQ, "TAKE", CmdQueueLen) \in Seq({"TAKE"})
           /\ Len(QueueSend(cmdQ, "TAKE", CmdQueueLen)) <= CmdQueueLen
           /\ cmdQ # <<>> => Tail(cmdQ) \in Seq({"TAKE"}) /\ Len(Tail(cmdQ)) <= CmdQueueLen
  BY DEF TriggersTypeOK, QueueSend, QueueHasRoom, CmdQueueLen

LEMMA AskingIsFinite == IsFiniteSet(Asking) /\ Cardinality(Asking) \in Nat
  BY ClientsAssumption, FS_Subset, FS_CardinalityType DEF Asking

\* One client more or less is asking.
LEMMA AskingChanges ==
    ASSUME NEW c \in Clients, TcpTypeOK, NEW state \in ClientStates,
           client' = [client EXCEPT ![c] = state]
    PROVE  /\ client[c] # "asked" /\ state = "asked" =>
                  Cardinality(Asking') = Cardinality(Asking) + 1
           /\ client[c] = "asked" /\ state # "asked" =>
                  Cardinality(Asking') = Cardinality(Asking) - 1
           /\ client[c] # "asked" /\ state # "asked" =>
                  Cardinality(Asking') = Cardinality(Asking)
  <1>1. CASE client[c] # "asked" /\ state = "asked"
    <2>1. Asking' = Asking \cup {c} /\ c \notin Asking
      BY <1>1 DEF TcpTypeOK, Asking
    <2>2. Cardinality(Asking \cup {c}) = Cardinality(Asking) + 1
      BY <2>1, AskingIsFinite, FS_AddElement
    <2> QED
      BY <1>1, <2>1, <2>2
  <1>2. CASE client[c] = "asked" /\ state # "asked"
    <2>1. Asking' = Asking \ {c} /\ c \in Asking
      BY <1>2 DEF TcpTypeOK, Asking
    <2>2. Cardinality(Asking \ {c}) = Cardinality(Asking) - 1
      BY <2>1, AskingIsFinite, FS_RemoveElement
    <2> QED
      BY <1>2, <2>1, <2>2
  <1>3. CASE client[c] # "asked" /\ state # "asked"
    <2>1. Asking' = Asking
      BY <1>3 DEF TcpTypeOK, Asking
    <2> QED
      BY <1>3, <2>1
  <1>4. CASE client[c] = "asked" /\ state = "asked"
    BY <1>4
  <1> QED
    BY <1>1, <1>2, <1>3, <1>4

LEMMA InitShutter == Init => ShutterInv
  <1> SUFFICES ASSUME Init PROVE ShutterInv
    OBVIOUS
  <1> USE DEF Init, ButtonBoot, TcpBoot, SubBoot
  <1>1. TypeOK
    <2>1. TriggersTypeOK
      BY SelectedAssumption DEF TriggersTypeOK, CmdQueueLen
    <2>2. ButtonTypeOK /\ TcpTypeOK
      BY DEF ButtonTypeOK, TcpTypeOK, ClientStates
    <2>3. subNotify.value \in 0..MaxAsked + 3
      BY MaxAskedAssumption DEF NoNotification
    <2>4. SubTypeOK
      BY <2>3 DEF SubTypeOK
    <2> QED
      BY <2>1, <2>2, <2>4 DEF TypeOK
  <1>2. OthersAtRest /\ NotifyInv /\ ButtonInv /\ NoCommandUnasked
    BY DEF OthersAtRest, NotifyInv, ButtonInv, NoCommandUnasked, NoNotification
  <1>3. ClientInv
    <2>1. Asking = {}
      BY DEF Asking
    <2> QED
      BY <2>1, FS_EmptySet DEF ClientInv
  <1> QED
    BY <1>1, <1>2, <1>3 DEF ShutterInv

\* The shutters of one line react only to what was asked.
LEMMA LineKeepsShutter ==
    ASSUME ShutterInv, MainTakesCommand \/ Line
    PROVE  ShutterInv'
  <1> USE DEF ShutterInv
  <1>1. UNCHANGED <<shutter, buttonVars, tcpVars, subVars>>
    BY DEF MainTakesCommand, MainTakes, Line, AskOnLine, LineTask, KeyIn, UdpReceive,
       UdpAssertFails, ShutterHandler
  <1>2. TriggersTypeOK'
    <2>1. CASE UdpAssertFails
      BY <2>1 DEF UdpAssertFails, TypeOK, TriggersTypeOK, CmdQueueLen
    <2>2. CASE ~UdpAssertFails
      BY <1>1, <2>2, CommandTypes
      DEF TypeOK, TriggersTypeOK, MainTakesCommand, MainTakes, Line, AskOnLine, LineTask,
          KeyIn, UdpReceive, ShutterHandler, SendCommand, Ask
    <2> QED
      BY <2>1, <2>2
  <1>3. TypeOK' /\ OthersAtRest' /\ NotifyInv'
    BY <1>1, <1>2 DEF TypeOK, ButtonTypeOK, TcpTypeOK, SubTypeOK, OthersAtRest, NotifyInv,
       buttonVars, tcpVars, subVars
  <1>4. asked' = asked \/ (shutter \in LineShutters /\ asked' >= 0)
    <2> USE DEF LineShutters
    <2>1. asked \in Int /\ (shutter # "mqtt" => asked >= 0)
      BY DEF TypeOK, TriggersTypeOK, NoCommandUnasked
    <2>2. CASE MainTakesCommand
      BY <2>2 DEF MainTakesCommand, MainTakes
    <2>3. CASE AskOnLine
      BY <2>1, <2>3 DEF AskOnLine, Ask
    <2>4. CASE KeyIn
      BY <2>1, <2>4 DEF KeyIn, SendCommand
    <2>5. CASE UdpReceive
      BY <2>1, <2>5 DEF UdpReceive, SendCommand
    <2>6. CASE UdpAssertFails
      BY <2>6 DEF UdpAssertFails
    <2>7. CASE ShutterHandler
      BY <2>1, <2>7 DEF ShutterHandler, SendCommand
    <2> QED
      BY <2>2, <2>3, <2>4, <2>5, <2>6, <2>7 DEF Line, LineTask
  <1> QED
    BY <1>1, <1>3, <1>4 DEF ButtonInv, ClientInv, Asking, NoCommandUnasked, LineShutters,
       buttonVars, tcpVars, subVars

\* Between a push the task has seen and its command lies a release.
LEMMA ButtonKeepsShutter ==
    ASSUME ShutterInv, ButtonUser \/ Gpio
    PROVE  ShutterInv'
  <1> USE DEF ShutterInv
  <1>1. UNCHANGED <<shutter, tcpVars, subVars>> /\ shutter = "gpio"
    BY DEF ButtonUser, Push, LetGo, Gpio, ButtonTask, SamplePushed, SampleReleased, SendRelease,
       OthersAtRest, triggerVars
  <1>2. TriggersTypeOK'
    BY <1>1, CommandTypes
    DEF TypeOK, TriggersTypeOK, ButtonUser, Push, LetGo, Gpio, ButtonTask, SamplePushed,
        SampleReleased, SendRelease, SendCommand, triggerVars
  <1>3. ButtonTypeOK'
    BY DEF TypeOK, ButtonTypeOK, ButtonUser, Push, LetGo, Gpio, ButtonTask, SamplePushed,
       SampleReleased, SendRelease, SeenPushed
  <1>4. TypeOK' /\ OthersAtRest' /\ NotifyInv' /\ ClientInv'
    BY <1>1, <1>2, <1>3
    DEF TypeOK, TcpTypeOK, SubTypeOK, OthersAtRest, NotifyInv, ClientInv, tcpVars, subVars
  <1>5. ButtonInv'
    BY <1>1 DEF TypeOK, ButtonTypeOK, ButtonInv, ButtonUser, Push, LetGo, Gpio, ButtonTask,
       SamplePushed, SampleReleased, SendRelease, SendCommand, SeenPushed, triggerVars
  <1> QED
    BY <1>1, <1>4, <1>5 DEF ButtonInv, NoCommandUnasked

\* A message is counted from its sending to its reply.
LEMMA TcpKeepsShutter ==
    ASSUME ShutterInv, Network \/ Tcp
    PROVE  ShutterInv'
  <1> USE DEF ShutterInv
  <1>0. TriggersTypeOK /\ TcpTypeOK /\ asked \in Int
    BY DEF TypeOK, TriggersTypeOK
  <1>1. UNCHANGED <<shutter, buttonVars, subVars>>
    BY DEF Network, ClientStep, ClientConnects, ClientSends, ClientCloses, ClientDies, Tcp,
       TcpTask, Accept, Recv, RecvClosed, Reply, triggerVars
  <1>2. shutter = "tcp"
    BY DEF Network, ClientStep, ClientConnects, ClientSends, ClientCloses, ClientDies, Tcp,
       TcpTask, Accept, Waiting, Recv, RecvClosed, Reply, OthersAtRest
  <1>3. TriggersTypeOK'
    BY <1>0, <1>1, CommandTypes
    DEF TriggersTypeOK, Network, ClientStep, ClientConnects, ClientSends, ClientCloses,
        ClientDies, Tcp, TcpTask, Accept, Recv, RecvClosed, Reply, SendCommand, Ask, triggerVars
  <1>4. TcpTypeOK' /\ (tcpPc' # "accept" => conn' \in Clients)
    BY <1>0 DEF TcpTypeOK, ClientStates, ClientInv, Network, ClientStep, ClientConnects,
       ClientSends, ClientCloses, ClientDies, Tcp, TcpTask, Accept, Waiting, Recv, RecvClosed,
       Reply
  <1>5. TypeOK' /\ OthersAtRest' /\ NotifyInv' /\ ButtonInv'
    BY <1>1, <1>2, <1>3, <1>4
    DEF TypeOK, ButtonTypeOK, SubTypeOK, OthersAtRest, NotifyInv, ButtonInv, buttonVars, subVars
  <1>6. asked' = Cardinality(Asking') + (IF tcpPc' = "reply" THEN 1 ELSE 0)
    <2> DEFINE n == Cardinality(Asking)
    <2>1. n \in Nat /\ asked = n + (IF tcpPc = "reply" THEN 1 ELSE 0)
      BY <1>2, AskingIsFinite DEF ClientInv
    <2>2. CASE Network
      <3>1. PICK c \in Clients :
                ClientConnects(c) \/ ClientSends(c) \/ ClientCloses(c) \/ ClientDies(c)
        BY <2>2 DEF Network, ClientStep
      <3>2. tcpPc' = tcpPc
        BY <3>1 DEF ClientConnects, ClientSends, ClientCloses, ClientDies
      <3>3. CASE ClientConnects(c)
        BY <1>0, <2>1, <3>2, <3>3, AskingChanges DEF ClientConnects, ClientStates, triggerVars
      <3>4. CASE ClientSends(c)
        <4>1. client[c] = "connected" /\ client' = [client EXCEPT ![c] = "asked"]
          BY <3>4 DEF ClientSends
        <4>2. Cardinality(Asking') = n + 1
          BY <1>0, <4>1, AskingChanges DEF ClientStates
        <4> QED
          BY <2>1, <3>2, <3>4, <4>2 DEF ClientSends, Ask
      <3>5. CASE ClientCloses(c)
        BY <1>0, <2>1, <3>2, <3>5, AskingChanges DEF ClientCloses, ClientStates, triggerVars
      <3>6. CASE ClientDies(c)
        <4>1. client' = [client EXCEPT ![c] = "closed"]
          BY <3>6 DEF ClientDies
        <4>2. Cardinality(Asking') = IF client[c] = "asked" THEN n - 1 ELSE n
          BY <1>0, <4>1, AskingChanges DEF ClientStates
        <4>3. asked' = IF client[c] = "asked" THEN asked - 1 ELSE asked
          BY <3>6 DEF ClientDies
        <4> QED
          BY <2>1, <3>2, <4>2, <4>3
      <3> QED
        BY <3>1, <3>3, <3>4, <3>5, <3>6
    <2>3. CASE Accept
      BY <2>1, <2>3 DEF Accept, Asking, triggerVars
    <2>4. CASE Recv
      <3>1. conn \in Clients /\ client[conn] = "asked"
        BY <2>4 DEF Recv, ClientInv
      <3>2. Cardinality(Asking') = n - 1
        BY <1>0, <2>4, <3>1, AskingChanges DEF Recv, ClientStates
      <3> QED
        BY <2>1, <2>4, <3>2 DEF Recv, triggerVars
    <2>5. CASE RecvClosed
      <3>1. conn \in Clients /\ client[conn] = "closed"
        BY <2>5 DEF RecvClosed, ClientInv
      <3>2. Cardinality(Asking') = n
        BY <1>0, <2>5, <3>1, AskingChanges DEF RecvClosed, ClientStates
      <3> QED
        BY <2>1, <2>5, <3>2 DEF RecvClosed, triggerVars
    <2>6. CASE Reply
      <3>1. conn \in Clients
        BY <2>6 DEF Reply, ClientInv
      <3>2. Asking' = Asking
        BY <1>0, <2>6, <3>1 DEF Reply, Asking, TcpTypeOK
      <3> QED
        BY <1>0, <2>1, <2>6, <3>2 DEF Reply, SendCommand
    <2> QED
      BY <2>2, <2>3, <2>4, <2>5, <2>6 DEF Tcp, TcpTask
  <1>7. Cardinality(Asking') \in Nat
    <2>1. Asking' \subseteq Clients
      BY DEF Asking
    <2> QED
      BY <2>1, ClientsAssumption, FS_Subset, FS_CardinalityType
  <1> QED
    BY <1>1, <1>2, <1>4, <1>5, <1>6, <1>7 DEF ClientInv, NoCommandUnasked

\* The MQTT shutter is the one whose commands are not accounted for.
LEMMA MqttKeepsShutter ==
    ASSUME ShutterInv, Mqtt \/ Sub
    PROVE  ShutterInv'
  <1> USE DEF ShutterInv
  <1>1. UNCHANGED <<shutter, buttonVars, tcpVars>>
    BY DEF Mqtt, MqttClient, ClientConnected, ClientDisconnected, ClientError, Dispatch,
       SubscriptionAcknowledged, MessageArrives, FinishHandler, Sub, MqttSubTask, SubWakeUp,
       ReadEvent, Subscribe, SendOnMessage, Stop, triggerVars
  <1>2. shutter = "mqtt"
    BY DEF OthersAtRest, Mqtt, MqttClient, ClientConnected, ClientDisconnected, ClientError,
       Dispatch, SubscriptionAcknowledged, MessageArrives, FinishHandler, Sub, MqttSubTask,
       SubWakeUp, TakeReturnsAtOnce, ReadEvent, Subscribe, SendOnMessage, Stop
  <1>3. TriggersTypeOK'
    BY <1>1, CommandTypes
    DEF TypeOK, TriggersTypeOK, Mqtt, MqttClient, ClientConnected, ClientDisconnected,
        ClientError, Dispatch, SubscriptionAcknowledged, MessageArrives, FinishHandler, Sub,
        MqttSubTask, SubWakeUp, ReadEvent, Subscribe, SendOnMessage, Stop, SendCommand, Ask,
        triggerVars
  <1>4. SubTypeOK' /\ NotifyInv'
    <2> USE MaxAskedAssumption DEF TypeOK, SubTypeOK, NotifyInv, Events
    <2>1. CASE MqttClient
      BY <2>1 DEF MqttClient, ClientConnected, ClientDisconnected, ClientError, Dispatch,
         SubscriptionAcknowledged, MessageArrives
    <2>2. CASE FinishHandler
      <3>1. subNotify.value \in 0..MaxAsked + 2
        BY <2>2 DEF FinishHandler
      <3>2. subNotify'.value \in 0..MaxAsked + 3
        BY <2>2, <3>1 DEF FinishHandler, NotifyGive
      <3>3. handling' = FALSE
        BY <2>2 DEF FinishHandler
      <3>4. UNCHANGED <<link, subscribed, eventId, subPc>>
        BY <2>2 DEF FinishHandler
      <3> QED
        BY <3>2, <3>3, <3>4
    <2>3. CASE SubWakeUp
      BY <2>3 DEF SubWakeUp, NoNotification
    <2>4. CASE ReadEvent
      BY <2>4 DEF ReadEvent
    <2>5. CASE Subscribe \/ SendOnMessage \/ Stop
      BY <2>5 DEF Subscribe, SendOnMessage, Stop
    <2> QED
      BY <2>1, <2>2, <2>3, <2>4, <2>5 DEF Mqtt, Sub, MqttSubTask
  <1> QED
    BY <1>1, <1>2, <1>3, <1>4
    DEF TypeOK, ButtonTypeOK, TcpTypeOK, OthersAtRest, ButtonInv, ClientInv, NoCommandUnasked,
        buttonVars, tcpVars

LEMMA ShutterInvariant == Spec => []ShutterInv
  <1>1. ShutterInv /\ [Next]_vars => ShutterInv'
    <2> SUFFICES ASSUME ShutterInv, [Next]_vars PROVE ShutterInv'
      OBVIOUS
    <2>1. CASE UNCHANGED vars
      BY <2>1 DEF vars, triggerVars, buttonVars, tcpVars, subVars, ShutterInv, TypeOK,
         TriggersTypeOK, ButtonTypeOK, TcpTypeOK, SubTypeOK, OthersAtRest, NotifyInv, ButtonInv,
         ClientInv, Asking, NoCommandUnasked
    <2> QED
      BY <2>1, LineKeepsShutter, ButtonKeepsShutter, TcpKeepsShutter, MqttKeepsShutter DEF Next
  <1> QED
    BY InitShutter, <1>1, PTL DEF Spec

\* Every variable of every shutter stays in its range.
THEOREM ShutterTypes == Spec => []TypeOK
  BY ShutterInvariant, PTL DEF ShutterInv

\* Except for the MQTT shutter, for any number of clients and requests, no
\* command is sent that nobody asked for (gpio.c:40-55, tcp_server.c:79-120).
THEOREM CommandsAreAsked == Spec => []NoCommandUnasked
  BY ShutterInvariant, PTL DEF ShutterInv
=============================================================================
