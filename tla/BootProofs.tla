----------------------------- MODULE BootProofs -----------------------------
(***************************************************************************)
(* Why event_handler never runs without its event group, and why the bit   *)
(* that says the connection failed is never followed by the other.         *)
(***************************************************************************)
EXTENDS Boot, TLAPS

InWifi == {"wait", "unregisterIp", "unregisterWifi"}

\* The handlers are there only while main is inside wifi_init_sta, and go one
\* by one before the group does.
RegisteredInv ==
    /\ bootPc \in {"wait", "unregisterIp"} => registered = {"WIFI", "IP"}
    /\ bootPc = "unregisterWifi" => registered = {"WIFI"}
    /\ bootPc \notin InWifi => registered = {}
    /\ bootPc \in InWifi => group = "live"
    /\ registered = {} => handling = "none"

\* The events that can wait in the loop's queue.
Start   == <<"STA_START">>
Lost    == <<"STA_DISCONNECTED">>
Got     == <<"GOT_IP">>
GotLost == <<"GOT_IP", "STA_DISCONNECTED">>

LEMMA Queues ==
    /\ {<<>>, Start, Lost, Got, GotLost} \subseteq Seq(EventNames)
    /\ Append(<<>>, "STA_START") = Start /\ Append(<<>>, "GOT_IP") = Got
    /\ Append(<<>>, "STA_DISCONNECTED") = Lost /\ Append(Got, "STA_DISCONNECTED") = GotLost
  <1>1. {<<>>, Start, Lost, Got, GotLost} \subseteq Seq(EventNames)
    BY DEF Start, Lost, Got, GotLost, EventNames
  <1>2. Append(<<>>, "STA_START") = Start /\ Append(<<>>, "GOT_IP") = Got
    BY DEF Start, Got
  <1>3. Append(<<>>, "STA_DISCONNECTED") = Lost
    BY DEF Lost
  <1>4. Append(Got, "STA_DISCONNECTED") = GotLost
    <2>1. Append(Got, "STA_DISCONNECTED") \in Seq(EventNames)
      BY <1>1 DEF EventNames
    <2>2. Len(Append(Got, "STA_DISCONNECTED")) = 2 /\ Len(GotLost) = 2
      BY DEF Got, GotLost
    <2>3. \A i \in 1..2 : Append(Got, "STA_DISCONNECTED")[i] = GotLost[i]
      BY DEF Got, GotLost
    <2> QED
      BY <1>1, <2>1, <2>2, <2>3
  <1> QED
    BY <1>1, <1>2, <1>3, <1>4

LEMMA Heads ==
    /\ Head(Start) = "STA_START" /\ Head(Lost) = "STA_DISCONNECTED"
    /\ Head(Got) = "GOT_IP" /\ Head(GotLost) = "GOT_IP"
    /\ Tail(Start) = <<>> /\ Tail(Lost) = <<>> /\ Tail(Got) = <<>>
    /\ Tail(GotLost) = Lost
  BY DEF Start, Lost, Got, GotLost

\* What can be on its way from the driver to the handler: at most a start or a
\* disconnection, and an address before a disconnection.  It follows from
\* where the station is, since the driver waits for the handler's connect.
FlowInv ==
    /\ station \in {"off", "connecting", "associated"} => handling = "none" /\ events = <<>>
    /\ station = "online" =>
          \/ handling = "none" /\ events \in {<<>>, Got}
          \/ handling = "GOT_IP" /\ events = <<>>
    /\ station = "idle" =>
          \/ handling = "none" /\ events \in {<<>>, Start, Lost, GotLost}
          \/ handling = "GOT_IP" /\ events = Lost
          \/ handling \in {"STA_START", "STA_DISCONNECTED"} /\ events = <<>>

\* Before Wi-Fi is started there is no bit and no driver; the clock is looked
\* at fewer than ten times unless start-up has failed.
FreshInv ==
    /\ bootPc \in {"nvs", "wifi"} => bits = {} /\ station = "off"
    /\ bootPc # "aborted" => looks < retry_count

BootInv == TypeOK /\ RegisteredInv /\ FlowInv /\ FreshInv /\ FailIsFinal

\* The world's own variables are flags, and stay flags.
LEMMA WorldStays ==
    /\ Init => WorldTypeOK
    /\ WorldTypeOK /\ [Next]_vars => WorldTypeOK'
  <1>1. Init => WorldTypeOK
    BY DEF Init, WorldTypeOK
  <1>2. ASSUME WorldTypeOK, [Next]_vars PROVE WorldTypeOK'
    <2>1. CASE WorldChanges \/ TimeArrives
      BY <1>2, <2>1 DEF WorldChanges, TimeArrives, WorldTypeOK, worldVars
    <2>2. UNCHANGED <<timeSet, worldVars>> => WorldTypeOK'
      BY <1>2 DEF WorldTypeOK, worldVars
    <2>3. AppMain => timeSet' \in BOOLEAN /\ UNCHANGED worldVars
      BY <1>2 DEF WorldTypeOK, AppMain, InitNvs, StartWifi, WaitForWifi, UnregisterIp,
         UnregisterWifi, DeleteGroup, LookAtClock, MountSpiffs, CreateTasks, Reboot, MainOnly
    <2>4. Driver \/ EventLoop \/ UNCHANGED vars => UNCHANGED <<timeSet, worldVars>>
      BY DEF Driver, Joins, JoinFails, GetsAddress, LosesAccessPoint, DriverOnly, EventLoop,
         Dispatch, HandleStart, HandleDisconnected, HandleGotIp, Handled, vars
    <2> QED
      BY <1>2, <2>1, <2>2, <2>3, <2>4 DEF Next, WorldTypeOK, worldVars
  <1> QED
    BY <1>1, <1>2

LEMMA InitBoot == Init => BootInv
  BY RetryAssumption, Queues, WorldStays
  DEF Init, BootInv, TypeOK, BootPcs, EventNames, RegisteredInv, InWifi, FlowInv,
      FreshInv, FailIsFinal, retry_count

\* The world and the driver: events are added as FlowInv says.
LEMMA OutsideKeepsBoot ==
    ASSUME BootInv, WorldChanges \/ TimeArrives \/ Driver
    PROVE  BootInv'
  <1> USE DEF BootInv
  <1>0. WorldTypeOK'
    BY WorldStays DEF Next, TypeOK
  <1>1. UNCHANGED <<bootPc, group, bits, registered, ret_value, looks, s_retry_num, handling>>
    BY DEF WorldChanges, TimeArrives, Driver, Joins, JoinFails, GetsAddress, LosesAccessPoint,
       DriverOnly, mainVars, loopVars
  <1>2. RegisteredInv'
    BY <1>1 DEF RegisteredInv
  <1>3. TypeOK' /\ FlowInv' /\ FreshInv' /\ FailIsFinal'
    <2>1. CASE WorldChanges \/ TimeArrives
      BY <1>0, <1>1, <2>1 DEF WorldChanges, TimeArrives, TypeOK, FlowInv, FreshInv,
         FailIsFinal
    <2>2. CASE Driver
      <3>1. "FAIL" \notin bits
        BY <2>2 DEF FailIsFinal, Driver, Joins, JoinFails, GetsAddress, LosesAccessPoint
      <3>2. bootPc \notin {"nvs", "wifi"}
        BY <2>2 DEF FreshInv, Driver, Joins, JoinFails, GetsAddress, LosesAccessPoint
      <3>3. FreshInv' /\ FailIsFinal'
        BY <1>1, <3>1, <3>2 DEF FreshInv, FailIsFinal
      <3>5. CASE Joins
        BY <1>0, <1>1, <3>3, <3>5 DEF Joins, FlowInv, TypeOK
      <3>6. CASE JoinFails
        <4>1. /\ handling = "none" /\ events' = Lost /\ station' = "idle"
          BY <3>6, Queues DEF JoinFails, Posts, FlowInv
        <4> QED
          BY <1>0, <1>1, <3>3, <4>1, Queues DEF FlowInv, TypeOK, EventNames
      <3>7. CASE GetsAddress
        <4>1. /\ handling = "none" /\ events' = Got /\ station' = "online"
          BY <3>7, Queues DEF GetsAddress, Posts, FlowInv
        <4> QED
          BY <1>0, <1>1, <3>3, <4>1, Queues DEF FlowInv, TypeOK, EventNames
      <3>8. CASE LosesAccessPoint
        <4>1. /\ station' = "idle"
              /\ \/ handling = "none" /\ events' = Lost
                 \/ handling = "none" /\ events' = GotLost
                 \/ handling = "GOT_IP" /\ events' = Lost
          BY <3>8, Queues DEF LosesAccessPoint, Posts, FlowInv
        <4> QED
          BY <1>0, <1>1, <3>3, <4>1, Queues DEF FlowInv, TypeOK, EventNames
      <3> QED
        BY <2>2, <3>5, <3>6, <3>7, <3>8 DEF Driver
    <2> QED
      BY <2>1, <2>2
  <1> QED
    BY <1>2, <1>3

\* The loop's task: an event is handled only while somebody is registered.
LEMMA EventLoopKeepsBoot ==
    ASSUME BootInv, EventLoop
    PROVE  BootInv'
  <1> USE DEF BootInv
  <1>0. WorldTypeOK'
    BY WorldStays DEF Next, TypeOK
  <1>1. UNCHANGED <<bootPc, group, registered, ret_value, looks>>
    BY DEF EventLoop, Dispatch, HandleStart, HandleDisconnected, HandleGotIp, SetBits,
       Handled, mainVars
  <1>2. CASE Dispatch
    <2>1. /\ UNCHANGED <<bits, station, s_retry_num>>
          /\ "FAIL" \notin bits
          /\ registered = {} => handling' = "none"
          /\ handling' \in {"none", Head(events)} /\ events' = Tail(events)
      BY <1>0, <1>2 DEF Dispatch, mainVars, FailIsFinal
    <2>2. \/ events' = <<>> /\ Head(events) \in EventNames
             /\ (station = "online" <=> Head(events) = "GOT_IP")
             /\ station \in {"online", "idle"}
          \/ /\ events' = Lost /\ Head(events) = "GOT_IP"
             /\ station = "idle"
      BY <1>2, <2>1, Heads DEF Dispatch, FlowInv, TypeOK, EventNames
    <2> QED
      BY <1>0, <1>1, <2>1, <2>2, Queues DEF FlowInv, TypeOK, RegisteredInv, FreshInv, FailIsFinal,
         EventNames
  <1>3. CASE HandleStart \/ HandleDisconnected \/ HandleGotIp
    <2>1. bootPc \in InWifi
      BY <1>3 DEF HandleStart, HandleDisconnected, HandleGotIp, RegisteredInv
    <2>2. RegisteredInv' /\ FreshInv'
      BY <1>1, <1>3, <2>1 DEF HandleStart, HandleDisconnected, HandleGotIp, RegisteredInv,
         FreshInv, InWifi, Handled
    <2>3. handling' = "none" /\ events' = events /\ "FAIL" \notin bits
      BY <1>3 DEF HandleStart, HandleDisconnected, HandleGotIp, Handled, FailIsFinal
    <2>4. CASE HandleStart
      <3>1. /\ events = <<>> /\ station' = "connecting"
            /\ UNCHANGED <<bits, s_retry_num>>
        BY <2>4 DEF HandleStart, Connects, FlowInv, TypeOK, mainVars
      <3> QED
        BY <1>0, <1>1, <2>2, <2>3, <3>1 DEF FlowInv, TypeOK, FailIsFinal
    <2>5. CASE HandleDisconnected
      <3>1. events = <<>> /\ station = "idle"
        BY <2>5 DEF HandleDisconnected, FlowInv, TypeOK
      <3>2. CASE MayRetry
        <4>1. /\ station' = "connecting" /\ bits' = bits
              /\ s_retry_num' = s_retry_num + 1 /\ s_retry_num' \in 0..MaximumRetry
          BY <2>5, <3>1, <3>2, RetryAssumption
          DEF HandleDisconnected, Connects, MayRetry, mainVars, TypeOK
        <4> QED
          BY <1>0, <1>1, <2>2, <2>3, <3>1, <4>1 DEF FlowInv, TypeOK, FailIsFinal
      <3>3. CASE ~MayRetry
        <4>1. /\ station' = "idle" /\ bits' = bits \cup {"FAIL"}
              /\ s_retry_num' = s_retry_num /\ s_retry_num = MaximumRetry
          BY <2>5, <3>1, <3>3, RetryAssumption
          DEF HandleDisconnected, SetBits, MayRetry, TypeOK
        <4> QED
          BY <1>0, <1>1, <2>2, <2>3, <3>1, <4>1 DEF FlowInv, TypeOK, FailIsFinal
      <3> QED
        BY <3>2, <3>3
    <2>6. CASE HandleGotIp
      <3>1. /\ s_retry_num' = 0 /\ bits' = bits \cup {"CONNECTED"} /\ station' = station
            /\ \/ station = "online" /\ events = <<>>
               \/ station = "idle" /\ events = Lost
        BY <2>6 DEF HandleGotIp, SetBits, FlowInv, TypeOK
      <3> QED
        BY <1>0, <1>1, <2>2, <2>3, <3>1, RetryAssumption
        DEF FlowInv, TypeOK, FailIsFinal
    <2> QED
      BY <1>3, <2>4, <2>5, <2>6
  <1> QED
    BY <1>2, <1>3 DEF EventLoop

\* app_main: handlers are removed when none runs, the group after them.
LEMMA AppMainKeepsBoot ==
    ASSUME BootInv, AppMain
    PROVE  BootInv'
  <1> USE RetryAssumption DEF BootInv, TypeOK, BootPcs, RegisteredInv, InWifi, FlowInv, FreshInv,
          FailIsFinal, retry_count, loopVars
  <1>0. WorldTypeOK'
    BY WorldStays DEF Next
  <1>1. CASE InitNvs \/ WaitForWifi \/ MountSpiffs \/ CreateTasks
    BY <1>0, <1>1 DEF InitNvs, WaitForWifi, MountSpiffs, CreateTasks, MainOnly
  <1>2. CASE StartWifi
    <2>1. events' = Start
      BY <1>2, Queues DEF StartWifi
    <2> QED
      BY <1>0, <1>2, <2>1, Queues DEF StartWifi, EventNames
  <1>3. CASE UnregisterIp
    BY <1>0, <1>3 DEF UnregisterIp, MainOnly
  <1>4. CASE UnregisterWifi
    BY <1>0, <1>4 DEF UnregisterWifi, MainOnly
  <1>5. CASE DeleteGroup
    BY <1>0, <1>5 DEF DeleteGroup, MainOnly
  <1>6. CASE LookAtClock
    BY <1>0, <1>6 DEF LookAtClock, MainOnly
  <1>7. CASE Reboot
    BY <1>0, <1>7, Queues DEF Reboot
  <1> QED
    BY <1>1, <1>2, <1>3, <1>4, <1>5, <1>6, <1>7 DEF AppMain

LEMMA BootInvariant == Spec => []BootInv
  <1>1. BootInv /\ [Next]_vars => BootInv'
    <2> SUFFICES ASSUME BootInv, [Next]_vars PROVE BootInv'
      OBVIOUS
    <2>1. CASE UNCHANGED vars
      BY <2>1, WorldStays DEF vars, mainVars, loopVars, BootInv, TypeOK, RegisteredInv, FlowInv,
         FreshInv, FailIsFinal
    <2> QED
      BY <2>1, OutsideKeepsBoot, EventLoopKeepsBoot, AppMainKeepsBoot DEF Next
  <1> QED
    BY InitBoot, <1>1, PTL DEF Spec

\* Every variable of start-up stays in its range, whatever the retry limit.
THEOREM BootTypes == Spec => []TypeOK
  BY BootInvariant, PTL DEF BootInv

\* event_handler runs only while the group it signals exists (main.c:266-269).
THEOREM HandlerKeepsGroup == Spec => []HandlerHasGroup
  <1>1. BootInv => HandlerHasGroup
    BY DEF BootInv, RegisteredInv, HandlerHasGroup
  <1> QED
    BY <1>1, BootInvariant, PTL

\* A failed connection is given up for good (main.c:150-155): WIFI_FAIL_BIT is
\* never followed by WIFI_CONNECTED_BIT.
THEOREM FailIsGivenUp == Spec => []FailIsFinal
  BY BootInvariant, PTL DEF BootInv
=============================================================================
