-------------------------------- MODULE Boot --------------------------------
(***************************************************************************)
(* The start of the program (app_main, main.c:439-537): NVS, Wi-Fi, time,  *)
(* file system, and at last the kernel objects and the tasks.  While main  *)
(* sleeps on an event group the default event loop's task runs             *)
(* event_handler, which connects, retries and sets the group's bits; main  *)
(* then unregisters the handler and deletes the group.  ESP_ERROR_CHECK    *)
(* aborts on a failure, and the chip boots again.  The Wi-Fi driver and    *)
(* the event loop are external.                                            *)
(***************************************************************************)
EXTENDS Naturals, Sequences

CONSTANT MaximumRetry    \* CONFIG_ESP_MAXIMUM_RETRY

ASSUME RetryAssumption == MaximumRetry \in Nat

VARIABLES
    bootPc,         \* where app_main stands
    group,          \* s_wifi_event_group: "none", "live" or "deleted"
    bits,           \* its bits
    registered,     \* event bases event_handler is registered for
    s_retry_num,
    ret_value,      \* what wifi_init_sta will return
    looks,          \* retry of obtain_time
    handling,       \* event being handled, or "none"; the loop's lock is held
    events,         \* events posted to the default loop
    station,        \* the Wi-Fi driver
    timeSet,        \* SNTP has set the clock
    variableName,   \* CONFIG_REMOTE_IS_VARIABLE_NAME: remote names carry the time
    storage,        \* the flash partitions that can be used, if erased first
    apUp,           \* the access point is reachable and lets the station in
    ntpUp           \* the time server is

mainVars == <<bootPc, group, bits, registered, ret_value, looks>>
loopVars == <<s_retry_num, handling>>
worldVars == <<apUp, ntpUp, storage, variableName>>
vars == <<mainVars, loopVars, events, station, timeSet, worldVars>>

retry_count == 10

BootPcs == {"nvs", "wifi", "wait", "unregisterIp", "unregisterWifi", "delete",
            "sntp", "spiffs", "create", "run", "aborted"}

Partitions == {"nvs", "spiffs"}

EventNames == {"STA_START", "STA_DISCONNECTED", "GOT_IP"}

Base(e) == IF e = "GOT_IP" THEN "IP" ELSE "WIFI"

Init ==
    /\ bootPc = "nvs"
    /\ group = "none" /\ bits = {} /\ registered = {}
    /\ s_retry_num = 0 /\ ret_value = "ESP_OK" /\ looks = 0
    /\ handling = "none" /\ events = <<>>
    /\ station = "off" /\ timeSet = FALSE
    /\ variableName \in BOOLEAN
    /\ storage \in SUBSET Partitions
    /\ apUp \in BOOLEAN
    /\ ntpUp \in BOOLEAN

-----------------------------------------------------------------------------
(* The world and the Wi-Fi driver                                          *)

WorldChanges ==
    /\ \/ apUp' = ~apUp /\ UNCHANGED ntpUp
       \/ ntpUp' = ~ntpUp /\ UNCHANGED apUp
    /\ UNCHANGED <<mainVars, loopVars, events, station, timeSet>>
    /\ UNCHANGED <<storage, variableName>>

Posts(e) == events' = Append(events, e)

DriverOnly == UNCHANGED <<mainVars, loopVars, timeSet, worldVars>>

Joins ==
    /\ station = "connecting" /\ apUp
    /\ station' = "associated"
    /\ UNCHANGED events /\ DriverOnly

JoinFails ==
    /\ station = "connecting" /\ ~apUp
    /\ station' = "idle"
    /\ Posts("STA_DISCONNECTED") /\ DriverOnly

\* The station's address comes while it is associated.  That the address task
\* posts nothing behind a disconnection is an assumption about ESP-IDF: DHCP
\* runs in the tcpip task and the address may be static (main.c:175-209), so
\* that a GOT_IP on its way when the access point is lost might come behind
\* STA_DISCONNECTED.
GetsAddress ==
    /\ station = "associated"
    /\ station' = "online"
    /\ Posts("GOT_IP") /\ DriverOnly

LosesAccessPoint ==
    /\ station \in {"associated", "online"} /\ ~apUp
    /\ station' = "idle"
    /\ Posts("STA_DISCONNECTED") /\ DriverOnly

Driver == Joins \/ JoinFails \/ GetsAddress \/ LosesAccessPoint

\* The SNTP client gets an answer.
TimeArrives ==
    /\ bootPc = "sntp"
    /\ ~timeSet /\ station = "online" /\ ntpUp
    /\ timeSet' = TRUE
    /\ UNCHANGED <<mainVars, loopVars, events, station, worldVars>>

-----------------------------------------------------------------------------
(* The event loop's task and event_handler                                 *)

\* Events nobody is registered for are dropped.
Dispatch ==
    /\ handling = "none" /\ events # <<>>
    /\ handling' = IF Base(Head(events)) \in registered THEN Head(events) ELSE "none"
    /\ events' = Tail(events)
    /\ UNCHANGED <<mainVars, s_retry_num, station, timeSet, worldVars>>

Handled == handling' = "none" /\ UNCHANGED <<events, timeSet, worldVars>>

\* esp_wifi_connect
Connects == station' = IF station = "idle" THEN "connecting" ELSE station

SetBits(b) ==
    /\ bits' = bits \cup b
    /\ UNCHANGED <<bootPc, group, registered, ret_value, looks>>

HandleStart ==
    /\ handling = "STA_START"
    /\ Connects
    /\ Handled /\ UNCHANGED <<mainVars, s_retry_num>>

\* Mutant: the last retry is counted from 1.
MayRetryOnceMore == s_retry_num <= MaximumRetry

MayRetry == s_retry_num < MaximumRetry

\* Mutant: it goes on connecting when it has given up.
HandleDisconnectedForEver ==
    /\ handling = "STA_DISCONNECTED"
    /\ Connects
    /\ s_retry_num' = IF MayRetry THEN s_retry_num + 1 ELSE s_retry_num
    /\ SetBits(IF MayRetry THEN {} ELSE {"FAIL"})
    /\ Handled

\* Mutant: a disconnection is counted, and nothing else.
HandleDisconnectedIdly ==
    /\ handling = "STA_DISCONNECTED"
    /\ MayRetry
    /\ s_retry_num' = s_retry_num + 1
    /\ Handled /\ UNCHANGED <<mainVars, station>>

HandleDisconnected ==
    /\ handling = "STA_DISCONNECTED"
    /\ \/ /\ MayRetry
          /\ Connects
          /\ s_retry_num' = s_retry_num + 1
          /\ UNCHANGED mainVars
       \/ /\ ~MayRetry
          /\ SetBits({"FAIL"})
          /\ UNCHANGED <<station, s_retry_num>>
    /\ Handled

HandleGotIp ==
    /\ handling = "GOT_IP"
    /\ s_retry_num' = 0
    /\ SetBits({"CONNECTED"})
    /\ Handled /\ UNCHANGED station

EventLoop == Dispatch \/ HandleStart \/ HandleDisconnected \/ HandleGotIp

-----------------------------------------------------------------------------
(* app_main                                                                *)

MainOnly == UNCHANGED <<loopVars, events, station, timeSet, worldVars>>

\* A partition without free pages, or of another version, is erased first; any
\* other failure aborts.
InitNvs ==
    /\ bootPc = "nvs"
    /\ bootPc' = IF "nvs" \in storage THEN "wifi" ELSE "aborted"
    /\ UNCHANGED <<group, bits, registered, ret_value, looks>> /\ MainOnly

StartWifi ==
    /\ bootPc = "wifi"
    /\ group' = "live"
    /\ registered' = {"WIFI", "IP"}
    /\ station' = "idle"
    /\ events' = Append(events, "STA_START")
    /\ bootPc' = "wait"
    /\ UNCHANGED <<bits, ret_value, looks, loopVars, timeSet, worldVars>>

\* xEventGroupWaitBits for either bit, without a timeout; the bits it returns
\* decide what wifi_init_sta will return.
WaitForWifi ==
    /\ bootPc = "wait"
    /\ bits # {}
    /\ ret_value' = IF "CONNECTED" \in bits THEN "ESP_OK" ELSE "ESP_FAIL"
    /\ bootPc' = "unregisterIp"
    /\ UNCHANGED <<group, bits, registered, looks>> /\ MainOnly

\* An instance is unregistered under the loop's lock: not while it runs.
UnregisterIp ==
    /\ bootPc = "unregisterIp" /\ handling = "none"
    /\ registered' = registered \ {"IP"}
    /\ bootPc' = "unregisterWifi"
    /\ UNCHANGED <<group, bits, ret_value, looks>> /\ MainOnly

\* Mutant: the handler stays registered for Wi-Fi events.
UnregisterNothing ==
    /\ bootPc = "unregisterWifi"
    /\ bootPc' = "delete"
    /\ UNCHANGED <<group, bits, registered, ret_value, looks>> /\ MainOnly

UnregisterWifi ==
    /\ bootPc = "unregisterWifi" /\ handling = "none"
    /\ registered' = registered \ {"WIFI"}
    /\ bootPc' = "delete"
    /\ UNCHANGED <<group, bits, ret_value, looks>> /\ MainOnly

\* wifi_init_sta returns; app_main aborts unless it returned ESP_OK.
DeleteGroup ==
    /\ bootPc = "delete"
    /\ group' = "deleted"
    /\ bootPc' = IF ret_value = "ESP_FAIL" THEN "aborted"
                 ELSE IF variableName THEN "sntp" ELSE "spiffs"
    /\ UNCHANGED <<bits, registered, ret_value, looks>> /\ MainOnly

\* One turn of the loop of obtain_time, and what follows the last.
LookAtClock ==
    /\ bootPc = "sntp"
    /\ looks' = IF timeSet THEN looks ELSE looks + 1
    /\ bootPc' = IF looks' = retry_count THEN "aborted"
                 ELSE IF timeSet THEN "spiffs" ELSE "sntp"
    /\ UNCHANGED <<group, bits, registered, ret_value>> /\ MainOnly

\* format_if_mount_failed: what cannot be mounted is formatted.  A partition
\* that is missing or cannot be formatted either is fatal.
MountSpiffs ==
    /\ bootPc = "spiffs"
    /\ bootPc' = IF "spiffs" \in storage THEN "create" ELSE "aborted"
    /\ UNCHANGED <<group, bits, registered, ret_value, looks>> /\ MainOnly

CreateTasks ==
    /\ bootPc = "create"
    /\ bootPc' = "run"
    /\ UNCHANGED <<group, bits, registered, ret_value, looks>> /\ MainOnly

\* abort() and the panic handler's reboot: the partitions and the world stay.
Reboot ==
    /\ bootPc = "aborted"
    /\ bootPc' = "nvs"
    /\ group' = "none" /\ bits' = {} /\ registered' = {}
    /\ s_retry_num' = 0 /\ ret_value' = "ESP_OK" /\ looks' = 0
    /\ handling' = "none" /\ events' = <<>>
    /\ station' = "off" /\ timeSet' = FALSE
    /\ UNCHANGED worldVars

AppMain ==
    \/ InitNvs \/ StartWifi \/ WaitForWifi \/ UnregisterIp \/ UnregisterWifi
    \/ DeleteGroup \/ LookAtClock \/ MountSpiffs \/ CreateTasks \/ Reboot

Next == AppMain \/ EventLoop \/ Driver \/ TimeArrives \/ WorldChanges

Spec == Init /\ [][Next]_vars

\* The tasks run when they can; a reachable access point lets the station in
\* and gives it an address; the time server answers faster than main gives up
\* waiting for it (ten looks, two seconds apart).
FairSpec ==
    /\ Spec
    /\ WF_vars(AppMain)
    /\ WF_vars(EventLoop)
    /\ WF_vars(Driver)
    /\ SF_vars(TimeArrives)

-----------------------------------------------------------------------------

WorldTypeOK ==
    /\ timeSet \in BOOLEAN
    /\ variableName \in BOOLEAN
    /\ storage \subseteq Partitions
    /\ apUp \in BOOLEAN
    /\ ntpUp \in BOOLEAN

\* Every variable stays in its range.
TypeOK ==
    /\ bootPc \in BootPcs
    /\ group \in {"none", "live", "deleted"}
    /\ bits \subseteq {"CONNECTED", "FAIL"}
    /\ registered \subseteq {"WIFI", "IP"}
    /\ ret_value \in {"ESP_OK", "ESP_FAIL"}
    /\ s_retry_num \in 0..MaximumRetry
    /\ looks \in 0..retry_count
    /\ handling \in EventNames \cup {"none"}
    /\ events \in Seq(EventNames)
    /\ station \in {"off", "idle", "connecting", "associated", "online"}
    /\ WorldTypeOK

\* "The event will not be processed after unregister" (main.c:266): whatever
\* the station does while main leaves wifi_init_sta, event_handler never runs
\* without the event group whose bits it sets.
HandlerHasGroup == handling # "none" => group = "live"

\* "Failed to connect after the maximum amount of retries" (main.c:47): once
\* WIFI_FAIL_BIT is set all retries are used up and neither the driver nor the
\* loop has anything under way that could set the other bit after it: which of
\* the two main finds does not depend on when it runs.  This takes for granted
\* that GOT_IP is never posted behind STA_DISCONNECTED (see GetsAddress).
FailIsFinal ==
    "FAIL" \in bits =>
        /\ s_retry_num = MaximumRetry
        /\ station = "idle"
        /\ handling = "none" /\ events = <<>>

\* However often the network fails during start-up, and although nobody
\* reconnects the station once the handlers are gone (main.c:267-269), a chip
\* whose flash can be used gets to its tasks as soon as the network
\* stays up: every wait of app_main ends, in success or in another boot.
BootCompletes ==
    storage = Partitions /\ <>[](apUp /\ ntpUp) => <>(bootPc = "run")
=============================================================================
