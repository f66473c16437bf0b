----------------------------- MODULE WifiControl -----------------------------
(***************************************************************************)
(* Wi-Fi station control of slave_control.c: the request handlers that set *)
(* up the station, the handler of the Wi-Fi events, and the state the two  *)
(* share.                                                                  *)
(*                                                                         *)
(*   pserial_task   takes messages from req_queue, runs the handlers of    *)
(*                  requests and transmits events: rpc;                    *)
(*   sys_evt        the task of the default event loop: it runs            *)
(*                  event_handler_wifi for one Wi-Fi event after another,  *)
(*                  and holds the mutex of the loop while it does: evt;    *)
(*   the driver     the Wi-Fi library, which is not in the repository: its *)
(*                  state drv, its functions as sets of outcomes, and the  *)
(*                  queue evq of the events it has posted.                 *)
(*                                                                         *)
(* On the single core of the target pserial_task is above sys_evt, so its  *)
(* handlers lose the processor only where they call the driver or wait: a  *)
(* step of rpc is one such call and what follows it up to the next. The    *)
(* event handler may be preempted anywhere: it has a step for each access. *)
(***************************************************************************)
EXTENDS Integers, Sequences

CONSTANTS
  StaCfgs,     \* station configurations a host may set, as far as they matter
  InitCfgs,    \* configurations a host may initialise Wi-Fi with
  None,        \* no configuration
  Modes,       \* Wi-Fi modes, a subset of "STA", "AP", "APSTA"
  ReqqSize,    \* REQ_Q_MAX
  MaxReqs,     \* bound: requests of the host
  MaxAir       \* bound: what happens on the air

\* Of a station configuration, net stands for the SSID (which is not empty), the
\* password and the BSSID, if set; channel 0 for any channel; and rest for the
\* fields that nothing compares: thresholds, PMF, SAE and the bits.
IsStaCfg(c) == /\ DOMAIN c = {"net", "channel", "rest"}
               /\ c.channel \in Nat

ASSUME ConstantsAssumption ==
  /\ \A c \in StaCfgs : IsStaCfg(c)
  /\ None \notin StaCfgs \cup InitCfgs
  /\ Modes \subseteq {"STA", "AP", "APSTA"}
  /\ ReqqSize \in Nat \ {0}
  /\ MaxReqs \in Nat /\ MaxAir \in Nat

VARIABLES
  mode,                     \* the mode the host has set, before Wi-Fi starts
  drv, evq,                 \* the driver, and the events it has posted
  registered,               \* event_handler_wifi is registered
  wifi_initialized, cached_wifi_init_config,
  new_config_recvd, new_wifi_config,
  station_connecting, station_connected, softap_started,
  rxcb,                     \* the receive callback of the station is set
  req_queue,                \* what pserial_task has to do
  rpc, evt,                 \* where pserial_task and sys_evt are
  told,                     \* history: the last station event sent to the host
  wanted,                   \* history: the station configuration last accepted
  raced,                    \* history: it was accepted while the one before
                            \* was being applied, and is lost by that
  reqs, air                 \* bounds: requests made, happenings on the air

drvVars   == <<mode, drv, evq>>
initVars  == <<registered, wifi_initialized, cached_wifi_init_config>>
cfgVars   == <<new_config_recvd, new_wifi_config, wanted, raced>>
staVars   == <<station_connecting, station_connected, softap_started, rxcb>>
hostVars  == <<req_queue, told, reqs>>
vars == <<drvVars, initVars, cfgVars, staVars, hostVars, rpc, evt, air>>

Requests == [op : {"init"}, arg : InitCfgs]
       \cup [op : {"setConfig"}, arg : StaCfgs]
       \cup [op : {"deinit", "connect", "disconnect", "start", "stop"}, arg : {None}]
EventMsg == [op |-> "event", arg |-> None]

-----------------------------------------------------------------------------
(***************************************************************************)
(* The driver. A function of its has a set of outcomes: whether it returns *)
(* ESP_OK, the state it leaves, and the events it posts.                   *)
(***************************************************************************)
Outcome(ok, d, evs) == [ok |-> ok, drv |-> d, evs |-> evs]
Refused == {Outcome(FALSE, drv, <<>>)}

Inited == drv.initCfg # None
HasSta == mode # "AP"
HasAp  == mode # "STA"
Ifs(sta, ap) == (IF HasSta THEN <<sta>> ELSE <<>>) \o (IF HasAp THEN <<ap>> ELSE <<>>)
Dropped == IF drv.link = "up" THEN <<"DISCONNECTED">> ELSE <<>>

RealInit(c) ==     \* __real_esp_wifi_init: does nothing if it is initialised
  IF Inited THEN {Outcome(TRUE, drv, <<>>)}
            ELSE Refused \cup {Outcome(TRUE, [drv EXCEPT !.initCfg = c], <<>>)}

Deinits ==
  IF Inited /\ ~drv.started
    THEN {Outcome(TRUE, [drv EXCEPT !.initCfg = None], <<>>)} ELSE Refused

Starts ==          \* esp_wifi_start: it posts the start events once
  CASE ~Inited                -> Refused
    [] Inited /\ drv.started  -> {Outcome(TRUE, drv, <<>>)}
    [] Inited /\ ~drv.started -> {Outcome(TRUE, [drv EXCEPT !.started = TRUE],
                                         Ifs("STA_START", "AP_START"))}

Stops ==
  CASE ~Inited                -> Refused
    [] Inited /\ ~drv.started -> {Outcome(TRUE, drv, <<>>)}
    [] Inited /\ drv.started  -> {Outcome(TRUE, [drv EXCEPT !.started = FALSE, !.link = "idle"],
                                         Dropped \o Ifs("STA_STOP", "AP_STOP"))}

\* A connected station is either left as it is, or taken down and connected.
Connects ==
  LET connecting == [drv EXCEPT !.link = "connecting"] IN
  IF ~drv.started \/ ~HasSta \/ drv.cfg = None \/ drv.link = "connecting" THEN Refused
  ELSE IF drv.link = "idle" THEN {Outcome(TRUE, connecting, <<>>)}
  ELSE Refused \cup {Outcome(TRUE, connecting, Dropped)}

Disconnects ==
  IF ~drv.started THEN Refused
  ELSE {Outcome(TRUE, [drv EXCEPT !.link = "idle"],
                IF drv.link = "idle" THEN <<>> ELSE <<"DISCONNECTED">>)}

SetConfigs(c) ==   \* refused while the station is connecting
  IF ~Inited \/ drv.link = "connecting" THEN Refused
  ELSE {Outcome(TRUE, [drv EXCEPT !.cfg = c], <<>>)}

\* One outcome of a call. (The loop's queue, of 32 events, is not bounded.)
Call(r) == drv' = r.drv /\ evq' = evq \o r.evs /\ UNCHANGED mode

\* On the air: the station associates, fails to, loses its access point, and
\* a scan ends or a station joins the soft-AP.
Air ==
  /\ air < MaxAir /\ air' = air + 1 /\ drv.started
  /\ \/ /\ drv.link = "connecting"
        /\ \/ Call(Outcome(TRUE, [drv EXCEPT !.link = "up"], <<"CONNECTED">>))
           \/ Call(Outcome(TRUE, [drv EXCEPT !.link = "idle"], <<"DISCONNECTED">>))
     \/ /\ drv.link = "up"
        /\ Call(Outcome(TRUE, [drv EXCEPT !.link = "idle"], <<"DISCONNECTED">>))
     \/ Call(Outcome(TRUE, drv, <<"OTHER">>))
  /\ UNCHANGED <<initVars, cfgVars, staVars, hostVars, rpc, evt>>

-----------------------------------------------------------------------------
(***************************************************************************)
(* Start. The flash may hold a station configuration. In some builds       *)
(* connect_sta initialises and starts Wi-Fi before the host can ask for it.*)
(***************************************************************************)
At(pc, arg, left) ==
  [pc |-> pc, arg |-> arg, changed |-> FALSE, reinit |-> FALSE, left |-> left]
Idle == At("idle", None, 0)

NotStarted(s) ==
  /\ drv = [initCfg |-> None, started |-> FALSE, link |-> "idle", cfg |-> s]
  /\ evq = <<>> /\ registered = FALSE
  /\ wifi_initialized = FALSE /\ cached_wifi_init_config = None

connect_sta(s, c) ==
  /\ drv = [initCfg |-> c, started |-> TRUE, link |-> "idle", cfg |-> s]
  /\ mode = "STA" /\ evq = <<"STA_START">> /\ registered = TRUE
  /\ wifi_initialized = TRUE /\ cached_wifi_init_config = c

Init ==
  /\ mode \in Modes
  /\ \E s \in StaCfgs \cup {None} : NotStarted(s) \/ \E c \in InitCfgs : connect_sta(s, c)
  /\ new_config_recvd = FALSE /\ new_wifi_config = None
  /\ station_connecting = FALSE /\ station_connected = FALSE
  /\ softap_started = FALSE /\ rxcb = FALSE
  /\ req_queue = <<>> /\ rpc = Idle /\ evt = "idle"
  /\ told = "down" /\ wanted = None /\ raced = FALSE /\ reqs = 0 /\ air = 0

-----------------------------------------------------------------------------
(***************************************************************************)
(* pserial_task: requests and events, one at a time.                       *)
(***************************************************************************)
\* The host has one request outstanding (module SerialRpc has more of them).
HostRequest ==
  /\ reqs < MaxReqs /\ reqs' = reqs + 1
  /\ rpc.pc = "idle" /\ \A i \in 1..Len(req_queue) : req_queue[i] = EventMsg
  /\ Len(req_queue) < ReqqSize
  /\ \E r \in Requests : req_queue' = Append(req_queue, r)
  /\ UNCHANGED <<drvVars, initVars, cfgVars, staVars, told, rpc, evt, air>>

\* Mutant: the event is posted whether there is room or not.
PostAnyway(view) ==
  /\ req_queue' = Append(req_queue, EventMsg) /\ told' = view
  /\ UNCHANGED reqs

\* What a task posts to req_queue, waiting for room: an event, and what the
\* host learns of the station from it.
Post(view) ==
  /\ Len(req_queue) < ReqqSize
  /\ req_queue' = Append(req_queue, EventMsg) /\ told' = view
  /\ UNCHANGED reqs

FirstPc(op) == CASE op = "init" -> "InitCheck" [] op = "setConfig" -> "GetConfig"
                 [] op = "connect" -> "ConnectCheck" [] OTHER -> op

TakeMsg ==
  /\ rpc.pc = "idle" /\ req_queue # <<>>
  /\ req_queue' = Tail(req_queue)
  /\ rpc' = IF Head(req_queue) = EventMsg THEN Idle
            ELSE At(FirstPc(Head(req_queue).op), Head(req_queue).arg, 0)
  /\ UNCHANGED <<drvVars, initVars, cfgVars, staVars, told, reqs, evt, air>>

-----------------------------------------------------------------------------
\* req_wifi_init: the wrapper of esp_wifi_init, then the event handlers.
InitCheck ==
  LET changed == cached_wifi_init_config # None /\ rpc.arg # cached_wifi_init_config
  IN
  /\ rpc.pc = "InitCheck"
  /\ rpc' = [rpc EXCEPT !.changed = changed, !.reinit = wifi_initialized,
                        !.pc = CASE ~wifi_initialized -> "RealInit"
                                 [] wifi_initialized /\ changed -> "ReinitStop"
                                 [] OTHER -> "Register"]
  /\ cached_wifi_init_config' = IF wifi_initialized THEN cached_wifi_init_config ELSE rpc.arg
  /\ UNCHANGED <<drvVars, registered, wifi_initialized, cfgVars, staVars, hostVars, evt, air>>

ReinitStop ==      \* the result of esp_wifi_stop is not looked at
  /\ rpc.pc = "ReinitStop"
  /\ \E r \in Stops : Call(r)
  /\ rpc' = [rpc EXCEPT !.pc = "ReinitDeinit"]
  /\ UNCHANGED <<initVars, cfgVars, staVars, hostVars, evt, air>>

ReinitDeinit ==    \* nor that of esp_wifi_deinit
  /\ rpc.pc = "ReinitDeinit"
  /\ \E r \in Deinits : Call(r)
  /\ wifi_initialized' = FALSE
  /\ cached_wifi_init_config' = rpc.arg
  /\ rpc' = [rpc EXCEPT !.pc = "RealInit"]
  /\ UNCHANGED <<registered, cfgVars, staVars, hostVars, evt, air>>

CallRealInit ==    \* wifi_initialized is set unless this is a re-initialisation
  /\ rpc.pc = "RealInit"
  /\ \E r \in RealInit(rpc.arg) :
       /\ Call(r)
       /\ wifi_initialized' = (wifi_initialized \/ (r.ok /\ ~rpc.reinit))
       /\ rpc' = IF r.ok THEN [rpc EXCEPT !.pc = "Register"] ELSE Idle
  /\ UNCHANGED <<registered, cached_wifi_init_config, cfgVars, staVars, hostVars, evt, air>>

\* Mutant: the handler is registered once, and a second caller waits.
RegisterOnce ==
  /\ rpc.pc = "Register" /\ evt = "idle" /\ ~registered
  /\ registered' = TRUE /\ rpc' = Idle
  /\ UNCHANGED <<drvVars, wifi_initialized, cached_wifi_init_config, cfgVars, staVars,
                 hostVars, evt, air>>

\* esp_hosted_register_wifi_event_handlers takes the mutex of the event loop,
\* which sys_evt holds while it runs a handler.
Register ==
  /\ rpc.pc = "Register" /\ evt = "idle"
  /\ registered' = TRUE /\ rpc' = Idle
  /\ UNCHANGED <<drvVars, wifi_initialized, cached_wifi_init_config, cfgVars, staVars,
                 hostVars, evt, air>>

-----------------------------------------------------------------------------
\* req_wifi_deinit, req_wifi_stop and req_wifi_disconnect: one call each.
PlainCall ==
  /\ \/ rpc.pc = "deinit"     /\ \E r \in Deinits : Call(r)
     \/ rpc.pc = "stop"       /\ \E r \in Stops : Call(r)
     \/ rpc.pc = "disconnect" /\ \E r \in Disconnects : Call(r)
  /\ rpc' = Idle
  /\ UNCHANGED <<initVars, cfgVars, staVars, hostVars, evt, air>>

\* req_wifi_start sends the start events of the mode, besides the driver's.
StartCall ==
  /\ rpc.pc = "start"
  /\ \E r \in Starts :
       /\ Call(r)
       /\ rpc' = IF r.ok THEN At("StartPost", None, Len(Ifs("sta", "ap"))) ELSE Idle
  /\ UNCHANGED <<initVars, cfgVars, staVars, hostVars, evt, air>>

StartPost ==
  /\ rpc.pc = "StartPost"
  /\ Post(told)
  /\ rpc' = IF rpc.left = 1 THEN Idle ELSE [rpc EXCEPT !.left = @ - 1]
  /\ UNCHANGED <<drvVars, initVars, cfgVars, staVars, evt, air>>

-----------------------------------------------------------------------------
(***************************************************************************)
(* req_wifi_set_config for the station. A station that has a configuration *)
(* keeps it for now: the new one is recorded, and the event handler        *)
(* applies it when the station next connects or disconnects.               *)
(***************************************************************************)
Applies == {"ConnApply", "DiscApply"}    \* it is to apply new_wifi_config
Clears  == {"ConnClear", "DiscClear"}    \* it has, and is to clear the flag

\* Two channels that are set must be the same.
is_wifi_config_equal(c, d) ==
  /\ c.net = d.net
  /\ c.channel = 0 \/ d.channel = 0 \/ c.channel = d.channel

\* The end of esp_hosted_set_sta_config. Without a configuration the comparison
\* is with one of zeros.
Store(c, current) ==
  LET unchanged == current # None /\ is_wifi_config_equal(c, current) IN
  /\ new_config_recvd' = ~unchanged
  /\ IF unchanged
       THEN UNCHANGED <<new_wifi_config, station_connecting>>
       ELSE new_wifi_config' = c /\ station_connecting' = FALSE
  /\ wanted' = c
  /\ raced' = (evt \in IF unchanged THEN Applies ELSE Clears)
  /\ rpc' = Idle
  /\ UNCHANGED <<station_connected, softap_started, rxcb>>

Provisioned == Inited /\ drv.cfg # None     \* wifi_is_provisioned

GetConfig ==
  /\ rpc.pc = "GetConfig"
  /\ IF Provisioned
       THEN Store(rpc.arg, drv.cfg)
       ELSE rpc' = [rpc EXCEPT !.pc = "SetConfig"] /\ UNCHANGED <<cfgVars, staVars>>
  /\ UNCHANGED <<drvVars, initVars, hostVars, evt, air>>

SetConfig ==       \* the answer is the same whether the driver takes it or not
  /\ rpc.pc = "SetConfig"
  /\ \E r \in SetConfigs(rpc.arg) : Call(r)
  /\ Store(rpc.arg, None)
  /\ UNCHANGED <<initVars, hostVars, evt, air>>

-----------------------------------------------------------------------------
\* req_wifi_connect: a connected station with nothing new to apply is only
\* acknowledged, with the connected event last sent. Without room for it
\* pserial_task stays at ConnectAck: only it empties req_queue.
ConnectCheck ==
  /\ rpc.pc = "ConnectCheck"
  /\ CASE ~Provisioned -> rpc' = Idle /\ UNCHANGED hostVars
       [] Provisioned /\ (new_config_recvd \/ ~station_connected) ->
            rpc' = [rpc EXCEPT !.pc = "ConnectCall"] /\ UNCHANGED hostVars
       [] OTHER -> IF Len(req_queue) < ReqqSize THEN Post("up") /\ rpc' = Idle
                   ELSE rpc' = [rpc EXCEPT !.pc = "ConnectAck"] /\ UNCHANGED hostVars
  /\ UNCHANGED <<drvVars, initVars, cfgVars, staVars, evt, air>>

ConnectCall ==
  /\ rpc.pc = "ConnectCall"
  /\ \E r \in Connects :
       Call(r) /\ station_connecting' = (station_connecting /\ r.ok)
  /\ rpc' = Idle
  /\ UNCHANGED <<initVars, cfgVars, station_connected, softap_started, rxcb, hostVars,
                 evt, air>>

PserialTask ==
  \/ TakeMsg
  \/ InitCheck \/ ReinitStop \/ ReinitDeinit \/ CallRealInit \/ Register
  \/ PlainCall \/ StartCall \/ StartPost
  \/ GetConfig \/ SetConfig
  \/ ConnectCheck \/ ConnectCall

-----------------------------------------------------------------------------
(***************************************************************************)
(* sys_evt and event_handler_wifi.                                         *)
(***************************************************************************)
HandlerPc(e) ==
  CASE ~registered -> "idle"
    [] registered /\ e = "CONNECTED"    -> "ConnCheck"
    [] registered /\ e = "DISCONNECTED" -> "DiscMark"
    [] registered /\ e = "STA_START"    -> "StaStart"
    [] registered /\ e = "STA_STOP"     -> "StaStop"
    [] registered /\ e = "AP_START"     -> "ApStart"
    [] registered /\ e = "AP_STOP"      -> "ApStop"
    [] OTHER -> "Forward"

TakeEvent ==
  /\ evt = "idle" /\ evq # <<>>
  /\ evq' = Tail(evq) /\ evt' = HandlerPc(Head(evq))
  /\ UNCHANGED <<mode, drv, initVars, cfgVars, staVars, hostVars, rpc, air>>

\* The station connected.
ConnCheck ==
  /\ evt = "ConnCheck"
  /\ evt' = IF new_config_recvd THEN "ConnApply" ELSE "ConnTell"
  /\ station_connecting' = (station_connecting /\ new_config_recvd)
  /\ UNCHANGED <<drvVars, initVars, cfgVars, station_connected, softap_started, rxcb,
                 hostVars, rpc, air>>

\* Mutant: the flag is cleared whether the driver took the configuration or not.
ApplyAndForget(from, cleared, kept) ==
  /\ evt = from /\ evt' = cleared
  /\ \E r \in SetConfigs(new_wifi_config) : Call(r)
  /\ UNCHANGED <<initVars, cfgVars, staVars, hostVars, rpc, air>>

\* esp_wifi_set_config of what waits to be applied; then the flag is cleared.
Apply(from, cleared, kept) ==
  /\ evt = from
  /\ \E r \in SetConfigs(new_wifi_config) :
       Call(r) /\ evt' = IF r.ok THEN cleared ELSE kept
  /\ UNCHANGED <<initVars, cfgVars, staVars, hostVars, rpc, air>>

Clear(from, next) ==
  /\ evt = from /\ evt' = next
  /\ new_config_recvd' = FALSE
  /\ UNCHANGED <<drvVars, initVars, new_wifi_config, wanted, raced, staVars, hostVars,
                 rpc, air>>

\* Mutant: the connection is not given up.
ConnDropNot ==
  /\ evt = "ConnDrop" /\ evt' = "idle"
  /\ UNCHANGED <<drvVars, initVars, cfgVars, staVars, hostVars, rpc, air>>

ConnDrop ==        \* the connection is given up, and the host not told of it
  /\ evt = "ConnDrop" /\ evt' = "idle"
  /\ \E r \in Disconnects : Call(r)
  /\ UNCHANGED <<initVars, cfgVars, staVars, hostVars, rpc, air>>

ConnTell ==
  /\ evt = "ConnTell" /\ evt' = "ConnMark"
  /\ Post("up")
  /\ UNCHANGED <<drvVars, initVars, cfgVars, staVars, rpc, air>>

ConnMark ==
  /\ evt = "ConnMark" /\ evt' = "idle"
  /\ rxcb' = TRUE /\ station_connected' = TRUE
  /\ UNCHANGED <<drvVars, initVars, cfgVars, station_connecting, softap_started, hostVars,
                 rpc, air>>

\* Mutant: the data path stays open while a new configuration is applied.
DiscMarkUnlessNew ==
  /\ evt = "DiscMark"
  /\ evt' = IF new_config_recvd THEN "DiscApply" ELSE "DiscReset"
  /\ station_connected' = (station_connected /\ new_config_recvd)
  /\ UNCHANGED <<drvVars, initVars, cfgVars, station_connecting, softap_started, rxcb,
                 hostVars, rpc, air>>

\* The station disconnected, or failed to connect.
DiscMark ==
  /\ evt = "DiscMark"
  /\ evt' = IF new_config_recvd THEN "DiscApply" ELSE "DiscReset"
  /\ station_connected' = FALSE
  /\ UNCHANGED <<drvVars, initVars, cfgVars, station_connecting, softap_started, rxcb,
                 hostVars, rpc, air>>

\* Mutant: the host is not told.
DiscResetSilently ==
  /\ evt = "DiscReset" /\ evt' = "idle"
  /\ rxcb' = FALSE /\ station_connecting' = FALSE
  /\ UNCHANGED <<drvVars, initVars, cfgVars, station_connected, softap_started, hostVars,
                 rpc, air>>

DiscReset ==
  /\ evt = "DiscReset" /\ evt' = "DiscTell"
  /\ rxcb' = FALSE /\ station_connecting' = FALSE
  /\ UNCHANGED <<drvVars, initVars, cfgVars, station_connected, softap_started, hostVars,
                 rpc, air>>

DiscTell ==
  /\ evt = "DiscTell" /\ evt' = "idle"
  /\ Post("down")
  /\ UNCHANGED <<drvVars, initVars, cfgVars, staVars, rpc, air>>

\* The station interface started: the handler connects it.
StaStart ==
  /\ evt = "StaStart"
  /\ evt' = IF station_connecting THEN "idle" ELSE "StaConnect"
  /\ station_connecting' = TRUE
  /\ UNCHANGED <<drvVars, initVars, cfgVars, station_connected, softap_started, rxcb,
                 hostVars, rpc, air>>

StaConnect ==
  /\ evt = "StaConnect" /\ evt' = "Forward"
  /\ \E r \in Connects : Call(r)
  /\ UNCHANGED <<initVars, cfgVars, staVars, hostVars, rpc, air>>

StaStop ==
  /\ evt = "StaStop" /\ evt' = "Forward"
  /\ station_connecting' = FALSE
  /\ UNCHANGED <<drvVars, initVars, cfgVars, station_connected, softap_started, rxcb,
                 hostVars, rpc, air>>

\* The soft-AP started or stopped: told to the host if it was not so before.
ApChange ==
  /\ evt \in {"ApStart", "ApStop"}
  /\ softap_started' = (evt = "ApStart")
  /\ evt' = IF softap_started' # softap_started THEN "Forward" ELSE "idle"
  /\ UNCHANGED <<drvVars, initVars, cfgVars, station_connecting, station_connected, rxcb,
                 hostVars, rpc, air>>

Forward ==
  /\ evt = "Forward" /\ evt' = "idle"
  /\ Post(told)
  /\ UNCHANGED <<drvVars, initVars, cfgVars, staVars, rpc, air>>

EventTask ==
  \/ TakeEvent
  \/ ConnCheck \/ Apply("ConnApply", "ConnClear", "ConnDrop")
  \/ Clear("ConnClear", "ConnDrop") \/ ConnDrop \/ ConnTell \/ ConnMark
  \/ DiscMark \/ Apply("DiscApply", "DiscClear", "DiscReset")
  \/ Clear("DiscClear", "DiscReset") \/ DiscReset \/ DiscTell
  \/ StaStart \/ StaConnect \/ StaStop \/ ApChange \/ Forward

-----------------------------------------------------------------------------
Next == HostRequest \/ Air \/ PserialTask \/ EventTask

\* Both tasks run when they can: those above them wait for the host.
Spec == Init /\ [][Next]_vars /\ WF_vars(PserialTask) /\ WF_vars(EventTask)

-----------------------------------------------------------------------------
RpcPcs == {"idle", "InitCheck", "ReinitStop", "ReinitDeinit", "RealInit", "Register",
           "deinit", "stop", "disconnect", "start", "StartPost", "GetConfig",
           "SetConfig", "ConnectCheck", "ConnectAck", "ConnectCall"}
EvtPcs == Applies \cup Clears \cup {"idle", "ConnCheck", "ConnDrop", "ConnTell", "ConnMark",
           "DiscMark", "DiscReset", "DiscTell", "StaStart", "StaConnect", "StaStop",
           "ApStart", "ApStop", "Forward"}
Events == {"CONNECTED", "DISCONNECTED", "STA_START", "STA_STOP", "AP_START", "AP_STOP",
           "OTHER"}

TypeOK ==
  /\ mode \in Modes
  /\ drv \in [initCfg : InitCfgs \cup {None}, started : BOOLEAN,
              link : {"idle", "connecting", "up"}, cfg : StaCfgs \cup {None}]
  /\ evq \in Seq(Events)
  /\ registered \in BOOLEAN /\ wifi_initialized \in BOOLEAN
  /\ cached_wifi_init_config \in InitCfgs \cup {None}
  /\ new_config_recvd \in BOOLEAN /\ new_wifi_config \in StaCfgs \cup {None}
  /\ station_connecting \in BOOLEAN /\ station_connected \in BOOLEAN
  /\ softap_started \in BOOLEAN /\ rxcb \in BOOLEAN
  /\ req_queue \in Seq(Requests \cup {EventMsg}) /\ Len(req_queue) <= ReqqSize
  /\ rpc \in [pc : RpcPcs, arg : StaCfgs \cup InitCfgs \cup {None}, changed : BOOLEAN,
              reinit : BOOLEAN, left : 0..2]
  /\ evt \in EvtPcs
  /\ told \in {"up", "down"} /\ wanted \in StaCfgs \cup {None} /\ raced \in BOOLEAN
  /\ reqs \in 0..MaxReqs /\ air \in 0..MaxAir

\* Nothing that happened to the station is still to be handled.
Quiet == evq = <<>> /\ evt = "idle"

\* Once every event has been handled, what the host was last told of the
\* station is how the driver has it: whatever connections were given up to
\* apply a new configuration, and whatever connect requests were answered
\* from station_connected without asking the driver.
HostViewCorrect == Quiet => ((told = "up") <=> (drv.link = "up"))

\* Then too frames of the host go to a station that is connected and to no
\* other (process_rx_pkt looks at station_connected), and frames of the air
\* come from it.
DataPathCorrect ==
  Quiet => /\ station_connected <=> drv.link = "up"
           /\ rxcb <=> station_connected

\* The station configuration last answered with success is recorded to be
\* applied, or the driver has one that the code takes for the same: of the same
\* network, and not set to another channel. That holds although requests and
\* events interleave, but for two ways to lose it to the event handler, which
\* is not locked against set_config: when nothing is left to apply the handler
\* still applies the one before, or it clears the flag of the new one.
AcceptedConfigKept ==
  wanted # None /\ ~raced =>
    \/ new_config_recvd /\ new_wifi_config = wanted
    \/ drv.cfg # None /\ is_wifi_config_equal(wanted, drv.cfg)

\* An init request whose configuration differs from the one Wi-Fi was
\* initialised with, answered with success, has given the driver this
\* configuration: what the comment of __wrap_esp_wifi_init says.
ReinitTakesEffect ==
  rpc.pc = "Register" /\ rpc.changed => drv.initCfg = rpc.arg

-----------------------------------------------------------------------------
\* The two ways for pserial_task to wait for itself: it posts an event to the
\* full queue that it alone empties, or it waits for the mutex of the event
\* loop, whose task waits for room in that queue.
QueueFull == Len(req_queue) = ReqqSize
PostsToItself == rpc.pc \in {"StartPost", "ConnectAck"} /\ QueueFull
WaitsForLoop == /\ rpc.pc = "Register" /\ QueueFull
                /\ evt \in {"ConnTell", "DiscTell", "Forward"}
Hung == PostsToItself \/ WaitsForLoop

\* Every request returns, or the task is in one of these two hangs.
RequestsReturn == (rpc.pc # "idle") ~> (rpc.pc = "idle" \/ Hung)

\* The host is told that the station is down, unless it comes back first.
LossReported == (drv.link # "up") ~> (told = "down" \/ drv.link = "up" \/ Hung)
=============================================================================
