---------------------------- MODULE HostPowerSave ----------------------------
(***************************************************************************)
(* Host power saving: host_power_save.c, and what the SDIO transport and   *)
(* the co-processor core do when the host sleeps and wakes.                *)
(*                                                                         *)
(*   the host      tells the co-processor that it goes to sleep and that   *)
(*                 it is awake, by an interrupt (event_cb) or by a flag of *)
(*                 a packet; asleep, it watches the wake-up GPIO;          *)
(*   alert tasks   power_save_alert_task, created for each such event at a *)
(*                 low priority;                                           *)
(*   sdio_deinit_task  unloads the bus while the host sleeps, in builds    *)
(*                 that do;                                                *)
(*   Senders       the tasks in process_tx_pkt, which first wake the host: *)
(*                 wakeup_host;                                            *)
(*   the timers of wakeup_host_mandate, which lower the GPIO.              *)
(*                                                                         *)
(* power_save_on says that the host sleeps; wakeup_sem, a binary           *)
(* semaphore, is empty while it does. The build is one with host power     *)
(* save and deep sleep enabled, with the SDIO transport. The startup event *)
(* that greets the host is in module SdioTx.                               *)
(***************************************************************************)
EXTENDS Integers, Sequences, FiniteSets

CONSTANTS
  Senders,      \* the tasks that send to the host
  Builds,       \* values of H_PS_UNLOAD_BUS_WHILE_PS
  TimerMayFail, \* whether esp_timer_create and esp_timer_start_once may fail
  MaxNotes      \* bound: events of the host

ASSUME ConstantsAssumption ==
  /\ Builds \subseteq BOOLEAN /\ TimerMayFail \in BOOLEAN
  /\ MaxNotes \in Nat

VARIABLES
  unload,              \* H_PS_UNLOAD_BUS_WHILE_PS of this build
  host, noted,         \* the host, and what it last told: "sleep" or "wake"
  power_save_on, wakeup_sem, gpio,
  state, datapath,     \* if_handle_g.state, datapath
  if_handle,           \* whether if_handle is not NULL
  driver,              \* the SDIO driver: "on", "stopped" or "off"
  alerts,              \* how many alert tasks are at each of their steps
  unloads, resets,     \* the same of sdio_deinit_task; the sdio_reset_tasks
  wpc, timer,          \* where each sender is, and whether its timer runs
  hasty,               \* history: when the host last told something, an alert
                       \* of the opposite was not over
  clash,               \* history: two tasks worked on the bus at once, or the
                       \* host spoke while it was being unloaded
  cut,                 \* history: the bus was unloaded while a sender was waking
                       \* the host, and nobody has initialised it since
  stuck,               \* history: there was no timer to lower the GPIO when it
                       \* was last raised
  notes                \* bound: events other than wake-ups

psVars   == <<power_save_on, wakeup_sem>>
ifVars   == <<state, datapath, if_handle>>
hostVars == <<host, noted, hasty, notes>>
busVars  == <<driver, unloads, resets, clash, cut>>
sendVars == <<wpc, timer, gpio, stuck>>
vars == <<unload, psVars, ifVars, hostVars, busVars, alerts, sendVars>>

DEINIT   == "DEINIT"
DEACTIVE == "DEACTIVE"
ACTIVE   == "ACTIVE"

\* state >= DEACTIVE.
Up == state # DEINIT

SleepSteps  == {"take", "set", "bus"}
WakeSteps   == {"clear", "give"}
AlertSteps  == SleepSteps \cup WakeSteps
UnloadSteps == {"stop", "deinit", "mark"}

None(tasks) == \A p \in DOMAIN tasks : tasks[p] = 0
Created(tasks, p) == [tasks EXCEPT ![p] = @ + 1]
Ended(tasks, p)   == [tasks EXCEPT ![p] = @ - 1]
Moved(tasks, p, q) == Created(Ended(tasks, p), q)

Initialising == \E w \in Senders : wpc[w] = "init"

\* A sender that has found the interface up, or initialised it, pulses the GPIO
\* until the host answers: it does not initialise the bus a second time.
Signals == {"check", "pulse", "wait"}
Waking  == \E w \in Senders : wpc[w] \in Signals

\* No alert is at one of these steps.
NoneAt(steps) == \A p \in steps : alerts[p] = 0

\* app_main: the transport is up and waits for the host; host_power_save_init
\* gives wakeup_sem.
Init ==
  /\ unload \in Builds
  /\ host = "waking" /\ noted = "wake" /\ hasty = FALSE /\ notes = 0
  /\ power_save_on = FALSE /\ wakeup_sem = 1
  /\ gpio = 0 /\ stuck = FALSE
  /\ wpc = [w \in Senders |-> "idle"] /\ timer = [w \in Senders |-> FALSE]
  /\ state = ACTIVE /\ datapath = FALSE /\ if_handle = TRUE
  /\ driver = "on" /\ clash = FALSE /\ cut = FALSE /\ resets = 0
  /\ unloads = [p \in UnloadSteps |-> 0]
  /\ alerts = [p \in AlertSteps |-> 0]

-----------------------------------------------------------------------------
(***************************************************************************)
(* The host, whose events take effect in event_cb, an interrupt, and in    *)
(* event_handler. With if_handle NULL they would dereference it: the       *)
(* co-processor panics, and the behaviour ends.                            *)
(***************************************************************************)
Speaks ==
  /\ driver = "on" /\ if_handle
  /\ clash' = (clash \/ ~None(unloads))
  /\ UNCHANGED <<unload, if_handle, driver, unloads, cut, sendVars>>

Tells(what) ==
  /\ Speaks
  /\ noted' = what
  /\ hasty' = ~NoneAt(IF what = "sleep" THEN WakeSteps ELSE SleepSteps)

Counted == notes < MaxNotes /\ notes' = notes + 1

\* The flag of a packet reaches event_handler in sdio_rx_task, which reads
\* only while the interface is up; the interrupt also calls sdio_reset.
PsOnByFlag ==
  /\ host = "awake" /\ host' = "asleep" /\ Counted /\ Up
  /\ Tells("sleep")
  /\ alerts' = Created(alerts, "take")
  /\ UNCHANGED <<psVars, state, datapath, resets>>

sdio_reset == /\ state' = IF Up THEN DEACTIVE ELSE state
              /\ resets' = IF Up THEN resets ELSE resets + 1

PsOnByInterrupt ==
  /\ host = "awake" /\ host' = "asleep" /\ Counted
  /\ Tells("sleep")
  /\ alerts' = Created(alerts, "take")
  /\ sdio_reset
  /\ UNCHANGED <<psVars, datapath>>

\* The host wakes up when the GPIO tells it to, or by itself.
Woken ==
  /\ host = "asleep" /\ gpio = 1 /\ host' = "waking"
  /\ UNCHANGED <<unload, noted, hasty, notes, psVars, ifVars, busVars, alerts, sendVars>>

WakesByItself ==
  /\ host = "asleep" /\ host' = "waking"
  /\ UNCHANGED <<unload, noted, hasty, notes, psVars, ifVars, busVars, alerts, sendVars>>

\* What ESP_OPEN_DATA_PATH and ESP_POWER_SAVE_OFF have in common; event_cb
\* runs the alert and sdio_reset before event_handler sets the state.
Opens == /\ host = "waking" /\ host' = "awake"
         /\ Tells("wake")
         /\ state' = ACTIVE /\ datapath' = TRUE
         /\ UNCHANGED notes

\* Mutant: wakeup_sem is a counting semaphore.
AlertOffCounting == power_save_on' = FALSE /\ wakeup_sem' = wakeup_sem + 1

\* Mutant: wakeup_sem is not given.
AlertOffSilently == power_save_on' = FALSE /\ UNCHANGED wakeup_sem

AlertOff == power_save_on' = FALSE /\ wakeup_sem' = 1

PsOffByFlag ==
  /\ Up
  /\ Opens
  /\ alerts' = Created(alerts, "clear")
  /\ UNCHANGED <<psVars, resets>>

OpenOrPsOff ==
  /\ Opens
  /\ AlertOff
  /\ resets' = IF Up THEN resets ELSE resets + 1
  /\ alerts' \in {alerts, Created(alerts, "clear")}

\* ESP_RESET: the host starts anew.
Reset ==
  /\ host \in {"awake", "waking"} /\ host' = "waking" /\ Counted
  /\ Tells("wake")
  /\ AlertOff
  /\ sdio_reset
  /\ UNCHANGED <<alerts, datapath>>

\* ESP_CLOSE_DATA_PATH: the host opens it again later.
Close ==
  /\ host = "awake" /\ host' = "waking" /\ Counted
  /\ Speaks
  /\ datapath' = FALSE
  /\ state' = IF state = ACTIVE THEN DEACTIVE ELSE state
  /\ UNCHANGED <<noted, hasty, alerts, psVars, resets>>

Host == \/ PsOnByFlag \/ PsOnByInterrupt \/ Woken \/ WakesByItself
        \/ PsOffByFlag \/ OpenOrPsOff \/ Reset \/ Close

-----------------------------------------------------------------------------
(***************************************************************************)
(* The alert tasks: host_power_save_alert. They have one priority, the     *)
(* lowest, so that they may overtake each other.                           *)
(***************************************************************************)
At(p, q) == alerts[p] > 0 /\ alerts' = Moved(alerts, p, q)
Last(p)  == alerts[p] > 0 /\ alerts' = Ended(alerts, p)

\* Mutant: wakeup_sem is not taken.
AlertTakeNot ==
  /\ At("take", "set")
  /\ UNCHANGED <<unload, psVars, ifVars, hostVars, busVars, sendVars>>

\* xSemaphoreTakeFromISR does not wait.
AlertTake ==
  /\ At("take", "set")
  /\ wakeup_sem' = 0
  /\ UNCHANGED <<unload, power_save_on, ifVars, hostVars, busVars, sendVars>>

AlertSet ==
  /\ At("set", "bus")
  /\ power_save_on' = TRUE
  /\ UNCHANGED <<unload, wakeup_sem, ifVars, hostVars, busVars, sendVars>>

\* Mutant: the state is left to sdio_deinit_task.
AlertBusLate ==
  /\ if_handle
  /\ Last("bus")
  /\ IF unload /\ Up
     THEN /\ unloads' = Created(unloads, "stop")
          /\ clash' = (clash \/ Initialising \/ resets > 0 \/ ~None(unloads))
          /\ cut' = Waking
     ELSE UNCHANGED <<unloads, clash, cut>>
  /\ UNCHANGED <<unload, psVars, ifVars, hostVars, driver, resets, sendVars>>

\* The transport is brought down: sdio_deinit.
AlertBus ==
  /\ if_handle
  /\ Last("bus")
  /\ IF unload /\ Up
     THEN /\ state' = DEINIT
          /\ unloads' = Created(unloads, "stop")
          /\ clash' = (clash \/ Initialising \/ resets > 0 \/ ~None(unloads))
          /\ cut' = Waking
     ELSE UNCHANGED <<state, unloads, clash, cut>>
  /\ UNCHANGED <<unload, psVars, datapath, if_handle, hostVars, driver, resets, sendVars>>

AlertClear ==
  /\ At("clear", "give")
  /\ power_save_on' = FALSE
  /\ UNCHANGED <<unload, wakeup_sem, ifVars, hostVars, busVars, sendVars>>

AlertGive ==
  /\ Last("give")
  /\ wakeup_sem' = 1
  /\ UNCHANGED <<unload, power_save_on, ifVars, hostVars, busVars, sendVars>>

AlertTask == AlertTake \/ AlertSet \/ AlertBus \/ AlertClear \/ AlertGive

-----------------------------------------------------------------------------
(***************************************************************************)
(* sdio_deinit_task and sdio_reset_task.                                   *)
(***************************************************************************)
Unload(p, q, to) ==
  /\ unloads[p] > 0 /\ unloads' = Moved(unloads, p, q)
  /\ driver' = to
  /\ UNCHANGED <<unload, psVars, ifVars, hostVars, alerts, resets, clash, cut, sendVars>>

UnloadStop   == Unload("stop", "deinit", "stopped")
UnloadDeinit == Unload("deinit", "mark", "off")

UnloadMark ==
  /\ unloads["mark"] > 0 /\ unloads' = Ended(unloads, "mark")
  /\ state' = DEINIT
  /\ UNCHANGED <<unload, psVars, datapath, if_handle, hostVars, alerts, driver, resets,
                 clash, cut, sendVars>>

ResetTask ==
  /\ resets > 0 /\ resets' = resets - 1
  /\ driver' = IF driver = "off" THEN "off" ELSE "on"
  /\ state' = ACTIVE
  /\ UNCHANGED <<unload, psVars, datapath, if_handle, hostVars, alerts, unloads, clash,
                 cut, sendVars>>

BusTask == UnloadStop \/ UnloadDeinit \/ UnloadMark \/ ResetTask

-----------------------------------------------------------------------------
(***************************************************************************)
(* The senders: process_tx_pkt, wakeup_host, wakeup_host_mandate.          *)
(***************************************************************************)
Goes(w, p, q) == wpc[w] = p /\ wpc' = [wpc EXCEPT ![w] = q]

\* Without an open data path the packet is dropped; a host asleep is woken for
\* every packet but one of no interface. A sender is idle again when wakeup_host
\* has returned; sdio_write, which follows, is in module SdioTx.
Begin(w) ==
  /\ datapath /\ power_save_on
  /\ Goes(w, "idle", "wake")
  /\ UNCHANGED <<unload, psVars, ifVars, hostVars, busVars, alerts, timer, gpio, stuck>>

WakeKeep(w) ==
  /\ Goes(w, "wake", IF power_save_on /\ if_handle THEN "check" ELSE "idle")
  /\ if_handle /\ power_save_on => Up
  /\ UNCHANGED <<unload, psVars, ifVars, hostVars, busVars, alerts, timer, gpio, stuck>>

\* sdio_init: the driver can be initialised when nobody has; else if_handle
\* becomes NULL, and the sender returns.
WakeInit(w) ==
  /\ power_save_on /\ if_handle /\ ~Up
  /\ IF driver = "off"
     THEN /\ Goes(w, "wake", "init") /\ driver' = "on"
          /\ clash' = (clash \/ ~None(unloads))
          /\ UNCHANGED if_handle
     ELSE /\ Goes(w, "wake", "idle") /\ if_handle' = FALSE
          /\ clash' = TRUE
          /\ UNCHANGED driver
  /\ UNCHANGED <<unload, psVars, state, datapath, hostVars, unloads, resets, cut,
                 alerts, timer, gpio, stuck>>

WakeMark(w) ==
  /\ Goes(w, "init", IF power_save_on THEN "pulse" ELSE "idle")
  /\ state' = ACTIVE /\ if_handle' = TRUE /\ cut' = FALSE
  /\ UNCHANGED <<unload, psVars, datapath, hostVars, driver, unloads, resets, clash, alerts,
                 timer, gpio, stuck>>

\* A host that has woken up meanwhile: wakeup_success is still 0, and the
\* packet is dropped.
Check(w) ==
  /\ Goes(w, "check", IF power_save_on THEN "pulse" ELSE "idle")
  /\ UNCHANGED <<unload, psVars, ifVars, hostVars, busVars, alerts, timer, gpio, stuck>>

\* Mutant: the timer is started only when no other sender pulses.
PulseShared(w) ==
  /\ gpio' = 1 /\ stuck' = FALSE
  /\ Goes(w, "pulse", "wait")
  /\ timer' = [timer EXCEPT ![w] = \A v \in Senders : wpc[v] # "wait"]
  /\ UNCHANGED <<unload, psVars, ifVars, hostVars, busVars, alerts>>

\* The GPIO is raised and the timer that lowers it started. In between the timer
\* of another sender may lower it, as it may right after: this is one step.
\* Without a timer the sender gives up, and the packet is dropped.
Pulse(w) ==
  /\ gpio' = 1
  /\ \/ /\ Goes(w, "pulse", "wait")
        /\ timer' = [timer EXCEPT ![w] = TRUE] /\ stuck' = FALSE
     \/ /\ TimerMayFail
        /\ Goes(w, "pulse", "idle")
        /\ stuck' = TRUE
        /\ UNCHANGED timer
  /\ UNCHANGED <<unload, psVars, ifVars, hostVars, busVars, alerts>>

\* clean_wakeup_gpio_timer_cb.
ClearGpio(w) ==
  /\ timer[w] /\ timer' = [timer EXCEPT ![w] = FALSE]
  /\ gpio' = 0 /\ stuck' = FALSE
  /\ UNCHANGED <<unload, psVars, ifVars, hostVars, busVars, alerts, wpc>>

\* The sender waits ten times as long as the timer. It takes wakeup_sem and
\* gives it back at once (no task below it runs in between), or tries again:
\* the timeout of process_tx_pkt is days.
Wait(w) ==
  /\ ~timer[w]
  /\ Goes(w, "wait", IF wakeup_sem = 1 THEN "idle" ELSE "pulse")
  /\ UNCHANGED <<unload, psVars, ifVars, hostVars, busVars, alerts, timer, gpio, stuck>>

Sender(w) == \/ WakeKeep(w) \/ WakeInit(w) \/ WakeMark(w) \/ Check(w) \/ Pulse(w)
             \/ Wait(w)

\* After a clash the driver is used by two tasks at once, or not initialised
\* when it is used: what it does then is not modelled.
Next == /\ ~clash
        /\ \/ Host \/ AlertTask \/ BusTask
           \/ \E w \in Senders : Begin(w) \/ Sender(w) \/ ClearGpio(w)

\* Tasks run when they can and timers expire. (A sender waits until its timer has,
\* and there are only so many alerts: one condition is enough for both.) A host
\* that is told again and again to wake up does, and says so when the bus lets it.
Spec == /\ Init /\ [][Next]_vars
        /\ WF_vars(~clash /\ (AlertTask \/ BusTask))
        /\ \A w \in Senders : WF_vars(~clash /\ (Sender(w) \/ ClearGpio(w)))
        /\ SF_vars(~clash /\ Woken) /\ WF_vars(~clash /\ OpenOrPsOff)

-----------------------------------------------------------------------------
TypeOK ==
  /\ unload \in BOOLEAN /\ power_save_on \in BOOLEAN /\ wakeup_sem \in 0..1 /\ gpio \in 0..1
  /\ host \in {"awake", "asleep", "waking"} /\ noted \in {"sleep", "wake"}
  /\ state \in {DEINIT, DEACTIVE, ACTIVE} /\ datapath \in BOOLEAN /\ if_handle \in BOOLEAN
  /\ driver \in {"on", "stopped", "off"} /\ resets \in Nat
  /\ alerts \in [AlertSteps -> Nat] /\ unloads \in [UnloadSteps -> Nat]
  /\ wpc \in [Senders -> Signals \cup {"idle", "wake", "init"}]
  /\ timer \in [Senders -> BOOLEAN]
  /\ {hasty, clash, cut, stuck} \subseteq BOOLEAN
  /\ notes \in 0..MaxNotes

\* When every alert is over, the co-processor holds the host for asleep exactly
\* when the host said so last, and wakeup_sem can be taken exactly when it is
\* awake, however many alerts of what it said were under way at once: unless it
\* said so while an alert of the opposite was, since the two may then take
\* effect in either order.
SleepAgreed ==
  None(alerts) /\ ~hasty => /\ power_save_on <=> noted = "sleep"
                            /\ wakeup_sem = 1 <=> ~power_save_on

\* The interface counts as up only while the driver is loaded, if_handle is
\* never NULL, and once nobody works on the bus it is up exactly when the driver
\* is loaded, and loaded when the host is awake; also when the bus is unloaded
\* under senders that wake the host. Nothing is said once two tasks have unloaded,
\* reset or initialised the bus at once, or the host has spoken to an unloading.
BusLoaded ==
  ~clash => /\ if_handle
            /\ Up => driver = "on"
            /\ None(unloads) /\ ~Initialising =>
                 /\ driver = "on" <=> Up
                 /\ noted = "wake" => driver = "on" \/ hasty

\* The wake-up GPIO is high only until the timer of a sender expires, whoever
\* else pulses it, unless there was no timer.
GpioReleased == gpio = 1 => stuck \/ \E w \in Senders : timer[w]

\* A sender that wakes the host returns: the host wakes up and says so, which
\* the sender finds in wakeup_sem. What the host said too early, two tasks at
\* work on the bus, or the loss of the bus may leave it waiting.
SenderReturns ==
  \A w \in Senders : (wpc[w] # "idle") ~> (wpc[w] = "idle" \/ hasty \/ clash \/ cut)
=============================================================================
