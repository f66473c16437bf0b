-------------------------- MODULE HostPowerSaveProofs --------------------------
(***************************************************************************)
(* Proofs about module HostPowerSave, for any set of senders, either build *)
(* and any number of events of the host.                                   *)
(*                                                                         *)
(* SleepInv strengthens SleepAgreed: while the host has not been hasty all *)
(* alerts, however many and however far, are of what it said last, and     *)
(* those that are past a step have left there what the step stores.        *)
(* BusInv strengthens BusLoaded: before a clash the bus is loaded (or      *)
(* about to be marked so), unloaded, or being unloaded by one task, and in *)
(* the last two the host has said that it sleeps.                          *)
(***************************************************************************)
EXTENDS HostPowerSave, TLAPS

\* One task, at p.
One(S, p) == [q \in S |-> IF q = p THEN 1 ELSE 0]

OneUnload(p) == unloads = One(UnloadSteps, p)

\* What the alerts that say that the host sleeps have stored or will store.
Sleeping == /\ NoneAt(WakeSteps)
            /\ \/ alerts["take"] > 0
               \/ wakeup_sem = 0 /\ (alerts["set"] > 0 \/ power_save_on)

\* The same of those that say that it is awake.
Awake == /\ NoneAt(SleepSteps)
         /\ \/ alerts["clear"] > 0
            \/ ~power_save_on /\ (alerts["give"] > 0 \/ wakeup_sem = 1)

SleepInv == ~hasty => \/ noted = "sleep" /\ Sleeping
                      \/ noted = "wake" /\ Awake

HostAsleep == noted = "sleep" \/ hasty

Loaded    == None(unloads) /\ driver = "on" /\ (Up \/ Initialising)
Down      == ~Up /\ ~Initialising /\ resets = 0 /\ HostAsleep
Unloaded  == None(unloads) /\ driver = "off" /\ Down
Unloading == /\ \/ OneUnload("stop") /\ driver = "on"
                \/ OneUnload("deinit") /\ driver = "stopped"
                \/ OneUnload("mark") /\ driver = "off"
             /\ Down

BusInv == ~clash => if_handle /\ (Loaded \/ Unloaded \/ Unloading)

-----------------------------------------------------------------------------
(***************************************************************************)
(* Types.                                                                  *)
(***************************************************************************)
\* The variables keep their types: in particular no task ends that was not
\* created, and the semaphore stays binary.
THEOREM TypeCorrect == Spec => []TypeOK
<1>1. Init => TypeOK
  <2> SUFFICES ASSUME Init PROVE TypeOK
    OBVIOUS
  <2>1. alerts \in [AlertSteps -> Nat] /\ unloads \in [UnloadSteps -> Nat]
    BY DEF Init
  <2>2. /\ wpc \in [Senders -> Signals \cup {"idle", "wake", "init"}]
        /\ timer \in [Senders -> BOOLEAN]
    BY DEF Init
  <2>3. unload \in BOOLEAN /\ notes \in 0..MaxNotes
    BY ConstantsAssumption DEF Init
  <2>4. /\ power_save_on \in BOOLEAN /\ datapath \in BOOLEAN /\ if_handle \in BOOLEAN
        /\ hasty \in BOOLEAN /\ clash \in BOOLEAN /\ cut \in BOOLEAN /\ stuck \in BOOLEAN
    BY Zenon DEF Init
  <2>6. wakeup_sem \in 0..1 /\ gpio \in 0..1 /\ resets \in Nat
    BY DEF Init
  <2>5. /\ host \in {"awake", "asleep", "waking"} /\ noted \in {"sleep", "wake"}
        /\ state \in {DEINIT, DEACTIVE, ACTIVE} /\ driver \in {"on", "stopped", "off"}
    BY DEF Init
  <2> QED  BY <2>1, <2>2, <2>3, <2>4, <2>5, <2>6 DEF TypeOK
<1>2. TypeOK /\ [Next]_vars => TypeOK'
  <2> SUFFICES ASSUME TypeOK, [Next]_vars PROVE TypeOK'
    OBVIOUS
  <2> USE ConstantsAssumption DEF TypeOK, DEINIT, DEACTIVE, ACTIVE, Signals
  <2>1. CASE Host
    <3> USE DEF Speaks, Tells, Counted, sdio_reset, Opens, AlertOff, Created, AlertSteps,
                SleepSteps, WakeSteps, psVars, ifVars, hostVars, busVars, sendVars
    <3>1. CASE PsOnByFlag  BY <3>1 DEF PsOnByFlag
    <3>2. CASE PsOnByInterrupt  BY <3>2 DEF PsOnByInterrupt
    <3>3. CASE Woken \/ WakesByItself  BY <3>3 DEF Woken, WakesByItself
    <3>4. CASE PsOffByFlag  BY <3>4 DEF PsOffByFlag
    <3>5. CASE OpenOrPsOff
      <4>1. alerts' \in [AlertSteps -> Nat]  BY <3>5 DEF OpenOrPsOff
      <4>2. resets' \in Nat  BY <3>5 DEF OpenOrPsOff
      <4>3. hasty' \in BOOLEAN /\ clash' \in BOOLEAN  BY <3>5 DEF OpenOrPsOff, None, NoneAt
      <4>6. power_save_on' \in BOOLEAN /\ datapath' \in BOOLEAN
        BY <3>5, Zenon DEF OpenOrPsOff
      <4>4. /\ wakeup_sem' \in 0..1
            /\ host' \in {"awake", "asleep", "waking"} /\ noted' \in {"sleep", "wake"}
            /\ state' \in {DEINIT, DEACTIVE, ACTIVE}
        BY <3>5 DEF OpenOrPsOff
      <4>5. UNCHANGED <<unload, if_handle, driver, unloads, cut, sendVars, notes>>
        BY <3>5 DEF OpenOrPsOff
      <4> QED  BY <4>1, <4>2, <4>3, <4>4, <4>5, <4>6
    <3>6. CASE Reset
      <4>1. notes' \in 0..MaxNotes /\ resets' \in Nat  BY <3>6 DEF Reset
      <4>2. hasty' \in BOOLEAN /\ clash' \in BOOLEAN  BY <3>6 DEF Reset, None, NoneAt
      <4>6. power_save_on' \in BOOLEAN  BY <3>6, Zenon DEF Reset
      <4>3. /\ wakeup_sem' \in 0..1
            /\ host' \in {"awake", "asleep", "waking"} /\ noted' \in {"sleep", "wake"}
        BY <3>6 DEF Reset
      <4>4. state' \in {DEINIT, DEACTIVE, ACTIVE}  BY <3>6 DEF Reset
      <4>5. UNCHANGED <<unload, if_handle, driver, unloads, cut, sendVars, alerts, datapath>>
        BY <3>6 DEF Reset
      <4> QED  BY <4>1, <4>2, <4>3, <4>4, <4>5, <4>6
    <3>7. CASE Close
      <4>1. notes' \in 0..MaxNotes  BY <3>7 DEF Close
      <4> QED  BY <3>7, <4>1 DEF Close
    <3> QED  BY <2>1, <3>1, <3>2, <3>3, <3>4, <3>5, <3>6, <3>7 DEF Host
  <2>2. CASE AlertTask
    <3> USE DEF At, Last, Moved, Created, Ended, AlertSteps, SleepSteps, WakeSteps,
                UnloadSteps, psVars, ifVars, hostVars, busVars, sendVars
    <3>1. CASE AlertTake  BY <3>1 DEF AlertTake
    <3>2. CASE AlertSet  BY <3>2 DEF AlertSet
    <3>3. CASE AlertBus
      <4>1. alerts' \in [AlertSteps -> Nat]  BY <3>3 DEF AlertBus
      <4>2. unloads' \in [UnloadSteps -> Nat]  BY <3>3 DEF AlertBus
      <4>3. clash' \in BOOLEAN  BY <3>3, Zenon DEF AlertBus, None
      <4>4. cut' \in BOOLEAN  BY <3>3 DEF AlertBus, Waking
      <4>5. state' \in {DEINIT, DEACTIVE, ACTIVE}  BY <3>3 DEF AlertBus
      <4>6. UNCHANGED <<unload, psVars, datapath, if_handle, hostVars, driver, resets, sendVars>>
        BY <3>3 DEF AlertBus
      <4> QED  BY <4>1, <4>2, <4>3, <4>4, <4>5, <4>6
    <3>4. CASE AlertClear
      <4>1. alerts' \in [AlertSteps -> Nat]  BY <3>4 DEF AlertClear
      <4>2. power_save_on' \in BOOLEAN  BY <3>4, Zenon DEF AlertClear
      <4>3. UNCHANGED <<unload, wakeup_sem, hostVars, ifVars, busVars, sendVars>>
        BY <3>4 DEF AlertClear
      <4> QED  BY <4>1, <4>2, <4>3
    <3>5. CASE AlertGive  BY <3>5 DEF AlertGive
    <3> QED  BY <2>2, <3>1, <3>2, <3>3, <3>4, <3>5 DEF AlertTask
  <2>3. CASE BusTask
    <3> USE DEF Moved, Created, Ended, UnloadSteps,
                psVars, ifVars, hostVars, busVars, sendVars
    <3>1. CASE UnloadStop \/ UnloadDeinit  BY <3>1 DEF UnloadStop, UnloadDeinit, Unload
    <3>2. CASE UnloadMark  BY <3>2 DEF UnloadMark
    <3>3. CASE ResetTask  BY <3>3 DEF ResetTask
    <3> QED  BY <2>3, <3>1, <3>2, <3>3 DEF BusTask
  <2>4. ASSUME NEW w \in Senders, Begin(w) \/ Sender(w) \/ ClearGpio(w) PROVE TypeOK'
    <3> USE DEF Goes, psVars, ifVars, hostVars, busVars, sendVars
    <3>1. CASE Begin(w)  BY <3>1 DEF Begin
    <3>2. CASE WakeKeep(w)  BY <3>2 DEF WakeKeep
    <3>3. CASE WakeInit(w)  BY <3>3 DEF WakeInit
    <3>4. CASE WakeMark(w)  BY <3>4 DEF WakeMark
    <3>5. CASE Check(w)  BY <3>5 DEF Check
    <3>6. CASE Pulse(w)
      <4>1. wpc' \in [Senders -> Signals \cup {"idle", "wake", "init"}]
        BY <3>6 DEF Pulse
      <4>2. timer' \in [Senders -> BOOLEAN] /\ stuck' \in BOOLEAN  BY <3>6 DEF Pulse
      <4> QED  BY <3>6, <4>1, <4>2 DEF Pulse
    <3>7. CASE Wait(w)  BY <3>7 DEF Wait
    <3>8. CASE ClearGpio(w)
      <4>1. timer' \in [Senders -> BOOLEAN]  BY <3>8 DEF ClearGpio
      <4>2. gpio' \in 0..1  BY <3>8 DEF ClearGpio
      <4>4. stuck' \in BOOLEAN  BY <3>8, Zenon DEF ClearGpio
      <4>3. UNCHANGED <<unload, psVars, ifVars, hostVars, busVars, alerts, wpc>>
        BY <3>8 DEF ClearGpio
      <4> QED  BY <4>1, <4>2, <4>3, <4>4
    <3> QED  BY <2>4, <3>1, <3>2, <3>3, <3>4, <3>5, <3>6, <3>7, <3>8 DEF Sender
  <2>5. CASE UNCHANGED vars
    BY <2>5 DEF vars, psVars, ifVars, hostVars, busVars, sendVars
  <2> QED  BY <2>1, <2>2, <2>3, <2>4, <2>5 DEF Next
<1> QED  BY <1>1, <1>2, PTL DEF Spec

-----------------------------------------------------------------------------
(***************************************************************************)
(* The GPIO.                                                               *)
(***************************************************************************)
\* Whoever raises the GPIO has a timer running that will lower it.
THEOREM GpioCorrect == Spec => []GpioReleased
<1>1. Init => GpioReleased
  BY DEF Init, GpioReleased
<1>2. TypeOK /\ GpioReleased /\ [Next]_vars => GpioReleased'
  <2> SUFFICES ASSUME TypeOK, GpioReleased, [Next]_vars PROVE GpioReleased'
    OBVIOUS
  <2>0. ASSUME UNCHANGED <<timer, gpio, stuck>> PROVE GpioReleased'
    BY <2>0 DEF GpioReleased
  <2> USE DEF psVars, ifVars, hostVars, busVars, sendVars
  <2>1. CASE Host
    BY <2>0, <2>1 DEF Host, PsOnByFlag, PsOnByInterrupt, Woken, WakesByItself, PsOffByFlag,
                      OpenOrPsOff, Reset, Close, Opens, Tells, Speaks
  <2>2. CASE AlertTask
    BY <2>0, <2>2 DEF AlertTask, AlertTake, AlertSet, AlertBus, AlertClear, AlertGive
  <2>3. CASE BusTask
    BY <2>0, <2>3 DEF BusTask, UnloadStop, UnloadDeinit, Unload, UnloadMark, ResetTask
  <2>4. ASSUME NEW w \in Senders, Begin(w) \/ Sender(w) \/ ClearGpio(w) PROVE GpioReleased'
    <3>1. CASE Pulse(w)
      <4>1. stuck' \/ timer' = [timer EXCEPT ![w] = TRUE]
        BY <3>1, Zenon DEF Pulse
      <4>2. ASSUME timer' = [timer EXCEPT ![w] = TRUE] PROVE timer'[w]
        BY <4>2 DEF TypeOK
      <4> QED  BY <4>1, <4>2, Zenon DEF GpioReleased
    <3>2. CASE ClearGpio(w)
      BY <3>2 DEF ClearGpio, GpioReleased
    <3>3. CASE Begin(w)  BY <2>0, <3>3 DEF Begin
    <3>4. CASE WakeKeep(w) \/ WakeInit(w) \/ WakeMark(w)
      BY <2>0, <3>4 DEF WakeKeep, WakeInit, WakeMark
    <3>5. CASE Check(w) \/ Wait(w)
      BY <2>0, <3>5 DEF Check, Wait
    <3> QED  BY <2>4, <3>1, <3>2, <3>3, <3>4, <3>5 DEF Sender
  <2>5. CASE UNCHANGED vars  BY <2>0, <2>5 DEF vars
  <2> QED  BY <2>1, <2>2, <2>3, <2>4, <2>5 DEF Next
<1> QED  BY <1>1, <1>2, TypeCorrect, PTL DEF Spec

-----------------------------------------------------------------------------
(***************************************************************************)
(* Counting tasks when there is none or one of them.                       *)
(***************************************************************************)
LEMMA NoneCreated ==
  ASSUME NEW S, NEW tasks \in [S -> Nat], NEW p \in S, None(tasks)
  PROVE  Created(tasks, p) = One(S, p)
<1>1. \A q \in S : tasks[q] = 0
  BY DEF None
<1>2. Created(tasks, p) = [q \in S |-> IF q = p THEN tasks[p] + 1 ELSE tasks[q]]
  BY DEF Created
<1>3. QED
  BY <1>1, <1>2 DEF One

LEMMA OneMoves ==
  ASSUME NEW S, NEW p \in S, NEW q \in S, p # q,
         NEW tasks, tasks = One(S, p)
  PROVE  Moved(tasks, p, q) = One(S, q)
<1>1. Ended(tasks, p) = [r \in S |-> 0]
  BY DEF Ended, One
<1>2. Moved(tasks, p, q) = [r \in S |-> IF r = q THEN 0 + 1 ELSE 0]
  BY <1>1 DEF Moved, Created
<1>3. QED
  BY <1>2 DEF One

LEMMA OneEnds ==
  ASSUME NEW S, NEW p \in S, NEW tasks, tasks = One(S, p)
  PROVE  None(Ended(tasks, p))
BY DEF Ended, One, None

LEMMA OneIsThere ==
  ASSUME NEW S, NEW p, NEW q \in S, NEW tasks, tasks = One(S, p), tasks[q] > 0
  PROVE  q = p
BY DEF One

LEMMA NoneIsThere ==
  ASSUME NEW S, NEW q \in S, NEW tasks \in [S -> Nat], None(tasks)
  PROVE  ~(tasks[q] > 0)
BY DEF None

-----------------------------------------------------------------------------
(***************************************************************************)
(* Who sleeps.                                                             *)
(***************************************************************************)
\* What Sleeping and Awake say of the alerts' counters.
LEMMA Steps ==
  /\ NoneAt(WakeSteps) <=> alerts["clear"] = 0 /\ alerts["give"] = 0
  /\ NoneAt(SleepSteps) <=> alerts["take"] = 0 /\ alerts["set"] = 0 /\ alerts["bus"] = 0
BY DEF NoneAt, SleepSteps, WakeSteps

LEMMA SleepStep == TypeOK /\ SleepInv /\ [Next]_vars => SleepInv'
<1> SUFFICES ASSUME TypeOK, SleepInv, [Next]_vars PROVE SleepInv'
  OBVIOUS
<1>0. ASSUME UNCHANGED <<hasty, alerts, noted, wakeup_sem, power_save_on>> PROVE SleepInv'
  BY <1>0 DEF SleepInv, Sleeping, Awake, NoneAt
<1>t. alerts \in [AlertSteps -> Nat]
  BY DEF TypeOK
<1>s. AlertSteps = {"take", "set", "bus", "clear", "give"}
  BY DEF AlertSteps, SleepSteps, WakeSteps
<1>p. /\ NoneAt(WakeSteps)' <=> alerts'["clear"] = 0 /\ alerts'["give"] = 0
      /\ NoneAt(SleepSteps)' <=> alerts'["take"] = 0 /\ alerts'["set"] = 0 /\ alerts'["bus"] = 0
  BY DEF NoneAt, SleepSteps, WakeSteps
<1> USE DEF psVars, ifVars, hostVars, busVars, sendVars
<1>1. CASE Host
  <2>1. CASE PsOnByFlag \/ PsOnByInterrupt
    <3>1. hasty' = ~NoneAt(WakeSteps) /\ noted' = "sleep" /\ alerts' = Created(alerts, "take")
      BY <2>1, Zenon DEF PsOnByFlag, PsOnByInterrupt, Tells
    <3>2. NoneAt(WakeSteps) => NoneAt(WakeSteps)'
      BY <3>1, <1>t, <1>s, <1>p, Steps DEF Created
    <3>3. alerts'["take"] > 0
      BY <3>1, <1>t, <1>s DEF Created
    <3> QED  BY <3>1, <3>2, <3>3, Zenon DEF SleepInv, Sleeping
  <2>2. CASE Woken \/ WakesByItself
    BY <1>0, <2>2 DEF Woken, WakesByItself
  <2>3. CASE PsOffByFlag
    <3>1. hasty' = ~NoneAt(SleepSteps) /\ noted' = "wake" /\ alerts' = Created(alerts, "clear")
      BY <2>3, Zenon DEF PsOffByFlag, Opens, Tells
    <3>2. NoneAt(SleepSteps) => NoneAt(SleepSteps)'
      BY <3>1, <1>t, <1>s, <1>p, Steps DEF Created
    <3>3. alerts'["clear"] > 0
      BY <3>1, <1>t, <1>s DEF Created
    <3> QED  BY <3>1, <3>2, <3>3, Zenon DEF SleepInv, Awake
  <2>4. CASE OpenOrPsOff \/ Reset
    <3>1. /\ hasty' = ~NoneAt(SleepSteps) /\ noted' = "wake"
          /\ alerts' = alerts \/ alerts' = Created(alerts, "clear")
      BY <2>4, Zenon DEF OpenOrPsOff, Reset, Opens, Tells
    <3>2. power_save_on' = FALSE /\ wakeup_sem' = 1
      BY <2>4, Zenon DEF OpenOrPsOff, Reset, AlertOff
    <3>3. NoneAt(SleepSteps) => NoneAt(SleepSteps)'
      BY <3>1, <1>t, <1>s, <1>p, Steps DEF Created
    <3> QED  BY <3>1, <3>2, <3>3, Zenon DEF SleepInv, Awake
  <2>5. CASE Close
    BY <1>0, <2>5 DEF Close
  <2> QED  BY <1>1, <2>1, <2>2, <2>3, <2>4, <2>5 DEF Host
<1>2. CASE AlertTask
  <2>0. UNCHANGED <<hasty, noted>>
    BY <1>2 DEF AlertTask, AlertTake, AlertSet, AlertBus, AlertClear, AlertGive
  <2> SUFFICES ASSUME ~hasty PROVE SleepInv'
    BY <2>0 DEF SleepInv
  <2>1. ASSUME NEW p \in SleepSteps, alerts[p] > 0 PROVE noted = "sleep" /\ Sleeping
    <3>1. ~NoneAt(SleepSteps)
      BY <2>1, <1>t DEF NoneAt, AlertSteps
    <3> QED  BY <3>1, Zenon DEF SleepInv, Awake
  <2>2. ASSUME NEW p \in WakeSteps, alerts[p] > 0 PROVE noted = "wake" /\ Awake
    <3>1. ~NoneAt(WakeSteps)
      BY <2>2, <1>t DEF NoneAt, AlertSteps
    <3> QED  BY <3>1, Zenon DEF SleepInv, Sleeping
  <2>3. ASSUME noted = "sleep", Sleeping' PROVE SleepInv'
    BY <2>0, <2>3, Zenon DEF SleepInv
  <2>4. ASSUME noted = "wake", Awake' PROVE SleepInv'
    BY <2>0, <2>4, Zenon DEF SleepInv
  <2> USE DEF At, Last, Moved, Created, Ended
  <2>5. CASE AlertTake
    <3>1. alerts["take"] > 0 /\ alerts' = Moved(alerts, "take", "set") /\ wakeup_sem' = 0
      BY <2>5 DEF AlertTake
    <3>2. noted = "sleep" /\ Sleeping
      BY <3>1, <2>1 DEF SleepSteps
    <3>3. NoneAt(WakeSteps)'
      BY <3>1, <3>2, <1>t, <1>s, <1>p, Steps DEF Sleeping
    <3>4. alerts'["set"] > 0
      BY <3>1, <1>t, <1>s
    <3> QED  BY <3>1, <3>2, <3>3, <3>4, <2>3, Zenon DEF Sleeping
  <2>6. CASE AlertSet
    <3>1. /\ alerts["set"] > 0 /\ alerts' = Moved(alerts, "set", "bus")
          /\ UNCHANGED wakeup_sem
      BY <2>6 DEF AlertSet
    <3>2. noted = "sleep" /\ Sleeping
      BY <3>1, <2>1 DEF SleepSteps
    <3>3. NoneAt(WakeSteps)'
      BY <3>1, <3>2, <1>t, <1>s, <1>p, Steps DEF Sleeping
    <3>4. alerts'["take"] > 0 \/ wakeup_sem' = 0
      BY <3>1, <3>2, <1>t, <1>s DEF Sleeping
    <3>5. power_save_on'
      BY <2>6, Zenon DEF AlertSet
    <3> QED  BY <3>2, <3>3, <3>4, <3>5, <2>3, Zenon DEF Sleeping
  <2>7. CASE AlertBus
    <3>1. /\ alerts["bus"] > 0 /\ alerts' = Ended(alerts, "bus")
          /\ UNCHANGED <<wakeup_sem, power_save_on>>
      BY <2>7 DEF AlertBus
    <3>2. noted = "sleep" /\ Sleeping
      BY <3>1, <2>1 DEF SleepSteps
    <3>3. NoneAt(WakeSteps)'
      BY <3>1, <3>2, <1>t, <1>s, <1>p, Steps DEF Sleeping
    <3>4. alerts'["take"] = alerts["take"] /\ alerts'["set"] = alerts["set"]
      BY <3>1, <1>t, <1>s
    <3> QED  BY <3>1, <3>2, <3>3, <3>4, <2>3 DEF Sleeping
  <2>8. CASE AlertClear
    <3>1. alerts["clear"] > 0 /\ alerts' = Moved(alerts, "clear", "give")
      BY <2>8 DEF AlertClear
    <3>2. noted = "wake" /\ Awake
      BY <3>1, <2>2 DEF WakeSteps
    <3>3. NoneAt(SleepSteps)'
      BY <3>1, <3>2, <1>t, <1>s, <1>p, Steps DEF Awake
    <3>4. alerts'["give"] > 0
      BY <3>1, <1>t, <1>s
    <3>5. ~power_save_on'
      BY <2>8, Zenon DEF AlertClear
    <3> QED  BY <3>2, <3>3, <3>4, <3>5, <2>4, Zenon DEF Awake
  <2>9. CASE AlertGive
    <3>1. /\ alerts["give"] > 0 /\ alerts' = Ended(alerts, "give") /\ wakeup_sem' = 1
          /\ UNCHANGED power_save_on
      BY <2>9 DEF AlertGive
    <3>2. noted = "wake" /\ Awake
      BY <3>1, <2>2 DEF WakeSteps
    <3>3. NoneAt(SleepSteps)'
      BY <3>1, <3>2, <1>t, <1>s, <1>p, Steps DEF Awake
    <3>4. alerts'["clear"] = alerts["clear"]
      BY <3>1, <1>t, <1>s
    <3> QED  BY <3>1, <3>2, <3>3, <3>4, <2>4 DEF Awake
  <2> QED  BY <1>2, <2>5, <2>6, <2>7, <2>8, <2>9 DEF AlertTask
<1>3. CASE BusTask
  BY <1>0, <1>3 DEF BusTask, UnloadStop, UnloadDeinit, Unload, UnloadMark, ResetTask
<1>4. ASSUME NEW w \in Senders, Begin(w) \/ Sender(w) \/ ClearGpio(w) PROVE SleepInv'
  <2>1. CASE Begin(w) \/ ClearGpio(w)  BY <1>0, <2>1 DEF Begin, ClearGpio
  <2>2. CASE WakeKeep(w) \/ WakeInit(w) \/ WakeMark(w)
    BY <1>0, <2>2 DEF WakeKeep, WakeInit, WakeMark
  <2>3. CASE Check(w) \/ Pulse(w) \/ Wait(w)
    BY <1>0, <2>3 DEF Check, Pulse, Wait
  <2> QED  BY <1>4, <2>1, <2>2, <2>3 DEF Sender
<1>5. CASE UNCHANGED vars  BY <1>0, <1>5 DEF vars
<1> QED  BY <1>1, <1>2, <1>3, <1>4, <1>5 DEF Next

LEMMA SleepInit == Init => SleepInv
<1> SUFFICES ASSUME Init PROVE SleepInv
  OBVIOUS
<1>1. NoneAt(SleepSteps)
  BY DEF Init, NoneAt, AlertSteps
<1>2. noted = "wake" /\ power_save_on = FALSE /\ wakeup_sem = 1
  BY DEF Init
<1> QED  BY <1>1, <1>2, Zenon DEF SleepInv, Awake

\* Once every alert is over, the co-processor and the host agree who sleeps: for
\* any number of alerts of what the host said last, in any order. Where the host
\* spoke while an alert of the opposite was under way (hasty), nothing is said:
\* there the two may take effect in either order.
THEOREM SleepCorrect == Spec => []SleepAgreed
<1>1. TypeOK /\ SleepInv => SleepAgreed
  <2> SUFFICES ASSUME TypeOK, SleepInv, None(alerts), ~hasty
               PROVE  /\ power_save_on <=> noted = "sleep"
                      /\ wakeup_sem = 1 <=> ~power_save_on
    BY DEF SleepAgreed
  <2>1. \A p \in AlertSteps : ~(alerts[p] > 0)
    BY NoneIsThere DEF TypeOK
  <2>2. \/ noted = "sleep" /\ wakeup_sem = 0 /\ power_save_on
        \/ noted = "wake" /\ wakeup_sem = 1 /\ ~power_save_on
    BY <2>1 DEF SleepInv, Sleeping, Awake, AlertSteps, SleepSteps, WakeSteps
  <2> QED  BY <2>2
<1> QED  BY <1>1, SleepInit, SleepStep, TypeCorrect, PTL DEF Spec

-----------------------------------------------------------------------------
(***************************************************************************)
(* The bus.                                                                *)
(***************************************************************************)
\* A sender that neither begins nor ends an initialisation.
LEMMA StillInitialising ==
  ASSUME TypeOK, NEW w \in Senders, NEW p, NEW q, p # "init", q # "init", Goes(w, p, q)
  PROVE  Initialising' <=> Initialising
<1>1. \A v \in Senders : wpc'[v] = "init" <=> wpc[v] = "init"
  BY DEF TypeOK, Goes
<1> QED  BY <1>1 DEF Initialising

\* BusInv of a bus that changes in nothing but the names of its states.
LEMMA BusKept ==
  ASSUME BusInv, ~clash', UNCHANGED <<clash, if_handle, driver, unloads, resets>>,
         UNCHANGED <<noted, hasty>>, Up' <=> Up, Initialising' <=> Initialising
  PROVE  BusInv'
<1>1. if_handle /\ (Loaded \/ Unloaded \/ Unloading)
  BY Zenon DEF BusInv
<1>2. HostAsleep' <=> HostAsleep
  BY DEF HostAsleep
<1>3. Down => Down'
  BY <1>2 DEF Down
<1>4. None(unloads)' <=> None(unloads)
  BY DEF None
<1>5. Loaded => Loaded'
  BY <1>4 DEF Loaded
<1>6. Unloaded => Unloaded'
  BY <1>3, <1>4 DEF Unloaded
<1>7. Unloading => Unloading'
  BY <1>3 DEF Unloading, OneUnload
<1>8. if_handle'
  BY <1>1
<1> QED  BY <1>1, <1>5, <1>6, <1>7, <1>8, Zenon DEF BusInv

LEMMA BusStep == TypeOK /\ SleepInv /\ BusInv /\ [Next]_vars => BusInv'
<1> SUFFICES ASSUME TypeOK, SleepInv, BusInv, [Next]_vars, ~clash' PROVE BusInv'
  BY Zenon DEF BusInv
<1>i. ASSUME UNCHANGED wpc PROVE Initialising' <=> Initialising
  BY <1>i DEF Initialising
<1>u. ASSUME UNCHANGED state PROVE Up' <=> Up
  BY <1>u DEF Up
<1>n. ASSUME UNCHANGED unloads PROVE None(unloads)' <=> None(unloads)
  BY <1>n DEF None
<1>t. unloads \in [UnloadSteps -> Nat]
  BY DEF TypeOK
<1>s. {"stop", "deinit", "mark"} = UnloadSteps
  BY DEF UnloadSteps
<1>l. ASSUME if_handle', Loaded' PROVE BusInv'
  BY <1>l, Zenon DEF BusInv
<1>c. ~clash => if_handle /\ (Loaded \/ Unloaded \/ Unloading)
  BY Zenon DEF BusInv
<1>d. ASSUME ~clash, Up \/ resets > 0 PROVE Loaded
  BY <1>c, <1>d DEF Unloaded, Unloading, Down, TypeOK
<1>o. ASSUME ~clash, NEW p \in UnloadSteps, unloads[p] > 0 PROVE Unloading /\ OneUnload(p)
  <2>1. ~None(unloads)
    BY <1>o, <1>t, NoneIsThere
  <2>2. Unloading
    BY <2>1, <1>o, <1>c DEF Loaded, Unloaded
  <2>3. PICK q \in UnloadSteps : OneUnload(q)
    BY <2>2, <1>s DEF Unloading
  <2> QED  BY <2>2, <2>3, <1>o, OneIsThere DEF OneUnload
<1>e. ASSUME NEW p \in UnloadSteps, NEW q \in UnloadSteps, OneUnload(p), OneUnload(q)
      PROVE  p = q
  BY <1>e DEF OneUnload, One
<1> USE DEF psVars, ifVars, hostVars, busVars, sendVars
<1>1. CASE Host
  <2>1. CASE Woken \/ WakesByItself
    BY <1>i, <1>u, <2>1, BusKept DEF Woken, WakesByItself
  <2>2. CASE PsOnByFlag \/ PsOnByInterrupt \/ PsOffByFlag \/ OpenOrPsOff \/ Reset \/ Close
    <3>1. Speaks
      BY <2>2, Zenon DEF PsOnByFlag, PsOnByInterrupt, PsOffByFlag, OpenOrPsOff, Reset, Close,
                         Opens, Tells
    <3>2. driver = "on" /\ if_handle /\ None(unloads) /\ ~clash
      BY <3>1, Zenon DEF Speaks
    <3>3. Loaded
      BY <3>2, <1>c DEF Unloaded, Unloading, Loaded, TypeOK, OneUnload, One, None, UnloadSteps
    <3>4. driver' = "on" /\ if_handle' /\ None(unloads)' /\ (Initialising' <=> Initialising)
      BY <3>1, <3>2, <1>n, <1>i DEF Speaks
    <3>5. Up' \/ UNCHANGED state
      <4>1. CASE PsOnByFlag  BY <4>1 DEF PsOnByFlag
      <4>2. CASE PsOnByInterrupt \/ Reset
        BY <4>2 DEF PsOnByInterrupt, Reset, sdio_reset, Up, DEINIT, DEACTIVE
      <4>3. CASE PsOffByFlag \/ OpenOrPsOff
        BY <4>3 DEF PsOffByFlag, OpenOrPsOff, Opens, Up, DEINIT, ACTIVE
      <4>4. CASE Close  BY <4>4 DEF Close, Up, DEINIT, DEACTIVE
      <4> QED  BY <2>2, <4>1, <4>2, <4>3, <4>4
    <3>6. Up' \/ Initialising'
      BY <3>3, <3>4, <3>5, <1>u DEF Loaded
    <3>7. Loaded'
      BY <3>4, <3>6, Zenon DEF Loaded
    <3> QED  BY <3>4, <3>7, <1>l
  <2> QED  BY <1>1, <2>1, <2>2 DEF Host
<1>2. CASE AlertTask
  <2>1. CASE AlertTake \/ AlertSet \/ AlertClear \/ AlertGive
    BY <1>i, <1>u, <2>1, BusKept DEF AlertTake, AlertSet, AlertClear, AlertGive
  <2>2. CASE AlertBus /\ unload /\ Up
    <3>1. /\ state' = DEINIT /\ unloads' = Created(unloads, "stop")
          /\ ~clash /\ ~Initialising /\ ~(resets > 0) /\ None(unloads)
      BY <2>2, Zenon DEF AlertBus
    <3>2. UNCHANGED <<driver, resets, if_handle, wpc, noted, hasty>>
      BY <2>2 DEF AlertBus
    <3>3. Loaded /\ if_handle
      BY <3>1, <2>2, <1>c, <1>d
    <3>4. OneUnload("stop")'
      BY <3>1, <1>t, <1>s, NoneCreated DEF OneUnload
    <3>5. driver' = "on" /\ if_handle'
      BY <3>2, <3>3 DEF Loaded
    <3>6. ~Up'
      BY <3>1 DEF Up
    <3>7. ~Initialising'
      BY <3>1, <3>2, <1>i
    <3>8. resets' = 0
      BY <3>1, <3>2 DEF TypeOK
    <3>9. HostAsleep'
      <4> SUFFICES ASSUME ~hasty PROVE noted = "sleep"
        BY <3>2 DEF HostAsleep
      <4>1. alerts["bus"] > 0
        BY <2>2 DEF AlertBus, Last
      <4>2. ~NoneAt(SleepSteps)
        BY <4>1 DEF NoneAt, SleepSteps, TypeOK
      <4> QED  BY <4>2, Zenon DEF SleepInv, Awake
    <3>10. Down'
      BY <3>6, <3>7, <3>8, <3>9, Zenon DEF Down
    <3> QED  BY <3>4, <3>5, <3>10, Zenon DEF BusInv, Unloading
  <2>3. CASE AlertBus /\ ~(unload /\ Up)
    <3>1. UNCHANGED <<state, unloads, clash>>
      BY <2>3, Zenon DEF AlertBus
    <3> QED  BY <1>i, <1>u, <2>3, <3>1, BusKept DEF AlertBus
  <2> QED  BY <1>2, <2>1, <2>2, <2>3 DEF AlertTask
<1>3. CASE BusTask
  <2>0. UNCHANGED <<clash, if_handle, wpc, noted, hasty>>
    BY <1>3 DEF BusTask, UnloadStop, UnloadDeinit, Unload, UnloadMark, ResetTask
  <2>1. HostAsleep => HostAsleep'
    BY <2>0 DEF HostAsleep
  <2>2. ~clash /\ if_handle'
    BY <2>0, <1>c
  <2>3. CASE UnloadStop
    <3>1. Unloading /\ OneUnload("stop")
      BY <2>2, <2>3, <1>o, <1>s DEF UnloadStop, Unload
    <3>2. OneUnload("deinit")'
      BY <2>3, <3>1, <1>s, OneMoves DEF UnloadStop, Unload, OneUnload
    <3>3. driver' = "stopped" /\ UNCHANGED <<state, resets>>
      BY <2>3 DEF UnloadStop, Unload
    <3>4. Down'
      BY <3>1, <3>3, <2>0, <2>1, <1>i, <1>u DEF Unloading, Down
    <3> QED  BY <3>2, <3>3, <3>4, <2>2, Zenon DEF BusInv, Unloading
  <2>4. CASE UnloadDeinit
    <3>1. Unloading /\ OneUnload("deinit")
      BY <2>2, <2>4, <1>o, <1>s DEF UnloadDeinit, Unload
    <3>2. OneUnload("mark")'
      BY <2>4, <3>1, <1>s, OneMoves DEF UnloadDeinit, Unload, OneUnload
    <3>3. driver' = "off" /\ UNCHANGED <<state, resets>>
      BY <2>4 DEF UnloadDeinit, Unload
    <3>4. Down'
      BY <3>1, <3>3, <2>0, <2>1, <1>i, <1>u DEF Unloading, Down
    <3> QED  BY <3>2, <3>3, <3>4, <2>2, Zenon DEF BusInv, Unloading
  <2>5. CASE UnloadMark
    <3>1. Unloading /\ OneUnload("mark")
      BY <2>2, <2>5, <1>o, <1>s DEF UnloadMark
    <3>2. None(unloads)'
      BY <2>5, <3>1, <1>s, OneEnds DEF UnloadMark, OneUnload, None
    <3>3. driver = "off"
      BY <3>1, <1>e, <1>s DEF Unloading
    <3>4. driver' = "off" /\ UNCHANGED resets /\ state' = DEINIT
      BY <2>5, <3>3 DEF UnloadMark
    <3>5. ~Up'
      BY <3>4 DEF Up
    <3>6. Down'
      BY <3>1, <3>4, <3>5, <2>0, <2>1, <1>i DEF Unloading, Down
    <3> QED  BY <3>2, <3>4, <3>6, <2>2, Zenon DEF BusInv, Unloaded
  <2>6. CASE ResetTask
    <3>1. Loaded
      BY <2>2, <2>6, <1>d DEF ResetTask
    <3>2. UNCHANGED unloads /\ state' = ACTIVE
      BY <2>6 DEF ResetTask
    <3>3. driver' = "on"
      BY <2>6, <3>1 DEF ResetTask, Loaded
    <3>4. Up' /\ None(unloads)'
      BY <3>1, <3>2, <1>n DEF Up, DEINIT, ACTIVE, Loaded
    <3> QED  BY <3>3, <3>4, <2>2, <1>l DEF Loaded
  <2> QED  BY <1>3, <2>3, <2>4, <2>5, <2>6 DEF BusTask
<1>4. ASSUME NEW w \in Senders, Begin(w) \/ Sender(w) \/ ClearGpio(w) PROVE BusInv'
  <2>1. CASE Begin(w)
    <3>1. Initialising' <=> Initialising
      BY <2>1, StillInitialising DEF Begin
    <3> QED  BY <2>1, <3>1, <1>u, BusKept DEF Begin
  <2>2. CASE WakeKeep(w)
    <3>1. Initialising' <=> Initialising
      BY <2>2, StillInitialising DEF WakeKeep
    <3> QED  BY <2>2, <3>1, <1>u, BusKept DEF WakeKeep
  <2>3. CASE WakeInit(w)
    <3>1. /\ driver = "off" /\ driver' = "on" /\ ~clash /\ None(unloads)
          /\ Goes(w, "wake", "init")
      BY <2>3, Zenon DEF WakeInit
    <3>2. UNCHANGED <<if_handle, unloads>>
      BY <2>3, <3>1 DEF WakeInit
    <3>3. Initialising'
      BY <3>1 DEF Goes, Initialising, TypeOK
    <3>4. if_handle' /\ None(unloads)'
      BY <3>1, <3>2, <1>n, <1>c
    <3> QED  BY <3>1, <3>3, <3>4, <1>l, Zenon DEF Loaded
  <2>4. CASE WakeMark(w)
    <3>1. state' = ACTIVE /\ if_handle' = TRUE /\ UNCHANGED <<driver, unloads, clash>>
      BY <2>4 DEF WakeMark
    <3>2. Initialising
      BY <2>4 DEF WakeMark, Goes, Initialising
    <3>3. Loaded
      BY <3>1, <3>2, <1>c DEF Unloaded, Unloading, Down
    <3>4. Up' /\ driver' = "on" /\ None(unloads)'
      BY <3>1, <3>3, <1>n DEF Up, DEINIT, ACTIVE, Loaded
    <3> QED  BY <3>1, <3>4, <1>l, Zenon DEF Loaded
  <2>5. CASE Check(w)
    <3>1. Initialising' <=> Initialising
      BY <2>5, StillInitialising DEF Check
    <3> QED  BY <2>5, <3>1, <1>u, BusKept DEF Check
  <2>6. CASE Pulse(w)
    <3>1. Initialising' <=> Initialising
      <4>1. Goes(w, "pulse", "wait") \/ Goes(w, "pulse", "idle")
        BY <2>6, Zenon DEF Pulse
      <4> QED  BY <4>1, StillInitialising
    <3> QED  BY <2>6, <3>1, <1>u, BusKept DEF Pulse
  <2>7. CASE Wait(w)
    <3>1. Initialising' <=> Initialising
      BY <2>7, StillInitialising DEF Wait
    <3> QED  BY <2>7, <3>1, <1>u, BusKept DEF Wait
  <2>8. CASE ClearGpio(w)
    BY <1>i, <1>u, <2>8, BusKept DEF ClearGpio
  <2> QED
    BY <1>4, <2>1, <2>2, <2>3, <2>4, <2>5, <2>6, <2>7, <2>8 DEF Sender
<1>5. CASE UNCHANGED vars  BY <1>i, <1>u, <1>5, BusKept DEF vars
<1> QED  BY <1>1, <1>2, <1>3, <1>4, <1>5 DEF Next

LEMMA BusInit == Init => BusInv
<1> SUFFICES ASSUME Init PROVE BusInv
  OBVIOUS
<1>1. None(unloads) /\ Up /\ driver = "on"
  BY DEF Init, None, Up, DEINIT, ACTIVE
<1>2. if_handle
  BY DEF Init
<1> QED  BY <1>1, <1>2, Zenon DEF BusInv, Loaded

\* As long as no two tasks have unloaded, reset or initialised the bus at once, and
\* the host has not spoken to an unloading (clash, at which behaviours end: what
\* the driver does then is unknown), the interface is up only while its driver is
\* loaded, and once nobody works on the bus it is up whenever the driver is, and
\* loaded for a host that is awake and was not hasty.
THEOREM BusCorrect == Spec => []BusLoaded
<1>1. BusInv => BusLoaded
  <2> SUFFICES ASSUME BusInv, ~clash PROVE BusLoaded
    BY DEF BusLoaded
  <2>0. if_handle /\ (Loaded \/ Unloaded \/ Unloading)
    BY Zenon DEF BusInv
  <2>1. CASE Loaded
    BY <2>0, <2>1 DEF BusLoaded, Loaded
  <2>2. CASE Unloaded
    BY <2>0, <2>2 DEF BusLoaded, Unloaded, Down, HostAsleep
  <2>3. CASE Unloading
    <3>1. ~None(unloads)
      BY <2>3 DEF Unloading, OneUnload, One, None, UnloadSteps
    <3>2. ~Up
      BY <2>3 DEF Unloading, Down
    <3> QED  BY <2>0, <3>1, <3>2 DEF BusLoaded
  <2> QED  BY <2>0, <2>1, <2>2, <2>3
<1> QED  BY <1>1, BusInit, BusStep, SleepInit, SleepStep, TypeCorrect, PTL DEF Spec

-----------------------------------------------------------------------------
(***************************************************************************)
(* A sender that waits for the host: the safety part of SenderReturns.     *)
(***************************************************************************)
UpInv   == ~clash /\ ~cut => \A w \in Senders : wpc[w] \in Signals => Up
ToldInv == noted = "sleep" => host # "awake"

\* While a sender pulses the GPIO and finds wakeup_sem taken, the host has still
\* to wake up and say so, and what it says finds the bus loaded: unless the bus was
\* unloaded under the sender and nobody has initialised it since.
HostCanAnswer ==
  ~clash /\ ~cut /\ ~hasty /\ None(alerts) /\ wakeup_sem = 0 =>
    \A w \in Senders : wpc[w] \in {"pulse", "wait"} =>
      host \in {"asleep", "waking"} /\ Up /\ driver = "on" /\ if_handle

LEMMA ToldStep == TypeOK /\ ToldInv /\ [Next]_vars => ToldInv'
<1> SUFFICES ASSUME TypeOK, ToldInv, [Next]_vars, noted' = "sleep" PROVE host' # "awake"
  BY DEF ToldInv
<1> USE DEF hostVars
<1>1. CASE Host
  BY <1>1 DEF Host, PsOnByFlag, PsOnByInterrupt, Woken, WakesByItself, PsOffByFlag, OpenOrPsOff,
              Opens, Reset, Close, Tells
<1>2. UNCHANGED <<host, noted>> \/ Host
  <2>1. CASE AlertTask
    BY <2>1 DEF AlertTask, AlertTake, AlertSet, AlertBus, AlertClear, AlertGive
  <2>2. CASE BusTask
    BY <2>2 DEF BusTask, UnloadStop, UnloadDeinit, Unload, UnloadMark, ResetTask
  <2>3. ASSUME NEW w \in Senders, Begin(w) \/ Sender(w) \/ ClearGpio(w)
        PROVE  UNCHANGED <<host, noted>>
    BY <2>3 DEF Begin, Sender, WakeKeep, WakeInit, WakeMark, Check, Pulse, Wait, ClearGpio
  <2>4. CASE UNCHANGED vars
    BY <2>4 DEF vars
  <2> QED  BY <2>1, <2>2, <2>3, <2>4 DEF Next
<1> QED  BY <1>1, <1>2 DEF ToldInv

LEMMA UpStep == TypeOK /\ BusInv /\ UpInv /\ [Next]_vars => UpInv'
<1> SUFFICES ASSUME TypeOK, BusInv, UpInv, [Next]_vars, ~clash', ~cut',
                    NEW w \in Senders, wpc'[w] \in Signals
             PROVE  Up'
  BY DEF UpInv
<1> USE DEF hostVars, ifVars, busVars, sendVars
<1>0. ~clash
  <2>1. CASE UNCHANGED vars
    BY <2>1 DEF vars
  <2> QED  BY <2>1 DEF Next
<1>u. ~cut => (wpc[w] \in Signals => Up)
  BY <1>0 DEF UpInv
<1>1. CASE UNCHANGED <<wpc, cut>> /\ (UNCHANGED state \/ Up')
  <2>1. wpc[w] \in Signals /\ ~cut
    BY <1>1
  <2> QED  BY <1>1, <1>u, <2>1 DEF Up
<1>2. CASE Host
  <2>1. UNCHANGED <<wpc, cut>>
    BY <1>2 DEF Host, PsOnByFlag, PsOnByInterrupt, Woken, WakesByItself, PsOffByFlag,
                OpenOrPsOff, Opens, Reset, Close, Tells, Speaks
  <2>2. UNCHANGED state \/ Up'
    <3>1. CASE PsOnByInterrupt \/ Reset
      BY <3>1 DEF PsOnByInterrupt, Reset, sdio_reset, Up, DEINIT, DEACTIVE
    <3>2. CASE PsOffByFlag \/ OpenOrPsOff
      BY <3>2 DEF PsOffByFlag, OpenOrPsOff, Opens, Up, DEINIT, ACTIVE
    <3>3. CASE Close
      BY <3>3 DEF Close, Up, DEINIT, DEACTIVE
    <3>4. CASE PsOnByFlag \/ Woken \/ WakesByItself
      BY <3>4 DEF PsOnByFlag, Woken, WakesByItself
    <3> QED  BY <1>2, <3>1, <3>2, <3>3, <3>4 DEF Host
  <2> QED  BY <1>1, <2>1, <2>2
<1>3. CASE AlertTask
  <2>1. UNCHANGED wpc
    BY <1>3 DEF AlertTask, AlertTake, AlertSet, AlertBus, AlertClear, AlertGive
  <2>2. CASE AlertBus /\ unload /\ Up
    <3>1. ~Waking
      BY <2>2, Zenon DEF AlertBus
    <3> QED  BY <2>1, <3>1 DEF Waking
  <2>3. UNCHANGED <<state, cut>> \/ (AlertBus /\ unload /\ Up)
    BY <1>3 DEF AlertTask, AlertTake, AlertSet, AlertBus, AlertClear, AlertGive
  <2> QED  BY <1>1, <2>1, <2>2, <2>3
<1>4. CASE BusTask
  <2>1. UNCHANGED <<wpc, cut>>
    BY <1>4 DEF BusTask, UnloadStop, UnloadDeinit, Unload, UnloadMark, ResetTask
  <2>2. CASE UnloadMark
    <3>1. unloads["mark"] > 0 /\ "mark" \in UnloadSteps
      BY <2>2 DEF UnloadMark, UnloadSteps
    <3>2. ~None(unloads)
      BY <3>1, NoneIsThere DEF TypeOK
    <3>3. ~Up
      BY <1>0, <3>2 DEF BusInv, Loaded, Unloaded, Unloading, Down
    <3> QED  BY <1>u, <2>1, <3>3
  <2>3. CASE ResetTask
    BY <2>3 DEF ResetTask, Up, DEINIT, ACTIVE
  <2>4. CASE UnloadStop \/ UnloadDeinit
    BY <1>1, <2>1, <2>4 DEF UnloadStop, UnloadDeinit, Unload
  <2> QED  BY <1>4, <2>2, <2>3, <2>4 DEF BusTask
<1>5. ASSUME NEW v \in Senders, Begin(v) \/ Sender(v) \/ ClearGpio(v) PROVE Up'
  <2>1. CASE v # w
    <3>1. wpc'[w] = wpc[w]
      <4>1. UNCHANGED wpc \/ \E p, q : Goes(v, p, q)
        <5>1. CASE WakeInit(v) \/ Pulse(v)
          BY <5>1 DEF WakeInit, Pulse
        <5>2. CASE Begin(v) \/ WakeKeep(v) \/ WakeMark(v) \/ Check(v) \/ Wait(v)
          BY <5>2 DEF Begin, WakeKeep, WakeMark, Check, Wait
        <5>3. CASE ClearGpio(v)
          BY <5>3 DEF ClearGpio
        <5> QED  BY <1>5, <5>1, <5>2, <5>3 DEF Sender
      <4> QED  BY <2>1, <4>1 DEF Goes, TypeOK
    <3>2. UNCHANGED <<state, cut>> \/ Up'
      BY <1>5 DEF Begin, Sender, WakeKeep, WakeInit, WakeMark, Check, Pulse, Wait,
                  ClearGpio, Up, DEINIT, ACTIVE
    <3> QED  BY <1>u, <3>1, <3>2 DEF Up
  <2>2. CASE v = w
    <3>1. CASE Begin(w)
      BY <3>1 DEF Begin, Goes, Signals, TypeOK
    <3>2. CASE WakeKeep(w)
      <4>1. power_save_on /\ if_handle
        BY <3>2 DEF WakeKeep, Goes, Signals, TypeOK
      <4> QED  BY <3>2, <4>1 DEF WakeKeep, Up
    <3>3. CASE WakeInit(w)
      BY <3>3 DEF WakeInit, Goes, Signals, TypeOK
    <3>4. CASE WakeMark(w)
      BY <3>4 DEF WakeMark, Up, DEINIT, ACTIVE
    <3>5. CASE Check(w) \/ Pulse(w) \/ Wait(w)
      <4>1. wpc[w] \in Signals /\ UNCHANGED <<state, cut>>
        BY <3>5 DEF Check, Pulse, Wait, Goes, Signals
      <4> QED  BY <1>u, <4>1 DEF Up
    <3>6. CASE ClearGpio(w)
      BY <3>6, <1>1 DEF ClearGpio
    <3> QED  BY <1>5, <2>2, <3>1, <3>2, <3>3, <3>4, <3>5, <3>6 DEF Sender
  <2> QED  BY <2>1, <2>2
<1>6. CASE UNCHANGED vars
  BY <1>1, <1>6 DEF vars
<1> QED  BY <1>2, <1>3, <1>4, <1>5, <1>6 DEF Next

\* Nobody pulses the GPIO for a host that cannot answer: while wakeup_sem is
\* taken the host has yet to speak, and it speaks to a bus that is loaded; but
\* for a bus unloaded under a sender (cut), or by a task that met another (clash).
THEOREM AnswerHeard == Spec => []HostCanAnswer
<1>1. ToldInv /\ UpInv /\ SleepAgreed /\ BusLoaded /\ TypeOK => HostCanAnswer
  <2> SUFFICES ASSUME ToldInv, UpInv, SleepAgreed, BusLoaded, TypeOK, ~clash, ~cut, ~hasty,
                      None(alerts), wakeup_sem = 0,
                      NEW w \in Senders, wpc[w] \in {"pulse", "wait"}
               PROVE  host \in {"asleep", "waking"} /\ Up /\ driver = "on" /\ if_handle
    BY DEF HostCanAnswer
  <2>1. noted = "sleep"
    BY DEF SleepAgreed
  <2>2. host \in {"asleep", "waking"}
    BY <2>1 DEF ToldInv, TypeOK
  <2>3. Up
    BY DEF UpInv, Signals
  <2> QED  BY <2>2, <2>3 DEF BusLoaded
<1>2. Init => ToldInv /\ UpInv
  BY DEF Init, ToldInv, UpInv, Signals
<1> QED
  BY <1>1, <1>2, ToldStep, UpStep, BusInit, BusStep, SleepInit, SleepStep, SleepCorrect,
     BusCorrect, TypeCorrect, PTL DEF Spec
=============================================================================
