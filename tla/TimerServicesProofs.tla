-------------------------- MODULE TimerServicesProofs --------------------------
(***************************************************************************)
(* Proofs about module TimerServices, for images and queues of any size    *)
(* and any number of requests, timers and events.                          *)
(*                                                                         *)
(* OtaInv strengthens UpdateIsWhole: an update in progress has spoiled the *)
(* one before, and a restart is scheduled only for a boot partition that   *)
(* is set. HbInv strengthens HeartbeatAsAsked, which speaks of moments     *)
(* without pending commands, to all others: WillBeat says whether a timer  *)
(* will be active once its commands are executed.                          *)
(***************************************************************************)
EXTENDS TimerServices, SequenceTheorems, WellFoundedInduction, TLAPS

TimerType    == [kind : {"heartbeat", "restart"}, active : BOOLEAN]
CmdType(n)   == [cmd : {"start", "stop", "delete"}, timer : 1..n]

OtaInv ==
  /\ handle = "open" \/ rpc = At("otaBegin", "erased") => spoiled
  /\ ~spoiled /\ (ota_status = "COMPLETED" \/ boot = "new") => Whole
  /\ \/ rpc = At("otaActivate", "bootSet") \/ restarted
     \/ \E i \in Timers : timers[i].kind = "restart"
     => boot = "new"

\* A timer to delete is one that exists.
HandleKept == rpc.pc = "delete" => handle_heartbeat_task # 0

\* The last command for timer i among q is to start it, or there is none and it
\* is active.
WillBeat(q, ts, i) ==
  \/ \E k \in 1..Len(q) : /\ q[k].timer = i /\ q[k].cmd = "start"
                          /\ \A l \in (k + 1)..Len(q) : q[l].timer # i
  \/ ts[i].active /\ \A l \in 1..Len(q) : q[l].timer # i

Heart(ts, i) == ts[i].kind = "heartbeat"

Beats == {i \in Timers : Heart(timers, i) /\ WillBeat(cmds, timers, i)}

HbInv ==
  /\ Beats =
       IF rpc.pc = "delete" THEN unstopped \ {handle_heartbeat_task} ELSE Asked \cup unstopped
  /\ rpc.pc \in {"delete", "stopped"} => ~wanted
  /\ handle_heartbeat_task # 0 => Heart(timers, handle_heartbeat_task)
  /\ rpc.pc # "delete" => \A k \in 1..Len(cmds) :
       cmds[k].timer = handle_heartbeat_task => cmds[k].cmd = "start"

-----------------------------------------------------------------------------
(***************************************************************************)
(* Types.                                                                  *)
(***************************************************************************)
\* What NewTimer leaves of the types.
LEMMA NewTimerType ==
  ASSUME TypeOK, NEW kind \in {"heartbeat", "restart"}, NEW made \in BOOLEAN,
         NEW started \in BOOLEAN, NewTimer(kind, made, started)
  PROVE  /\ timers' \in Seq(TimerType) /\ Len(timers') <= MaxTimers
         /\ Len(timers) <= Len(timers') /\ Len(timers) \in Nat /\ Len(timers') \in Nat
         /\ cmds' \in Seq(CmdType(Len(timers'))) /\ Len(cmds') <= CmdqSize
         /\ made => Len(timers') = Len(timers) + 1
<1>0. /\ timers \in Seq(TimerType) /\ Len(timers) <= MaxTimers /\ Len(timers) \in Nat
      /\ cmds \in Seq(CmdType(Len(timers))) /\ Len(cmds) <= CmdqSize /\ Len(cmds) \in Nat
      /\ CmdqSize \in Nat /\ MaxTimers \in Nat
  BY ConstantsAssumption DEF TypeOK, Timers, TimerType, CmdType
<1>1. CASE UNCHANGED timerVars /\ ~made
  BY <1>0, <1>1 DEF timerVars
<1>2. CASE ~(UNCHANGED timerVars /\ ~made)
  <2> DEFINE t == [kind |-> kind, active |-> FALSE]
             c == [cmd |-> "start", timer |-> Len(timers) + 1]
  <2>1. /\ made /\ Len(timers) < MaxTimers /\ timers' = Append(timers, t)
        /\ started = (Len(cmds) < CmdqSize)
        /\ cmds' = IF started THEN Append(cmds, c) ELSE cmds
    BY <1>2, Zenon DEF NewTimer
  <2>2. t \in TimerType /\ c \in CmdType(Len(timers) + 1)
    BY <1>0 DEF TimerType, CmdType
  <2>3. cmds \in Seq(CmdType(Len(timers) + 1))
    <3>1. CmdType(Len(timers)) \subseteq CmdType(Len(timers) + 1)
      BY <1>0 DEF CmdType
    <3> QED  BY <3>1, <1>0
  <2> HIDE DEF t, c
  <2>4. /\ timers' \in Seq(TimerType) /\ Len(timers') = Len(timers) + 1
    BY <2>1, <2>2, <1>0
  <2>5. cmds' \in Seq(CmdType(Len(timers) + 1)) /\ Len(cmds') <= CmdqSize
    <3>1. CASE started
      <4>1. Len(cmds) < CmdqSize /\ cmds' = Append(cmds, c)
        BY <3>1, <2>1
      <4> QED  BY <4>1, <2>2, <2>3, <1>0
    <3>2. CASE ~started  BY <3>2, <2>1, <2>3, <1>0
    <3> QED  BY <3>1, <3>2
  <2> QED  BY <2>1, <2>4, <2>5, <1>0
<1> QED  BY <1>1, <1>2

LEMMA Sizes ==
  ASSUME TypeOK
  PROVE  /\ timers \in Seq(TimerType) /\ Len(timers) \in Nat
         /\ cmds \in Seq(CmdType(Len(timers))) /\ Len(cmds) \in Nat
         /\ req_queue \in Seq(Requests \cup {"event"}) /\ Len(req_queue) \in Nat
         /\ CmdqSize \in Nat /\ ReqqSize \in Nat /\ MaxTimers \in Nat
         /\ MaxReqs \in Nat /\ MaxEvents \in Nat /\ Chunks \in Nat
BY ConstantsAssumption DEF TypeOK, Timers, TimerType, CmdType

OtaType ==
  /\ ota_status \in {"NOT_STARTED", "IN_PROGRESS", "FAILED", "COMPLETED", "ACTIVATED"}
  /\ handle \in {"open", "closed"}
  /\ part \in Garbage..Chunks /\ boot \in {"old", "new"}
  /\ spoiled \in BOOLEAN /\ abandoned \in BOOLEAN
HbType    == /\ handle_heartbeat_task \in {0} \cup Timers
             /\ wanted \in BOOLEAN /\ unstopped \subseteq Timers
TimersOK  == /\ timers \in Seq(TimerType) /\ Len(timers) <= MaxTimers
             /\ cmds \in Seq(CmdType(Len(timers))) /\ Len(cmds) <= CmdqSize
QueueType == /\ req_queue \in Seq(Requests \cup {"event"}) /\ Len(req_queue) <= ReqqSize
             /\ reqs \in 0..MaxReqs /\ events \in 0..MaxEvents
RpcType == rpc \in [op : Requests \cup {"none"},
                   pc : {"idle", "called", "erased", "bootSet", "delete", "stopped"}]
TaskType == restarted \in BOOLEAN /\ daemon \in {0} \cup Timers

LEMMA Types == TypeOK <=> OtaType /\ HbType /\ TimersOK /\ QueueType /\ RpcType /\ TaskType
BY DEF TypeOK, OtaType, HbType, TimersOK, QueueType, RpcType, TaskType, Timers, TimerType,
       CmdType

LEMMA TypeStep == TypeOK /\ HandleKept /\ [Next]_vars => TypeOK'
<1> SUFFICES ASSUME TypeOK, HandleKept, [Next]_vars PROVE TypeOK'
  OBVIOUS
<1>t. OtaType /\ HbType /\ TimersOK /\ QueueType /\ RpcType /\ TaskType
  BY Types
<1>f. ASSUME OtaType', HbType', TimersOK', QueueType', RpcType', TaskType' PROVE TypeOK'
  BY <1>f, Types DEF TypeOK, OtaType, HbType, TimersOK, QueueType, RpcType, TaskType, Timers,
                     TimerType, CmdType
\* What does not change keeps its type.
<1>o. ASSUME UNCHANGED otaVars PROVE OtaType'
  BY <1>o, <1>t DEF OtaType, otaVars
<1>h. ASSUME UNCHANGED hbVars, UNCHANGED timers PROVE HbType'
  BY <1>h, <1>t DEF HbType, hbVars, Timers
<1>m. ASSUME UNCHANGED timerVars PROVE TimersOK'
  BY <1>m, <1>t DEF TimersOK, timerVars
<1>q. ASSUME UNCHANGED queueVars PROVE QueueType'
  BY <1>q, <1>t DEF QueueType, queueVars
<1>r. ASSUME UNCHANGED rpc PROVE RpcType'
  BY <1>r, <1>t DEF RpcType
<1>d. ASSUME UNCHANGED <<restarted, daemon>>, UNCHANGED timers PROVE TaskType'
  BY <1>d, <1>t DEF TaskType, Timers
<1>v. UNCHANGED timerVars => UNCHANGED timers
  BY DEF timerVars
<1>a. ASSUME NEW o \in Requests \cup {"none"},
             NEW c \in {"idle", "called", "erased", "bootSet", "delete", "stopped"}
      PROVE  At(o, c) \in [op : Requests \cup {"none"},
                     pc : {"idle", "called", "erased", "bootSet", "delete", "stopped"}]
  BY DEF At
<1>i. rpc' = Idle => RpcType'
  BY <1>a DEF RpcType, Idle
<1>s. /\ timers \in Seq(TimerType) /\ Len(timers) \in Nat
      /\ cmds \in Seq(CmdType(Len(timers))) /\ Len(cmds) \in Nat
      /\ req_queue \in Seq(Requests \cup {"event"}) /\ Len(req_queue) \in Nat
      /\ CmdqSize \in Nat /\ ReqqSize \in Nat /\ MaxTimers \in Nat
      /\ MaxReqs \in Nat /\ MaxEvents \in Nat /\ Chunks \in Nat
  BY Sizes
<1>z. Requests = {"otaBegin", "otaWrite", "otaEnd", "otaActivate", "hbOn", "hbOff"}
  BY DEF Requests
\* One more command, for the heartbeat.
<1>c. ASSUME NEW k \in {"stop", "delete"}, handle_heartbeat_task \in Timers,
             Send(k, handle_heartbeat_task), UNCHANGED timers
      PROVE  TimersOK'
  <2> DEFINE c == [cmd |-> k, timer |-> handle_heartbeat_task]
  <2>1. c \in CmdType(Len(timers))
    BY <1>c DEF CmdType, Timers
  <2>2. Len(cmds) < CmdqSize /\ cmds' = Append(cmds, c)
    BY <1>c DEF Send
  <2> HIDE DEF c
  <2>3. cmds' \in Seq(CmdType(Len(timers))) /\ Len(cmds') <= CmdqSize
    BY <2>1, <2>2, <1>s
  <2> QED  BY <2>3, <1>c, <1>t DEF TimersOK
\* One more message.
<1>p. ASSUME NEW x \in Requests \cup {"event"}, Len(req_queue) < ReqqSize,
             req_queue' = Append(req_queue, x)
      PROVE  req_queue' \in Seq(Requests \cup {"event"}) /\ Len(req_queue') <= ReqqSize
  BY <1>p, <1>s
<1>1. CASE HostRequest
  <2>1. PICK x \in Requests : req_queue' = Append(req_queue, x)
    BY <1>1 DEF HostRequest
  <2>2. reqs' \in 0..MaxReqs /\ UNCHANGED events /\ Len(req_queue) < ReqqSize
    BY <1>1, <1>t, <1>s DEF HostRequest, QueueType
  <2>3. QueueType'
    BY <2>1, <2>2, <1>p, <1>t DEF QueueType
  <2>4. UNCHANGED <<otaVars, hbVars, timerVars, rpc, restarted, daemon>>
    BY <1>1 DEF HostRequest
  <2> QED  BY <2>3, <2>4, <1>f, <1>o, <1>h, <1>m, <1>r, <1>d, <1>v
<1>2. CASE OtherEvent
  <2>2. events' \in 0..MaxEvents /\ UNCHANGED reqs /\ Len(req_queue) < ReqqSize
    BY <1>2, <1>t, <1>s DEF OtherEvent, QueueType
  <2>3. QueueType'
    BY <1>2, <2>2, <1>p, <1>t DEF QueueType, OtherEvent
  <2>4. UNCHANGED <<otaVars, hbVars, timerVars, rpc, restarted, daemon>>
    BY <1>2 DEF OtherEvent
  <2> QED  BY <2>3, <2>4, <1>f, <1>o, <1>h, <1>m, <1>r, <1>d, <1>v
<1>3. CASE PserialTask
  <2>1. CASE TakeMsg
    <3>1. Head(req_queue) \in Requests \cup {"event"}
      BY <2>1, <1>s DEF TakeMsg
    <3>2. req_queue' \in Seq(Requests \cup {"event"}) /\ Len(req_queue') <= ReqqSize
      BY <2>1, <1>s, <1>t DEF TakeMsg, QueueType
    <3>3. QueueType'
      BY <2>1, <3>2, <1>t DEF QueueType, TakeMsg
    <3>4. RpcType'
      BY <2>1, <3>1, <1>a, <1>i DEF TakeMsg, RpcType
    <3>5. UNCHANGED <<otaVars, hbVars, timerVars, restarted, daemon>>
      BY <2>1 DEF TakeMsg
    <3> QED  BY <3>3, <3>4, <3>5, <1>f, <1>o, <1>h, <1>m, <1>d, <1>v
  <2>2. CASE OtaErase \/ OtaBegun \/ OtaWrite \/ OtaEnd \/ OtaActivate
    <3>1. UNCHANGED <<hbVars, timerVars, restarted, daemon, queueVars>>
      BY <2>2 DEF OtaErase, OtaBegun, OtaWrite, OtaEnd, OtaActivate
    <3>2. RpcType'
      <4>1. \/ rpc' = Idle \/ rpc' = At("otaBegin", "erased") \/ rpc' = At("otaActivate", "bootSet")
        BY <2>2, Zenon DEF OtaErase, OtaBegun, OtaWrite, OtaEnd, OtaActivate
      <4> QED  BY <4>1, <1>a, <1>i, <1>z DEF RpcType
    <3>3. /\ ota_status' \in {"NOT_STARTED", "IN_PROGRESS", "FAILED", "COMPLETED", "ACTIVATED"}
          /\ handle' \in {"open", "closed"} /\ boot' \in {"old", "new"}
      BY <2>2, <1>t DEF OtaType, OtaErase, OtaBegun, OtaWrite, OtaEnd, OtaActivate
    <3>4. part' \in Garbage..Chunks
      BY <2>2, <1>t, <1>s DEF OtaType, OtaErase, OtaBegun, OtaWrite, OtaEnd, OtaActivate, Garbage
    <3>5. (spoiled' = TRUE \/ spoiled' = FALSE \/ UNCHANGED spoiled) /\ UNCHANGED abandoned
      BY <2>2, Zenon DEF OtaErase, OtaBegun, OtaWrite, OtaEnd, OtaActivate
    <3>6. OtaType'
      BY <3>3, <3>4, <3>5, <1>t DEF OtaType
    <3> QED  BY <3>1, <3>2, <3>6, <1>f, <1>h, <1>m, <1>q, <1>d, <1>v
  <2>3. CASE OtaSchedule
    <3>1. PICK made \in BOOLEAN, started \in BOOLEAN :
            NewTimer("restart", made, started) /\ abandoned' = (abandoned \/ ~started)
      BY <2>3 DEF OtaSchedule
    <3>2. /\ TimersOK' /\ Len(timers) <= Len(timers')
          /\ Len(timers) \in Nat /\ Len(timers') \in Nat
      BY <3>1, NewTimerType DEF TimersOK
    <3>3. Timers \subseteq Timers'
      BY <3>2 DEF Timers
    <3>4. HbType' /\ TaskType'
      BY <2>3, <3>3, <1>t DEF OtaSchedule, HbType, TaskType, hbVars
    <3>5. abandoned' \in BOOLEAN
      BY <3>1, Zenon
    <3>6. OtaType'
      BY <2>3, <3>5, <1>t DEF OtaType, OtaSchedule
    <3>7. rpc' = Idle /\ UNCHANGED queueVars
      BY <2>3 DEF OtaSchedule
    <3> QED  BY <3>2, <3>4, <3>6, <3>7, <1>f, <1>i, <1>q
  <2>4. CASE HbLeave
    <3>1. UNCHANGED <<otaVars, timerVars, daemon, restarted, queueVars>>
      BY <2>4 DEF HbLeave
    <3>2. RpcType'
      BY <2>4, <1>a, <1>i, <1>z DEF HbLeave, Stopped, RpcType
    <3>3. unstopped' \subseteq Timers
      <4>1. ASSUME StartPending(handle_heartbeat_task) PROVE handle_heartbeat_task \in Timers
        <5>1. PICK k \in 1..Len(cmds) :
                cmds[k] = [cmd |-> "start", timer |-> handle_heartbeat_task]
          BY <4>1 DEF StartPending
        <5>2. cmds[k] \in CmdType(Len(timers))
          BY <5>1, <1>s
        <5> QED  BY <5>1, <5>2 DEF CmdType, Timers
      <4> QED  BY <2>4, <4>1, <1>t DEF HbLeave, HbType
    <3>4. HbType'
      <4>1. wanted' \in BOOLEAN  BY <2>4, Zenon DEF HbLeave
      <4> QED  BY <2>4, <3>1, <3>3, <4>1, <1>t DEF HbLeave, HbType, Timers, timerVars
    <3> QED  BY <3>1, <3>2, <3>4, <1>f, <1>o, <1>m, <1>q, <1>d, <1>v
  <2>5. CASE HbStop
    <3>1. UNCHANGED <<otaVars, timers, daemon, restarted, queueVars>>
      BY <2>5 DEF HbStop
    <3>2. RpcType'
      BY <2>5, <1>a, <1>z, <1>t DEF HbStop, RpcType
    <3>3. HbType'
      <4>1. wanted' \in BOOLEAN  BY <2>5, Zenon DEF HbStop
      <4> QED  BY <2>5, <4>1, <1>t DEF HbStop, HbType, Timers
    <3>4. TimersOK'
      BY <2>5, <1>c DEF HbStop, HandleActive
    <3> QED  BY <3>1, <3>2, <3>3, <3>4, <1>f, <1>o, <1>q, <1>d
  <2>6. CASE HbDelete
    <3>1. UNCHANGED <<otaVars, timers, daemon, restarted, queueVars>>
      BY <2>6 DEF HbDelete
    <3>2. RpcType'
      BY <2>6, <1>a, <1>i, <1>z DEF HbDelete, Stopped, RpcType
    <3>3. HbType'
      BY <2>6, <1>t DEF HbDelete, HbType, Timers
    <3>4. TimersOK'
      BY <2>6, <1>c, <1>t DEF HbDelete, HbType, HandleKept
    <3> QED  BY <3>1, <3>2, <3>3, <3>4, <1>f, <1>o, <1>q, <1>d
  <2>7. CASE HbStart
    <3>1. PICK made \in BOOLEAN, started \in BOOLEAN :
            /\ NewTimer("heartbeat", made, started)
            /\ handle_heartbeat_task' = IF made THEN Len(timers) + 1 ELSE 0
            /\ wanted' = started
      BY <2>7 DEF HbStart
    <3>2. /\ TimersOK' /\ Len(timers) <= Len(timers')
          /\ Len(timers) \in Nat /\ Len(timers') \in Nat
          /\ made => Len(timers') = Len(timers) + 1
      BY <3>1, NewTimerType DEF TimersOK
    <3>3. Timers \subseteq Timers' /\ handle_heartbeat_task' \in {0} \cup Timers'
      BY <3>1, <3>2 DEF Timers
    <3>5. wanted' \in BOOLEAN
      BY <3>1, Zenon
    <3>4. HbType' /\ TaskType'
      BY <2>7, <3>3, <3>5, <1>t DEF HbStart, HbType, TaskType
    <3>7. rpc' = Idle /\ UNCHANGED <<queueVars, otaVars>>
      BY <2>7 DEF HbStart
    <3> QED  BY <3>2, <3>4, <3>7, <1>f, <1>i, <1>o, <1>q
  <2> QED
    BY <1>3, <2>1, <2>2, <2>3, <2>4, <2>5, <2>6, <2>7 DEF PserialTask
<1>4. CASE TimerTask
  <2>1. CASE Command
    <3>1. UNCHANGED <<otaVars, hbVars, daemon, restarted, queueVars, rpc>>
      BY <2>1 DEF Command
    <3>2. Head(cmds) \in CmdType(Len(timers)) /\ cmds' = Tail(cmds) /\ cmds # <<>>
      BY <2>1, <1>s DEF Command
    <3>3. cmds' \in Seq(CmdType(Len(timers))) /\ Len(cmds') <= CmdqSize
      BY <3>2, <1>s, <1>t DEF TimersOK
    <3>4. PICK n \in 1..Len(timers), b \in BOOLEAN :
            timers' = [timers EXCEPT ![n].active = b]
      BY <2>1, <3>2 DEF Command, CmdType
    <3>5. timers' \in Seq(TimerType) /\ Len(timers') = Len(timers)
      <4> DEFINE t == [timers[n] EXCEPT !.active = b]
      <4>1. timers[n] \in TimerType
        BY <1>s
      <4>2. t \in TimerType
        BY <4>1 DEF TimerType
      <4>3. timers' = [timers EXCEPT ![n] = t]
        BY <3>4
      <4> HIDE DEF t
      <4> QED  BY <4>2, <4>3, <1>s
    <3>6. TimersOK'
      BY <3>3, <3>5, <1>t DEF TimersOK
    <3>7. HbType' /\ TaskType'
      BY <3>1, <3>5, <1>t DEF HbType, TaskType, Timers, hbVars
    <3> QED  BY <3>1, <3>6, <3>7, <1>f, <1>o, <1>q, <1>r
  <2>2. CASE Beat
    <3>1. UNCHANGED <<otaVars, hbVars, timerVars, restarted, queueVars, rpc>> /\ daemon' \in Timers
      BY <2>2 DEF Beat
    <3>2. TaskType'
      BY <3>1, <1>v, <1>t DEF TaskType, Timers
    <3> QED  BY <3>1, <3>2, <1>f, <1>o, <1>h, <1>m, <1>q, <1>r, <1>v
  <2>3. CASE BeatPost
    <3>1. /\ UNCHANGED <<otaVars, hbVars, timerVars, restarted, reqs, rpc>> /\ daemon' = 0
          /\ Len(req_queue) < ReqqSize /\ req_queue' = Append(req_queue, "event")
      BY <2>3 DEF BeatPost
    <3>2. events' \in 0..MaxEvents
      BY <2>3, <1>t, <1>s DEF BeatPost, QueueType
    <3>3. QueueType'
      BY <3>1, <3>2, <1>p, <1>t DEF QueueType
    <3>4. TaskType'
      BY <3>1, <1>t DEF TaskType
    <3> QED  BY <3>1, <3>3, <3>4, <1>f, <1>o, <1>h, <1>m, <1>r, <1>v
  <2>4. CASE Restart
    <3>1. UNCHANGED <<otaVars, hbVars, timerVars, daemon, queueVars, rpc>>
      BY <2>4 DEF Restart
    <3>2. restarted' \in BOOLEAN
      BY <2>4, Zenon DEF Restart
    <3>3. TaskType'
      BY <3>1, <3>2, <1>v, <1>t DEF TaskType, Timers
    <3> QED  BY <3>1, <3>3, <1>f, <1>o, <1>h, <1>m, <1>q, <1>r, <1>v
  <2> QED  BY <1>4, <2>1, <2>2, <2>3, <2>4 DEF TimerTask
<1>5. CASE UNCHANGED vars
  BY <1>5, <1>f, <1>o, <1>h, <1>m, <1>q, <1>r, <1>d, <1>v DEF vars
<1> QED  BY <1>1, <1>2, <1>3, <1>4, <1>5 DEF Next

LEMMA TypeInit == Init => TypeOK
<1> SUFFICES ASSUME Init PROVE TypeOK
  OBVIOUS
<1>1. /\ ota_status \in {"NOT_STARTED", "IN_PROGRESS", "FAILED", "COMPLETED", "ACTIVATED"}
      /\ handle \in {"open", "closed"} /\ boot \in {"old", "new"}
  BY DEF Init
<1>2. part \in Garbage..Chunks /\ reqs \in 0..MaxReqs /\ events \in 0..MaxEvents
  BY ConstantsAssumption DEF Init, Garbage
<1>3. /\ timers \in Seq(TimerType) /\ Len(timers) <= MaxTimers
      /\ cmds \in Seq(CmdType(Len(timers))) /\ Len(cmds) <= CmdqSize
      /\ req_queue \in Seq(Requests \cup {"event"}) /\ Len(req_queue) <= ReqqSize
  BY ConstantsAssumption DEF Init
<1>4. handle_heartbeat_task \in {0} \cup Timers /\ daemon \in {0} \cup Timers
  BY DEF Init
<1>5. /\ rpc \in [op : Requests \cup {"none"},
                  pc : {"idle", "called", "erased", "bootSet", "delete", "stopped"}]
      /\ unstopped \subseteq Timers
  BY DEF Init, Idle, At
<1>6. /\ restarted \in BOOLEAN /\ spoiled \in BOOLEAN /\ abandoned \in BOOLEAN
      /\ wanted \in BOOLEAN
  BY Zenon DEF Init
<1> QED
  BY <1>1, <1>2, <1>3, <1>4, <1>5, <1>6 DEF TypeOK, Timers, TimerType, CmdType

LEMMA HandleStep == TypeOK /\ HandleKept /\ [Next]_vars => HandleKept'
<1> SUFFICES ASSUME TypeOK, HandleKept, [Next]_vars PROVE HandleKept'
  OBVIOUS
<1>1. ASSUME UNCHANGED <<rpc, handle_heartbeat_task>> PROVE HandleKept'
  BY <1>1 DEF HandleKept
<1>2. ASSUME rpc' \in {Idle, At("otaBegin", "erased"), At("otaActivate", "bootSet"), Stopped}
      PROVE  HandleKept'
  BY <1>2 DEF HandleKept, At, Idle, Stopped
<1>3. CASE HostRequest \/ OtherEvent \/ TimerTask
  BY <1>1, <1>3 DEF HostRequest, OtherEvent, TimerTask, Command, Beat, BeatPost, Restart, hbVars
<1>4. CASE TakeMsg
  BY <1>4 DEF TakeMsg, HandleKept, At, Idle
<1>5. CASE OtaErase \/ OtaBegun \/ OtaWrite \/ OtaEnd \/ OtaActivate \/ OtaSchedule
  <2>1. rpc' \in {Idle, At("otaBegin", "erased"), At("otaActivate", "bootSet")}
    BY <1>5 DEF OtaErase, OtaBegun, OtaWrite, OtaEnd, OtaActivate, OtaSchedule
  <2> QED  BY <2>1, <1>2
<1>6. CASE HbLeave \/ HbDelete \/ HbStart
  <2>1. rpc' \in {Idle, Stopped}
    BY <1>6 DEF HbLeave, HbDelete, HbStart
  <2> QED  BY <2>1, <1>2
<1>7. CASE HbStop
  BY <1>7, Sizes DEF HbStop, HandleActive, HandleKept, Timers
<1>8. CASE UNCHANGED vars
  BY <1>1, <1>8 DEF vars, hbVars
<1> QED
  BY <1>3, <1>4, <1>5, <1>6, <1>7, <1>8 DEF Next, PserialTask

LEMMA HandleInit == Init => HandleKept
BY DEF Init, HandleKept, Idle, At

LEMMA HandleCorrect == Spec => [](TypeOK /\ HandleKept)
BY TypeInit, HandleInit, TypeStep, HandleStep, PTL DEF Spec

\* The variables keep their types: the queues stay within their bounds, and
\* commands, handle and callback are about timers that exist.
THEOREM TypeCorrect == Spec => []TypeOK
BY HandleCorrect, PTL

-----------------------------------------------------------------------------
(***************************************************************************)
(* The update.                                                             *)
(***************************************************************************)
RestartTimer == \E i \in Timers : timers[i].kind = "restart"

LEMMA RestartKept ==
  ASSUME TypeOK, UNCHANGED timers
  PROVE  RestartTimer' <=> RestartTimer
BY DEF RestartTimer, Timers

LEMMA OtaStep == TypeOK /\ OtaInv /\ [Next]_vars => OtaInv'
<1> SUFFICES ASSUME TypeOK, OtaInv, [Next]_vars PROVE OtaInv'
  OBVIOUS
<1>1. /\ handle = "open" \/ rpc = At("otaBegin", "erased") => spoiled
      /\ ~spoiled /\ (ota_status = "COMPLETED" \/ boot = "new") => Whole
      /\ rpc = At("otaActivate", "bootSet") \/ restarted \/ RestartTimer => boot = "new"
  BY Zenon DEF OtaInv, RestartTimer
<1>2. ASSUME handle' = "open" \/ rpc' = At("otaBegin", "erased") => spoiled',
             ~spoiled' /\ (ota_status' = "COMPLETED" \/ boot' = "new") => Whole',
             (rpc' = At("otaActivate", "bootSet") \/ restarted' \/ RestartTimer') => boot' = "new"
      PROVE  OtaInv'
  BY <1>2, Zenon DEF OtaInv, RestartTimer, At
<1>k. UNCHANGED timers => (RestartTimer' <=> RestartTimer)
  BY RestartKept
\* The points at which pserial_task has a part of the update still to do.
<1>p. /\ Idle # At("otaBegin", "erased") /\ Idle # At("otaActivate", "bootSet")
      /\ At("otaBegin", "erased") # At("otaActivate", "bootSet")
      /\ \A op : \A pc \in {"called", "delete", "stopped"} :
            At(op, pc) # At("otaBegin", "erased") /\ At(op, pc) # At("otaActivate", "bootSet")
  BY DEF Idle, At
\* A step outside the update.
<1>3. ASSUME UNCHANGED <<otaVars, restarted>>, RestartTimer' => RestartTimer,
             \/ UNCHANGED rpc \/ rpc' = Idle
             \/ \E op : \E pc \in {"called", "delete", "stopped"} : rpc' = At(op, pc)
      PROVE  OtaInv'
  <2>1. /\ rpc' = At("otaBegin", "erased") => rpc = At("otaBegin", "erased")
        /\ rpc' = At("otaActivate", "bootSet") => rpc = At("otaActivate", "bootSet")
    BY <1>3, <1>p
  <2>2. UNCHANGED <<handle, spoiled, ota_status, boot, part, restarted>>
    BY <1>3 DEF otaVars
  <2>3. Whole' <=> Whole
    BY <2>2 DEF Whole
  <2>4. handle' = "open" \/ rpc' = At("otaBegin", "erased") => spoiled'
    BY <1>1, <2>1, <2>2
  <2>5. ~spoiled' /\ (ota_status' = "COMPLETED" \/ boot' = "new") => Whole'
    BY <1>1, <2>2, <2>3
  <2>6. (rpc' = At("otaActivate", "bootSet") \/ restarted' \/ RestartTimer') => boot' = "new"
    BY <1>1, <1>3, <2>1, <2>2
  <2> QED  BY <1>2, <2>4, <2>5, <2>6
<1>4. CASE HostRequest \/ OtherEvent
  BY <1>3, <1>4, <1>k DEF HostRequest, OtherEvent, timerVars
<1>5. CASE TakeMsg
  <2>1. rpc' = Idle \/ \E op : rpc' = At(op, "called")
    BY <1>5 DEF TakeMsg
  <2> QED  BY <1>3, <1>5, <1>k, <2>1 DEF TakeMsg, timerVars
<1>6. CASE OtaErase
  <2>1. spoiled' = TRUE /\ UNCHANGED <<boot, timers, restarted>>
    BY <1>6 DEF OtaErase, timerVars
  <2>2. rpc' = Idle \/ rpc' = At("otaBegin", "erased")
    BY <1>6, Zenon DEF OtaErase
  <2> QED  BY <1>1, <1>2, <1>k, <1>p, <2>1, <2>2
<1>7. CASE OtaBegun
  <2>1. spoiled
    BY <1>7, <1>1 DEF OtaBegun
  <2>2. spoiled' /\ rpc' = Idle /\ UNCHANGED <<boot, timers, restarted>>
    BY <1>7, <2>1 DEF OtaBegun, timerVars
  <2> QED  BY <1>1, <1>2, <1>k, <1>p, <2>2
<1>8. CASE OtaWrite
  <2>1. rpc' = Idle /\ UNCHANGED <<handle, spoiled, ota_status, boot, timers, restarted>>
    BY <1>8 DEF OtaWrite, timerVars
  <2>2. ~spoiled => UNCHANGED part
    <3>1. ~spoiled => handle = "closed"
      BY <1>1 DEF TypeOK
    <3> QED  BY <1>8, <3>1 DEF OtaWrite
  <2>3. ~spoiled => (Whole' <=> Whole)
    BY <2>2 DEF Whole
  <2> QED  BY <1>1, <1>2, <1>k, <1>p, <2>1, <2>3
<1>9. CASE OtaEnd
  <2>1. rpc' = Idle /\ handle' = "closed" /\ UNCHANGED <<part, boot, timers, restarted>>
    BY <1>9 DEF OtaEnd, timerVars
  <2>2. Whole' <=> Whole
    BY <2>1 DEF Whole
  <2>3. Whole \/ (ota_status' = "FAILED" /\ UNCHANGED spoiled)
    BY <1>9, Zenon DEF OtaEnd
  <2>4. ~spoiled' /\ (ota_status' = "COMPLETED" \/ boot' = "new") => Whole'
    BY <1>1, <2>1, <2>2, <2>3
  <2> QED  BY <1>1, <1>2, <1>k, <1>p, <2>1, <2>4
<1>10. CASE OtaActivate
  <2>1. UNCHANGED <<handle, part, spoiled, timers, restarted>>
    BY <1>10 DEF OtaActivate, timerVars
  <2>2. Whole' <=> Whole
    BY <2>1 DEF Whole
  <2>3. CASE rpc' = Idle /\ UNCHANGED <<ota_status, boot>>
    BY <1>1, <1>2, <1>k, <1>p, <2>1, <2>2, <2>3
  <2>4. CASE /\ ota_status = "COMPLETED" /\ Whole
             /\ boot' = "new" /\ ota_status' = "ACTIVATED"
             /\ rpc' = At("otaActivate", "bootSet")
    BY <1>1, <1>2, <1>p, <2>1, <2>2, <2>4
  <2> QED  BY <1>10, <2>3, <2>4, Zenon DEF OtaActivate
<1>11. CASE OtaSchedule
  <2>1. boot = "new" /\ rpc' = Idle /\ UNCHANGED <<handle, part, spoiled, ota_status, boot>>
    BY <1>11, <1>1 DEF OtaSchedule
  <2>2. Whole' <=> Whole
    BY <2>1 DEF Whole
  <2> QED  BY <1>1, <1>2, <1>p, <2>1, <2>2
<1>12. CASE HbLeave \/ HbStop \/ HbDelete
  <2>1. UNCHANGED <<otaVars, restarted, timers>>
    BY <1>12 DEF HbLeave, HbStop, HbDelete, timerVars
  <2>2. rpc' = Idle \/ \E op : \E pc \in {"called", "delete", "stopped"} : rpc' = At(op, pc)
    BY <1>12 DEF HbLeave, HbStop, HbDelete, Stopped
  <2> QED  BY <2>1, <2>2, <1>3, <1>k
<1>13. CASE HbStart
  <2>1. UNCHANGED <<otaVars, restarted>> /\ rpc' = Idle
    BY <1>13 DEF HbStart
  <2>2. RestartTimer' => RestartTimer
    <3>1. CASE UNCHANGED timers
      BY <3>1, <1>k
    <3>2. CASE timers' = Append(timers, [kind |-> "heartbeat", active |-> FALSE])
      BY <3>2, Sizes DEF RestartTimer, Timers
    <3>3. UNCHANGED timers \/ timers' = Append(timers, [kind |-> "heartbeat", active |-> FALSE])
      BY <1>13, Zenon DEF HbStart, NewTimer, timerVars
    <3> QED  BY <3>1, <3>2, <3>3
  <2> QED  BY <2>1, <2>2, <1>3
<1>14. CASE Command
  <2>1. UNCHANGED <<otaVars, restarted, rpc>>
    BY <1>14 DEF Command
  <2>2. PICK n \in 1..Len(timers), b \in BOOLEAN : timers' = [timers EXCEPT ![n].active = b]
    <3>1. Head(cmds).timer \in 1..Len(timers)
      <4>1. cmds \in Seq(CmdType(Len(timers))) /\ cmds # <<>>
        BY <1>14, Sizes DEF Command
      <4>2. Head(cmds) \in CmdType(Len(timers))
        BY <4>1
      <4> QED  BY <4>2 DEF CmdType
    <3> QED  BY <1>14, <3>1 DEF Command
  <2>3. Len(timers') = Len(timers) /\ \A i \in Timers : timers'[i].kind = timers[i].kind
    <3>1. Len(timers') = Len(timers)
      BY <2>2, Sizes
    <3>2. ASSUME NEW i \in Timers PROVE timers'[i].kind = timers[i].kind
      BY <2>2, <3>2, Sizes DEF Timers, TimerType
    <3> QED  BY <3>1, <3>2
  <2>4. RestartTimer' => RestartTimer
    BY <2>3 DEF RestartTimer, Timers
  <2> QED  BY <2>1, <2>4, <1>3
<1>15. CASE Beat \/ BeatPost
  BY <1>3, <1>15, <1>k DEF Beat, BeatPost, timerVars
<1>16. CASE Restart
  <2>1. UNCHANGED <<handle, part, spoiled, ota_status, boot, rpc>> /\ RestartTimer
    BY <1>16 DEF Restart, RestartTimer, otaVars
  <2>2. Whole' <=> Whole
    BY <2>1 DEF Whole
  <2> QED  BY <1>1, <1>2, <2>1, <2>2
<1>17. CASE UNCHANGED vars
  BY <1>3, <1>17, <1>k DEF vars, timerVars
<1> QED
  BY <1>4, <1>5, <1>6, <1>7, <1>8, <1>9, <1>10, <1>11, <1>12, <1>13, <1>14, <1>15, <1>16,
     <1>17 DEF Next, PserialTask, TimerTask

LEMMA OtaInit == Init => OtaInv
<1> SUFFICES ASSUME Init PROVE OtaInv
  OBVIOUS
<1>1. Timers = {} /\ Idle # At("otaBegin", "erased") /\ Idle # At("otaActivate", "bootSet")
  BY DEF Init, Timers, Idle, At
<1>2. /\ handle # "open" /\ ota_status # "COMPLETED" /\ boot # "new" /\ rpc = Idle
      /\ ~restarted
  BY DEF Init
<1> QED  BY <1>1, <1>2, Zenon DEF OtaInv

\* What is completed, or will be booted, is a whole image, and the restart boots
\* it, unless the update was begun again since.
THEOREM UpdateCorrect == Spec => []UpdateIsWhole
<1>1. OtaInv => UpdateIsWhole
  BY Zenon DEF OtaInv, UpdateIsWhole
<1> QED  BY <1>1, OtaInit, OtaStep, TypeCorrect, PTL DEF Spec

-----------------------------------------------------------------------------
(***************************************************************************)
(* The heartbeat: what will beat once the commands are executed.           *)
(***************************************************************************)
\* A command decides what becomes of its timer, and of no other.
LEMMA WillAppend ==
  ASSUME NEW n \in Nat, NEW q \in Seq(CmdType(n)), NEW c \in CmdType(n), NEW ts, NEW i,
         NEW q2, q2 = Append(q, c)
  PROVE  WillBeat(q2, ts, i) <=> IF c.timer = i THEN c.cmd = "start" ELSE WillBeat(q, ts, i)
<1>1. /\ Len(q) \in Nat /\ Len(q2) = Len(q) + 1 /\ q2[Len(q) + 1] = c
      /\ \A k \in 1..Len(q) : q2[k] = q[k]
  OBVIOUS
<1>2. CASE c.timer = i
  <2>1. ~(\A l \in 1..Len(q2) : q2[l].timer # i)
    BY <1>1, <1>2
  <2>2. ASSUME c.cmd = "start" PROVE WillBeat(q2, ts, i)
    <3>1. \A l \in (Len(q) + 1 + 1)..Len(q2) : q2[l].timer # i
      BY <1>1
    <3>2. Len(q) + 1 \in 1..Len(q2)
      BY <1>1
    <3> QED  BY <1>1, <1>2, <2>2, <3>1, <3>2 DEF WillBeat
  <2>3. ASSUME WillBeat(q2, ts, i) PROVE c.cmd = "start"
    <3>1. PICK k \in 1..Len(q2) : /\ q2[k].timer = i /\ q2[k].cmd = "start"
                                  /\ \A l \in (k + 1)..Len(q2) : q2[l].timer # i
      BY <2>1, <2>3 DEF WillBeat
    <3>2. k = Len(q) + 1
      BY <1>1, <1>2, <3>1
    <3> QED  BY <1>1, <3>1, <3>2
  <2> QED  BY <1>2, <2>2, <2>3
<1>3. CASE c.timer # i
  <2>1. (\A l \in 1..Len(q2) : q2[l].timer # i) <=> (\A l \in 1..Len(q) : q[l].timer # i)
    BY <1>1, <1>3
  <2>2. ASSUME NEW k \in 1..Len(q),
               \A l \in (k + 1)..Len(q) : q[l].timer # i
        PROVE  \A l \in (k + 1)..Len(q2) : q2[l].timer # i
    BY <1>1, <1>3, <2>2
  <2>3. ASSUME NEW k \in 1..Len(q2), q2[k].timer = i,
               \A l \in (k + 1)..Len(q2) : q2[l].timer # i
        PROVE  k \in 1..Len(q) /\ \A l \in (k + 1)..Len(q) : q[l].timer # i
    BY <1>1, <1>3, <2>3
  <2>4. (\E k \in 1..Len(q2) : /\ q2[k].timer = i /\ q2[k].cmd = "start"
                               /\ \A l \in (k + 1)..Len(q2) : q2[l].timer # i)
        => (\E k \in 1..Len(q) : /\ q[k].timer = i /\ q[k].cmd = "start"
                               /\ \A l \in (k + 1)..Len(q) : q[l].timer # i)
    BY <1>1, <2>3
  <2>5. (\E k \in 1..Len(q) : /\ q[k].timer = i /\ q[k].cmd = "start"
                               /\ \A l \in (k + 1)..Len(q) : q[l].timer # i)
        => (\E k \in 1..Len(q2) : /\ q2[k].timer = i /\ q2[k].cmd = "start"
                               /\ \A l \in (k + 1)..Len(q2) : q2[l].timer # i)
    <3>1. \A k \in 1..Len(q) : k \in 1..Len(q2)
      BY <1>1
    <3> QED  BY <1>1, <2>2, <3>1
  <2> QED  BY <1>3, <2>1, <2>4, <2>5, Zenon DEF WillBeat
<1> QED  BY <1>2, <1>3

\* Executing a command does not change what will be.
LEMMA WillTail ==
  ASSUME NEW ts \in Seq(TimerType), NEW q \in Seq(CmdType(Len(ts))), q # <<>>,
         NEW ts2, ts2 = [ts EXCEPT ![Head(q).timer].active = (Head(q).cmd = "start")],
         NEW i \in 1..Len(ts)
  PROVE  WillBeat(Tail(q), ts2, i) <=> WillBeat(q, ts, i)
<1> DEFINE t == Tail(q)
<1>0. Len(ts) \in Nat
  OBVIOUS
<1>1. /\ Len(q) \in Nat /\ Len(q) >= 1 /\ Len(t) \in Nat /\ Len(q) = Len(t) + 1
      /\ \A k \in 1..Len(t) : t[k] = q[k + 1]
      /\ Head(q) = q[1] /\ q[1] \in CmdType(Len(ts))
  OBVIOUS
<1>2. q[1].timer \in 1..Len(ts)
  BY <1>1 DEF CmdType
<1>3. ts2[i].active = IF q[1].timer = i THEN q[1].cmd = "start" ELSE ts[i].active
  BY <1>1, <1>2 DEF TimerType
<1> HIDE DEF t
\* The commands after the first.
<1> DEFINE StartQ(k) == /\ q[k].timer = i /\ q[k].cmd = "start"
                        /\ \A l \in (k + 1)..Len(q) : q[l].timer # i
           StartT(k) == /\ t[k].timer = i /\ t[k].cmd = "start"
                        /\ \A l \in (k + 1)..Len(t) : t[l].timer # i
           NoneT == \A l \in 1..Len(t) : t[l].timer # i
<1>4. \A l \in 2..Len(q) : l - 1 \in 1..Len(t) /\ t[l - 1] = q[l]
  BY <1>1
<1>5. ASSUME NEW k \in 1..Len(t), StartT(k) PROVE k + 1 \in 1..Len(q) /\ StartQ(k + 1)
  <2>1. k + 1 \in 1..Len(q) /\ q[k + 1] = t[k]
    BY <1>1
  <2>2. ASSUME NEW l \in (k + 1 + 1)..Len(q) PROVE q[l].timer # i
    <3>1. l - 1 \in (k + 1)..Len(t) /\ t[l - 1] = q[l]
      BY <1>1, <1>4
    <3> QED  BY <3>1, <1>5
  <2> QED  BY <1>5, <2>1, <2>2
<1>6. ASSUME NEW k \in 2..Len(q), StartQ(k) PROVE k - 1 \in 1..Len(t) /\ StartT(k - 1)
  <2>1. k - 1 \in 1..Len(t) /\ q[k] = t[k - 1]
    BY <1>4
  <2>2. ASSUME NEW l \in (k - 1 + 1)..Len(t) PROVE t[l].timer # i
    <3>1. l + 1 \in (k + 1)..Len(q) /\ t[l] = q[l + 1]
      BY <1>1
    <3> QED  BY <3>1, <1>6
  <2> QED  BY <1>6, <2>1, <2>2
<1>n. (\A l \in 2..Len(q) : q[l].timer # i) <=> NoneT
  <2>1. ASSUME NoneT, NEW l \in 2..Len(q) PROVE q[l].timer # i
    BY <1>4, <2>1
  <2>2. ASSUME \A l \in 2..Len(q) : q[l].timer # i, NEW l \in 1..Len(t) PROVE t[l].timer # i
    <3>1. l + 1 \in 2..Len(q) /\ t[l] = q[l + 1]
      BY <1>1
    <3> QED  BY <3>1, <2>2
  <2> QED  BY <2>1, <2>2
<1>7. StartQ(1) <=> q[1].timer = i /\ q[1].cmd = "start" /\ NoneT
  <2>1. (1 + 1)..Len(q) = 2..Len(q)
    OBVIOUS
  <2> QED  BY <2>1, <1>n
<1>8. (\A l \in 1..Len(q) : q[l].timer # i) <=> q[1].timer # i /\ NoneT
  <2>1. \A l \in 1..Len(q) : l = 1 \/ l \in 2..Len(q)
    BY <1>1
  <2>2. 1 \in 1..Len(q) /\ \A l \in 2..Len(q) : l \in 1..Len(q)
    BY <1>1
  <2> HIDE DEF NoneT
  <2> QED  BY <2>1, <2>2, <1>n
<1>9. (\E k \in 1..Len(q) : StartQ(k)) <=> StartQ(1) \/ \E k \in 1..Len(t) : StartT(k)
  <2>1. \A k \in 1..Len(q) : k = 1 \/ k \in 2..Len(q)
    BY <1>1
  <2>2. 1 \in 1..Len(q)
    BY <1>1
  <2> HIDE DEF StartQ, StartT
  <2> QED  BY <2>1, <2>2, <1>5, <1>6
<1>10. WillBeat(t, ts2, i) <=> (\E k \in 1..Len(t) : StartT(k)) \/ (ts2[i].active /\ NoneT)
  BY Zenon DEF WillBeat
<1>11. WillBeat(q, ts, i) <=> \/ \E k \in 1..Len(q) : StartQ(k)
                              \/ ts[i].active /\ \A l \in 1..Len(q) : q[l].timer # i
  BY Zenon DEF WillBeat
<1> HIDE DEF StartQ, StartT, NoneT
<1>12. CASE q[1].timer = i
  BY <1>3, <1>7, <1>8, <1>9, <1>10, <1>11, <1>12, Zenon DEF t
<1>13. CASE q[1].timer # i
  BY <1>3, <1>7, <1>8, <1>9, <1>10, <1>11, <1>13, Zenon DEF t
<1> QED  BY <1>12, <1>13

\* A timer that is created will beat if it is a heartbeat that could be started;
\* what becomes of the others stays the same.
LEMMA NewTimerBeats ==
  ASSUME TypeOK, NEW kind \in {"heartbeat", "restart"}, NEW made \in BOOLEAN,
         NEW started \in BOOLEAN, NewTimer(kind, made, started),
         NEW n, n = Len(timers) + 1
  PROVE  /\ Timers' = (IF made THEN Timers \cup {n} ELSE Timers) /\ n \notin Timers
         /\ \A i \in Timers : Heart(timers', i) <=> Heart(timers, i)
         /\ made => (Heart(timers', n) <=> kind = "heartbeat")
         /\ Beats' = (IF started /\ kind = "heartbeat" THEN Beats \cup {n} ELSE Beats)
         /\ \A k \in 1..Len(cmds') :
               \/ k \in 1..Len(cmds) /\ cmds'[k] = cmds[k]
               \/ cmds'[k].cmd = "start"
         /\ started => made
<1>s. /\ timers \in Seq(TimerType) /\ Len(timers) \in Nat
      /\ cmds \in Seq(CmdType(Len(timers))) /\ Len(cmds) \in Nat
  BY Sizes
<1>0. n \notin Timers /\ n \in Nat
  BY <1>s DEF Timers
<1>1. CASE ~made
  <2>1. ~started /\ timers' = timers /\ cmds' = cmds
    BY <1>1, Zenon DEF NewTimer, timerVars
  <2>2. Timers' = Timers /\ Beats' = Beats
    BY <2>1 DEF Timers, Beats
  <2> QED  BY <1>0, <1>1, <2>1, <2>2 DEF Heart
<1>2. CASE made
  <2> DEFINE t == [kind |-> kind, active |-> FALSE]
             c == [cmd |-> "start", timer |-> n]
  <2>1. /\ timers' = Append(timers, t)
        /\ cmds' = IF started THEN Append(cmds, c) ELSE cmds
    BY <1>2, Zenon DEF NewTimer
  <2>2. t \in TimerType /\ t.kind = kind /\ t.active = FALSE
    BY DEF TimerType
  <2>3. c \in CmdType(n) /\ c.timer = n /\ c.cmd = "start"
    BY <1>s DEF CmdType
  <2>4. cmds \in Seq(CmdType(n)) /\ \A k \in 1..Len(cmds) : cmds[k].timer # n
    <3>1. CmdType(Len(timers)) \subseteq CmdType(n)
      BY <1>s DEF CmdType
    <3>2. ASSUME NEW k \in 1..Len(cmds) PROVE cmds[k].timer # n
      <4>1. cmds[k] \in CmdType(Len(timers))
        BY <1>s
      <4> QED  BY <4>1, <1>s DEF CmdType
    <3> QED  BY <3>1, <3>2, <1>s
  <2> HIDE DEF t, c
  <2>5. /\ Len(timers') = n /\ timers'[n] = t
        /\ \A i \in Timers : timers'[i] = timers[i]
    BY <2>1, <2>2, <1>s DEF Timers
  <2>6. Timers' = Timers \cup {n}
    BY <2>5, <1>s DEF Timers
  <2>7. \A k \in 1..Len(cmds') : \/ k \in 1..Len(cmds) /\ cmds'[k] = cmds[k]
                                 \/ cmds'[k].cmd = "start"
    <3>1. CASE started
      BY <3>1, <2>1, <2>3, <1>s
    <3>2. CASE ~started
      BY <3>2, <2>1
    <3> QED  BY <3>1, <3>2
  <2>8. ASSUME NEW i \in Timers PROVE WillBeat(cmds', timers', i) <=> WillBeat(cmds, timers, i)
    <3>1. WillBeat(cmds', timers', i) <=> WillBeat(cmds', timers, i)
      BY <2>5 DEF WillBeat
    <3>2. CASE started
      <4>1. c.timer # i /\ cmds' = Append(cmds, c)
        BY <3>2, <1>0, <2>1, <2>3
      <4> QED  BY <3>1, <4>1, <2>3, <2>4, <1>0, WillAppend
    <3>3. CASE ~started
      BY <3>1, <3>3, <2>1
    <3> QED  BY <3>2, <3>3
  <2>9. WillBeat(cmds', timers', n) <=> started
    <3>1. CASE started
      <4>1. cmds' = Append(cmds, c)
        BY <3>1, <2>1
      <4> QED  BY <3>1, <4>1, <2>3, <2>4, <1>0, WillAppend
    <3>2. CASE ~started
      <4>1. cmds' = cmds /\ ~timers'[n].active
        BY <3>2, <2>1, <2>2, <2>5
      <4> QED  BY <3>2, <4>1, <2>4 DEF WillBeat
    <3> QED  BY <3>1, <3>2
  <2>10. \A i \in Timers : Heart(timers', i) <=> Heart(timers, i)
    BY <2>5 DEF Heart
  <2>11. Heart(timers', n) <=> kind = "heartbeat"
    BY <2>2, <2>5 DEF Heart
  <2>12. Beats' = (IF started /\ kind = "heartbeat" THEN Beats \cup {n} ELSE Beats)
    <3>1. Beats' = {i \in Timers \cup {n} : Heart(timers', i) /\ WillBeat(cmds', timers', i)}
      BY <2>6 DEF Beats
    <3> QED  BY <3>1, <2>8, <2>9, <2>10, <2>11 DEF Beats
  <2> QED  BY <1>0, <1>2, <2>6, <2>7, <2>10, <2>11, <2>12
<1> QED  BY <1>1, <1>2

\* A heartbeat that is sent a command to stop or to be deleted will not beat.
LEMMA SendBeats ==
  ASSUME TypeOK, NEW k \in {"stop", "delete"}, NEW h \in Timers, Send(k, h), UNCHANGED timers
  PROVE  Beats' = Beats \ {h}
<1> DEFINE c == [cmd |-> k, timer |-> h]
<1>s. timers \in Seq(TimerType) /\ Len(timers) \in Nat /\ cmds \in Seq(CmdType(Len(timers)))
  BY Sizes
<1>1. c \in CmdType(Len(timers)) /\ c.timer = h /\ c.cmd # "start"
  BY DEF CmdType, Timers
<1>2. cmds' = Append(cmds, c)
  BY DEF Send
<1> HIDE DEF c
<1>3. ASSUME NEW i \in Timers
      PROVE  WillBeat(cmds', timers, i) <=> i # h /\ WillBeat(cmds, timers, i)
  BY <1>s, <1>1, <1>2, WillAppend
<1> QED  BY <1>3 DEF Beats, Timers, Heart

\* Of some commands one is the last.
LEMMA LastOfSome ==
  ASSUME NEW n \in Nat, NEW A \in SUBSET (1..n), A # {}
  PROVE  \E m \in A : \A l \in A : l <= m
<1> DEFINE B == {n - k : k \in A}
           R == {p \in Nat \X Nat : p[1] < p[2]}
<1>1. IsWellFoundedOn(R, Nat)
  <2>1. R = OpToRel(LAMBDA i, j : i < j, Nat)
    BY DEF OpToRel
  <2> QED  BY <2>1, NatLessThanWellFounded
<1>2. B \subseteq Nat /\ B # {}
  <2>1. \A k \in A : n - k \in Nat
    OBVIOUS
  <2> QED  BY <2>1
<1>3. PICK b \in B : \A y \in B : ~(<<y, b>> \in R)
  <2> HIDE DEF B, R
  <2> QED  BY <1>1, <1>2, WFMin
<1>4. PICK m \in A : b = n - m
  OBVIOUS
<1>5. ASSUME NEW l \in A PROVE l <= m
  <2>1. n - l \in B
    OBVIOUS
  <2>2. ~(<<n - l, n - m>> \in R)
    BY <2>1, <1>3, <1>4
  <2> QED  BY <2>2, <1>2
<1> QED
  BY <1>4, <1>5

LEMMA HbStep == TypeOK /\ HandleKept /\ HbInv /\ [Next]_vars => HbInv'
<1> SUFFICES ASSUME TypeOK, HandleKept, HbInv, [Next]_vars PROVE HbInv'
  OBVIOUS
<1> DEFINE h == handle_heartbeat_task
<1>s. /\ timers \in Seq(TimerType) /\ Len(timers) \in Nat
      /\ cmds \in Seq(CmdType(Len(timers))) /\ Len(cmds) \in Nat
  BY Sizes
<1>h. h \in {0} \cup Timers /\ 0 \notin Timers /\ unstopped \subseteq Timers /\ wanted \in BOOLEAN
  BY DEF TypeOK, Timers
<1>i. /\ rpc.pc = "delete" => Beats = unstopped \ {h}
      /\ rpc.pc # "delete" => Beats = Asked \cup unstopped
      /\ rpc.pc \in {"delete", "stopped"} => ~wanted
      /\ h # 0 => Heart(timers, h)
      /\ rpc.pc # "delete" =>
           \A k \in 1..Len(cmds) : cmds[k].timer = h => cmds[k].cmd = "start"
  BY DEF HbInv
<1>p. /\ Idle.pc = "idle" /\ \A op, pc : At(op, pc).pc = pc /\ At(op, pc).op = op
  BY DEF Idle, At
\* Steps that leave the heartbeat and the timers alone.
<1>1. ASSUME UNCHANGED <<hbVars, timerVars>>,
             \/ UNCHANGED rpc
             \/ rpc'.pc \notin {"delete", "stopped"} /\ rpc.pc # "delete"
      PROVE  HbInv'
  <2>1. UNCHANGED <<handle_heartbeat_task, wanted, unstopped, timers, cmds>>
    BY <1>1 DEF hbVars, timerVars
  <2>2. Beats' = Beats /\ Asked' = Asked
    BY <2>1 DEF Beats, Asked, Timers
  <2>3. /\ rpc'.pc = "delete" <=> rpc.pc = "delete"
        /\ rpc'.pc \in {"delete", "stopped"} => rpc.pc \in {"delete", "stopped"}
    BY <1>1
  <2> QED  BY <1>i, <2>1, <2>2, <2>3 DEF HbInv
<1>2. CASE HostRequest \/ OtherEvent \/ Beat \/ BeatPost \/ Restart
  <2>1. UNCHANGED <<hbVars, timerVars>> /\ UNCHANGED rpc
    BY <1>2 DEF HostRequest, OtherEvent, Beat, BeatPost, Restart
  <2> QED  BY <1>1, <2>1
<1>3. CASE TakeMsg
  <2>1. rpc.pc = "idle" /\ (rpc'.pc = "idle" \/ rpc'.pc = "called")
    BY <1>3, <1>p DEF TakeMsg
  <2> QED  BY <1>1, <1>3, <2>1 DEF TakeMsg
<1>4. CASE OtaErase \/ OtaBegun \/ OtaWrite \/ OtaEnd \/ OtaActivate
  <2>1. rpc.pc \in {"called", "erased"}
    BY <1>4, <1>p DEF OtaErase, OtaBegun, OtaWrite, OtaEnd, OtaActivate
  <2>2. rpc'.pc \in {"idle", "erased", "bootSet"}
    <3>1. rpc' = Idle \/ rpc' = At("otaBegin", "erased") \/ rpc' = At("otaActivate", "bootSet")
      BY <1>4, Zenon DEF OtaErase, OtaBegun, OtaWrite, OtaEnd, OtaActivate
    <3> QED  BY <3>1, <1>p
  <2>3. UNCHANGED <<hbVars, timerVars>>
    BY <1>4 DEF OtaErase, OtaBegun, OtaWrite, OtaEnd, OtaActivate
  <2> QED  BY <1>1, <2>1, <2>2, <2>3
<1>5. CASE OtaSchedule
  <2>1. PICK made \in BOOLEAN, started \in BOOLEAN : NewTimer("restart", made, started)
    BY <1>5 DEF OtaSchedule
  <2>2. /\ Timers \subseteq Timers' /\ \A i \in Timers : Heart(timers', i) <=> Heart(timers, i)
        /\ Beats' = Beats
        /\ \A k \in 1..Len(cmds') : \/ k \in 1..Len(cmds) /\ cmds'[k] = cmds[k]
                                    \/ cmds'[k].cmd = "start"
    BY <2>1, NewTimerBeats
  <2>3. /\ UNCHANGED <<handle_heartbeat_task, wanted, unstopped>>
        /\ rpc.pc = "bootSet" /\ rpc'.pc = "idle"
    BY <1>5, <1>p DEF OtaSchedule, hbVars
  <2>4. Asked' = Asked
    BY <2>3 DEF Asked
  <2> QED  BY <1>i, <1>h, <2>2, <2>3, <2>4 DEF HbInv
<1>6. CASE HbLeave
  <2>1. /\ ~HandleActive /\ UNCHANGED <<handle_heartbeat_task, timers, cmds>> /\ rpc.pc = "called"
        /\ unstopped' = IF StartPending(h) THEN unstopped \cup {h} ELSE unstopped
    BY <1>6 DEF HbLeave, Called, timerVars
  <2>2. ~wanted'
    BY <1>6, Zenon DEF HbLeave
  <2>3. rpc'.pc \in {"idle", "stopped"}
    BY <1>6, <1>p DEF HbLeave, Stopped
  <2>4. ASSUME StartPending(h)
        PROVE  h \in Timers /\ WillBeat(cmds, timers, h)
    <3> DEFINE K == {k \in 1..Len(cmds) : cmds[k].timer = h}
    <3>1. PICK k \in 1..Len(cmds) : cmds[k] = [cmd |-> "start", timer |-> h]
      BY <2>4 DEF StartPending
    <3>2. cmds[k] \in CmdType(Len(timers))
      BY <1>s
    <3>3. h \in Timers
      BY <3>1, <3>2 DEF CmdType, Timers
    <3>4. k \in K
      BY <3>1
    <3>5. PICK m \in K : \A l \in K : l <= m
      <4>1. K \subseteq 1..Len(cmds) /\ K # {}
        BY <3>4
      <4>2. \A A \in SUBSET (1..Len(cmds)) : A # {} => \E m \in A : \A l \in A : l <= m
        BY <1>s, LastOfSome
      <4> QED  BY <4>1, <4>2
    <3>6. cmds[m].timer = h /\ cmds[m].cmd = "start" /\ m \in 1..Len(cmds)
      BY <3>5, <2>1, <1>i
    <3>7. \A l \in (m + 1)..Len(cmds) : cmds[l].timer # h
      BY <3>5, <3>6, <1>s
    <3> QED  BY <3>3, <3>6, <3>7 DEF WillBeat
  <2>5. ASSUME ~StartPending(h), h \in Timers PROVE ~WillBeat(cmds, timers, h)
    <3>1. ~timers[h].active
      BY <2>1, <2>5 DEF HandleActive
    <3>2. ASSUME NEW k \in 1..Len(cmds), cmds[k].timer = h PROVE FALSE
      <4>1. cmds[k] \in CmdType(Len(timers)) /\ cmds[k].cmd = "start"
        BY <3>2, <2>1, <1>i, <1>s
      <4>2. cmds[k] = [cmd |-> "start", timer |-> h]
        BY <4>1, <3>2 DEF CmdType
      <4> QED  BY <4>2, <2>5 DEF StartPending
    <3> QED  BY <3>1, <3>2 DEF WillBeat
  <2>6. Beats' = Beats
    BY <2>1 DEF Beats, Timers
  <2>7. Beats = Asked \cup unstopped /\ (wanted => h \in Beats)
    BY <1>i, <2>1 DEF Asked
  <2>8. Beats = unstopped'
    <3>1. CASE StartPending(h)
      <4>1. h \in Beats
        BY <3>1, <2>4, <1>i, <1>h DEF Beats
      <4> QED  BY <4>1, <3>1, <2>1, <2>7 DEF Asked
    <3>2. CASE ~StartPending(h)
      <4>1. h \notin Beats
        BY <3>2, <2>5 DEF Beats
      <4> QED  BY <4>1, <3>2, <2>1, <2>7 DEF Asked
    <3> QED  BY <3>1, <3>2
  <2>9. Asked' = {}
    BY <2>2 DEF Asked
  <2> QED  BY <1>i, <2>1, <2>2, <2>3, <2>6, <2>8, <2>9 DEF HbInv, Heart
<1>7. CASE HbStop
  <2>1. /\ h \in Timers /\ Send("stop", h) /\ UNCHANGED <<handle_heartbeat_task, unstopped, timers>>
        /\ rpc.pc = "called"
    BY <1>7 DEF HbStop, HandleActive, Called
  <2>2. rpc'.pc = "delete"
    BY <1>7, <1>p DEF HbStop
  <2>3. ~wanted'
    BY <1>7, Zenon DEF HbStop
  <2>4. Beats' = Beats \ {h}
    BY <2>1, SendBeats
  <2>5. Beats' = unstopped \ {h}
    BY <2>1, <2>4, <1>i DEF Asked
  <2> QED  BY <1>i, <2>1, <2>2, <2>3, <2>5 DEF HbInv, Heart
<1>8. CASE HbDelete
  <2>1. /\ rpc.pc = "delete" /\ Send("delete", h) /\ UNCHANGED <<wanted, timers>>
        /\ handle_heartbeat_task' = 0 /\ unstopped' = unstopped \ {h}
    BY <1>8 DEF HbDelete
  <2>2. rpc'.pc \in {"idle", "stopped"}
    BY <1>8, <1>p DEF HbDelete, Stopped
  <2>3. h \in Timers
    BY <1>h, <2>1 DEF HandleKept
  <2>4. Beats' = Beats \ {h}
    BY <2>1, <2>3, SendBeats
  <2>5. ~wanted' /\ Asked' = {}
    BY <1>i, <2>1 DEF Asked
  <2>6. Beats' = unstopped'
    BY <1>i, <2>1, <2>4
  <2>7. \A k \in 1..Len(cmds') : cmds'[k].timer # 0
    <3>1. TimersOK'
      BY TypeStep, Types DEF TypeOK, TimersOK, Timers, TimerType, CmdType
    <3>2. ASSUME NEW k \in 1..Len(cmds') PROVE cmds'[k].timer # 0
      <4>1. cmds'[k] \in CmdType(Len(timers'))
        BY <3>1 DEF TimersOK
      <4>2. Len(timers') \in Nat
        BY <2>1, <1>s
      <4> QED  BY <4>1, <4>2 DEF CmdType
    <3> QED  BY <3>2
  <2> QED  BY <2>1, <2>2, <2>5, <2>6, <2>7 DEF HbInv
<1>9. CASE HbStart
  <2>1. PICK made \in BOOLEAN, started \in BOOLEAN :
          /\ NewTimer("heartbeat", made, started)
          /\ handle_heartbeat_task' = IF made THEN Len(timers) + 1 ELSE 0
          /\ wanted' = started
    BY <1>9 DEF HbStart
  <2> DEFINE n == Len(timers) + 1
  <2>2. /\ n \notin Timers
        /\ made => Heart(timers', n)
        /\ Beats' = IF started THEN Beats \cup {n} ELSE Beats
        /\ \A k \in 1..Len(cmds') : \/ k \in 1..Len(cmds) /\ cmds'[k] = cmds[k]
                                    \/ cmds'[k].cmd = "start"
        /\ started => made
    BY <2>1, NewTimerBeats
  <2>3. rpc.pc = "stopped" /\ rpc'.pc = "idle" /\ UNCHANGED unstopped
    BY <1>9, <1>p DEF HbStart
  <2>4. Beats = unstopped
    BY <1>i, <2>3 DEF Asked
  <2>5. Asked' = IF started THEN {n} ELSE {}
    BY <2>1, <2>2 DEF Asked
  <2>6. Beats' = Asked' \cup unstopped'
    BY <2>2, <2>3, <2>4, <2>5
  <2>7. handle_heartbeat_task' # 0 => Heart(timers', handle_heartbeat_task')
    BY <2>1, <2>2
  <2>8. ASSUME NEW k \in 1..Len(cmds'), cmds'[k].timer = handle_heartbeat_task'
        PROVE  cmds'[k].cmd = "start"
    <3> SUFFICES ASSUME k \in 1..Len(cmds), cmds'[k] = cmds[k] PROVE FALSE
      BY <2>2
    <3>1. cmds[k] \in CmdType(Len(timers))
      BY <1>s
    <3>2. cmds[k].timer # n /\ cmds[k].timer # 0
      BY <3>1, <1>s DEF CmdType
    <3> QED  BY <3>2, <2>1, <2>8
  <2> QED  BY <2>3, <2>6, <2>7, <2>8 DEF HbInv
<1>10. CASE Command
  <2>1. /\ cmds # <<>> /\ cmds' = Tail(cmds)
        /\ timers' = [timers EXCEPT ![Head(cmds).timer].active = (Head(cmds).cmd = "start")]
        /\ UNCHANGED <<handle_heartbeat_task, wanted, unstopped, rpc>>
    BY <1>10 DEF Command, hbVars
  <2>2. Head(cmds) \in CmdType(Len(timers))
    BY <2>1, <1>s
  <2>3. Len(timers') = Len(timers) /\ \A i \in Timers : Heart(timers', i) <=> Heart(timers, i)
    <3>0. Head(cmds).timer \in 1..Len(timers)
      BY <2>2 DEF CmdType
    <3>1. Len(timers') = Len(timers)
      BY <2>1, <3>0, <1>s
    <3>2. ASSUME NEW i \in Timers PROVE timers'[i].kind = timers[i].kind
      BY <2>1, <3>0, <3>2, <1>s DEF Timers, TimerType
    <3> QED  BY <3>1, <3>2 DEF Heart
  <2>4. \A i \in Timers : WillBeat(cmds', timers', i) <=> WillBeat(cmds, timers, i)
    BY <2>1, <1>s, WillTail DEF Timers
  <2>5. Beats' = Beats
    BY <2>3, <2>4 DEF Beats, Timers
  <2>6. Asked' = Asked
    BY <2>1 DEF Asked
  <2>7. \A k \in 1..Len(cmds') : k + 1 \in 1..Len(cmds) /\ cmds'[k] = cmds[k + 1]
    BY <2>1, <1>s
  <2> QED  BY <1>i, <1>h, <2>1, <2>3, <2>5, <2>6, <2>7 DEF HbInv
<1>11. CASE UNCHANGED vars
  <2>1. UNCHANGED <<hbVars, timerVars>> /\ UNCHANGED rpc
    BY <1>11 DEF vars
  <2> QED  BY <1>1, <2>1
<1> QED
  BY <1>2, <1>3, <1>4, <1>5, <1>6, <1>7, <1>8, <1>9, <1>10, <1>11
     DEF Next, PserialTask, TimerTask

LEMMA HbInit == Init => HbInv
<1> SUFFICES ASSUME Init PROVE HbInv
  OBVIOUS
<1>1. /\ Timers = {} /\ cmds = <<>> /\ handle_heartbeat_task = 0 /\ ~wanted /\ unstopped = {}
      /\ rpc.pc = "idle"
  BY DEF Init, Timers, Idle, At
<1> QED  BY <1>1 DEF HbInv, Beats, Asked

\* Once its commands are executed the heartbeat that runs is the one last asked
\* for, but for those whose start was still pending when another was asked for.
THEOREM HeartbeatCorrect == Spec => []HeartbeatAsAsked
<1>1. HbInv => HeartbeatAsAsked
  <2> SUFFICES ASSUME HbInv, rpc = Idle, cmds = <<>> PROVE Beating = Asked \cup unstopped
    BY DEF HeartbeatAsAsked
  <2>1. rpc.pc # "delete"
    BY DEF Idle, At
  <2>2. \A i \in Timers : WillBeat(cmds, timers, i) <=> timers[i].active
    BY DEF WillBeat
  <2>3. Beats = Beating
    BY <2>2 DEF Beats, Beating, Heart
  <2> QED  BY <2>1, <2>3 DEF HbInv
<1> QED  BY <1>1, HbInit, HbStep, HandleCorrect, PTL DEF Spec
-----------------------------------------------------------------------------
(***************************************************************************)
(* What is left when everything has come to rest: the safety part of       *)
(* RequestsReturn and of UpdateRestarts.                                   *)
(***************************************************************************)
\* pserial_task waits for room among the commands, in xTimerStop or
\* xTimerDelete.
WaitsForRoom == /\ Len(cmds) = CmdqSize
                /\ rpc.pc = "delete" \/ (Called /\ HandleActive)

\* Neither task can move.
AtRest ==
  /\ ~restarted
  /\ (rpc = Idle /\ req_queue = <<>>) \/ WaitsForRoom
  /\ daemon # 0 => Len(req_queue) = ReqqSize
  /\ daemon = 0 => /\ cmds = <<>>
                   /\ \A i \in Timers : ~(timers[i].kind = "restart" /\ timers[i].active)

Kind(k) == timers[cmds[k].timer].kind

\* Only heartbeats are stopped and deleted. Behind the start of the heartbeat,
\* and once it is active, there are only restarts among the commands, and the
\* command to stop it while pserial_task is to delete it.
CmdsInv ==
  /\ \A k \in 1..Len(cmds) : cmds[k].cmd # "start" => Kind(k) = "heartbeat"
  /\ rpc.pc = "delete" \/ HandleActive =>
       \A k \in 1..Len(cmds) : Kind(k) = "restart" \/ (rpc.pc = "delete" /\ k = Len(cmds))
  /\ \A j, k \in 1..Len(cmds) :
       j < k /\ cmds[j] = [cmd |-> "start", timer |-> handle_heartbeat_task] => Kind(k) = "restart"

RestartComes(i) == timers[i].kind = "restart" /\ (timers[i].active \/ StartPending(i))

\* Once the boot partition is set the restart is scheduled, if it can be.
RestartDue ==
  /\ ota_status = "ACTIVATED" => boot = "new"
  /\ boot = "new" => \/ abandoned \/ rpc = At("otaActivate", "bootSet")
                     \/ \E i \in Timers : RestartComes(i)

\* The one way in which the two tasks wait for one another: the commands are
\* all, but for one place, restarts that wait for the heartbeat to be posted.
HeldByHeartbeat ==
  /\ daemon # 0 /\ Len(req_queue) = ReqqSize
  /\ WaitsForRoom
  /\ \A k \in 1..(CmdqSize - 1) : cmds[k].cmd = "start" /\ Kind(k) = "restart"

\* The tasks come to rest only with the request handled and no update waiting
\* for its restart, unless that many restarts were scheduled during one beat.
RestsWhenDone ==
  AtRest => \/ HeldByHeartbeat
            \/ rpc = Idle /\ (ota_status = "ACTIVATED" \/ boot = "new" => abandoned)

\* What NewTimer does, in the three ways it can end.
LEMMA NewTimerCases ==
  ASSUME NEW kind, NEW made, NEW started, NewTimer(kind, made, started)
  PROVE  \/ ~made /\ ~started /\ UNCHANGED <<timers, cmds>>
         \/ /\ made /\ timers' = Append(timers, [kind |-> kind, active |-> FALSE])
            /\ \/ ~started /\ UNCHANGED cmds
               \/ /\ started
                  /\ cmds' = Append(cmds, [cmd |-> "start", timer |-> Len(timers) + 1])
BY Zenon DEF NewTimer, timerVars

\* A timer that is created changes no other, and its start, when there is one,
\* is the last of the commands.
LEMMA NewTimerCmds ==
  ASSUME TypeOK, NEW kind \in {"heartbeat", "restart"}, NEW made \in BOOLEAN,
         NEW started \in BOOLEAN, NewTimer(kind, made, started)
  PROVE  /\ Timers \subseteq Timers' /\ \A i \in Timers : timers'[i] = timers[i]
         /\ Len(cmds') \in Nat /\ 1..Len(cmds) \subseteq 1..Len(cmds')
         /\ \A k \in 1..Len(cmds) : cmds'[k] = cmds[k] /\ cmds[k].timer \in Timers
         /\ \A k \in 1..Len(cmds') : k \notin 1..Len(cmds) =>
              /\ k = Len(cmds') /\ k = Len(cmds) + 1
              /\ cmds'[k] = [cmd |-> "start", timer |-> Len(timers) + 1]
              /\ timers'[Len(timers) + 1].kind = kind
         /\ made => /\ Len(timers) + 1 \in Timers'
                    /\ timers'[Len(timers) + 1] = [kind |-> kind, active |-> FALSE]
         /\ started => made /\ Len(cmds') = Len(cmds) + 1
<1>0. /\ timers \in Seq(TimerType) /\ Len(timers) \in Nat
      /\ cmds \in Seq(CmdType(Len(timers))) /\ Len(cmds) \in Nat
  BY Sizes
<1>1. \A k \in 1..Len(cmds) : cmds[k].timer \in Timers
  <2> TAKE k \in 1..Len(cmds)
  <2>1. cmds[k] \in CmdType(Len(timers))
    BY <1>0
  <2> QED  BY <2>1 DEF CmdType, Timers
<1>2. CASE ~made /\ ~started /\ UNCHANGED <<timers, cmds>>
  BY <1>0, <1>1, <1>2 DEF Timers
<1>3. CASE made /\ timers' = Append(timers, [kind |-> kind, active |-> FALSE])
  <2>1. /\ Len(timers') = Len(timers) + 1 /\ \A i \in 1..Len(timers) : timers'[i] = timers[i]
        /\ timers'[Len(timers) + 1] = [kind |-> kind, active |-> FALSE]
    BY <1>0, <1>3
  <2>2. CASE ~started /\ UNCHANGED cmds
    BY <1>0, <1>1, <1>3, <2>1, <2>2 DEF Timers
  <2>3. CASE started /\ cmds' = Append(cmds, [cmd |-> "start", timer |-> Len(timers) + 1])
    <3>1. /\ Len(cmds') = Len(cmds) + 1 /\ \A k \in 1..Len(cmds) : cmds'[k] = cmds[k]
          /\ cmds'[Len(cmds) + 1] = [cmd |-> "start", timer |-> Len(timers) + 1]
      BY <1>0, <2>3
    <3> QED  BY <1>0, <1>1, <1>3, <2>1, <2>3, <3>1 DEF Timers
  <2> QED  BY <1>3, <2>2, <2>3, NewTimerCases
<1> QED  BY <1>2, <1>3, NewTimerCases

\* A command that is sent is the last.
LEMMA SendCmds ==
  ASSUME TypeOK, NEW c, NEW i, Send(c, i)
  PROVE  /\ Len(cmds') = Len(cmds) + 1 /\ Len(cmds) \in Nat
         /\ \A k \in 1..Len(cmds) : cmds'[k] = cmds[k]
         /\ cmds'[Len(cmds) + 1] = [cmd |-> c, timer |-> i]
<1>1. cmds \in Seq({cmds[k] : k \in 1..Len(cmds)} \cup {[cmd |-> c, timer |-> i]})
  BY Sizes
<1> QED  BY <1>1, Sizes DEF Send

LEMMA CmdsInit == Init => CmdsInv /\ RestartDue
<1> SUFFICES ASSUME Init PROVE CmdsInv /\ RestartDue
  OBVIOUS
<1>1. cmds = <<>> /\ 1..Len(cmds) = {}
  BY DEF Init
<1>2. CmdsInv
  BY <1>1 DEF CmdsInv
<1>3. ota_status = "NOT_STARTED" /\ boot = "old"
  BY DEF Init
<1> QED  BY <1>2, <1>3 DEF RestartDue

LEMMA CmdsStep == TypeOK /\ HandleKept /\ HbInv /\ CmdsInv /\ [Next]_vars => CmdsInv'
<1> SUFFICES ASSUME TypeOK, HandleKept, HbInv, CmdsInv, [Next]_vars PROVE CmdsInv'
  OBVIOUS
<1> DEFINE h == handle_heartbeat_task
<1>s. /\ timers \in Seq(TimerType) /\ Len(timers) \in Nat
      /\ cmds \in Seq(CmdType(Len(timers))) /\ Len(cmds) \in Nat
  BY Sizes
<1>t. \A k \in 1..Len(cmds) : cmds[k] \in CmdType(Len(timers)) /\ cmds[k].timer \in Timers
  <2> TAKE k \in 1..Len(cmds)
  <2>1. cmds[k] \in CmdType(Len(timers))
    BY <1>s
  <2> QED  BY <2>1 DEF CmdType, Timers
<1>h. /\ h \in {0} \cup Timers /\ 0 \notin Timers /\ Len(timers) + 1 \notin Timers
      /\ h # 0 => timers[h].kind = "heartbeat"
  BY <1>s DEF TypeOK, Timers, HbInv, Heart
<1>i. /\ \A k \in 1..Len(cmds) : cmds[k].cmd # "start" => Kind(k) = "heartbeat"
      /\ rpc.pc = "delete" \/ HandleActive =>
           \A k \in 1..Len(cmds) : Kind(k) = "restart" \/ (rpc.pc = "delete" /\ k = Len(cmds))
      /\ \A j, k \in 1..Len(cmds) :
           j < k /\ cmds[j] = [cmd |-> "start", timer |-> h] => Kind(k) = "restart"
  BY DEF CmdsInv
<1>p. /\ Idle.pc = "idle" /\ \A op, pc : At(op, pc).pc = pc
      /\ Stopped.pc \in {"idle", "stopped"}
  BY DEF Idle, At, Stopped
<1>c. "heartbeat" # "restart" /\ "start" # "stop" /\ "start" # "delete"
  OBVIOUS
\* Steps that leave the heartbeat and the timers alone.
<1>1. ASSUME UNCHANGED <<handle_heartbeat_task, timers, cmds>>,
             rpc'.pc = rpc.pc \/ (rpc'.pc # "delete" /\ rpc.pc # "delete")
      PROVE  CmdsInv'
  <2>1. HandleActive' <=> HandleActive
    BY <1>1 DEF HandleActive, Timers
  <2>2. \A k : Kind(k)' = Kind(k)
    BY <1>1 DEF Kind
  <2>3. rpc'.pc = "delete" <=> rpc.pc = "delete"
    BY <1>1
  <2> QED  BY <1>1, <1>i, <2>1, <2>2, <2>3 DEF CmdsInv
<1>2. CASE HostRequest \/ OtherEvent \/ Beat \/ BeatPost \/ Restart \/ UNCHANGED vars
  <2>1. UNCHANGED hbVars /\ UNCHANGED timerVars /\ UNCHANGED rpc
    BY <1>2 DEF HostRequest, OtherEvent, Beat, BeatPost, Restart, vars
  <2>2. UNCHANGED <<handle_heartbeat_task, timers, cmds>> /\ rpc'.pc = rpc.pc
    BY <2>1 DEF hbVars, timerVars
  <2> QED  BY <1>1, <2>2
<1>3. CASE TakeMsg
  <2>1. rpc.pc = "idle" /\ (rpc'.pc = "idle" \/ rpc'.pc = "called")
    BY <1>3, <1>p DEF TakeMsg
  <2> QED  BY <1>1, <1>3, <2>1 DEF TakeMsg, hbVars, timerVars
<1>4. CASE OtaErase \/ OtaBegun \/ OtaWrite \/ OtaEnd \/ OtaActivate
  <2>1. rpc.pc \in {"called", "erased"}
    BY <1>4, <1>p DEF OtaErase, OtaBegun, OtaWrite, OtaEnd, OtaActivate
  <2>2. rpc'.pc \in {"idle", "erased", "bootSet"}
    <3>1. rpc' = Idle \/ rpc' = At("otaBegin", "erased") \/ rpc' = At("otaActivate", "bootSet")
      BY <1>4, Zenon DEF OtaErase, OtaBegun, OtaWrite, OtaEnd, OtaActivate
    <3> QED  BY <3>1, <1>p
  <2>3. UNCHANGED <<hbVars, timerVars>>
    BY <1>4 DEF OtaErase, OtaBegun, OtaWrite, OtaEnd, OtaActivate
  <2> QED  BY <1>1, <2>1, <2>2, <2>3 DEF hbVars, timerVars
\* A new timer is not the one of the handle, or nothing comes behind its start.
<1>n. ASSUME NEW kind \in {"heartbeat", "restart"}, NEW made \in BOOLEAN,
             NEW started \in BOOLEAN, NewTimer(kind, made, started),
             rpc.pc # "delete" /\ rpc'.pc # "delete",
             \/ kind = "restart" /\ UNCHANGED handle_heartbeat_task
             \/ kind = "heartbeat" /\ handle_heartbeat_task' = IF made THEN Len(timers) + 1 ELSE 0
      PROVE  CmdsInv'
  <2> DEFINE n == Len(timers) + 1
  <2>1. /\ Timers \subseteq Timers' /\ \A i \in Timers : timers'[i] = timers[i]
        /\ Len(cmds') \in Nat /\ 1..Len(cmds) \subseteq 1..Len(cmds')
        /\ \A k \in 1..Len(cmds) : cmds'[k] = cmds[k] /\ cmds[k].timer \in Timers
        /\ \A k \in 1..Len(cmds') : k \notin 1..Len(cmds) =>
             /\ k = Len(cmds') /\ k = Len(cmds) + 1
             /\ cmds'[k] = [cmd |-> "start", timer |-> n]
             /\ timers'[n].kind = kind
        /\ made => n \in Timers' /\ timers'[n] = [kind |-> kind, active |-> FALSE]
    BY <1>n, NewTimerCmds
  <2>2. /\ \A k \in 1..Len(cmds) : Kind(k)' = Kind(k)
        /\ \A k \in 1..Len(cmds') : k \notin 1..Len(cmds) => Kind(k)' = kind
    BY <2>1 DEF Kind
  <2>3. HandleActive' => kind = "restart" /\ HandleActive
    <3>1. CASE kind = "restart" /\ UNCHANGED handle_heartbeat_task
      <4>1. HandleActive' => h \in Timers' /\ timers'[h].active
        BY <3>1 DEF HandleActive
      <4>2. h \in Timers' => h \in Timers
        BY <1>h DEF Timers
      <4> QED  BY <3>1, <2>1, <4>1, <4>2 DEF HandleActive
    <3>2. CASE kind = "heartbeat" /\ handle_heartbeat_task' = IF made THEN n ELSE 0
      <4>1. made => ~timers'[n].active
        BY <2>1
      <4>2. 0 \notin Timers'
        BY DEF Timers
      <4> QED  BY <3>2, <4>1, <4>2 DEF HandleActive
    <3> QED  BY <1>n, <3>1, <3>2
  <2>4. ASSUME NEW k \in 1..Len(cmds'), cmds'[k].cmd # "start" PROVE Kind(k)' = "heartbeat"
    <3>1. k \in 1..Len(cmds)
      BY <2>1, <2>4
    <3> QED  BY <1>i, <2>1, <2>2, <2>4, <3>1
  <2>5. ASSUME HandleActive', NEW k \in 1..Len(cmds') PROVE Kind(k)' = "restart"
    BY <1>i, <1>n, <2>2, <2>3, <2>5
  <2>6. ASSUME NEW j \in 1..Len(cmds'), NEW k \in 1..Len(cmds'), j < k,
               cmds'[j] = [cmd |-> "start", timer |-> handle_heartbeat_task']
        PROVE  Kind(k)' = "restart"
    <3>1. j \in 1..Len(cmds) /\ cmds'[j] = cmds[j] /\ cmds[j].timer \in Timers
      BY <1>s, <2>1, <2>6
    <3>2. cmds[j].timer = handle_heartbeat_task'
      BY <2>6, <3>1
    <3>3. kind = "restart" /\ UNCHANGED handle_heartbeat_task
      BY <1>n, <1>h, <3>1, <3>2
    <3> QED  BY <1>i, <2>2, <2>6, <3>1, <3>3
  <2> QED  BY <1>n, <2>4, <2>5, <2>6 DEF CmdsInv
<1>5. CASE OtaSchedule
  <2>1. PICK made \in BOOLEAN, started \in BOOLEAN : NewTimer("restart", made, started)
    BY <1>5 DEF OtaSchedule
  <2>2. UNCHANGED handle_heartbeat_task /\ rpc.pc = "bootSet" /\ rpc'.pc = "idle"
    BY <1>5, <1>p DEF OtaSchedule, hbVars
  <2> QED  BY <1>n, <2>1, <2>2
<1>6. CASE HbLeave
  <2>1. UNCHANGED <<handle_heartbeat_task, timers, cmds>> /\ rpc.pc = "called" /\ rpc' = Stopped
    BY <1>6 DEF HbLeave, Called, timerVars
  <2> QED  BY <1>1, <1>p, <2>1
<1>7. CASE HbStop
  <2>1. /\ HandleActive /\ Send("stop", h) /\ UNCHANGED <<handle_heartbeat_task, timers>>
        /\ rpc.pc = "called" /\ rpc'.pc = "delete"
    BY <1>7, <1>p DEF HbStop, Called
  <2>2. /\ Len(cmds') = Len(cmds) + 1 /\ \A k \in 1..Len(cmds) : cmds'[k] = cmds[k]
        /\ cmds'[Len(cmds) + 1] = [cmd |-> "stop", timer |-> h]
    BY <2>1, SendCmds
  <2>3. /\ \A k \in 1..Len(cmds) : Kind(k)' = "restart"
        /\ h \in Timers /\ timers'[h].kind = "heartbeat"
    <3>1. \A k \in 1..Len(cmds) : Kind(k) = "restart"
      BY <1>i, <2>1
    <3>2. h \in Timers /\ timers'[h].kind = "heartbeat"
      BY <1>h, <2>1 DEF HandleActive
    <3> QED  BY <2>1, <2>2, <3>1, <3>2 DEF Kind
  <2>4. \A k \in 1..Len(cmds') : k \in 1..Len(cmds) \/ k = Len(cmds) + 1
    BY <1>s, <2>2
  <2>5. \A k \in 1..Len(cmds') : cmds'[k].cmd # "start" => Kind(k)' = "heartbeat"
    <3> TAKE k \in 1..Len(cmds')
    <3>1. CASE k \in 1..Len(cmds)
      BY <3>1, <1>i, <2>1, <2>2 DEF Kind
    <3>2. CASE k = Len(cmds) + 1
      BY <3>2, <2>2, <2>3 DEF Kind
    <3> QED  BY <2>4, <3>1, <3>2
  <2>6. \A j, k \in 1..Len(cmds') :
          j < k /\ cmds'[j] = [cmd |-> "start", timer |-> h] => Kind(k)' = "restart"
    <3> SUFFICES ASSUME NEW j \in 1..Len(cmds'), NEW k \in 1..Len(cmds'), j < k,
                        cmds'[j] = [cmd |-> "start", timer |-> h]
                 PROVE  FALSE
      OBVIOUS
    <3>1. j \in 1..Len(cmds)
      BY <1>s, <2>2
    <3>2. cmds[j].timer = h
      BY <2>2, <3>1
    <3>3. Kind(j) = "restart"
      BY <1>i, <2>1, <3>1
    <3> QED  BY <1>h, <2>3, <3>2, <3>3 DEF Kind
  <2> QED  BY <2>1, <2>2, <2>3, <2>4, <2>5, <2>6 DEF CmdsInv
<1>8. CASE HbDelete
  <2>1. /\ rpc.pc = "delete" /\ Send("delete", h) /\ UNCHANGED timers
        /\ handle_heartbeat_task' = 0 /\ rpc'.pc # "delete"
    BY <1>8, <1>p DEF HbDelete
  <2>2. /\ Len(cmds') = Len(cmds) + 1 /\ \A k \in 1..Len(cmds) : cmds'[k] = cmds[k]
        /\ cmds'[Len(cmds) + 1] = [cmd |-> "delete", timer |-> h]
    BY <2>1, SendCmds
  <2>3. h \in Timers
    BY <1>h, <2>1 DEF HandleKept
  <2>4. ~HandleActive'
    BY <2>1 DEF HandleActive, Timers
  <2>5. \A k \in 1..Len(cmds') : k \in 1..Len(cmds) \/ k = Len(cmds) + 1
    BY <1>s, <2>2
  <2>6. \A k \in 1..Len(cmds') : cmds'[k].cmd # "start" => Kind(k)' = "heartbeat"
    <3> TAKE k \in 1..Len(cmds')
    <3>1. CASE k \in 1..Len(cmds)
      BY <3>1, <1>i, <2>1, <2>2 DEF Kind
    <3>2. CASE k = Len(cmds) + 1
      BY <3>2, <1>h, <2>1, <2>2, <2>3 DEF Kind
    <3> QED  BY <2>5, <3>1, <3>2
  <2>7. \A k \in 1..Len(cmds') : cmds'[k].timer # 0
    BY <1>h, <1>t, <2>2, <2>3, <2>5
  <2> QED  BY <2>1, <2>4, <2>6, <2>7 DEF CmdsInv
<1>9. CASE HbStart
  <2>1. PICK made \in BOOLEAN, started \in BOOLEAN :
          /\ NewTimer("heartbeat", made, started)
          /\ handle_heartbeat_task' = IF made THEN Len(timers) + 1 ELSE 0
    BY <1>9 DEF HbStart
  <2>2. rpc.pc = "stopped" /\ rpc'.pc = "idle"
    BY <1>9, <1>p DEF HbStart
  <2> QED  BY <1>n, <2>1, <2>2
<1>10. CASE Command
  <2>1. /\ cmds # <<>> /\ cmds' = Tail(cmds)
        /\ timers' = [timers EXCEPT ![Head(cmds).timer].active = (Head(cmds).cmd = "start")]
        /\ UNCHANGED <<handle_heartbeat_task, rpc>>
    BY <1>10 DEF Command, hbVars
  <2>2. /\ Len(cmds') = Len(cmds) - 1 /\ Len(cmds) >= 1 /\ Head(cmds) = cmds[1]
        /\ \A k \in 1..Len(cmds') : k + 1 \in 1..Len(cmds) /\ cmds'[k] = cmds[k + 1]
    BY <2>1, <1>s
  <2>3. 1 \in 1..Len(cmds) /\ cmds[1].timer \in Timers
    BY <1>s, <1>t, <2>2
  <2>4. /\ Timers' = Timers /\ \A i \in Timers : timers'[i].kind = timers[i].kind
        /\ \A i \in Timers : timers'[i].active =
             IF i = cmds[1].timer THEN cmds[1].cmd = "start" ELSE timers[i].active
    <3>1. timers' = [timers EXCEPT ![cmds[1].timer].active = (cmds[1].cmd = "start")]
      BY <2>1, <2>2
    <3>2. Len(timers') = Len(timers)
      BY <1>s, <2>3, <3>1 DEF Timers
    <3>3. ASSUME NEW i \in Timers
          PROVE  /\ timers'[i].kind = timers[i].kind
                 /\ timers'[i].active =
                      IF i = cmds[1].timer THEN cmds[1].cmd = "start" ELSE timers[i].active
      BY <1>s, <2>3, <3>1 DEF Timers, TimerType
    <3> QED  BY <3>2, <3>3 DEF Timers
  <2>5. \A k \in 1..Len(cmds') : Kind(k)' = Kind(k + 1)
    BY <1>t, <2>2, <2>4 DEF Kind
  <2>6. \A k \in 1..Len(cmds') : cmds'[k].cmd # "start" => Kind(k)' = "heartbeat"
    BY <1>i, <2>2, <2>5
  <2>7. ASSUME rpc'.pc = "delete" \/ HandleActive', NEW k \in 1..Len(cmds')
        PROVE  Kind(k)' = "restart" \/ (rpc'.pc = "delete" /\ k = Len(cmds'))
    <3>1. CASE rpc.pc = "delete" \/ HandleActive
      <4>1. Kind(k + 1) = "restart" \/ (rpc.pc = "delete" /\ k + 1 = Len(cmds))
        BY <1>i, <2>2, <3>1
      <4> QED  BY <1>s, <2>1, <2>2, <2>5, <4>1
    <3>2. CASE rpc.pc # "delete" /\ ~HandleActive
      <4>1. h \in Timers /\ timers'[h].active /\ ~timers[h].active
        BY <2>1, <2>4, <2>7, <3>2 DEF HandleActive
      <4>2. cmds[1].timer = h /\ cmds[1].cmd = "start"
        BY <2>4, <4>1
      <4>3. cmds[1] = [cmd |-> "start", timer |-> h]
        BY <1>t, <2>3, <4>2 DEF CmdType
      <4>4. Kind(k + 1) = "restart"
        <5>1. 1 < k + 1
          OBVIOUS
        <5> QED  BY <1>i, <2>2, <2>3, <4>3, <5>1
      <4> QED  BY <2>5, <4>4
    <3> QED  BY <3>1, <3>2
  <2>8. ASSUME NEW j \in 1..Len(cmds'), NEW k \in 1..Len(cmds'), j < k,
               cmds'[j] = [cmd |-> "start", timer |-> h]
        PROVE  Kind(k)' = "restart"
    <3>1. j + 1 < k + 1
      BY <2>8
    <3> QED  BY <1>i, <2>2, <2>5, <2>8, <3>1
  <2> QED  BY <2>1, <2>6, <2>7, <2>8 DEF CmdsInv
<1> QED
  BY <1>2, <1>3, <1>4, <1>5, <1>6, <1>7, <1>8, <1>9, <1>10
     DEF Next, PserialTask, TimerTask

LEMMA DueStep == TypeOK /\ HbInv /\ CmdsInv /\ RestartDue /\ [Next]_vars => RestartDue'
<1> SUFFICES ASSUME TypeOK, HbInv, CmdsInv, RestartDue, [Next]_vars PROVE RestartDue'
  OBVIOUS
<1>s. /\ timers \in Seq(TimerType) /\ Len(timers) \in Nat
      /\ cmds \in Seq(CmdType(Len(timers))) /\ Len(cmds) \in Nat
  BY Sizes
<1>p. /\ Idle # At("otaActivate", "bootSet")
      /\ \A op : \A pc \in {"called", "erased", "delete", "stopped"} :
            At(op, pc) # At("otaActivate", "bootSet")
  BY DEF Idle, At
<1>i. /\ ota_status = "ACTIVATED" => boot = "new"
      /\ boot = "new" => \/ abandoned \/ rpc = At("otaActivate", "bootSet")
                         \/ \E i \in Timers : RestartComes(i)
  BY DEF RestartDue
\* Commands and timers are added, never taken away.
<1>k. ASSUME NEW i \in Timers, RestartComes(i), i \in Timers', timers'[i] = timers[i],
             Len(cmds') \in Nat, 1..Len(cmds) \subseteq 1..Len(cmds'),
             \A k \in 1..Len(cmds) : cmds'[k] = cmds[k]
      PROVE  RestartComes(i)'
  BY <1>k DEF RestartComes, StartPending
<1>u. UNCHANGED <<timers, cmds>> => \A i \in Timers : i \in Timers' /\ RestartComes(i)' = RestartComes(i)
  BY DEF RestartComes, StartPending, Timers
\* Steps outside the update that leave the timers alone or only add commands.
<1>1. ASSUME UNCHANGED <<ota_status, boot, abandoned>>,
             rpc' = rpc \/ rpc # At("otaActivate", "bootSet"),
             \A i \in Timers : RestartComes(i) => i \in Timers' /\ RestartComes(i)'
      PROVE  RestartDue'
  BY <1>1, <1>i DEF RestartDue
<1>2. CASE HostRequest \/ OtherEvent \/ Beat \/ BeatPost \/ Restart \/ UNCHANGED vars
  <2>1. UNCHANGED otaVars /\ UNCHANGED timerVars /\ UNCHANGED rpc
    BY <1>2 DEF HostRequest, OtherEvent, Beat, BeatPost, Restart, vars
  <2> QED  BY <1>1, <1>u, <2>1 DEF otaVars, timerVars
<1>3. CASE TakeMsg \/ HbLeave
  <2>1. rpc # At("otaActivate", "bootSet")
    BY <1>3 DEF TakeMsg, HbLeave, Called, Idle, At
  <2>2. UNCHANGED otaVars /\ UNCHANGED timerVars
    BY <1>3 DEF TakeMsg, HbLeave
  <2> QED  BY <1>1, <1>u, <2>1, <2>2 DEF otaVars, timerVars
<1>4. CASE OtaErase \/ OtaBegun \/ OtaWrite \/ OtaEnd
  <2>1. /\ ota_status' = "ACTIVATED" => ota_status = "ACTIVATED"
        /\ UNCHANGED <<boot, abandoned>> /\ UNCHANGED timerVars
        /\ rpc # At("otaActivate", "bootSet")
    BY <1>4, <1>p DEF OtaErase, OtaBegun, OtaWrite, OtaEnd
  <2> QED  BY <1>i, <1>u, <2>1 DEF RestartDue, timerVars
<1>5. CASE OtaActivate
  <2>1. UNCHANGED abandoned /\ UNCHANGED timerVars /\ rpc # At("otaActivate", "bootSet")
    BY <1>5, <1>p DEF OtaActivate
  <2>2. CASE UNCHANGED <<ota_status, boot>>
    BY <1>1, <1>u, <2>1, <2>2 DEF timerVars
  <2>3. CASE boot' = "new" /\ rpc' = At("otaActivate", "bootSet")
    BY <2>3 DEF RestartDue
  <2> QED  BY <1>5, <2>2, <2>3, Zenon DEF OtaActivate
<1>6. CASE OtaSchedule
  <2>1. PICK made \in BOOLEAN, started \in BOOLEAN :
          NewTimer("restart", made, started) /\ abandoned' = (abandoned \/ ~started)
    BY <1>6 DEF OtaSchedule
  <2>2. UNCHANGED <<ota_status, boot>>
    BY <1>6 DEF OtaSchedule
  <2>3. CASE ~started
    <3>1. abandoned'
      BY <2>1, <2>3
    <3> QED  BY <1>i, <2>2, <3>1 DEF RestartDue
  <2>4. CASE started
    <3>1. /\ Len(cmds') = Len(cmds) + 1 /\ Len(timers) + 1 \in Timers'
          /\ timers'[Len(timers) + 1] = [kind |-> "restart", active |-> FALSE]
          /\ \A k \in 1..Len(cmds') : k \notin 1..Len(cmds) =>
               cmds'[k] = [cmd |-> "start", timer |-> Len(timers) + 1]
      <4> HIDE DEF NewTimer
      <4> QED  BY <2>1, <2>4, NewTimerCmds
    <3>2. Len(cmds) + 1 \in 1..Len(cmds') /\ Len(cmds) + 1 \notin 1..Len(cmds)
      BY <1>s, <3>1
    <3>3. PICK n \in Timers' : n = Len(timers) + 1
      BY <3>1
    <3>4. RestartComes(n)'
      <4>1. timers'[n].kind = "restart"
        BY <3>1, <3>3
      <4>2. \E k \in 1..Len(cmds') : cmds'[k] = [cmd |-> "start", timer |-> n]
        BY <3>1, <3>2, <3>3
      <4> QED  BY <4>1, <4>2 DEF RestartComes, StartPending
    <3> QED  BY <1>i, <2>2, <3>4 DEF RestartDue
  <2> QED  BY <2>3, <2>4
<1>7. CASE HbStop \/ HbDelete
  <2>1. /\ UNCHANGED otaVars /\ UNCHANGED timers /\ rpc # At("otaActivate", "bootSet")
        /\ \E c, i : Send(c, i)
    BY <1>7 DEF HbStop, HbDelete, Called, At
  <2>2. /\ Len(cmds') = Len(cmds) + 1 /\ \A k \in 1..Len(cmds) : cmds'[k] = cmds[k]
    BY <2>1, SendCmds
  <2>3. Len(cmds') \in Nat /\ 1..Len(cmds) \subseteq 1..Len(cmds') /\ Timers' = Timers
    BY <1>s, <2>1, <2>2 DEF Timers
  <2> QED  BY <1>1, <1>k, <2>1, <2>2, <2>3 DEF otaVars
<1>8. CASE HbStart
  <2>1. PICK made \in BOOLEAN, started \in BOOLEAN : NewTimer("heartbeat", made, started)
    BY <1>8 DEF HbStart
  <2>2. UNCHANGED otaVars /\ rpc # At("otaActivate", "bootSet")
    BY <1>8, <1>p DEF HbStart
  <2>3. /\ Timers \subseteq Timers' /\ \A i \in Timers : timers'[i] = timers[i]
        /\ Len(cmds') \in Nat /\ 1..Len(cmds) \subseteq 1..Len(cmds')
        /\ \A k \in 1..Len(cmds) : cmds'[k] = cmds[k]
    BY <2>1, NewTimerCmds
  <2> QED  BY <1>1, <1>k, <2>2, <2>3 DEF otaVars
<1>9. CASE Command
  <2>1. /\ cmds # <<>> /\ cmds' = Tail(cmds)
        /\ timers' = [timers EXCEPT ![Head(cmds).timer].active = (Head(cmds).cmd = "start")]
        /\ UNCHANGED <<ota_status, boot, abandoned, rpc>>
    BY <1>9 DEF Command, otaVars
  <2>2. /\ Len(cmds') = Len(cmds) - 1 /\ Len(cmds) >= 1 /\ Head(cmds) = cmds[1]
        /\ \A k \in 2..Len(cmds) : k - 1 \in 1..Len(cmds') /\ cmds'[k - 1] = cmds[k]
    BY <2>1, <1>s
  <2>3. 1 \in 1..Len(cmds) /\ cmds[1].timer \in Timers
    <3>1. 1 \in 1..Len(cmds) /\ cmds[1] \in CmdType(Len(timers))
      BY <1>s, <2>2
    <3> QED  BY <3>1 DEF CmdType, Timers
  <2>4. /\ Timers' = Timers /\ \A i \in Timers : timers'[i].kind = timers[i].kind
        /\ \A i \in Timers : timers'[i].active =
             IF i = cmds[1].timer THEN cmds[1].cmd = "start" ELSE timers[i].active
    <3>1. timers' = [timers EXCEPT ![cmds[1].timer].active = (cmds[1].cmd = "start")]
      BY <2>1, <2>2
    <3>2. Len(timers') = Len(timers)
      BY <1>s, <2>3, <3>1 DEF Timers
    <3>3. ASSUME NEW i \in Timers
          PROVE  /\ timers'[i].kind = timers[i].kind
                 /\ timers'[i].active =
                      IF i = cmds[1].timer THEN cmds[1].cmd = "start" ELSE timers[i].active
      BY <1>s, <2>3, <3>1 DEF Timers, TimerType
    <3> QED  BY <3>2, <3>3 DEF Timers
  <2>5. ASSUME NEW i \in Timers, RestartComes(i) PROVE RestartComes(i)'
    <3>1. timers'[i].kind = "restart"
      BY <2>4, <2>5 DEF RestartComes
    <3>2. i = cmds[1].timer => cmds[1].cmd = "start"
      BY <2>3, <2>5 DEF RestartComes, CmdsInv, Kind
    <3>3. CASE timers[i].active \/ cmds[1].timer = i
      <4>1. timers'[i].active
        BY <2>4, <3>2, <3>3
      <4> QED  BY <3>1, <4>1 DEF RestartComes
    <3>4. CASE ~timers[i].active /\ cmds[1].timer # i
      <4>1. PICK k \in 1..Len(cmds) : cmds[k] = [cmd |-> "start", timer |-> i]
        BY <2>5, <3>4 DEF RestartComes, StartPending
      <4>2. k \in 2..Len(cmds)
        BY <1>s, <3>4, <4>1
      <4>3. \E l \in 1..Len(cmds') : cmds'[l] = [cmd |-> "start", timer |-> i]
        BY <2>2, <4>1, <4>2
      <4> QED  BY <3>1, <4>3 DEF RestartComes, StartPending
    <3> QED  BY <3>3, <3>4
  <2> QED  BY <1>1, <2>1, <2>4, <2>5
<1> QED
  BY <1>2, <1>3, <1>4, <1>5, <1>6, <1>7, <1>8, <1>9 DEF Next, PserialTask, TimerTask

\* pserial_task and the timer task, which may each wait for the other to make
\* room, come to rest only with no request unfinished and no activated update
\* without its restart, unless the starts of restarts have taken all places
\* among the commands but one while a single heartbeat waited to be posted.
THEOREM RestCorrect == Spec => []RestsWhenDone
<1>1. TypeOK /\ CmdsInv /\ RestartDue => RestsWhenDone
  <2> SUFFICES ASSUME TypeOK, CmdsInv, RestartDue, AtRest PROVE
                 \/ HeldByHeartbeat
                 \/ rpc = Idle /\ (ota_status = "ACTIVATED" \/ boot = "new" => abandoned)
    BY DEF RestsWhenDone
  <2>s. /\ Len(cmds) \in Nat /\ Len(req_queue) \in Nat
        /\ ReqqSize \in Nat \ {0} /\ CmdqSize \in Nat \ {0} /\ Len(<<>>) = 0
    BY Sizes, ConstantsAssumption
  <2>1. CASE WaitsForRoom
    <3>1. daemon # 0 /\ Len(req_queue) = ReqqSize
      BY <2>1, <2>s DEF AtRest, WaitsForRoom
    <3>2. ASSUME NEW k \in 1..(CmdqSize - 1)
          PROVE  cmds[k].cmd = "start" /\ Kind(k) = "restart"
      <4>1. k \in 1..Len(cmds) /\ k # Len(cmds)
        BY <2>1, <2>s DEF WaitsForRoom
      <4>2. Kind(k) = "restart"
        BY <2>1, <4>1 DEF WaitsForRoom, CmdsInv
      <4> QED  BY <4>1, <4>2 DEF CmdsInv
    <3> QED  BY <2>1, <3>1, <3>2 DEF HeldByHeartbeat
  <2>2. CASE ~WaitsForRoom
    <3>1. rpc = Idle /\ daemon = 0 /\ cmds = <<>> /\ \A i \in Timers : ~RestartComes(i)
      <4>1. rpc = Idle /\ req_queue = <<>>
        BY <2>2 DEF AtRest
      <4>2. daemon = 0 /\ cmds = <<>>
        BY <2>s, <4>1 DEF AtRest
      <4>3. \A i \in Timers : ~RestartComes(i)
        BY <4>2 DEF AtRest, RestartComes, StartPending
      <4> QED  BY <4>1, <4>2, <4>3
    <3>2. rpc # At("otaActivate", "bootSet")
      BY <3>1 DEF Idle, At
    <3> QED  BY <3>1, <3>2 DEF RestartDue
  <2> QED  BY <2>1, <2>2
<1> QED
  BY <1>1, CmdsInit, CmdsStep, DueStep, HbInit, HbStep, HandleCorrect, PTL DEF Spec

\* Nothing gets the two tasks out of it.
THEOREM HeldForGood == Spec => [][HeldByHeartbeat => HeldByHeartbeat']_vars
<1>1. TypeOK /\ [Next]_vars => (HeldByHeartbeat => HeldByHeartbeat')
  <2> SUFFICES ASSUME TypeOK, [Next]_vars, HeldByHeartbeat PROVE UNCHANGED vars
    BY DEF HeldByHeartbeat, WaitsForRoom, Called, HandleActive, Timers, Kind, vars, hbVars,
           timerVars, queueVars
  <2>1. /\ daemon # 0 /\ ~(Len(req_queue) < ReqqSize) /\ ~(Len(cmds) < CmdqSize)
        /\ rpc.pc = "delete" \/ (Called /\ HandleActive)
    BY Sizes DEF HeldByHeartbeat, WaitsForRoom
  <2>2. /\ rpc.pc \in {"called", "delete"}
        /\ rpc.pc = "called" => rpc.op \in {"hbOn", "hbOff"}
    BY <2>1 DEF Called
  <2>3. ~HostRequest /\ ~OtherEvent /\ ~TimerTask
    BY <2>1 DEF HostRequest, OtherEvent, TimerTask, Command, Beat, BeatPost, Restart
  <2>4. /\ ~TakeMsg /\ ~OtaErase /\ ~OtaBegun /\ ~OtaWrite
        /\ ~OtaEnd /\ ~OtaActivate /\ ~OtaSchedule
    BY <2>2 DEF TakeMsg, OtaErase, OtaBegun, OtaWrite, OtaEnd, OtaActivate, OtaSchedule, At,
                Idle
  <2>5. ~HbLeave /\ ~HbStop /\ ~HbDelete /\ ~HbStart
    BY <2>1, <2>2 DEF HbLeave, HbStop, HbDelete, HbStart, Send, Called, At
  <2> QED  BY <2>3, <2>4, <2>5 DEF Next, PserialTask
<1> QED  BY <1>1, TypeCorrect, PTL DEF Spec
==============================================================================
