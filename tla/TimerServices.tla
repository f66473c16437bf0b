---------------------------- MODULE TimerServices ----------------------------
(***************************************************************************)
(* The services of slave_control.c that run in the FreeRTOS timer task:    *)
(* the heartbeat, and the restart that ends an over-the-air update.        *)
(*                                                                         *)
(*   pserial_task  handles the requests of the host: rpc. It starts and    *)
(*                 stops timers by commands to the timer task: cmds;       *)
(*   timer task    executes the commands and runs the callbacks of timers  *)
(*                 that expire: daemon. The heartbeat posts an event to    *)
(*                 req_queue and waits for room, the restart restarts.     *)
(*                                                                         *)
(* The timer task has the lowest priority of the two: it runs only while   *)
(* pserial_task waits, for a message, for room among the commands, or for  *)
(* the flash.                                                              *)
(***************************************************************************)
EXTENDS Integers, Sequences

CONSTANTS
  Chunks,      \* writes that make an image
  ReqqSize,    \* REQ_Q_MAX
  CmdqSize,    \* configTIMER_QUEUE_LENGTH
  MaxReqs,     \* bound: requests of the host
  MaxTimers,   \* bound: timers created
  MaxEvents    \* bound: heartbeats, and events of other tasks

ASSUME ConstantsAssumption ==
  /\ Chunks \in Nat \ {0} /\ ReqqSize \in Nat \ {0} /\ CmdqSize \in Nat \ {0}
  /\ MaxReqs \in Nat /\ MaxTimers \in Nat /\ MaxEvents \in Nat

VARIABLES
  ota_status, handle,       \* the update, and whether its handle is open
  part, boot,               \* flash: what was written, and what to boot
  handle_heartbeat_task,    \* a timer, or 0
  timers, cmds,             \* the timers created, the commands to their task
  daemon,                   \* the heartbeat whose callback runs, or 0
  restarted,
  req_queue, rpc,
  spoiled,                  \* history: the update was begun again since it ended
  abandoned,                \* history: a restart could not be scheduled
  wanted,                   \* history: the heartbeat was last configured to run
  unstopped,                \* history: heartbeats left alone when it was
                            \* configured anew, their start being pending
  reqs, events              \* bounds: requests, events

otaVars   == <<ota_status, handle, part, boot, spoiled, abandoned>>
hbVars    == <<handle_heartbeat_task, wanted, unstopped>>
timerVars == <<timers, cmds>>
queueVars == <<req_queue, reqs, events>>
vars == <<otaVars, hbVars, timerVars, daemon, restarted, queueVars, rpc>>

Requests == {"otaBegin", "otaWrite", "otaEnd", "otaActivate", "hbOn", "hbOff"}
Timers   == 1..Len(timers)
At(op, pc) == [op |-> op, pc |-> pc]
Idle       == At("none", "idle")

\* The content of the partition: how much of an image was written in order
\* since it was erased, or Garbage for what is not the beginning of one.
Garbage == -1
Whole   == part = Chunks

Init ==
  /\ ota_status = "NOT_STARTED" /\ handle = "closed"
  /\ part \in {Garbage, Chunks} /\ boot = "old"
  /\ handle_heartbeat_task = 0 /\ timers = <<>> /\ cmds = <<>> /\ daemon = 0
  /\ restarted = FALSE /\ req_queue = <<>> /\ rpc = Idle
  /\ spoiled = FALSE /\ abandoned = FALSE /\ wanted = FALSE /\ unstopped = {}
  /\ reqs = 0 /\ events = 0

-----------------------------------------------------------------------------
\* The host sends any request at any time, and may repeat one.
HostRequest ==
  /\ reqs < MaxReqs /\ reqs' = reqs + 1
  /\ Len(req_queue) < ReqqSize
  /\ \E r \in Requests : req_queue' = Append(req_queue, r)
  /\ UNCHANGED <<otaVars, hbVars, timerVars, daemon, restarted, rpc, events>>

\* A task of higher priority posts an event.
OtherEvent ==
  /\ events < MaxEvents /\ events' = events + 1
  /\ Len(req_queue) < ReqqSize /\ req_queue' = Append(req_queue, "event")
  /\ UNCHANGED <<otaVars, hbVars, timerVars, daemon, restarted, rpc, reqs>>

TakeMsg ==
  /\ rpc = Idle /\ req_queue # <<>>
  /\ req_queue' = Tail(req_queue)
  /\ rpc' = IF Head(req_queue) = "event" THEN Idle ELSE At(Head(req_queue), "called")
  /\ UNCHANGED <<otaVars, hbVars, timerVars, daemon, restarted, reqs, events>>

-----------------------------------------------------------------------------
(***************************************************************************)
(* The update. The functions of the flash are external, and may fail.      *)
(***************************************************************************)
\* req_ota_begin_handler: esp_ota_begin erases the partition, and may fail
\* before or after it began to. Other tasks run while it erases.
OtaErase ==
  /\ rpc = At("otaBegin", "called")
  /\ \/ UNCHANGED part  /\ rpc' = Idle
     \/ part' = Garbage /\ rpc' = Idle
     \/ part' = 0       /\ rpc' = At("otaBegin", "erased")
  /\ spoiled' = TRUE
  /\ UNCHANGED <<ota_status, handle, boot, abandoned, hbVars, timerVars, daemon, restarted,
                 queueVars>>

OtaBegun ==
  /\ rpc = At("otaBegin", "erased") /\ rpc' = Idle
  /\ handle' = "open" /\ ota_status' = "IN_PROGRESS"
  /\ UNCHANGED <<part, boot, spoiled, abandoned, hbVars, timerVars, daemon, restarted,
                 queueVars>>

\* req_ota_write_handler: what belongs at the end of what is written, or not.
OtaWrite ==
  /\ rpc = At("otaWrite", "called") /\ rpc' = Idle
  /\ IF handle = "closed" THEN UNCHANGED part
     ELSE part' = Garbage \/ (part \in 0..(Chunks - 1) /\ part' = part + 1)
  /\ UNCHANGED <<ota_status, handle, boot, spoiled, abandoned, hbVars, timerVars, daemon,
                 restarted, queueVars>>

\* Mutant: the result of esp_ota_end is not looked at.
OtaEndAnyway ==
  /\ rpc = At("otaEnd", "called") /\ rpc' = Idle
  /\ ota_status' = "COMPLETED" /\ spoiled' = FALSE
  /\ handle' = "closed"
  /\ UNCHANGED <<part, boot, abandoned, hbVars, timerVars, daemon, restarted, queueVars>>

\* req_ota_end_handler: esp_ota_end closes the handle and checks the image. A
\* second one, of a host that missed the answer, finds no handle and fails.
OtaEnd ==
  /\ rpc = At("otaEnd", "called") /\ rpc' = Idle
  /\ \/ handle = "open" /\ Whole /\ ota_status' = "COMPLETED" /\ spoiled' = FALSE
     \/ ota_status' = "FAILED" /\ UNCHANGED spoiled
  /\ handle' = "closed"
  /\ UNCHANGED <<part, boot, abandoned, hbVars, timerVars, daemon, restarted, queueVars>>

\* req_ota_activate_handler: unless the update is completed it only answers.
\* esp_ota_set_boot_partition checks the image again.
OtaActivate ==
  /\ rpc = At("otaActivate", "called")
  /\ \/ rpc' = Idle /\ UNCHANGED <<ota_status, boot>>
     \/ /\ ota_status = "COMPLETED" /\ Whole
        /\ boot' = "new" /\ ota_status' = "ACTIVATED"
        /\ rpc' = At("otaActivate", "bootSet")
  /\ UNCHANGED <<handle, part, spoiled, abandoned, hbVars, timerVars, daemon, restarted,
                 queueVars>>

-----------------------------------------------------------------------------
\* xTimerCreate may fail; xTimerStart, which does not wait, fails when there is
\* no room for its command. `made' is whether a timer was created, `started'
\* whether it will start.
NewTimer(kind, made, started) ==
  \/ ~made /\ ~started /\ UNCHANGED timerVars
  \/ /\ made /\ Len(timers) < MaxTimers
     /\ timers' = Append(timers, [kind |-> kind, active |-> FALSE])
     /\ started = (Len(cmds) < CmdqSize)
     /\ cmds' = IF started THEN Append(cmds, [cmd |-> "start", timer |-> Len(timers) + 1])
                ELSE cmds

\* Mutant: the timer is created and not started.
OtaScheduleForgotten ==
  /\ rpc = At("otaActivate", "bootSet") /\ rpc' = Idle
  /\ Len(timers) < MaxTimers
  /\ timers' = Append(timers, [kind |-> "restart", active |-> FALSE])
  /\ UNCHANGED <<cmds, ota_status, handle, part, boot, spoiled, abandoned, hbVars, daemon,
                 restarted, queueVars>>

\* The end of req_ota_activate_handler. A failure is answered, but the status
\* stays ACTIVATED, so that another request will not try again.
OtaSchedule ==
  /\ rpc = At("otaActivate", "bootSet") /\ rpc' = Idle
  /\ \E made, started \in BOOLEAN :
       NewTimer("restart", made, started) /\ abandoned' = (abandoned \/ ~started)
  /\ UNCHANGED <<ota_status, handle, part, boot, spoiled, hbVars, daemon, restarted,
                 queueVars>>

-----------------------------------------------------------------------------
(***************************************************************************)
(* configure_heartbeat: stop_heartbeat, and start_heartbeat to enable it.  *)
(* xTimerStop and xTimerDelete wait for room among the commands.           *)
(***************************************************************************)
Send(cmd, timer) ==
  Len(cmds) < CmdqSize /\ cmds' = Append(cmds, [cmd |-> cmd, timer |-> timer])

StartPending(i) == \E k \in 1..Len(cmds) : cmds[k] = [cmd |-> "start", timer |-> i]
HandleActive == handle_heartbeat_task \in Timers /\ timers[handle_heartbeat_task].active
Called == rpc.op \in {"hbOn", "hbOff"} /\ rpc.pc = "called"
Stopped == IF rpc.op = "hbOn" THEN At("hbOn", "stopped") ELSE Idle

\* Mutant: a running heartbeat is left alone too.
HbLeaveRunning ==
  /\ Called
  /\ wanted' = FALSE /\ rpc' = Stopped
  /\ UNCHANGED <<handle_heartbeat_task, unstopped, otaVars, timerVars, daemon, restarted,
                 queueVars>>

\* A timer that is not active is left alone, and with it one whose start the
\* timer task has still to execute.
HbLeave ==
  /\ Called
  /\ ~HandleActive
  /\ unstopped' = IF StartPending(handle_heartbeat_task)
                  THEN unstopped \cup {handle_heartbeat_task} ELSE unstopped
  /\ wanted' = FALSE /\ rpc' = Stopped
  /\ UNCHANGED <<handle_heartbeat_task, otaVars, timerVars, daemon, restarted, queueVars>>

HbStop ==
  /\ Called
  /\ HandleActive
  /\ Send("stop", handle_heartbeat_task)
  /\ wanted' = FALSE /\ rpc' = At(rpc.op, "delete")
  /\ UNCHANGED <<handle_heartbeat_task, unstopped, timers, otaVars, daemon, restarted,
                 queueVars>>

\* Mutant: it waits until the timer task has stopped the timer.
HbDeleteWhenStopped ==
  /\ rpc.pc = "delete"
  /\ ~timers[handle_heartbeat_task].active
  /\ Send("delete", handle_heartbeat_task)
  /\ handle_heartbeat_task' = 0 /\ unstopped' = unstopped \ {handle_heartbeat_task}
  /\ rpc' = Stopped
  /\ UNCHANGED <<wanted, timers, otaVars, daemon, restarted, queueVars>>

HbDelete ==
  /\ rpc.pc = "delete"
  /\ Send("delete", handle_heartbeat_task)
  /\ handle_heartbeat_task' = 0 /\ unstopped' = unstopped \ {handle_heartbeat_task}
  /\ rpc' = Stopped
  /\ UNCHANGED <<wanted, timers, otaVars, daemon, restarted, queueVars>>

\* start_heartbeat.
HbStart ==
  /\ rpc = At("hbOn", "stopped") /\ rpc' = Idle
  /\ \E made, started \in BOOLEAN :
       /\ NewTimer("heartbeat", made, started)
       /\ handle_heartbeat_task' = IF made THEN Len(timers) + 1 ELSE 0
       /\ wanted' = started
  /\ UNCHANGED <<unstopped, otaVars, daemon, restarted, queueVars>>

PserialTask ==
  \/ TakeMsg
  \/ OtaErase \/ OtaBegun \/ OtaWrite \/ OtaEnd \/ OtaActivate \/ OtaSchedule
  \/ HbLeave \/ HbStop \/ HbDelete \/ HbStart

-----------------------------------------------------------------------------
(***************************************************************************)
(* The timer task.                                                         *)
(***************************************************************************)
Command ==
  /\ daemon = 0 /\ cmds # <<>>
  /\ cmds' = Tail(cmds)
  /\ timers' = [timers EXCEPT ![Head(cmds).timer].active = (Head(cmds).cmd = "start")]
  /\ UNCHANGED <<otaVars, hbVars, daemon, restarted, queueVars, rpc>>

\* Mutant: the heartbeat is posted whether there is room or not.
BeatPostAnyway ==
  /\ daemon # 0 /\ daemon' = 0
  /\ req_queue' = Append(req_queue, "event")
  /\ events' = IF events < MaxEvents THEN events + 1 ELSE events
  /\ UNCHANGED <<otaVars, hbVars, timerVars, restarted, reqs, rpc>>

\* heartbeat_timer_cb: send_event_to_host waits for room in req_queue. The
\* number of the heartbeat, which the event carries, is left out.
Beat ==
  /\ daemon = 0 /\ events < MaxEvents
  /\ \E i \in Timers : /\ timers[i].kind = "heartbeat" /\ timers[i].active
                       /\ daemon' = i
  /\ UNCHANGED <<otaVars, hbVars, timerVars, restarted, queueVars, rpc>>

BeatPost ==
  /\ daemon # 0 /\ daemon' = 0
  /\ Len(req_queue) < ReqqSize /\ req_queue' = Append(req_queue, "event")
  /\ events' = IF events < MaxEvents THEN events + 1 ELSE events
  /\ UNCHANGED <<otaVars, hbVars, timerVars, restarted, reqs, rpc>>

\* vTimerCallback.
Restart ==
  /\ daemon = 0
  /\ \E i \in Timers : timers[i].kind = "restart" /\ timers[i].active
  /\ restarted' = TRUE
  /\ UNCHANGED <<otaVars, hbVars, timerVars, daemon, queueVars, rpc>>

TimerTask == Command \/ Beat \/ BeatPost \/ Restart

Next == ~restarted /\ (HostRequest \/ OtherEvent \/ PserialTask \/ TimerTask)

\* Both tasks run when they can: what is above them waits for the host. The
\* timer task runs the callback of every timer that expires.
Spec == /\ Init /\ [][Next]_vars
        /\ WF_vars(~restarted /\ PserialTask)
        /\ WF_vars(~restarted /\ (Command \/ BeatPost))
        /\ WF_vars(~restarted /\ Restart)

-----------------------------------------------------------------------------
TypeOK ==
  /\ ota_status \in {"NOT_STARTED", "IN_PROGRESS", "FAILED", "COMPLETED", "ACTIVATED"}
  /\ handle \in {"open", "closed"}
  /\ part \in Garbage..Chunks /\ boot \in {"old", "new"}
  /\ timers \in Seq([kind : {"heartbeat", "restart"}, active : BOOLEAN])
  /\ Len(timers) <= MaxTimers
  /\ handle_heartbeat_task \in {0} \cup Timers /\ daemon \in {0} \cup Timers
  /\ cmds \in Seq([cmd : {"start", "stop", "delete"}, timer : Timers])
  /\ Len(cmds) <= CmdqSize
  /\ req_queue \in Seq(Requests \cup {"event"}) /\ Len(req_queue) <= ReqqSize
  /\ rpc \in [op : Requests \cup {"none"},
              pc : {"idle", "called", "erased", "bootSet", "delete", "stopped"}]
  /\ restarted \in BOOLEAN /\ spoiled \in BOOLEAN /\ abandoned \in BOOLEAN
  /\ wanted \in BOOLEAN /\ unstopped \subseteq Timers
  /\ reqs \in 0..MaxReqs /\ events \in 0..MaxEvents

\* What is completed or will be booted is a whole image, and the restart boots
\* it, unless the update was begun again since it was completed: requests for
\* an update may be repeated, fail and come in any order.
UpdateIsWhole ==
  ~spoiled => /\ ota_status = "COMPLETED" \/ boot = "new" => Whole
              /\ restarted => boot = "new"

Beating == {i \in Timers : timers[i].kind = "heartbeat" /\ timers[i].active}
Asked   == IF wanted THEN {handle_heartbeat_task} ELSE {}

\* The heartbeats that run are the one the host asked for last, and those that
\* were still to be started when the host configured the heartbeat anew: they
\* were not seen to be active, so they were not stopped.
HeartbeatAsAsked ==
  rpc = Idle /\ cmds = <<>> => Beating = Asked \cup unstopped

\* Every request returns: pserial_task, which waits for the timer task to
\* make room for a command, and the timer task, which waits for pserial_task
\* to make room for a heartbeat, do not wait for one another.
RequestsReturn == (rpc # Idle) ~> (rpc = Idle \/ restarted)

\* An activated update restarts the co-processor, unless that could not be
\* scheduled, whatever the heartbeat does in the same task.
UpdateRestarts == (ota_status = "ACTIVATED") ~> (restarted \/ abandoned)
=============================================================================
