------------------------------ MODULE SerialRpc ------------------------------
(***************************************************************************)
(* The control path of the co-processor: how an RPC request of the host,   *)
(* cut into serial fragments by the host's transport, is put together      *)
(* again, queued, executed and answered, beside the events that the Wi-Fi  *)
(* event loop and the timers report to the host.                           *)
(*                                                                         *)
(* Three kinds of FreeRTOS task share one reassembly buffer and one queue: *)
(*   recv_task      takes fragments from the transport and fills r         *)
(*                  (esp_hosted_coprocessor.c, process_serial_rx_pkt);     *)
(*   pserial_task   is the only consumer of the request queue; it reads    *)
(*                  and releases r, runs the request handler and sends the *)
(*                  answer (protocomm_pserial.c);                          *)
(*   Producers      are the tasks that call send_event_to_host.            *)
(*                                                                         *)
(* r is not protected by any lock: its field valid is the only hand-over   *)
(* between recv_task and pserial_task, so every access that another task   *)
(* can observe is a step of its own.                                       *)
(*                                                                         *)
(* Data is abstracted to what the properties tell apart: a fragment's      *)
(* payload is <<message, index>> and occupies one unit of r.data.          *)
(***************************************************************************)
EXTENDS Integers, Sequences, FiniteSets

CONSTANTS
  NumReq,        \* bound: requests the host sends
  Frags,         \* Frags[m]: fragments of request m
  SelfPosts,     \* SelfPosts[m]: events the handler of m posts by itself
  BufCap,        \* sizeof r.data, in fragments
  QMax,          \* REQ_Q_MAX
  Window,        \* requests the host keeps outstanding (1: waits for answers)
  MaxRestarts,   \* bound: restarts of the host
  AllocMayFail,  \* whether malloc may return NULL
  Producers,     \* the tasks that report events
  MaxEvents      \* bound: events reported

ASSUME ConstantsAssumption ==
  /\ NumReq \in Nat
  /\ Frags \in [1..NumReq -> Nat \ {0}]
  /\ SelfPosts \in [1..NumReq -> Nat]
  /\ BufCap \in Nat \ {0}
  /\ QMax \in Nat \ {0}
  /\ Window \in Nat \ {0}
  /\ MaxRestarts \in Nat
  /\ AllocMayFail \in BOOLEAN
  /\ MaxEvents \in Nat

VARIABLES
  hostMsg,   \* the last request the host has begun to send
  hostLeft,  \* fragments of it that are still to be sent
  hostSeq,   \* the host's sequence number, one per request
  closed,    \* requests 1..closed are forgotten by the host (it restarted)
  restarts,  \* restarts of the host so far
  bus,       \* serial fragments on their way to recv_task
  valid, curSeq, len, data,   \* struct rx_data r
  rpc,       \* where recv_task is
  hdr, rem,  \* its fragment and its local rem_buff_size
  base,      \* r.len when it copied the fragment
  out,       \* the queue entry it is about to post
  allocFailed, \* history: a malloc of recv_task has failed
  q,         \* pserial_cfg->req_queue
  ppc,       \* where pserial_task is
  arg,       \* the queue entry it took
  got,       \* what serial_read_data returned
  clearing,  \* the fields of r that serial_read_data has still to clear
  posts,     \* events the running handler has still to post
  epc,       \* where each producer is
  events,    \* events reported so far
  executed,  \* history: the requests whose handler ran, in order
  answered   \* history: the requests that got their answer

hostVars == <<hostMsg, hostLeft, hostSeq, closed, restarts>>
rVars    == <<valid, curSeq, len, data>>
recvVars == <<rpc, hdr, rem, base, out, allocFailed>>
pserVars == <<ppc, arg, got, clearing, posts, executed, answered>>
evtVars  == <<epc, events>>
vars == <<hostVars, bus, rVars, recvVars, q, pserVars, evtVars>>

-----------------------------------------------------------------------------
Reqs == 1..NumReq

Payload == [msg : Reqs, idx : Nat]

Fragment == [payload : Payload, more : BOOLEAN, seq : Nat]

NoFragment == [payload |-> [msg |-> 0, idx |-> 0], more |-> FALSE, seq |-> 0]

EventEntry == [kind |-> "event", data |-> <<>>]

RequestEntry(d) == [kind |-> "request", data |-> d]

\* All the fragments of one request, in order.
Whole(d) ==
  /\ d # <<>>
  /\ \A i \in 1..Len(d) : d[i] = [msg |-> d[1].msg, idx |-> i]
  /\ Len(d) = Frags[d[1].msg]

\* memcpy of the first n units of a buffer.
FirstUnits(d, n) == [i \in 1..n |-> d[i]]

Min2(a, b) == IF a <= b THEN a ELSE b

\* Requests this incarnation of the host still expects an answer to.
Outstanding == Cardinality({m \in (closed + 1)..hostMsg : m \notin answered})

Room == Len(q) < QMax

-----------------------------------------------------------------------------
Init ==
  /\ hostMsg = 0 /\ hostLeft = 0 /\ hostSeq = 0 /\ closed = 0 /\ restarts = 0
  /\ bus = <<>>
  /\ valid = FALSE /\ curSeq = 0 /\ len = 0
  /\ data = [i \in 1..BufCap |-> NoFragment.payload]
  /\ rpc = "idle" /\ hdr = NoFragment /\ rem = 0 /\ base = 0 /\ out = EventEntry
  /\ allocFailed = FALSE
  /\ q = <<>>
  /\ ppc = "idle" /\ arg = EventEntry /\ got = <<>>
  /\ clearing = {} /\ posts = 0
  /\ epc = [p \in Producers |-> "idle"] /\ events = 0
  /\ executed = <<>> /\ answered = {}

(***************************************************************************)
(* The host (not part of this repository): it numbers its requests, sends  *)
(* each as fragments that carry the same sequence number, and keeps at     *)
(* most Window of them outstanding.                                        *)
(***************************************************************************)
HostBegin ==
  /\ hostLeft = 0
  /\ hostMsg < NumReq
  /\ Outstanding < Window
  /\ hostMsg' = hostMsg + 1
  /\ hostLeft' = Frags[hostMsg + 1]
  /\ hostSeq' = hostSeq + 1
  /\ UNCHANGED <<closed, restarts, bus, rVars, recvVars, q, pserVars, evtVars>>

HostFragment ==
  /\ hostLeft > 0
  /\ LET piece == [msg |-> hostMsg, idx |-> Frags[hostMsg] - hostLeft + 1]
     IN  bus' = Append(bus, [payload |-> piece, more |-> hostLeft > 1, seq |-> hostSeq])
  /\ hostLeft' = hostLeft - 1
  /\ UNCHANGED <<hostMsg, hostSeq, closed, restarts, rVars, recvVars, q, pserVars, evtVars>>

\* The host reboots: it forgets its requests and counts from any earlier value
\* again. What it had already clocked into the transport may survive, in order.
HostRestart ==
  /\ restarts < MaxRestarts
  /\ hostMsg > closed
  /\ restarts' = restarts + 1
  /\ hostLeft' = 0
  /\ hostSeq' \in 0..hostSeq
  /\ closed' = hostMsg
  /\ \E n \in 0..Len(bus) : bus' = SubSeq(bus, 1, n)
  /\ UNCHANGED <<hostMsg, rVars, recvVars, q, pserVars, evtVars>>

-----------------------------------------------------------------------------
(***************************************************************************)
(* recv_task: process_serial_rx_pkt for one fragment.                      *)
(***************************************************************************)

\* Mutant: the room is that of an empty buffer.
RecvTakeWholeRoom ==
  /\ rpc = "idle"
  /\ bus # <<>>
  /\ hdr' = Head(bus)
  /\ bus' = Tail(bus)
  /\ rem' = BufCap
  /\ rpc' = "wait"
  /\ UNCHANGED <<hostVars, rVars, base, out, allocFailed, q, pserVars, evtVars>>

\* Header and payload are decoded, and rem_buff_size is computed, before the
\* wait for the previous request to be consumed.
RecvTake ==
  /\ rpc = "idle"
  /\ bus # <<>>
  /\ hdr' = Head(bus)
  /\ bus' = Tail(bus)
  /\ rem' = BufCap - len
  /\ rpc' = "wait"
  /\ UNCHANGED <<hostVars, rVars, base, out, allocFailed, q, pserVars, evtVars>>

\* Mutant: no wait for the request before.
RecvStartAtOnce ==
  /\ rpc = "wait"
  /\ curSeq' = IF len = 0 THEN hdr.seq ELSE curSeq
  /\ rpc' = "match"
  /\ UNCHANGED <<hostVars, bus, valid, len, data, hdr, rem, base, out, allocFailed, q, pserVars, evtVars>>

\* while (r.valid) vTaskDelay(10), then if (!r.len) "New Buffer".
RecvStart ==
  /\ rpc = "wait"
  /\ ~valid
  /\ curSeq' = IF len = 0 THEN hdr.seq ELSE curSeq
  /\ rpc' = "match"
  /\ UNCHANGED <<hostVars, bus, valid, len, data, hdr, rem, base, out, allocFailed, q, pserVars, evtVars>>

\* "Sequence number mismatch": what r holds is handed over as it is, and the
\* fragment that revealed the mismatch is dropped.
RecvMismatch ==
  /\ rpc = "match"
  /\ hdr.seq # curSeq
  /\ valid' = TRUE
  /\ rpc' = "alloc"
  /\ UNCHANGED <<hostVars, bus, curSeq, len, data, hdr, rem, base, out, allocFailed, q, pserVars, evtVars>>

\* memcpy of min(payload_len, rem_buff_size) to r.data + r.len.
RecvCopy ==
  /\ rpc = "match"
  /\ hdr.seq = curSeq
  /\ data' = IF rem > 0 THEN [data EXCEPT ![len + 1] = hdr.payload] ELSE data
  /\ base' = len
  /\ rpc' = "count"
  /\ UNCHANGED <<hostVars, bus, valid, curSeq, len, hdr, rem, out, allocFailed, q, pserVars, evtVars>>

\* r.len += min(payload_len, rem_buff_size), where the compiler may use the
\* value of r.len it loaded for the copy or load it again; and, for the last
\* fragment, "Received complete buffer".
RecvCount ==
  /\ rpc = "count"
  /\ \E l \in {base, len} : len' = l + Min2(1, rem)
  /\ IF hdr.more
     THEN rpc' = "idle" /\ UNCHANGED valid
     ELSE rpc' = "alloc" /\ valid' = TRUE
  /\ UNCHANGED <<hostVars, bus, curSeq, data, hdr, rem, base, out, allocFailed, q, pserVars, evtVars>>

\* protocomm_pserial_data_ready: r.data is copied into a malloc'ed entry.
RecvAlloc ==
  /\ rpc = "alloc"
  /\ out' = RequestEntry(FirstUnits(data, len))
  /\ rpc' = "post"
  /\ UNCHANGED <<hostVars, bus, rVars, hdr, rem, base, allocFailed, q, pserVars, evtVars>>

\* malloc fails: ESP_FAIL, which parse_protobuf_req ignores. r stays valid.
RecvAllocFails ==
  /\ rpc = "alloc"
  /\ AllocMayFail
  /\ len > 0
  /\ allocFailed' = TRUE
  /\ rpc' = "idle"
  /\ UNCHANGED <<hostVars, bus, rVars, hdr, rem, base, out, q, pserVars, evtVars>>

\* Mutant: the request is dropped when the queue is full.
RecvPostOrDrop ==
  /\ rpc = "post"
  /\ q' = IF Room THEN Append(q, out) ELSE q
  /\ rpc' = "idle"
  /\ UNCHANGED <<hostVars, bus, rVars, hdr, rem, base, out, allocFailed, pserVars, evtVars>>

\* xQueueSend(..., portMAX_DELAY).
RecvPost ==
  /\ rpc = "post"
  /\ Room
  /\ q' = Append(q, out)
  /\ rpc' = "idle"
  /\ UNCHANGED <<hostVars, bus, rVars, hdr, rem, base, out, allocFailed, pserVars, evtVars>>

Recv ==
  \/ RecvTake \/ RecvStart \/ RecvMismatch \/ RecvCopy \/ RecvCount
  \/ RecvAlloc \/ RecvAllocFails \/ RecvPost

-----------------------------------------------------------------------------
(***************************************************************************)
(* Producers: send_event_to_host / send_event_data_to_host.                *)
(***************************************************************************)
EventRaise(p) ==
  /\ epc[p] = "idle"
  /\ events < MaxEvents
  /\ events' = events + 1
  /\ epc' = [epc EXCEPT ![p] = "post"]
  /\ UNCHANGED <<hostVars, bus, rVars, recvVars, q, pserVars>>

\* Mutant: the event is queued without waiting for room.
EventPostUnchecked(p) ==
  /\ epc[p] = "post"
  /\ q' = Append(q, EventEntry)
  /\ epc' = [epc EXCEPT ![p] = "idle"]
  /\ UNCHANGED <<hostVars, bus, rVars, recvVars, pserVars, events>>

EventPost(p) ==
  /\ epc[p] = "post"
  /\ Room
  /\ q' = Append(q, EventEntry)
  /\ epc' = [epc EXCEPT ![p] = "idle"]
  /\ UNCHANGED <<hostVars, bus, rVars, recvVars, pserVars, events>>

\* No memory for the data of the event: it is not reported.
EventNoMemory(p) ==
  /\ epc[p] = "post"
  /\ AllocMayFail
  /\ epc' = [epc EXCEPT ![p] = "idle"]
  /\ UNCHANGED <<hostVars, bus, rVars, recvVars, q, pserVars, events>>

-----------------------------------------------------------------------------
(***************************************************************************)
(* pserial_task.                                                           *)
(***************************************************************************)
PserialTake ==
  /\ ppc = "idle"
  /\ q # <<>>
  /\ arg' = Head(q)
  /\ q' = Tail(q)
  /\ ppc' = IF Head(q).kind = "event" THEN "event" ELSE "read"
  /\ UNCHANGED <<hostVars, bus, rVars, recvVars, got, clearing, posts, executed, answered, evtVars>>

\* rpc_evt_handler: the event is packed and transmitted.
PserialEvent ==
  /\ ppc = "event"
  /\ ppc' = "idle"
  /\ UNCHANGED <<hostVars, bus, rVars, recvVars, q, arg, got, clearing, posts,
                 executed, answered, evtVars>>

\* serial_read_data with a choice of the fields it clears afterwards.
ReadAndClear(fields) ==
  /\ ppc = "read"
  /\ valid
  /\ got' = FirstUnits(data, Min2(Len(arg.data), len))
  /\ clearing' = fields
  /\ ppc' = "clear"
  /\ UNCHANGED <<hostVars, bus, rVars, recvVars, q, arg, posts, executed, answered, evtVars>>

\* Mutants: r.len, or r.valid, is not cleared.
PserialReadKeepsLen == ReadAndClear({"valid", "seq"})

PserialReadKeepsValid == ReadAndClear({"len", "seq"})

\* serial_read_data, up to the copy; a length of zero ends the entry.
PserialRead ==
  /\ ppc = "read"
  /\ LET n == Min2(Len(arg.data), len) IN
     IF valid
     THEN /\ got' = FirstUnits(data, n)
          /\ clearing' = {"valid", "len", "seq"}
          /\ ppc' = "clear"
     ELSE /\ got' = FirstUnits(arg.data, n)
          /\ ppc' = IF n = 0 THEN "idle" ELSE "handle"
          /\ UNCHANGED clearing
  /\ UNCHANGED <<hostVars, bus, rVars, recvVars, q, arg, posts, executed, answered, evtVars>>

\* serial_read_data clears valid, len and cur_seq_no by three plain stores of
\* a static object no lock protects: the compiler may emit them in any order,
\* and recv_task may run between any two of them.
PserialClear(f) ==
  /\ ppc = "clear"
  /\ f \in clearing
  /\ clearing' = clearing \ {f}
  /\ valid'  = IF f = "valid" THEN FALSE ELSE valid
  /\ len'    = IF f = "len" THEN 0 ELSE len
  /\ curSeq' = IF f = "seq" THEN 0 ELSE curSeq
  /\ ppc' = IF clearing # {f} THEN "clear" ELSE IF got = <<>> THEN "idle" ELSE "handle"
  /\ UNCHANGED <<hostVars, bus, data, recvVars, q, arg, got, posts, executed, answered, evtVars>>

\* Mutant: every handler reports an event by itself.
PserialHandlePosts ==
  /\ ppc = "handle"
  /\ executed' = Append(executed, got[1].msg)
  /\ posts' = 1
  /\ ppc' = "selfpost"
  /\ UNCHANGED <<hostVars, bus, rVars, recvVars, q, arg, got, clearing, answered, evtVars>>

\* rpc_req_handler: a request that is not whole does not unpack, and gets no
\* answer; the handler of a whole one may post events into the queue that
\* only this task empties.
PserialHandle ==
  /\ ppc = "handle"
  /\ IF Whole(got)
     THEN /\ executed' = Append(executed, got[1].msg)
          /\ posts' = SelfPosts[got[1].msg]
          /\ ppc' = IF SelfPosts[got[1].msg] > 0 THEN "selfpost" ELSE "answer"
     ELSE /\ ppc' = "idle"
          /\ UNCHANGED <<executed, posts>>
  /\ UNCHANGED <<hostVars, bus, rVars, recvVars, q, arg, got, clearing, answered, evtVars>>

PserialSelfPost ==
  /\ ppc = "selfpost"
  /\ Room
  /\ q' = Append(q, EventEntry)
  /\ posts' = posts - 1
  /\ ppc' = IF posts = 1 THEN "answer" ELSE "selfpost"
  /\ UNCHANGED <<hostVars, bus, rVars, recvVars, arg, got, clearing, executed, answered, evtVars>>

\* compose_tlv and serial_write_data.
PserialAnswer ==
  /\ ppc = "answer"
  /\ answered' = answered \union {got[1].msg}
  /\ ppc' = "idle"
  /\ UNCHANGED <<hostVars, bus, rVars, recvVars, q, arg, got, clearing, posts, executed, evtVars>>

\* No memory to unpack the request or to compose its answer ("Failed to
\* compose tlv"): nothing is sent.
PserialNoMemory ==
  /\ ppc \in {"handle", "answer"}
  /\ AllocMayFail
  /\ ppc' = "idle"
  /\ UNCHANGED <<hostVars, bus, rVars, recvVars, q, arg, got, clearing, posts,
                 executed, answered, evtVars>>

Pserial ==
  \/ PserialTake \/ PserialEvent \/ PserialRead
  \/ \E f \in {"valid", "len", "seq"} : PserialClear(f)
  \/ PserialHandle \/ PserialSelfPost \/ PserialAnswer \/ PserialNoMemory

-----------------------------------------------------------------------------
Next ==
  \/ HostBegin \/ HostFragment \/ HostRestart
  \/ Recv
  \/ \E p \in Producers : EventRaise(p) \/ EventPost(p) \/ EventNoMemory(p)
  \/ Pserial

Spec == Init /\ [][Next]_vars

\* recv_task, pserial_task and the producers run at one priority and are time
\* sliced, so each takes its next step once it is not blocked (the traffic is
\* bounded, so a task that waits for room in the queue is not overtaken for
\* ever). The host finishes the request it has begun. It is free to restart,
\* and to begin a request or not; so are the producers to raise an event.
FairSpec ==
  /\ Spec
  /\ WF_vars(HostFragment)
  /\ WF_vars(Recv)
  /\ WF_vars(Pserial)
  /\ \A p \in Producers : WF_vars(EventPost(p) \/ EventNoMemory(p))

-----------------------------------------------------------------------------
(***************************************************************************)
(* Properties.                                                             *)
(***************************************************************************)
Entry == [kind : {"event", "request"}, data : Seq(Payload)]

HostOK ==
  /\ hostMsg \in 0..NumReq /\ hostLeft \in Nat /\ hostSeq \in Nat
  /\ hostLeft > 0 => hostMsg > 0 /\ hostLeft <= Frags[hostMsg]
  /\ closed \in 0..NumReq /\ restarts \in 0..MaxRestarts
  /\ bus \in Seq(Fragment)

BufferOK ==
  /\ valid \in BOOLEAN /\ curSeq \in Nat /\ len \in 0..BufCap
  /\ data \in [1..BufCap -> Payload \union {NoFragment.payload}]
  /\ \A i \in 1..len : data[i] \in Payload
  /\ rpc = "count" => /\ len <= base
                      /\ \A i \in 1..(base + Min2(1, rem)) : data[i] \in Payload

RecvOK ==
  /\ rpc \in {"idle", "wait", "match", "count", "alloc", "post"}
  /\ hdr \in Fragment \union {NoFragment} /\ rem \in 0..BufCap /\ out \in Entry
  /\ base \in 0..BufCap
  /\ rpc \in {"wait", "match"} => hdr \in Fragment
  /\ rpc = "post" => out.kind = "request"
  /\ allocFailed \in BOOLEAN

PserialOK ==
  /\ ppc \in {"idle", "event", "read", "clear", "handle", "selfpost", "answer"}
  /\ arg \in Entry /\ got \in Seq(Payload)
  /\ clearing \subseteq {"valid", "len", "seq"} /\ posts \in Nat
  /\ ppc = "selfpost" => posts > 0
  /\ ppc \in {"handle", "selfpost", "answer"} => got # <<>>
  /\ executed \in Seq(Reqs) /\ answered \subseteq Reqs

QueueOK == q \in Seq(Entry) /\ Len(q) <= QMax

EventsOK == epc \in [Producers -> {"idle", "post"}] /\ events \in 0..MaxEvents

\* The variables keep their types, what r.data holds below r.len and what is
\* queued and read are payloads the host sent, and the queue never
\* holds more than REQ_Q_MAX entries.
TypeOK == HostOK /\ BufferOK /\ RecvOK /\ PserialOK /\ QueueOK /\ EventsOK

\* process_serial_rx_pkt computes the room left in r.data before it waits, and
\* copies after it, when pserial_task has changed r.len: the copy still ends
\* inside r.data, because the room it remembers is never more than there is,
\* and so does what r.len counts, from whichever value it is incremented.
CopyStaysInBuffer ==
  /\ rpc \in {"wait", "match", "count"} => len + rem <= BufCap
  /\ rpc = "count" => base + rem <= BufCap

\* The places a request can be in between "Received complete buffer" and the
\* store that releases r: recv_task's hands, the queue, pserial_task's hands.
InRecv    == rpc \in {"alloc", "post"}
QueuedAt  == {i \in 1..Len(q) : q[i].kind = "request"}
InPserial == \/ ppc = "read"
             \/ ppc = "clear" /\ "valid" \in clearing

\* r.valid is a lock without a lock: it is set exactly while one request is
\* on its way from recv_task through the queue to pserial_task, and never two
\* are. (A failed malloc in protocomm_pserial_data_ready loses the request
\* and leaves valid set: only then may no request be there.)
OneRequestInTransit ==
  /\ \A i, j \in QueuedAt : i = j
  /\ InRecv => QueuedAt = {} /\ ~InPserial
  /\ InPserial => QueuedAt = {}
  /\ InRecv \/ InPserial \/ QueuedAt # {} => valid
  /\ valid /\ ~allocFailed => InRecv \/ InPserial \/ QueuedAt # {}

\* Requests are executed, whole, in the order the host sent them and none
\* twice, whatever the host pipelines and whatever a mismatch throws away. But
\* for one case: when the host restarts and its next request has the sequence
\* number of the one that is just being released, the earlier request, of the
\* host's former life, may be executed again.
HandledInOrder ==
  \A i, j \in 1..Len(executed) :
    i < j => \/ executed[i] < executed[j]
             \/ executed[i] = executed[j] /\ executed[i] <= closed

\* No task can move.
Stopped ==
  /\ bus = <<>> \/ rpc # "idle"
  /\ rpc = "wait" => valid
  /\ rpc \notin {"match", "count", "alloc"}
  /\ rpc = "post" => ~Room
  /\ ppc \in {"idle", "selfpost"}
  /\ ppc = "idle" => q = <<>>
  /\ ppc = "selfpost" => ~Room
  /\ \A p \in Producers : epc[p] = "post" => ~Room

\* The tasks come to a stop with work left (a fragment that recv_task holds, a
\* request or an event that waits for the queue) in two ways only: a handler
\* posts into the full queue that its own task should empty, or a failed
\* malloc has left r valid for ever.
OnlyTwoWaysToHang ==
  Stopped =>
    \/ ppc = "selfpost" /\ Len(q) = QMax
    \/ allocFailed /\ valid /\ rpc = "wait" /\ q = <<>>
    \/ rpc = "idle" /\ bus = <<>> /\ q = <<>> /\ \A p \in Producers : epc[p] = "idle"

\* "Received complete buffer" (process_serial_rx_pkt): when the last fragment
\* of a request has been copied, r holds that request and all of it.
ReceivedCompleteBuffer ==
  [][RecvCount /\ ~hdr.more => Whole(FirstUnits(data', len'))]_vars

\* The start of the Wi-Fi driver sends the start events "to handle the case
\* where the host wakes up from deep sleep" (req_wifi_start): a handler that
\* reports events itself gets them sent.
HandlerEventsAreSent == (ppc = "selfpost") ~> (ppc = "answer")

\* A host that waits for its answers and does not restart gets one for every
\* request it begins to send.
EveryRequestAnswered ==
  \A m \in Reqs : (hostMsg = m) ~> (m \in answered \/ restarts > 0)

\* A task that reports an event is not held up for ever by a full queue.
ProducersReturn ==
  \A p \in Producers : (epc[p] = "post") ~> (epc[p] = "idle")

-----------------------------------------------------------------------------
(***************************************************************************)
(* The abstract service, and what of it this module implements.            *)
(***************************************************************************)
LastExecuted == IF executed = <<>> THEN 0 ELSE executed[Len(executed)]

\* The requests before the last executed one that were not executed.
Missed == {m \in 1..LastExecuted : \A i \in 1..Len(executed) : executed[i] # m}

Service == INSTANCE RpcService
  WITH sent <- hostMsg, slack <- restarts - Cardinality(Missed)

\* With a host that waits for its answers, the control path is the RPC
\* service: whatever recv_task and pserial_task interleave, requests are
\* executed whole and in order, one may be missing per restart, and none is
\* executed twice but at a restart.
ImplementsRpcService == Service!AbsSpec
=============================================================================
