------------------------ MODULE SerialRpcServiceProofs ------------------------
(***************************************************************************)
(* Proofs of what the control path does for the host, for every number and *)
(* size of requests, buffer and queue capacity, and any number of failed   *)
(* allocations and events:                                                 *)
(*   requests are executed in order, for every host (OrderCorrect);        *)
(*   a host that waits for its answers finds the RPC service, however      *)
(*   often it restarts (ServiceCorrect);                                   *)
(*   of such a host, while it does not restart, every request is put       *)
(*   together exactly (ReceivedCorrect) and, while memory lasts, none is   *)
(*   lost: it is answered wherever the tasks stop (AnsweredCorrect).       *)
(*                                                                         *)
(* For the order: the fragments lie in one line, those that r.data still   *)
(* remembers, the one in recv_task's hands, those on the bus. The line is  *)
(* ordered by request and index, a request that has been read is behind    *)
(* all that is ahead in the line, and the sequence numbers tell the        *)
(* requests of one life of the host apart. That is what keeps r, which     *)
(* recv_task may fill again before pserial_task has cleared all its        *)
(* fields, from yielding the same request twice.                           *)
(***************************************************************************)
EXTENDS SerialRpcProofs, FiniteSetTheorems

Before(a, b) ==
  \/ a.msg < b.msg
  \/ a.msg = b.msg /\ a.idx < b.idx

\* The fragments on the bus, and with the one recv_task works on.
OnBus == {bus[i] : i \in 1..Len(bus)}

Ahead == OnBus \union (IF rpc \in {"wait", "match", "count"} THEN {hdr} ELSE {})

\* A host that has begun request m, with left fragments of it to go, has sent x.
SentBy(x, m, left) ==
  /\ x.msg \in 1..m
  /\ x.idx <= Frags[x.msg]
  /\ x.msg = m => x.idx <= Frags[x.msg] - left

Sent(x) == SentBy(x, hostMsg, hostLeft)

\* The request that r.data begins with, and whether r counts any of it.
First == data[1].msg

Counted == len # 0 \/ (rpc = "count" /\ base + Min2(1, rem) # 0)

\* All of request m has been read, or it has been executed.
Done(m) == \/ \E i \in 1..Len(executed) : executed[i] = m
           \/ Whole(got) /\ got[1].msg = m

HostCounts ==
  /\ closed <= hostMsg
  /\ hostLeft > 0 => hostMsg > closed
  /\ hostMsg > closed => hostSeq > 0

FragmentsSent ==
  /\ rpc = "count" => hdr \in Fragment
  /\ \A f \in Ahead : Sent(f.payload) /\ f.seq > 0
  /\ \A k \in 1..BufCap : data[k].msg > 0 => Sent(data[k])

\* The line is ordered.
BusInOrder ==
  \A i, j \in 1..Len(bus) : i < j => Before(bus[i].payload, bus[j].payload)

HdrBeforeBus ==
  rpc \in {"wait", "match", "count"} =>
    \A f \in OnBus : Before(hdr.payload, f.payload)

DataBefore ==
  \A k \in 1..BufCap :
    /\ \A f \in OnBus : Before(data[k], f.payload)
    /\ rpc \in {"wait", "match"} => Before(data[k], hdr.payload)

\* In this life of the host a later request has a greater number.
NumbersGrow ==
  \A f \in Ahead : f.payload.msg > closed =>
    /\ f.seq <= hostSeq
    /\ f.payload.msg < hostMsg => f.seq < hostSeq
    /\ \A g \in Ahead : f.payload.msg < g.payload.msg => f.seq < g.seq

BufferNumber ==
  Counted /\ First > closed =>
    /\ curSeq <= hostSeq
    /\ First < hostMsg => curSeq < hostSeq
    /\ \A f \in Ahead : First < f.payload.msg => curSeq < f.seq

\* What is done is behind the line.
DoneBehind ==
  \A m \in Reqs : Done(m) =>
    /\ m <= First /\ m <= hostMsg
    /\ m = hostMsg => hostLeft = 0
    /\ \A f \in Ahead : m < f.payload.msg

\* A request that has been read is not counted again.
CountedOnce ==
  First > closed /\ First \in Reqs /\ Done(First) =>
    /\ len = 0 \/ (ppc = "clear" /\ "len" \in clearing)
    /\ rpc = "match" /\ hdr.seq = curSeq => len = 0
    /\ rpc = "count" => base = 0 /\ rem = 0 /\ len = 0

\* What has been read and is to be executed comes after all that was.
GotIsNext ==
  ppc \in {"clear", "handle"} /\ Whole(got) =>
    \A i \in 1..Len(executed) :
      \/ executed[i] < got[1].msg
      \/ executed[i] = got[1].msg /\ got[1].msg <= closed

OrderInv ==
  /\ HostCounts /\ FragmentsSent /\ BusInOrder /\ HdrBeforeBus /\ DataBefore
  /\ NumbersGrow /\ BufferNumber /\ DoneBehind /\ CountedOnce /\ GotIsNext
  /\ HandledInOrder

-----------------------------------------------------------------------------
(***************************************************************************)
(* Types, in the form the steps below need them.                           *)
(***************************************************************************)
Typed ==
  /\ hostMsg \in 0..NumReq /\ hostLeft \in Nat /\ hostSeq \in Nat /\ closed \in Nat
  /\ curSeq \in Nat /\ len \in Nat /\ base \in Nat /\ rem \in Nat
  /\ BufCap \in Nat \ {0}
  /\ \A m \in Reqs : Frags[m] \in Nat \ {0}
  /\ \A f \in Ahead : /\ f.payload.msg \in Reqs /\ f.payload.idx \in Nat
                      /\ f.seq \in Nat
  /\ \A k \in 1..BufCap : data[k].msg \in 0..NumReq /\ data[k].idx \in Nat
  /\ First \in 0..NumReq

LEMMA FragmentFields ==
  ASSUME NEW f \in Fragment
  PROVE  f.payload.msg \in Reqs /\ f.payload.idx \in Nat /\ f.seq \in Nat
BY DEF Fragment, Payload

\* A whole request is one of the host's.
LEMMA WholeType ==
  ASSUME NEW d \in Seq(Payload), Whole(d)
  PROVE  d[1].msg \in Reqs
<1>1. Len(d) \in Nat \ {0}
  BY EmptySeq DEF Whole
<1>2. d[1] \in Payload
  BY <1>1, ElementOfSeq
<1>3. QED
  BY <1>2 DEF Payload

LEMMA TypesHold == TypeOK /\ FragmentsSent => Typed
<1> SUFFICES ASSUME TypeOK, FragmentsSent PROVE Typed
  OBVIOUS
<1>1. \A f \in Ahead : f \in Fragment
  <2>1. \A i \in 1..Len(bus) : bus[i] \in Fragment
    BY ElementOfSeq DEF TypeOK, HostOK
  <2>2. rpc \in {"wait", "match", "count"} => hdr \in Fragment
    BY DEF TypeOK, RecvOK, FragmentsSent
  <2>3. QED
    BY <2>1, <2>2 DEF Ahead, OnBus
<1>2. \A k \in 1..BufCap : data[k].msg \in 0..NumReq /\ data[k].idx \in Nat
  <2> SUFFICES ASSUME NEW k \in 1..BufCap
               PROVE  data[k].msg \in 0..NumReq /\ data[k].idx \in Nat
    OBVIOUS
  <2>1. data[k] \in Payload \/ data[k] = [msg |-> 0, idx |-> 0]
    BY DEF TypeOK, BufferOK, NoFragment
  <2>2. NumReq \in Nat
    BY ConstantsAssumption
  <2>3. QED
    BY <2>1, <2>2 DEF Payload, Reqs
<1>3. BufCap \in Nat \ {0} /\ \A m \in Reqs : Frags[m] \in Nat \ {0}
  BY ConstantsAssumption DEF Reqs
<1>4. /\ hostMsg \in 0..NumReq /\ hostLeft \in Nat /\ hostSeq \in Nat /\ closed \in Nat
      /\ curSeq \in Nat /\ len \in Nat /\ base \in Nat /\ rem \in Nat
  BY ConstantsAssumption DEF TypeOK, HostOK, BufferOK, RecvOK
<1>5. \A f \in Ahead : /\ f.payload.msg \in Reqs /\ f.payload.idx \in Nat
                       /\ f.seq \in Nat
  BY <1>1, FragmentFields
<1>6. QED
  BY <1>2, <1>3, <1>4, <1>5 DEF Typed, First

-----------------------------------------------------------------------------
(***************************************************************************)
(* The bus.                                                                *)
(***************************************************************************)
LEMMA BusAfterAppend ==
  ASSUME bus \in Seq(Fragment), NEW e \in Fragment, bus' = Append(bus, e)
  PROVE  /\ OnBus' = OnBus \union {e}
         /\ BusInOrder /\ (\A f \in OnBus : Before(f.payload, e.payload)) => BusInOrder'
<1>1. /\ Len(bus') = Len(bus) + 1 /\ Len(bus) \in Nat
      /\ \A i \in 1..Len(bus) : bus'[i] = bus[i]
      /\ bus'[Len(bus) + 1] = e
  BY AppendProperties, LenProperties
<1>2. OnBus' = OnBus \union {e}
  BY <1>1 DEF OnBus
<1>3. ASSUME BusInOrder, \A f \in OnBus : Before(f.payload, e.payload),
             NEW i \in 1..Len(bus'), NEW j \in 1..Len(bus'), i < j
      PROVE  Before(bus'[i].payload, bus'[j].payload)
  <2>1. i \in 1..Len(bus) /\ bus'[i] = bus[i] /\ bus[i] \in OnBus
    BY <1>1, <1>3 DEF OnBus
  <2>2. CASE j = Len(bus) + 1
    BY <1>1, <1>3, <2>1, <2>2
  <2>3. CASE j # Len(bus) + 1
    <3>1. j \in 1..Len(bus) /\ bus'[j] = bus[j]
      BY <1>1, <2>3
    <3>2. QED
      BY <1>3, <2>1, <3>1 DEF BusInOrder
  <2>4. QED
    BY <2>2, <2>3
<1>4. QED
  BY <1>2, <1>3 DEF BusInOrder

LEMMA BusAfterTake ==
  ASSUME bus \in Seq(Fragment), bus # <<>>, bus' = Tail(bus)
  PROVE  /\ OnBus = OnBus' \union {Head(bus)} /\ Head(bus) \in OnBus
         /\ Head(bus) \in Fragment
         /\ BusInOrder =>
              BusInOrder' /\ \A f \in OnBus' : Before(Head(bus).payload, f.payload)
<1>1. /\ Len(bus) \in Nat \ {0} /\ Len(bus') = Len(bus) - 1
      /\ \A i \in 1..Len(bus') : bus'[i] = bus[i + 1]
  BY HeadTailProperties, EmptySeq
<1>2. Head(bus) = bus[1] /\ Head(bus) \in Fragment
  BY HeadTailProperties
<1>3. OnBus' = {bus[i + 1] : i \in 1..(Len(bus) - 1)}
  BY <1>1 DEF OnBus
<1>4. \A f \in OnBus' : \E i \in 2..Len(bus) : f = bus[i]
  BY <1>1, <1>3
<1>5. OnBus \subseteq OnBus' \union {Head(bus)}
  <2> SUFFICES ASSUME NEW i \in 1..Len(bus), i # 1 PROVE bus[i] \in OnBus'
    BY <1>2 DEF OnBus
  <2>1. i - 1 \in 1..Len(bus') /\ bus'[i - 1] = bus[i]
    BY <1>1
  <2>2. QED
    BY <2>1 DEF OnBus
<1>6. OnBus = OnBus' \union {Head(bus)} /\ Head(bus) \in OnBus
  BY <1>1, <1>2, <1>4, <1>5 DEF OnBus
<1>7. ASSUME BusInOrder PROVE BusInOrder'
  BY <1>1, <1>7 DEF BusInOrder
<1>8. ASSUME BusInOrder, NEW f \in OnBus' PROVE Before(Head(bus).payload, f.payload)
  BY <1>1, <1>2, <1>4, <1>8 DEF BusInOrder
<1>9. QED
  BY <1>2, <1>6, <1>7, <1>8

LEMMA BusAfterRestart ==
  ASSUME bus \in Seq(Fragment), NEW n \in 0..Len(bus), bus' = SubSeq(bus, 1, n)
  PROVE  OnBus' \subseteq OnBus /\ (BusInOrder => BusInOrder')
<1>1. /\ Len(bus) \in Nat /\ Len(bus') = n
      /\ \A i \in 1..n : bus'[i] = bus[i]
  BY SubSeqProperties, LenProperties, ElementOfSeq
<1>2. QED
  BY <1>1 DEF OnBus, BusInOrder

-----------------------------------------------------------------------------
(***************************************************************************)
(* The steps that touch nothing of the line and of what was read: those of *)
(* the producers, of recv_task once r is complete, and of pserial_task     *)
(* outside of the read.                                                    *)
(***************************************************************************)
Quiet ==
  /\ UNCHANGED <<hostMsg, hostLeft, hostSeq, closed, bus, curSeq, len, data, hdr,
                 base, rem, got, clearing, executed>>
  /\ \/ rpc' = rpc
     \/ /\ rpc \notin {"wait", "match", "count"}
        /\ rpc' \notin {"wait", "match", "count"}
  /\ \/ ppc' = ppc
     \/ ppc # "clear" /\ ppc' \notin {"clear", "handle"}

LEMMA QuietOrder == OrderInv /\ Quiet => OrderInv'
<1> SUFFICES ASSUME OrderInv, Quiet PROVE OrderInv'
  OBVIOUS
<1>1. OnBus' = OnBus /\ Ahead' = Ahead /\ First' = First
  BY DEF Quiet, OnBus, Ahead, First
<1>2. \A m : Done(m)' <=> Done(m)
  BY DEF Quiet, Done
<1>3. Counted' <=> Counted
  BY DEF Quiet, Counted
<1>4. HostCounts' /\ FragmentsSent'
  BY <1>1 DEF Quiet, OrderInv, HostCounts, FragmentsSent, Sent, SentBy
<1>5. BusInOrder' /\ HdrBeforeBus' /\ DataBefore'
  BY <1>1 DEF Quiet, OrderInv, BusInOrder, HdrBeforeBus, DataBefore
<1>6. NumbersGrow' /\ BufferNumber'
  BY <1>1, <1>3 DEF Quiet, OrderInv, NumbersGrow, BufferNumber
<1>7. DoneBehind'
  BY <1>1, <1>2 DEF Quiet, OrderInv, DoneBehind
<1>8. CountedOnce'
  BY <1>1, <1>2 DEF Quiet, OrderInv, CountedOnce
<1>9. GotIsNext' /\ HandledInOrder'
  BY DEF Quiet, OrderInv, GotIsNext, HandledInOrder
<1>10. QED
  BY <1>4, <1>5, <1>6, <1>7, <1>8, <1>9 DEF OrderInv

LEMMA QuietSteps ==
  ASSUME \/ UNCHANGED vars
         \/ RecvAlloc \/ RecvAllocFails \/ RecvPost
         \/ \E p \in Producers : EventRaise(p) \/ EventPost(p) \/ EventNoMemory(p)
         \/ PserialTake \/ PserialEvent \/ PserialSelfPost \/ PserialAnswer
         \/ PserialNoMemory
  PROVE  Quiet
<1>1. CASE UNCHANGED vars
  BY <1>1 DEF vars, Quiet, hostVars, rVars, recvVars, pserVars
<1>2. CASE RecvAlloc \/ RecvAllocFails \/ RecvPost
  BY <1>2 DEF RecvAlloc, RecvAllocFails, RecvPost, Quiet, hostVars, rVars, pserVars
<1>3. CASE \E p \in Producers : EventRaise(p) \/ EventPost(p) \/ EventNoMemory(p)
  BY <1>3 DEF EventRaise, EventPost, EventNoMemory, Quiet, hostVars, rVars, recvVars,
              pserVars
<1>4. CASE PserialTake \/ PserialEvent \/ PserialSelfPost \/ PserialAnswer \/ PserialNoMemory
  BY <1>4 DEF PserialTake, PserialEvent, PserialSelfPost, PserialAnswer, PserialNoMemory,
              Quiet, hostVars, rVars, recvVars
<1>5. QED
  BY <1>1, <1>2, <1>3, <1>4

-----------------------------------------------------------------------------
(***************************************************************************)
(* The host.                                                               *)
(***************************************************************************)
LEMMA HostBeginOrder == TypeOK /\ OrderInv /\ HostBegin => OrderInv'
<1> SUFFICES ASSUME TypeOK, OrderInv, HostBegin PROVE OrderInv'
  OBVIOUS
<1>1. /\ hostLeft = 0 /\ hostMsg' = hostMsg + 1 /\ hostSeq' = hostSeq + 1
      /\ UNCHANGED <<closed, bus, curSeq, len, data, rpc, hdr, base, rem, ppc, got,
                     clearing, executed>>
  BY DEF HostBegin, rVars, recvVars, pserVars
<1>2. OnBus' = OnBus /\ Ahead' = Ahead /\ First' = First /\ (Counted' <=> Counted)
  BY <1>1 DEF OnBus, Ahead, First, Counted
<1>3. \A m : Done(m)' <=> Done(m)
  BY <1>1 DEF Done
<1>4. Typed
  BY TypesHold DEF OrderInv
<1>5. ASSUME NEW x, Sent(x), x.msg \in Reqs, x.idx \in Nat PROVE SentBy(x, hostMsg', hostLeft')
  BY <1>1, <1>4, <1>5 DEF Sent, SentBy, Typed
<1>6. HostCounts'
  BY <1>1, <1>4 DEF OrderInv, HostCounts, Typed, HostBegin
<1>7. FragmentsSent'
  <2>1. \A k \in 1..BufCap : data[k].msg > 0 => data[k].msg \in Reqs
    BY <1>4, ConstantsAssumption DEF Typed, Reqs
  <2>2. QED
    BY <1>1, <1>2, <1>4, <1>5, <2>1 DEF OrderInv, FragmentsSent, Sent, Typed
<1>8. BusInOrder' /\ HdrBeforeBus' /\ DataBefore'
  BY <1>1, <1>2 DEF OrderInv, BusInOrder, HdrBeforeBus, DataBefore
<1>9. NumbersGrow'
  <2>1. \A f \in Ahead : f.payload.msg <= hostMsg
    BY <1>4 DEF OrderInv, FragmentsSent, Sent, SentBy, Typed
  <2>2. QED
    BY <1>1, <1>2, <1>4, <2>1 DEF OrderInv, NumbersGrow, Typed, Reqs
<1>10. BufferNumber'
  BY <1>1, <1>2, <1>4 DEF OrderInv, BufferNumber, Typed
<1>11. DoneBehind'
  BY <1>1, <1>2, <1>3, <1>4 DEF OrderInv, DoneBehind, Typed, Reqs
<1>12. CountedOnce'
  BY <1>1, <1>2, <1>3 DEF OrderInv, CountedOnce
<1>13. GotIsNext' /\ HandledInOrder'
  BY <1>1 DEF OrderInv, GotIsNext, HandledInOrder
<1>14. QED
  BY <1>6, <1>7, <1>8, <1>9, <1>10, <1>11, <1>12, <1>13 DEF OrderInv

LEMMA HostFragmentOrder == TypeOK /\ OrderInv /\ HostFragment => OrderInv'
<1> SUFFICES ASSUME TypeOK, OrderInv, HostFragment PROVE OrderInv'
  OBVIOUS
<1> DEFINE piece == [msg |-> hostMsg, idx |-> Frags[hostMsg] - hostLeft + 1]
           new == [payload |-> piece, more |-> hostLeft > 1, seq |-> hostSeq]
<1>1. /\ hostLeft > 0 /\ hostLeft' = hostLeft - 1 /\ bus' = Append(bus, new)
      /\ UNCHANGED <<hostMsg, hostSeq, closed, curSeq, len, data, rpc, hdr, base, rem, ppc,
                     got, clearing, executed>>
  BY DEF HostFragment, rVars, recvVars, pserVars
<1>2. Typed
  BY TypesHold DEF OrderInv
<1>3. /\ hostMsg \in Reqs /\ hostMsg > closed /\ hostSeq > 0
      /\ hostLeft <= Frags[hostMsg]
  BY <1>1, <1>2, ConstantsAssumption DEF TypeOK, HostOK, Reqs, OrderInv, HostCounts
<1>4. new \in Fragment /\ bus \in Seq(Fragment)
  <2>1. piece \in Payload
    BY <1>1, <1>2, <1>3 DEF Payload, Typed
  <2>2. QED
    BY <1>2, <2>1 DEF Fragment, Typed, TypeOK, HostOK
<1>5. /\ new.payload.msg = hostMsg
      /\ new.payload.idx = Frags[hostMsg] - hostLeft + 1
      /\ new.seq = hostSeq
  OBVIOUS
<1> HIDE DEF new
<1>6. ASSUME NEW x, Sent(x), x.msg \in Reqs, x.idx \in Nat
      PROVE  Before(x, new.payload) /\ SentBy(x, hostMsg', hostLeft')
  BY <1>1, <1>2, <1>3, <1>5, <1>6 DEF Sent, SentBy, Typed, Before
<1>7. \A f \in Ahead : /\ Before(f.payload, new.payload) /\ SentBy(f.payload, hostMsg', hostLeft')
                       /\ f.payload.msg <= hostMsg
  BY <1>2, <1>6 DEF OrderInv, FragmentsSent, Typed, Sent, SentBy
<1>8. \A f \in OnBus : f \in Ahead
  BY DEF Ahead
<1>9. OnBus' = OnBus \union {new} /\ BusInOrder'
  BY <1>1, <1>4, <1>7, <1>8, BusAfterAppend DEF OrderInv
<1>10. Ahead' = Ahead \union {new} /\ First' = First /\ (Counted' <=> Counted)
  BY <1>1, <1>9 DEF Ahead, First, Counted
<1>11. \A m : Done(m)' <=> Done(m)
  BY <1>1 DEF Done
<1>12. HostCounts'
  BY <1>1, <1>2 DEF OrderInv, HostCounts, Typed
<1>13. FragmentsSent'
  <2>1. SentBy(new.payload, hostMsg', hostLeft')
    <3>1. hostMsg \in Nat \ {0} /\ hostLeft \in Nat /\ Frags[hostMsg] \in Nat
      BY <1>2, <1>3 DEF Typed, Reqs
    <3>2. hostMsg' = hostMsg /\ hostLeft' = hostLeft - 1 /\ hostLeft > 0
      BY <1>1
    <3>3. QED
      BY <1>5, <3>1, <3>2 DEF SentBy
  <2>2. \A k \in 1..BufCap : data[k].msg > 0 => SentBy(data[k], hostMsg', hostLeft')
    <3> SUFFICES ASSUME NEW k \in 1..BufCap, data[k].msg > 0
                 PROVE  SentBy(data[k], hostMsg', hostLeft')
      BY <1>1
    <3>1. data[k].msg \in Reqs /\ data[k].idx \in Nat /\ Sent(data[k])
      BY <1>2, ConstantsAssumption DEF Typed, Reqs, OrderInv, FragmentsSent
    <3>2. QED
      BY <1>6, <3>1
  <2>3. QED
    BY <1>1, <1>3, <1>5, <1>7, <1>10, <2>1, <2>2 DEF OrderInv, FragmentsSent, Sent
<1>14. HdrBeforeBus'
  BY <1>1, <1>7, <1>9 DEF OrderInv, HdrBeforeBus, Ahead
<1>15. DataBefore'
  <2>1. \A k \in 1..BufCap : Before(data[k], new.payload)
    <3> SUFFICES ASSUME NEW k \in 1..BufCap PROVE Before(data[k], new.payload)
      OBVIOUS
    <3>1. CASE data[k].msg > 0
      <4>1. data[k].msg \in Reqs /\ data[k].idx \in Nat /\ Sent(data[k])
        BY <1>2, <3>1, ConstantsAssumption DEF Typed, Reqs, OrderInv, FragmentsSent
      <4>2. QED
        BY <1>6, <4>1
    <3>2. CASE ~(data[k].msg > 0)
      BY <1>2, <1>3, <1>5, <3>2, ConstantsAssumption DEF Typed, Before, Reqs
    <3>3. QED
      BY <3>1, <3>2
  <2>2. QED
    BY <1>1, <1>9, <2>1 DEF OrderInv, DataBefore
<1>16. NumbersGrow'
  BY <1>1, <1>2, <1>5, <1>7, <1>10 DEF OrderInv, NumbersGrow, Typed, Reqs
<1>17. BufferNumber'
  BY <1>1, <1>2, <1>5, <1>10 DEF OrderInv, BufferNumber, Typed
<1>18. DoneBehind'
  BY <1>1, <1>2, <1>3, <1>5, <1>10, <1>11 DEF OrderInv, DoneBehind, Typed, Reqs
<1>19. CountedOnce'
  BY <1>1, <1>10, <1>11 DEF OrderInv, CountedOnce
<1>20. GotIsNext' /\ HandledInOrder'
  BY <1>1 DEF OrderInv, GotIsNext, HandledInOrder
<1>21. QED
  BY <1>9, <1>12, <1>13, <1>14, <1>15, <1>16, <1>17, <1>18, <1>19, <1>20 DEF OrderInv

\* A restart ends the life of all that was sent before.
LEMMA HostRestartOrder == TypeOK /\ OrderInv /\ HostRestart => OrderInv'
<1> SUFFICES ASSUME TypeOK, OrderInv, HostRestart PROVE OrderInv'
  OBVIOUS
<1>1. /\ hostMsg > closed /\ hostLeft' = 0 /\ closed' = hostMsg
      /\ hostSeq' \in 0..hostSeq
      /\ UNCHANGED <<hostMsg, curSeq, len, data, rpc, hdr, base, rem, ppc,
                     got, clearing, executed>>
  BY DEF HostRestart, rVars, recvVars, pserVars
<1>2. Typed
  BY TypesHold DEF OrderInv
<1>3. OnBus' \subseteq OnBus /\ BusInOrder'
  <2>1. PICK n \in 0..Len(bus) : bus' = SubSeq(bus, 1, n)
    BY DEF HostRestart
  <2>2. bus \in Seq(Fragment)
    BY DEF TypeOK, HostOK
  <2>3. QED
    BY <2>1, <2>2, BusAfterRestart DEF OrderInv
<1>4. Ahead' \subseteq Ahead /\ First' = First
  BY <1>1, <1>3 DEF Ahead, First
<1>5. \A m : Done(m)' <=> Done(m)
  BY <1>1 DEF Done
<1>6. \A f \in Ahead : f.payload.msg <= hostMsg
  BY <1>2 DEF OrderInv, FragmentsSent, Sent, SentBy, Typed
<1>7. First <= hostMsg
  BY <1>2 DEF OrderInv, FragmentsSent, Sent, SentBy, Typed, First
<1>8. HostCounts'
  BY <1>1, <1>2 DEF HostCounts, Typed
<1>9. FragmentsSent'
  <2>1. ASSUME NEW x, Sent(x), x.msg \in Reqs PROVE SentBy(x, hostMsg', hostLeft')
    BY <1>1, <1>2, <2>1 DEF Sent, SentBy, Typed
  <2>2. \A k \in 1..BufCap : data[k].msg > 0 => data[k].msg \in Reqs
    BY <1>2, ConstantsAssumption DEF Typed, Reqs
  <2>3. QED
    BY <1>1, <1>2, <1>4, <2>1, <2>2 DEF OrderInv, FragmentsSent, Sent, Typed
<1>10. HdrBeforeBus' /\ DataBefore'
  BY <1>1, <1>3 DEF OrderInv, HdrBeforeBus, DataBefore
<1>11. NumbersGrow'
  BY <1>1, <1>2, <1>4, <1>6 DEF NumbersGrow, Typed, Reqs
<1>12. BufferNumber' /\ CountedOnce'
  BY <1>1, <1>2, <1>4, <1>7 DEF BufferNumber, CountedOnce, Typed
<1>13. DoneBehind'
  BY <1>1, <1>4, <1>5 DEF OrderInv, DoneBehind
<1>14. GotIsNext' /\ HandledInOrder'
  <2>1. \A i \in 1..Len(executed) : executed[i] \in Reqs
    BY ElementOfSeq DEF TypeOK, PserialOK
  <2>2. Whole(got) => got[1].msg \in Reqs
    BY WholeType DEF TypeOK, PserialOK
  <2>3. \A m \in Reqs : m <= closed => m <= hostMsg
    BY <1>2 DEF OrderInv, HostCounts, Typed, Reqs
  <2>4. GotIsNext'
    BY <1>1, <2>2, <2>3 DEF OrderInv, GotIsNext
  <2>5. HandledInOrder'
    BY <1>1, <2>1, <2>3 DEF OrderInv, HandledInOrder
  <2>6. QED
    BY <2>4, <2>5
<1>15. QED
  BY <1>3, <1>8, <1>9, <1>10, <1>11, <1>12, <1>13, <1>14 DEF OrderInv

-----------------------------------------------------------------------------
(***************************************************************************)
(* recv_task.                                                              *)
(***************************************************************************)
LEMMA RecvTakeOrder == TypeOK /\ OrderInv /\ RecvTake => OrderInv'
<1> SUFFICES ASSUME TypeOK, OrderInv, RecvTake PROVE OrderInv'
  OBVIOUS
<1>1. /\ rpc = "idle" /\ rpc' = "wait" /\ bus # <<>>
      /\ hdr' = Head(bus) /\ bus' = Tail(bus)
      /\ UNCHANGED <<hostMsg, hostLeft, hostSeq, closed, curSeq, len, data, base, ppc, got,
                     clearing, executed>>
  BY DEF RecvTake, hostVars, rVars, pserVars
<1>2. /\ OnBus = OnBus' \union {Head(bus)} /\ Head(bus) \in OnBus
      /\ BusInOrder' /\ \A f \in OnBus' : Before(Head(bus).payload, f.payload)
  BY <1>1, BusAfterTake DEF TypeOK, HostOK, OrderInv
<1>3. Ahead' = Ahead /\ First' = First /\ (Counted' <=> Counted)
  BY <1>1, <1>2 DEF Ahead, First, Counted
<1>4. \A m : Done(m)' <=> Done(m)
  BY <1>1 DEF Done
<1>5. HostCounts' /\ FragmentsSent'
  BY <1>1, <1>3 DEF OrderInv, HostCounts, FragmentsSent, Sent
<1>6. HdrBeforeBus'
  BY <1>1, <1>2 DEF HdrBeforeBus
<1>7. DataBefore'
  BY <1>1, <1>2 DEF OrderInv, DataBefore
<1>8. NumbersGrow' /\ BufferNumber' /\ DoneBehind'
  BY <1>1, <1>3, <1>4 DEF OrderInv, NumbersGrow, BufferNumber, DoneBehind
<1>9. CountedOnce'
  BY <1>1, <1>3, <1>4 DEF OrderInv, CountedOnce
<1>10. GotIsNext' /\ HandledInOrder'
  BY <1>1 DEF OrderInv, GotIsNext, HandledInOrder
<1>11. QED
  BY <1>2, <1>5, <1>6, <1>7, <1>8, <1>9, <1>10 DEF OrderInv

\* A buffer that still counts a request that was read has a smaller number
\* than the fragment: it will not match.
LEMMA RecvStartOrder == TypeOK /\ OrderInv /\ RecvStart => OrderInv'
<1> SUFFICES ASSUME TypeOK, OrderInv, RecvStart PROVE OrderInv'
  OBVIOUS
<1>1. /\ rpc = "wait" /\ rpc' = "match"
      /\ curSeq' = IF len = 0 THEN hdr.seq ELSE curSeq
      /\ UNCHANGED <<hostMsg, hostLeft, hostSeq, closed, bus, len, data, hdr, rem, base, ppc,
                     got, clearing, executed>>
  BY DEF RecvStart, hostVars, pserVars
<1>2. /\ OnBus' = OnBus /\ Ahead' = Ahead /\ First' = First /\ (Counted' <=> Counted)
      /\ hdr \in Ahead
  BY <1>1 DEF OnBus, Ahead, First, Counted
<1>3. \A m : Done(m)' <=> Done(m)
  BY <1>1 DEF Done
<1>4. Typed
  BY TypesHold DEF OrderInv
<1>5. HostCounts' /\ FragmentsSent'
  BY <1>1, <1>2 DEF OrderInv, HostCounts, FragmentsSent, Sent
<1>6. BusInOrder' /\ HdrBeforeBus' /\ DataBefore'
  BY <1>1, <1>2 DEF OrderInv, BusInOrder, HdrBeforeBus, DataBefore
<1>7. NumbersGrow' /\ DoneBehind'
  BY <1>1, <1>2, <1>3 DEF OrderInv, NumbersGrow, DoneBehind
<1>8. BufferNumber'
  <2>1. Counted => len # 0
    BY <1>1 DEF Counted
  <2>2. QED
    BY <1>1, <1>2, <2>1 DEF OrderInv, BufferNumber
<1>9. CountedOnce'
  <2> SUFFICES ASSUME First > closed, First \in Reqs, Done(First)
               PROVE  /\ len = 0 \/ (ppc = "clear" /\ "len" \in clearing)
                      /\ hdr.seq = curSeq' => len = 0
    BY <1>1, <1>2, <1>3 DEF CountedOnce
  <2>1. len = 0 \/ (ppc = "clear" /\ "len" \in clearing)
    BY DEF OrderInv, CountedOnce
  <2>2. First < hdr.payload.msg
    BY <1>2 DEF OrderInv, DoneBehind
  <2>3. len # 0 => curSeq < hdr.seq
    BY <1>2, <2>2 DEF OrderInv, BufferNumber, Counted
  <2>4. QED
    BY <1>1, <1>2, <1>4, <2>1, <2>3 DEF Typed
<1>10. GotIsNext' /\ HandledInOrder'
  BY <1>1 DEF OrderInv, GotIsNext, HandledInOrder
<1>11. QED
  BY <1>5, <1>6, <1>7, <1>8, <1>9, <1>10 DEF OrderInv

LEMMA RecvMismatchOrder == OrderInv /\ RecvMismatch => OrderInv'
<1> SUFFICES ASSUME OrderInv, RecvMismatch PROVE OrderInv'
  OBVIOUS
<1>1. /\ rpc = "match" /\ rpc' = "alloc"
      /\ UNCHANGED <<hostMsg, hostLeft, hostSeq, closed, bus, curSeq, len, data, ppc,
                     got, clearing, executed>>
  BY DEF RecvMismatch, hostVars, pserVars
<1>2. OnBus' = OnBus /\ Ahead' \subseteq Ahead /\ First' = First /\ (Counted' <=> Counted)
  BY <1>1 DEF OnBus, Ahead, First, Counted
<1>3. \A m : Done(m)' <=> Done(m)
  BY <1>1 DEF Done
<1>4. HostCounts' /\ FragmentsSent'
  BY <1>1, <1>2 DEF OrderInv, HostCounts, FragmentsSent, Sent
<1>5. BusInOrder' /\ HdrBeforeBus' /\ DataBefore'
  BY <1>1, <1>2 DEF OrderInv, BusInOrder, HdrBeforeBus, DataBefore
<1>6. NumbersGrow' /\ BufferNumber' /\ DoneBehind'
  BY <1>1, <1>2, <1>3 DEF OrderInv, NumbersGrow, BufferNumber, DoneBehind
<1>7. CountedOnce'
  BY <1>1, <1>2, <1>3 DEF OrderInv, CountedOnce
<1>8. GotIsNext' /\ HandledInOrder'
  BY <1>1 DEF OrderInv, GotIsNext, HandledInOrder
<1>9. QED
  BY <1>4, <1>5, <1>6, <1>7, <1>8 DEF OrderInv

\* A fragment that starts the buffer over begins a request that is not done.
LEMMA RecvCopyOrder == TypeOK /\ CopyStaysInBuffer /\ OrderInv /\ RecvCopy => OrderInv'
<1> SUFFICES ASSUME TypeOK, CopyStaysInBuffer, OrderInv, RecvCopy PROVE OrderInv'
  OBVIOUS
<1>1. /\ rpc = "match" /\ rpc' = "count" /\ hdr.seq = curSeq /\ base' = len
      /\ data' = IF rem > 0 THEN [data EXCEPT ![len + 1] = hdr.payload] ELSE data
      /\ UNCHANGED <<hostMsg, hostLeft, hostSeq, closed, bus, curSeq, len, hdr, rem, ppc,
                     got, clearing, executed>>
  BY DEF RecvCopy, hostVars, pserVars
<1>2. OnBus' = OnBus /\ Ahead' = Ahead /\ hdr \in Ahead /\ hdr \in Fragment
  BY <1>1 DEF OnBus, Ahead, TypeOK, RecvOK
<1>3. \A m : Done(m)' <=> Done(m)
  BY <1>1 DEF Done
<1>4. Typed /\ len + rem <= BufCap
  BY <1>1, TypesHold DEF OrderInv, CopyStaysInBuffer
<1>5. \A k \in 1..BufCap : \/ data'[k] = data[k] /\ ~(rem > 0 /\ k = len + 1)
                           \/ rem > 0 /\ k = len + 1 /\ data'[k] = hdr.payload
  BY <1>1, <1>4 DEF TypeOK, BufferOK, Typed
<1>6. \/ rem > 0 /\ len = 0 /\ First' = hdr.payload.msg
      \/ ~(rem > 0 /\ len = 0) /\ First' = First
  BY <1>4, <1>5 DEF First, Typed
<1>7. HostCounts' /\ FragmentsSent'
  <2>1. \A k \in 1..BufCap : data'[k].msg > 0 => SentBy(data'[k], hostMsg, hostLeft)
    BY <1>2, <1>5 DEF OrderInv, FragmentsSent, Sent
  <2>2. QED
    BY <1>1, <1>2, <2>1 DEF OrderInv, HostCounts, FragmentsSent, Sent
<1>8. BusInOrder' /\ HdrBeforeBus'
  BY <1>1, <1>2 DEF OrderInv, BusInOrder, HdrBeforeBus
<1>9. DataBefore'
  BY <1>1, <1>2, <1>5 DEF OrderInv, DataBefore, HdrBeforeBus
<1>10. NumbersGrow'
  BY <1>1, <1>2 DEF OrderInv, NumbersGrow
<1>11. BufferNumber'
  <2>1. CASE rem > 0 /\ len = 0 /\ First' = hdr.payload.msg
    BY <1>1, <1>2, <2>1 DEF OrderInv, BufferNumber, NumbersGrow
  <2>2. CASE ~(rem > 0 /\ len = 0) /\ First' = First
    <3>1. Counted' => Counted
      BY <1>1, <1>4, <2>2 DEF Counted, Min2, Typed
    <3>2. QED
      BY <1>1, <1>2, <2>2, <3>1 DEF OrderInv, BufferNumber
  <2>3. QED
    BY <1>6, <2>1, <2>2
<1>12. DoneBehind'
  <2>1. \A m \in Reqs : Done(m) => m <= First'
    BY <1>2, <1>4, <1>6 DEF OrderInv, DoneBehind, Typed, Reqs
  <2>2. QED
    BY <1>1, <1>2, <1>3, <2>1 DEF OrderInv, DoneBehind
<1>13. CountedOnce'
  <2>1. \A m \in Reqs : Done(m) => m < hdr.payload.msg
    BY <1>2 DEF OrderInv, DoneBehind
  <2>2. CASE rem > 0 /\ len = 0 /\ First' = hdr.payload.msg
    <3>1. \A m \in Reqs : Done(m)' => m # First'
      BY <1>2, <1>3, <1>4, <2>1, <2>2 DEF Typed, Reqs
    <3>2. QED
      BY <3>1 DEF CountedOnce
  <2>3. CASE ~(rem > 0 /\ len = 0) /\ First' = First
    <3>1. \A m : m = First /\ m > closed /\ m \in Reqs /\ Done(m) => len = 0 /\ rem = 0
      BY <1>1, <1>4, <2>3 DEF OrderInv, CountedOnce, Typed
    <3>2. QED
      BY <1>1, <1>3, <2>3, <3>1 DEF CountedOnce
  <2>4. QED
    BY <1>6, <2>2, <2>3
<1>14. GotIsNext' /\ HandledInOrder'
  BY <1>1 DEF OrderInv, GotIsNext, HandledInOrder
<1>15. QED
  BY <1>7, <1>8, <1>9, <1>10, <1>11, <1>12, <1>13, <1>14 DEF OrderInv

LEMMA RecvCountOrder == TypeOK /\ OrderInv /\ RecvCount => OrderInv'
<1> SUFFICES ASSUME TypeOK, OrderInv, RecvCount PROVE OrderInv'
  OBVIOUS
<1>1. /\ rpc = "count" /\ rpc' \in {"idle", "alloc"}
      /\ len' = base + Min2(1, rem) \/ len' = len + Min2(1, rem)
      /\ UNCHANGED <<hostMsg, hostLeft, hostSeq, closed, bus, curSeq, data, ppc,
                     got, clearing, executed>>
  BY DEF RecvCount, hostVars, pserVars
<1>2. Typed
  BY TypesHold DEF OrderInv
<1>3. OnBus' = OnBus /\ Ahead' \subseteq Ahead /\ First' = First
  BY <1>1 DEF OnBus, Ahead, First
<1>4. Counted' => Counted
  BY <1>1, <1>2 DEF Counted, Min2, Typed
<1>5. \A m : Done(m)' <=> Done(m)
  BY <1>1 DEF Done
<1>6. HostCounts' /\ FragmentsSent'
  BY <1>1, <1>3 DEF OrderInv, HostCounts, FragmentsSent, Sent
<1>7. BusInOrder' /\ HdrBeforeBus' /\ DataBefore'
  BY <1>1, <1>3 DEF OrderInv, BusInOrder, HdrBeforeBus, DataBefore
<1>8. NumbersGrow' /\ BufferNumber' /\ DoneBehind'
  BY <1>1, <1>3, <1>4, <1>5 DEF OrderInv, NumbersGrow, BufferNumber, DoneBehind
<1>9. CountedOnce'
  <2>1. base = 0 /\ rem = 0 /\ len = 0 => len' = 0
    BY <1>1 DEF Min2
  <2>2. QED
    BY <1>1, <1>3, <1>5, <2>1 DEF OrderInv, CountedOnce
<1>10. GotIsNext' /\ HandledInOrder'
  BY <1>1 DEF OrderInv, GotIsNext, HandledInOrder
<1>11. QED
  BY <1>6, <1>7, <1>8, <1>9, <1>10 DEF OrderInv

-----------------------------------------------------------------------------
(***************************************************************************)
(* pserial_task.                                                           *)
(***************************************************************************)

\* What is read of r is whole only if r.data begins with all of a request,
\* and then the request is First.
LEMMA ReadIsFirst ==
  ASSUME TypeOK, NEW n \in 0..len, Whole(FirstUnits(data, n))
  PROVE  /\ n > 0 /\ FirstUnits(data, n)[1].msg = First /\ First \in Reqs
         /\ n = Frags[First]
         /\ data[n].msg = First /\ data[n].idx = Frags[First]
<1>1. len \in 0..BufCap /\ BufCap \in Nat /\ n \in Nat
  BY ConstantsAssumption DEF TypeOK, BufferOK
<1>2. \A i \in 1..n : data[i] \in Payload
  BY <1>1 DEF TypeOK, BufferOK
<1>3. FirstUnits(data, n) \in Seq(Payload) /\ Len(FirstUnits(data, n)) = n
  BY <1>1, <1>2, FirstUnitsType
<1>4. n > 0
  BY <1>1, <1>3, EmptySeq DEF Whole
<1>5. \A i \in 1..n : FirstUnits(data, n)[i] = data[i]
  BY DEF FirstUnits
<1>6. FirstUnits(data, n)[1].msg = First
  BY <1>1, <1>4, <1>5 DEF First
<1>7. First \in Reqs
  BY <1>3, <1>6, WholeType
<1>8. n = Frags[First]
  BY <1>3, <1>6 DEF Whole
<1>9. data[n] = [msg |-> First, idx |-> n]
  BY <1>1, <1>3, <1>4, <1>5, <1>6 DEF Whole
<1>10. QED
  BY <1>4, <1>6, <1>7, <1>8, <1>9

\* A request that is read whole has its last fragment in r.data, so that all
\* that is ahead in the line is of later requests.
LEMMA PserialReadOrder == TypeOK /\ TransitInv /\ OrderInv /\ PserialRead => OrderInv'
<1> SUFFICES ASSUME TypeOK, TransitInv, OrderInv, PserialRead PROVE OrderInv'
  OBVIOUS
<1> DEFINE n == Min2(Len(arg.data), len)
<1>1. ppc = "read" /\ valid /\ rpc \notin {"match", "count"}
  BY DEF PserialRead, TransitInv, OneRequestInTransit, InPserial
<1>2. /\ got' = FirstUnits(data, n) /\ clearing' = {"valid", "len", "seq"}
      /\ ppc' = "clear"
      /\ UNCHANGED <<hostMsg, hostLeft, hostSeq, closed, bus, curSeq, len, data, rpc, hdr, rem,
                     base, executed>>
  BY <1>1 DEF PserialRead, hostVars, rVars, recvVars
<1>3. n \in 0..len
  <2>1. Len(arg.data) \in Nat
    BY LenProperties DEF TypeOK, PserialOK, Entry
  <2>2. len \in Nat
    BY ConstantsAssumption DEF TypeOK, BufferOK
  <2>3. QED
    BY <2>1, <2>2 DEF Min2
<1> HIDE DEF n
<1>4. Typed
  BY TypesHold DEF OrderInv
<1>5. /\ OnBus' = OnBus /\ Ahead' = Ahead /\ First' = First /\ (Counted' <=> Counted)
      /\ \A f \in Ahead : f \in OnBus \/ (rpc = "wait" /\ f = hdr)
  BY <1>1, <1>2 DEF OnBus, Ahead, First, Counted
<1>6. ASSUME Whole(got')
      PROVE  /\ got'[1].msg = First /\ First \in Reqs /\ len # 0
             /\ First <= hostMsg /\ (First = hostMsg => hostLeft = 0)
             /\ \A f \in Ahead : First < f.payload.msg
  <2>1. /\ n > 0 /\ got'[1].msg = First /\ First \in Reqs
        /\ n = Frags[First]
        /\ data[n].msg = First /\ data[n].idx = Frags[First]
    BY <1>2, <1>3, <1>6, ReadIsFirst
  <2>2. n \in 1..BufCap /\ len # 0
    BY <1>3, <1>4, <2>1 DEF TypeOK, BufferOK, Typed
  <2>3. Sent(data[n])
    BY <2>1, <2>2 DEF OrderInv, FragmentsSent, Reqs
  <2>4. First <= hostMsg /\ (First = hostMsg => hostLeft = 0)
    BY <1>4, <2>1, <2>3 DEF Sent, SentBy, Typed
  <2>5. ASSUME NEW f \in Ahead PROVE First < f.payload.msg
    <3>1. Before(data[n], f.payload)
      BY <1>5, <2>2 DEF OrderInv, DataBefore
    <3>2. Sent(f.payload)
      BY DEF OrderInv, FragmentsSent
    <3>3. QED
      BY <1>4, <2>1, <3>1, <3>2 DEF Before, Sent, SentBy, Typed
  <2>6. QED
    BY <2>1, <2>2, <2>4, <2>5
<1>7. \A m : Done(m)' => Done(m) \/ (Whole(got') /\ got'[1].msg = m)
  BY <1>2 DEF Done
<1>8. HostCounts' /\ FragmentsSent'
  BY <1>2, <1>5 DEF OrderInv, HostCounts, FragmentsSent, Sent
<1>9. BusInOrder' /\ HdrBeforeBus' /\ DataBefore'
  BY <1>2, <1>5 DEF OrderInv, BusInOrder, HdrBeforeBus, DataBefore
<1>10. NumbersGrow' /\ BufferNumber'
  BY <1>2, <1>5 DEF OrderInv, NumbersGrow, BufferNumber
<1>11. DoneBehind'
  <2>1. ASSUME NEW m \in Reqs, Done(m) \/ (Whole(got') /\ got'[1].msg = m)
        PROVE  /\ m <= First /\ m <= hostMsg /\ (m = hostMsg => hostLeft = 0)
               /\ \A f \in Ahead : m < f.payload.msg
    BY <1>4, <1>6, <2>1 DEF OrderInv, DoneBehind, Typed, Reqs
  <2>2. QED
    BY <1>2, <1>5, <1>7, <2>1 DEF DoneBehind
<1>12. CountedOnce'
  BY <1>1, <1>2 DEF CountedOnce
<1>13. GotIsNext'
  <2>1. ASSUME Whole(got'), NEW i \in 1..Len(executed)
        PROVE  \/ executed[i] < First
               \/ executed[i] = First /\ First <= closed
    <3>1. executed[i] \in Reqs
      BY ElementOfSeq DEF TypeOK, PserialOK
    <3>2. Done(executed[i])
      BY DEF Done
    <3>3. executed[i] <= First
      BY <3>1, <3>2 DEF OrderInv, DoneBehind
    <3>4. ~(First > closed /\ Done(First))
      BY <1>1, <1>6, <2>1 DEF OrderInv, CountedOnce
    <3>5. QED
      BY <1>4, <3>1, <3>2, <3>3, <3>4 DEF Typed, Reqs
  <2>2. QED
    BY <1>2, <1>6, <2>1 DEF GotIsNext
<1>14. HandledInOrder'
  BY <1>2 DEF OrderInv, HandledInOrder
<1>15. QED
  BY <1>8, <1>9, <1>10, <1>11, <1>12, <1>13, <1>14 DEF OrderInv

LEMMA PserialClearOrder ==
  ASSUME TypeOK, OrderInv, NEW f \in {"valid", "len", "seq"}, PserialClear(f)
  PROVE  OrderInv'
<1>1. /\ ppc = "clear" /\ f \in clearing /\ clearing' = clearing \ {f}
      /\ len' = IF f = "len" THEN 0 ELSE len
      /\ curSeq' = IF f = "seq" THEN 0 ELSE curSeq
      /\ ppc' = IF clearing # {f} THEN "clear" ELSE IF got = <<>> THEN "idle" ELSE "handle"
      /\ UNCHANGED <<hostMsg, hostLeft, hostSeq, closed, bus, data, rpc, hdr, rem, base,
                     got, executed>>
  BY DEF PserialClear, hostVars, recvVars
<1>2. Typed
  BY TypesHold DEF OrderInv
<1>3. OnBus' = OnBus /\ Ahead' = Ahead /\ First' = First /\ (Counted' => Counted)
  BY <1>1 DEF OnBus, Ahead, First, Counted
<1>4. \A m : Done(m)' <=> Done(m)
  BY <1>1 DEF Done
<1>5. HostCounts' /\ FragmentsSent'
  BY <1>1, <1>3 DEF OrderInv, HostCounts, FragmentsSent, Sent
<1>6. BusInOrder' /\ HdrBeforeBus' /\ DataBefore'
  BY <1>1, <1>3 DEF OrderInv, BusInOrder, HdrBeforeBus, DataBefore
<1>7. NumbersGrow' /\ DoneBehind'
  BY <1>1, <1>3, <1>4 DEF OrderInv, NumbersGrow, DoneBehind
<1>8. BufferNumber'
  <2>1. CASE curSeq' = curSeq
    BY <1>1, <1>3, <2>1 DEF OrderInv, BufferNumber
  <2>2. CASE curSeq' = 0
    <3>1. ASSUME First > closed, First < hostMsg PROVE 0 < hostSeq
      BY <1>2, <3>1 DEF OrderInv, HostCounts, Typed
    <3>2. \A g \in Ahead : 0 < g.seq
      BY <1>2 DEF OrderInv, FragmentsSent, Typed
    <3>3. QED
      BY <1>1, <1>2, <1>3, <2>2, <3>1, <3>2 DEF BufferNumber, Typed
  <2>3. QED
    BY <1>1, <2>1, <2>2
<1>9. CountedOnce'
  <2> SUFFICES ASSUME First > closed, First \in Reqs, Done(First)
               PROVE  /\ len' = 0 \/ (ppc' = "clear" /\ "len" \in clearing')
                      /\ rpc = "match" /\ hdr.seq = curSeq' => len' = 0
                      /\ rpc = "count" => base = 0 /\ rem = 0 /\ len' = 0
    BY <1>1, <1>3, <1>4 DEF CountedOnce
  <2>1. len' = 0 \/ (ppc' = "clear" /\ "len" \in clearing')
    BY <1>1 DEF OrderInv, CountedOnce
  <2>2. rpc = "match" => hdr.seq > 0
    BY DEF OrderInv, FragmentsSent, Ahead
  <2>3. rpc = "match" /\ hdr.seq = curSeq' => len' = 0
    BY <1>1, <2>2 DEF OrderInv, CountedOnce
  <2>4. rpc = "count" => base = 0 /\ rem = 0 /\ len' = 0
    BY <1>1 DEF OrderInv, CountedOnce
  <2>5. QED
    BY <2>1, <2>3, <2>4
<1>10. GotIsNext' /\ HandledInOrder'
  BY <1>1 DEF OrderInv, GotIsNext, HandledInOrder
<1>11. QED
  BY <1>5, <1>6, <1>7, <1>8, <1>9, <1>10 DEF OrderInv

LEMMA PserialHandleOrder == TypeOK /\ OrderInv /\ PserialHandle => OrderInv'
<1> SUFFICES ASSUME TypeOK, OrderInv, PserialHandle PROVE OrderInv'
  OBVIOUS
<1>1. /\ ppc = "handle" /\ ppc' \in {"idle", "selfpost", "answer"}
      /\ IF Whole(got) THEN executed' = Append(executed, got[1].msg)
                       ELSE executed' = executed
      /\ UNCHANGED <<hostMsg, hostLeft, hostSeq, closed, bus, curSeq, len, data, rpc, hdr, rem,
                     base, got, clearing>>
  BY DEF PserialHandle, hostVars, rVars, recvVars
<1>2. OnBus' = OnBus /\ Ahead' = Ahead /\ First' = First /\ (Counted' <=> Counted)
  BY <1>1 DEF OnBus, Ahead, First, Counted
<1>3. CASE ~Whole(got)
  <2>1. executed' = executed
    BY <1>1, <1>3
  <2>2. Quiet
    BY <1>1, <2>1 DEF Quiet
  <2>3. QED
    BY <2>2, QuietOrder
<1>4. CASE Whole(got)
  <2> DEFINE m == got[1].msg
  <2>1. /\ Len(executed') = Len(executed) + 1 /\ Len(executed) \in Nat
        /\ \A i \in 1..Len(executed) : executed'[i] = executed[i]
        /\ executed'[Len(executed) + 1] = m
    <3>1. executed \in Seq(Reqs) /\ m \in Reqs
      BY <1>4, WholeType DEF TypeOK, PserialOK
    <3>2. executed' = Append(executed, m)
      BY <1>1, <1>4
    <3> HIDE DEF m
    <3>3. QED
      BY <3>1, <3>2, AppendProperties, LenProperties
  <2>2. \A k : Done(k)' <=> Done(k)
    BY <1>1, <1>4, <2>1 DEF Done
  <2>3. HostCounts' /\ FragmentsSent'
    BY <1>1, <1>2 DEF OrderInv, HostCounts, FragmentsSent, Sent
  <2>4. BusInOrder' /\ HdrBeforeBus' /\ DataBefore'
    BY <1>1, <1>2 DEF OrderInv, BusInOrder, HdrBeforeBus, DataBefore
  <2>5. NumbersGrow' /\ BufferNumber' /\ DoneBehind'
    BY <1>1, <1>2, <2>2 DEF OrderInv, NumbersGrow, BufferNumber, DoneBehind
  <2>6. CountedOnce'
    BY <1>1, <1>2, <2>2 DEF OrderInv, CountedOnce
  <2>7. GotIsNext'
    BY <1>1 DEF GotIsNext
  <2>8. HandledInOrder'
    <3> SUFFICES ASSUME NEW i \in 1..Len(executed'), NEW j \in 1..Len(executed'), i < j
                 PROVE  \/ executed'[i] < executed'[j]
                        \/ executed'[i] = executed'[j] /\ executed'[i] <= closed
      BY <1>1 DEF HandledInOrder
    <3>1. i \in 1..Len(executed) /\ executed'[i] = executed[i]
      BY <2>1
    <3>2. CASE j \in 1..Len(executed)
      BY <2>1, <3>1, <3>2 DEF OrderInv, HandledInOrder
    <3>3. CASE j = Len(executed) + 1
      BY <1>1, <1>4, <2>1, <3>1, <3>3 DEF OrderInv, GotIsNext
    <3>4. QED
      BY <2>1, <3>2, <3>3
  <2>9. QED
    BY <2>3, <2>4, <2>5, <2>6, <2>7, <2>8 DEF OrderInv
<1>5. QED
  BY <1>3, <1>4

-----------------------------------------------------------------------------
LEMMA InitOrder == Init => OrderInv
<1> SUFFICES ASSUME Init PROVE OrderInv
  OBVIOUS
<1>1. OnBus = {} /\ Ahead = {} /\ Len(bus) = 0 /\ Len(executed) = 0
  BY DEF Init, OnBus, Ahead
<1>2. \A m : ~Done(m)
  BY <1>1 DEF Init, Done, Whole
<1>3. \A k \in 1..BufCap : data[k].msg = 0
  BY DEF Init, NoFragment
<1>4. HostCounts /\ FragmentsSent
  BY <1>1, <1>3 DEF Init, HostCounts, FragmentsSent
<1>5. BusInOrder /\ HdrBeforeBus /\ DataBefore
  BY <1>1 DEF Init, BusInOrder, HdrBeforeBus, DataBefore
<1>6. NumbersGrow /\ BufferNumber /\ DoneBehind /\ CountedOnce
  BY <1>1, <1>2 DEF Init, NumbersGrow, BufferNumber, Counted, DoneBehind, CountedOnce
<1>7. GotIsNext /\ HandledInOrder
  BY <1>1 DEF Init, GotIsNext, HandledInOrder
<1>8. QED
  BY <1>4, <1>5, <1>6, <1>7 DEF OrderInv

LEMMA NextOrder ==
  TypeOK /\ CopyStaysInBuffer /\ TransitInv /\ OrderInv /\ [Next]_vars => OrderInv'
BY QuietSteps, QuietOrder, HostBeginOrder, HostFragmentOrder, HostRestartOrder,
   RecvTakeOrder, RecvStartOrder, RecvMismatchOrder, RecvCopyOrder, RecvCountOrder,
   PserialReadOrder, PserialClearOrder, PserialHandleOrder DEF Next, Recv, Pserial

LEMMA OrderHolds == Spec => []OrderInv
<1>1. Init => TransitInv
  BY DEF Init, TransitInv, OneRequestInTransit, InRecv, InPserial, QueuedAt
<1>2. TypeOK /\ TransitInv /\ [Next]_vars => TransitInv'
  BY NextTransit
<1>3. Init => OrderInv
  BY InitOrder
<1>4. TypeOK /\ CopyStaysInBuffer /\ TransitInv /\ OrderInv /\ [Next]_vars => OrderInv'
  BY NextOrder
<1>5. QED
  BY <1>1, <1>2, <1>3, <1>4, TypeCorrect, CopyInBounds, PTL DEF Spec

\* Requests are executed, whole, in the order the host sent them and none
\* twice in a life of the host, however recv_task and pserial_task interleave
\* in the release of r, whatever a mismatch throws away or malloc refuses.
THEOREM OrderCorrect == Spec => []HandledInOrder
<1>1. OrderInv => HandledInOrder
  BY DEF OrderInv
<1>2. QED
  BY <1>1, OrderHolds, PTL

-----------------------------------------------------------------------------
(***************************************************************************)
(* The refinement of RpcService, for a host that waits for its answers:    *)
(* Window is 1. Such a host begins a request only when all those of its    *)
(* life are answered, so that a restart closes at most one that was not    *)
(* executed, and it is the last one it closes.                             *)
(***************************************************************************)
Executed(m) == \E i \in 1..Len(executed) : executed[i] = m

\* What was lost of the requests before the last one closed.
LostBefore(c) == {m \in 1..(c - 1) : ~Executed(m)}

ServiceInv ==
  /\ closed > 0 => restarts > 0 /\ Cardinality(LostBefore(closed)) <= restarts - 1
  /\ \A m \in (closed + 1)..(hostMsg - 1) : Executed(m)
  /\ \A m \in answered : Executed(m)
  /\ ppc \in {"selfpost", "answer"} => executed # <<>> /\ LastExecuted = got[1].msg

Counters ==
  /\ hostMsg \in Nat /\ closed \in Nat /\ restarts \in Nat /\ closed <= hostMsg
  /\ executed \in Seq(Reqs) /\ LastExecuted \in Nat
  /\ executed # <<>> => /\ LastExecuted = executed[Len(executed)]
                        /\ Len(executed) \in 1..Len(executed)
                        /\ LastExecuted \in Reqs
  /\ executed = <<>> => LastExecuted = 0 /\ Len(executed) = 0
  /\ \A i \in 1..Len(executed) : /\ executed[i] \in Reqs /\ executed[i] <= hostMsg
                                 /\ executed[i] <= LastExecuted

\* The last request executed is the greatest.
LEMMA CountersHold == TypeOK /\ OrderInv => Counters
<1> SUFFICES ASSUME TypeOK, OrderInv PROVE Counters
  OBVIOUS
<1>1. /\ hostMsg \in Nat /\ closed \in Nat /\ restarts \in Nat /\ closed <= hostMsg
      /\ executed \in Seq(Reqs)
  BY ConstantsAssumption DEF TypeOK, HostOK, PserialOK, OrderInv, HostCounts
<1>2. \A i \in 1..Len(executed) : executed[i] \in Reqs
  BY <1>1, ElementOfSeq
<1>3. Len(executed) \in Nat /\ (executed # <<>> => Len(executed) > 0)
  BY <1>1, LenProperties, EmptySeq
<1>4. executed # <<>> => /\ LastExecuted = executed[Len(executed)]
                         /\ Len(executed) \in 1..Len(executed)
                         /\ LastExecuted \in Reqs
  BY <1>2, <1>3 DEF LastExecuted
<1>5. executed = <<>> => LastExecuted = 0 /\ Len(executed) = 0
  BY DEF LastExecuted
<1>6. ASSUME NEW i \in 1..Len(executed)
      PROVE  executed[i] <= hostMsg /\ executed[i] <= LastExecuted
  <2>1. Done(executed[i])
    BY DEF Done
  <2>2. executed[i] <= hostMsg
    BY <1>2, <2>1 DEF OrderInv, DoneBehind
  <2>3. executed # <<>>
    BY <1>5, <1>6
  <2>4. CASE i = Len(executed)
    BY <1>2, <1>4, <2>2, <2>3, <2>4 DEF Reqs
  <2>5. CASE i < Len(executed)
    BY <1>2, <1>4, <2>2, <2>3, <2>5 DEF Reqs, OrderInv, HandledInOrder
  <2>6. QED
    BY <1>3, <2>2, <2>4, <2>5
<1>7. QED
  BY <1>1, <1>2, <1>4, <1>5, <1>6 DEF Counters, Reqs

LEMMA OneMore ==
  ASSUME NEW S, IsFiniteSet(S), NEW x
  PROVE  /\ IsFiniteSet(S \union {x}) /\ Cardinality(S \union {x}) \in Nat
         /\ Cardinality(S \union {x}) <= Cardinality(S) + 1
<1>1. /\ IsFiniteSet(S \union {x})
      /\ \/ Cardinality(S \union {x}) = Cardinality(S)
         \/ Cardinality(S \union {x}) = Cardinality(S) + 1
  BY FS_AddElement
<1>2. Cardinality(S) \in Nat
  BY FS_CardinalityType
<1>3. QED
  BY <1>1, <1>2

LEMMA LostFinite ==
  ASSUME NEW c \in Nat
  PROVE  IsFiniteSet(LostBefore(c)) /\ Cardinality(LostBefore(c)) \in Nat
<1>1. IsFiniteSet(1..(c - 1))
  BY FS_Interval
<1>2. IsFiniteSet(LostBefore(c))
  BY <1>1, FS_Subset DEF LostBefore
<1>3. QED
  BY <1>2, FS_CardinalityType

\* No more requests were missed than the host restarted, and fewer while the
\* last one executed is of its former life.
LEMMA MissedBound ==
  ASSUME Counters, ServiceInv
  PROVE  /\ IsFiniteSet(Missed) /\ Cardinality(Missed) \in Nat
         /\ Cardinality(Missed) <= restarts
         /\ executed # <<>> /\ LastExecuted <= closed => Cardinality(Missed) < restarts
<1> USE DEF Counters
<1>1. IsFiniteSet(Missed) /\ Cardinality(Missed) \in Nat
  <2>1. IsFiniteSet(1..LastExecuted)
    BY FS_Interval
  <2>2. IsFiniteSet(Missed)
    BY <2>1, FS_Subset DEF Missed
  <2>3. QED
    BY <2>2, FS_CardinalityType
<1>2. \A m \in Missed : m \in 1..(LastExecuted - 1) /\ ~Executed(m) /\ m <= closed
  <2> SUFFICES ASSUME NEW m \in Missed
               PROVE  m \in 1..(LastExecuted - 1) /\ ~Executed(m) /\ m <= closed
    OBVIOUS
  <2>1. m \in 1..LastExecuted /\ ~Executed(m)
    BY DEF Missed, Executed
  <2>2. executed # <<>> /\ m # LastExecuted
    BY <2>1 DEF Executed
  <2>3. LastExecuted <= hostMsg
    BY <2>2
  <2>4. QED
    BY <2>1, <2>2, <2>3 DEF ServiceInv
<1>3. CASE closed = 0
  <2>1. Missed = {}
    BY <1>2, <1>3
  <2>2. QED
    BY <1>1, <1>3, <2>1, FS_EmptySet DEF Reqs
<1>4. CASE closed > 0
  <2>1. /\ IsFiniteSet(LostBefore(closed)) /\ Cardinality(LostBefore(closed)) \in Nat
        /\ Cardinality(LostBefore(closed)) <= restarts - 1
    BY <1>4, LostFinite DEF ServiceInv
  <2>2. Cardinality(Missed) <= restarts
    <3>1. Missed \subseteq LostBefore(closed) \union {closed}
      BY <1>2 DEF LostBefore
    <3>2. /\ IsFiniteSet(LostBefore(closed) \union {closed})
          /\ Cardinality(LostBefore(closed) \union {closed}) \in Nat
          /\ Cardinality(LostBefore(closed) \union {closed})
               <= Cardinality(LostBefore(closed)) + 1
      BY <2>1, OneMore
    <3>3. Cardinality(Missed) <= Cardinality(LostBefore(closed) \union {closed})
      BY <3>1, <3>2, FS_Subset
    <3>4. QED
      BY <1>1, <2>1, <3>2, <3>3
  <2>3. ASSUME LastExecuted <= closed PROVE Cardinality(Missed) < restarts
    <3>1. Missed \subseteq LostBefore(closed)
      BY <1>2, <2>3 DEF LostBefore
    <3>2. Cardinality(Missed) <= Cardinality(LostBefore(closed))
      BY <2>1, <3>1, FS_Subset
    <3>3. QED
      BY <1>1, <2>1, <3>2
  <2>4. QED
    BY <1>1, <2>2, <2>3
<1>5. QED
  BY <1>3, <1>4

LEMMA ServiceBegin ==
  ASSUME Window = 1, TypeOK, Counters, ServiceInv, HostBegin PROVE ServiceInv'
<1>1. /\ hostMsg' = hostMsg + 1 /\ Outstanding < 1
      /\ UNCHANGED <<closed, restarts, executed, answered, ppc, got>>
  BY DEF HostBegin, pserVars
<1>2. \A m \in (closed + 1)..hostMsg : Executed(m)
  <2> DEFINE pending == {m \in (closed + 1)..hostMsg : m \notin answered}
  <2>1. IsFiniteSet((closed + 1)..hostMsg)
    BY FS_Interval DEF Counters
  <2>2. IsFiniteSet(pending)
    BY <2>1, FS_Subset
  <2>3. Cardinality(pending) \in Nat /\ Cardinality(pending) < 1
    BY <1>1, <2>2, FS_CardinalityType DEF Outstanding
  <2>4. pending = {}
    BY <2>2, <2>3, FS_EmptySet
  <2>5. QED
    BY <2>4 DEF ServiceInv
<1>3. (\A m : Executed(m)' <=> Executed(m)) /\ LastExecuted' = LastExecuted
  BY <1>1 DEF Executed, LastExecuted
<1>4. LostBefore(closed)' = LostBefore(closed)
  BY <1>1, <1>3 DEF LostBefore
<1>5. QED
  BY <1>1, <1>2, <1>3, <1>4 DEF ServiceInv, Counters

LEMMA ServiceRestart == Counters /\ ServiceInv /\ HostRestart => ServiceInv'
<1> SUFFICES ASSUME Counters, ServiceInv, HostRestart PROVE ServiceInv'
  OBVIOUS
<1>1. /\ hostMsg > closed /\ closed' = hostMsg /\ restarts' = restarts + 1
      /\ UNCHANGED <<hostMsg, executed, answered, ppc, got>>
  BY DEF HostRestart, pserVars
<1>2. (\A m : Executed(m)' <=> Executed(m)) /\ LastExecuted' = LastExecuted
  BY <1>1 DEF Executed, LastExecuted
<1>3. LostBefore(closed)' = {m \in 1..(hostMsg - 1) : ~Executed(m)}
  BY <1>1, <1>2 DEF LostBefore
<1>4. \A m \in LostBefore(closed)' : m \in 1..closed /\ ~Executed(m)
  BY <1>3 DEF Counters, ServiceInv
<1>5. Cardinality(LostBefore(closed)') <= restarts
  <2>1. CASE closed = 0
    <3>1. LostBefore(closed)' = {}
      BY <1>4, <2>1
    <3>2. QED
      BY <3>1, FS_EmptySet DEF Counters
  <2>2. CASE closed > 0
    <3>1. /\ IsFiniteSet(LostBefore(closed)) /\ Cardinality(LostBefore(closed)) \in Nat
          /\ Cardinality(LostBefore(closed)) <= restarts - 1
      BY <2>2, LostFinite DEF Counters, ServiceInv
    <3>2. LostBefore(closed)' \subseteq LostBefore(closed) \union {closed}
      BY <1>4, <2>2 DEF LostBefore, Counters
    <3>3. /\ IsFiniteSet(LostBefore(closed) \union {closed})
          /\ Cardinality(LostBefore(closed) \union {closed}) \in Nat
          /\ Cardinality(LostBefore(closed) \union {closed})
               <= Cardinality(LostBefore(closed)) + 1
      BY <3>1, OneMore
    <3>4. /\ IsFiniteSet(LostBefore(closed)')
          /\ Cardinality(LostBefore(closed)')
               <= Cardinality(LostBefore(closed) \union {closed})
      BY <3>2, <3>3, FS_Subset
    <3>5. Cardinality(LostBefore(closed)') \in Nat
      BY <3>4, FS_CardinalityType
    <3>6. QED
      BY <3>1, <3>3, <3>4, <3>5 DEF Counters
  <2>3. QED
    BY <2>1, <2>2 DEF Counters
<1>6. QED
  BY <1>1, <1>2, <1>5 DEF ServiceInv, Counters

LEMMA ServiceHandle == TypeOK /\ Counters /\ ServiceInv /\ PserialHandle => ServiceInv'
<1> SUFFICES ASSUME TypeOK, Counters, ServiceInv, PserialHandle PROVE ServiceInv'
  OBVIOUS
<1>1. /\ IF Whole(got) THEN executed' = Append(executed, got[1].msg)
                       ELSE executed' = executed /\ ppc' = "idle"
      /\ UNCHANGED <<hostMsg, closed, restarts, answered, got>>
  BY DEF PserialHandle, hostVars
<1>2. CASE ~Whole(got)
  <2>1. ppc' = "idle" /\ executed' = executed
    BY <1>1, <1>2
  <2>2. (\A m : Executed(m)' <=> Executed(m)) /\ LastExecuted' = LastExecuted
    BY <2>1 DEF Executed, LastExecuted
  <2>3. LostBefore(closed)' = LostBefore(closed)
    BY <1>1, <2>2 DEF LostBefore
  <2>4. QED
    BY <1>1, <2>1, <2>2, <2>3 DEF ServiceInv
<1>3. CASE Whole(got)
  <2> DEFINE e == got[1].msg
  <2>1. executed \in Seq(Reqs) /\ e \in Reqs /\ executed' = Append(executed, e)
    BY <1>1, <1>3, WholeType DEF TypeOK, PserialOK
  <2>2. got'[1].msg = e
    BY <1>1
  <2> HIDE DEF e
  <2>3. /\ Len(executed') = Len(executed) + 1 /\ Len(executed) \in Nat
        /\ executed' # <<>>
        /\ \A i \in 1..Len(executed) : executed'[i] = executed[i]
        /\ executed'[Len(executed) + 1] = e
    BY <2>1, AppendProperties, LenProperties
  <2>4. LastExecuted' = e
    BY <2>3 DEF LastExecuted
  <2>5. \A m : Executed(m) => Executed(m)'
    BY <2>3 DEF Executed
  <2>6. LostBefore(closed)' \subseteq LostBefore(closed)
    BY <1>1, <2>5 DEF LostBefore
  <2>7. closed > 0 => Cardinality(LostBefore(closed)') <= restarts - 1
    <3>1. IsFiniteSet(LostBefore(closed)) /\ Cardinality(LostBefore(closed)) \in Nat
      BY LostFinite DEF Counters
    <3>2. /\ IsFiniteSet(LostBefore(closed)')
          /\ Cardinality(LostBefore(closed)') <= Cardinality(LostBefore(closed))
      BY <2>6, <3>1, FS_Subset
    <3>3. Cardinality(LostBefore(closed)') \in Nat
      BY <3>2, FS_CardinalityType
    <3>4. QED
      BY <3>1, <3>2, <3>3 DEF ServiceInv, Counters
  <2>8. QED
    BY <1>1, <2>2, <2>3, <2>4, <2>5, <2>7 DEF ServiceInv
<1>4. QED
  BY <1>2, <1>3

LEMMA ServiceAnswer == Counters /\ ServiceInv /\ PserialAnswer => ServiceInv'
<1> SUFFICES ASSUME Counters, ServiceInv, PserialAnswer PROVE ServiceInv'
  OBVIOUS
<1>1. /\ ppc = "answer" /\ ppc' = "idle" /\ answered' = answered \union {got[1].msg}
      /\ UNCHANGED <<hostMsg, closed, restarts, executed>>
  BY DEF PserialAnswer, hostVars
<1>2. (\A m : Executed(m)' <=> Executed(m)) /\ LostBefore(closed)' = LostBefore(closed)
  BY <1>1 DEF Executed, LostBefore
<1>3. Executed(got[1].msg)
  BY <1>1 DEF ServiceInv, Counters, Executed
<1>4. QED
  BY <1>1, <1>2, <1>3 DEF ServiceInv

\* The other steps neither restart the host nor begin, execute or answer a
\* request.
Silent ==
  /\ UNCHANGED <<hostMsg, closed, restarts, executed, answered>>
  /\ ppc' \in {"selfpost", "answer"} => ppc \in {"selfpost", "answer"} /\ got' = got

LEMMA SilentService == ServiceInv /\ Silent => ServiceInv'
<1> SUFFICES ASSUME ServiceInv, Silent PROVE ServiceInv'
  OBVIOUS
<1>1. /\ \A m : Executed(m)' <=> Executed(m)
      /\ LostBefore(closed)' = LostBefore(closed)
      /\ LastExecuted' = LastExecuted
  BY DEF Silent, Executed, LostBefore, LastExecuted
<1>2. QED
  BY <1>1 DEF ServiceInv, Silent

LEMMA SilentSteps ==
  ASSUME [Next]_vars,
         ~HostBegin, ~HostRestart, ~PserialHandle, ~PserialAnswer
  PROVE  Silent
<1>1. CASE UNCHANGED vars
  BY <1>1 DEF vars, Silent, hostVars, pserVars
<1>2. CASE HostFragment \/ Recv
  BY <1>2 DEF HostFragment, Recv, RecvTake, RecvStart, RecvMismatch, RecvCopy, RecvCount,
              RecvAlloc, RecvAllocFails, RecvPost, Silent, hostVars, pserVars
<1>3. CASE \E p \in Producers : EventRaise(p) \/ EventPost(p) \/ EventNoMemory(p)
  BY <1>3 DEF EventRaise, EventPost, EventNoMemory, Silent, hostVars, pserVars
<1>4. CASE PserialTake \/ PserialEvent \/ PserialRead \/ PserialSelfPost \/ PserialNoMemory
  BY <1>4 DEF PserialTake, PserialEvent, PserialRead, PserialSelfPost, PserialNoMemory,
              Silent, hostVars
<1>5. CASE \E f \in {"valid", "len", "seq"} : PserialClear(f)
  BY <1>5 DEF PserialClear, Silent, hostVars
<1>6. QED
  BY <1>1, <1>2, <1>3, <1>4, <1>5 DEF Next, Pserial

\* A silent step is a stutter of the service.
LEMMA SilentStutters == Silent => UNCHANGED Service!absVars
<1> SUFFICES ASSUME Silent PROVE UNCHANGED Service!absVars
  OBVIOUS
<1>1. LastExecuted' = LastExecuted
  BY DEF Silent, LastExecuted
<1>2. Missed' = Missed
  BY <1>1 DEF Silent, Missed
<1>3. QED
  BY <1>2 DEF Silent, Service!absVars

\* Executing a request later than all before skips those in between.
LEMMA MissedAfterLater ==
  ASSUME Counters, ServiceInv, NEW m \in Reqs, m > LastExecuted,
         executed' = Append(executed, m)
  PROVE  /\ LastExecuted' = m
         /\ Cardinality(Missed') = Cardinality(Missed) + (m - LastExecuted - 1)
<1>1. /\ Len(executed') = Len(executed) + 1 /\ Len(executed) \in Nat
      /\ executed' # <<>>
      /\ \A i \in 1..Len(executed) : executed'[i] = executed[i]
      /\ executed'[Len(executed) + 1] = m
  BY AppendProperties, LenProperties DEF Counters
<1>2. LastExecuted' = m /\ m \in Nat
  BY <1>1 DEF LastExecuted, Reqs
<1> DEFINE skipped == (LastExecuted + 1)..(m - 1)
<1>3. \A k \in 1..m : /\ (\A i \in 1..Len(executed') : executed'[i] # k)
                         <=> ~Executed(k) /\ k # m
  BY <1>1 DEF Executed
<1>4. \A k : Executed(k) => k <= LastExecuted
  BY DEF Executed, Counters
<1>5. Missed' = Missed \union skipped
  <2>1. ASSUME NEW k PROVE k \in Missed' <=> k \in 1..m /\ ~Executed(k) /\ k # m
    BY <1>2, <1>3 DEF Missed
  <2>2. ASSUME NEW k PROVE k \in Missed <=> k \in 1..LastExecuted /\ ~Executed(k)
    BY DEF Missed, Executed
  <2>3. ASSUME NEW k
        PROVE  k \in 1..m /\ ~Executed(k) /\ k # m
                 <=> (k \in 1..LastExecuted /\ ~Executed(k)) \/ k \in skipped
    BY <1>2, <1>4 DEF Counters
  <2>4. \A k : k \in Missed' <=> k \in Missed \union skipped
    BY <2>1, <2>2, <2>3
  <2>5. QED
    BY <2>4
<1>6. Missed \intersect skipped = {}
  BY DEF Missed, Counters
<1>7. IsFiniteSet(skipped) /\ Cardinality(skipped) = m - LastExecuted - 1
  <2>1. LastExecuted + 1 \in Int /\ m - 1 \in Int
    BY <1>2 DEF Counters
  <2>2. /\ IsFiniteSet(skipped)
        /\ Cardinality(skipped) = IF LastExecuted + 1 > m - 1 THEN 0
                                  ELSE (m - 1) - (LastExecuted + 1) + 1
    BY <2>1, FS_Interval
  <2>3. QED
    BY <1>2, <2>2 DEF Counters
<1>8. IsFiniteSet(Missed) /\ Cardinality(Missed) \in Nat
  BY MissedBound
<1> HIDE DEF skipped
<1>9. Cardinality(Missed \union skipped)
        = Cardinality(Missed) + Cardinality(skipped) - Cardinality(Missed \intersect skipped)
  BY <1>7, <1>8, FS_Union
<1>10. Cardinality(Missed \intersect skipped) = 0
  BY <1>6, FS_EmptySet
<1>11. LastExecuted \in Nat
  BY DEF Counters
<1>12. QED
  BY <1>2, <1>5, <1>7, <1>8, <1>9, <1>10, <1>11

\* Executing the last request again misses no other.
LEMMA MissedAfterRepeat ==
  ASSUME Counters, executed # <<>>, executed' = Append(executed, LastExecuted)
  PROVE  Missed' = Missed
<1> DEFINE m == LastExecuted
<1>1. m \in Reqs /\ executed \in Seq(Reqs) /\ executed' = Append(executed, m)
  BY DEF Counters
<1>2. Executed(m)
  BY DEF Counters, Executed
<1> HIDE DEF m
<1>3. /\ Len(executed') = Len(executed) + 1 /\ Len(executed) \in Nat
      /\ executed' # <<>>
      /\ \A i \in 1..Len(executed) : executed'[i] = executed[i]
      /\ executed'[Len(executed) + 1] = m
  BY <1>1, AppendProperties, LenProperties
<1>4. LastExecuted' = m
  BY <1>3 DEF LastExecuted
<1>5. \A k : (\A i \in 1..Len(executed') : executed'[i] # k)
               <=> (\A i \in 1..Len(executed) : executed[i] # k)
  BY <1>2, <1>3 DEF Executed
<1>6. LastExecuted = m
  BY DEF m
<1>7. QED
  BY <1>4, <1>5, <1>6 DEF Missed

NotTooManyMissed == Cardinality(Missed) <= restarts

LEMMA MissedBoundNext == Counters' /\ ServiceInv' => NotTooManyMissed'
<1>1. Counters /\ ServiceInv => NotTooManyMissed
  BY MissedBound DEF NotTooManyMissed
<1>2. QED
  BY <1>1, PTL

\* Every step of the control path is a step of the service, or a stutter.
LEMMA ServiceStep ==
  ASSUME TypeOK, OrderInv, Counters, Counters', ServiceInv, ServiceInv', [Next]_vars
  PROVE  [Service!AbsNext]_(Service!absVars)
<1>1. /\ IsFiniteSet(Missed) /\ Cardinality(Missed) \in Nat
      /\ Cardinality(Missed) <= restarts
      /\ executed # <<>> /\ LastExecuted <= closed => Cardinality(Missed) < restarts
  BY MissedBound
<1>2. LastExecuted = Service!LastOf(executed)
  BY DEF LastExecuted, Service!LastOf
<1>3. ASSUME UNCHANGED executed PROVE Missed' = Missed
  BY <1>3 DEF Missed, LastExecuted
<1>4. CASE HostBegin
  <2>1. /\ hostMsg < NumReq /\ hostMsg' = hostMsg + 1
        /\ UNCHANGED <<closed, restarts, executed, answered>>
    BY <1>4 DEF HostBegin, pserVars
  <2>2. Service!Send
    BY <1>3, <2>1 DEF Service!Send
  <2>3. QED
    BY <2>2 DEF Service!AbsNext
<1>5. CASE HostRestart
  <2>1. /\ restarts < MaxRestarts /\ restarts' = restarts + 1 /\ closed' = hostMsg
        /\ UNCHANGED <<hostMsg, executed, answered>>
    BY <1>5 DEF HostRestart, pserVars
  <2>2. Missed' = Missed
    BY <1>3, <2>1
  <2>3. /\ restarts - Cardinality(Missed) < MaxRestarts
        /\ restarts' - Cardinality(Missed') = restarts - Cardinality(Missed) + 1
    BY <1>1, <2>1, <2>2, ConstantsAssumption DEF Counters
  <2>4. Service!Restart
    BY <2>1, <2>3 DEF Service!Restart
  <2>5. QED
    BY <2>4 DEF Service!AbsNext
<1>6. CASE PserialHandle
  <2>1. /\ ppc = "handle"
        /\ executed' = IF Whole(got) THEN Append(executed, got[1].msg) ELSE executed
        /\ UNCHANGED <<hostMsg, closed, restarts, answered>>
    BY <1>6 DEF PserialHandle, hostVars
  <2>2. CASE ~Whole(got)
    <3>1. UNCHANGED Service!absVars
      BY <1>3, <2>1, <2>2 DEF Service!absVars
    <3>2. QED
      BY <3>1
  <2>3. CASE Whole(got)
    <3> DEFINE m == got[1].msg
    <3>1. m \in Reqs /\ executed' = Append(executed, m) /\ m <= hostMsg
      <4>1. m \in Reqs
        BY <2>3, WholeType DEF TypeOK, PserialOK
      <4>2. Done(m)
        BY <2>3 DEF Done
      <4>3. QED
        BY <2>1, <2>3, <4>1, <4>2 DEF OrderInv, DoneBehind
    <3>2. m > LastExecuted \/ (executed # <<>> /\ m = LastExecuted /\ m <= closed)
      <4>1. CASE executed = <<>>
        BY <3>1, <4>1 DEF Counters, Reqs
      <4>2. CASE executed # <<>>
        <5>1. Len(executed) \in 1..Len(executed) /\ LastExecuted = executed[Len(executed)]
          BY <4>2 DEF Counters
        <5>2. QED
          BY <2>1, <2>3, <3>1, <4>2, <5>1 DEF OrderInv, GotIsNext, Counters, Reqs
      <4>3. QED
        BY <4>1, <4>2
    <3> HIDE DEF m
    <3>3. CASE m > LastExecuted
      <4>1. /\ LastExecuted' = m
            /\ Cardinality(Missed') = Cardinality(Missed) + (m - LastExecuted - 1)
        BY <3>1, <3>3, MissedAfterLater
      <4>2. Cardinality(Missed') <= restarts'
        BY MissedBoundNext DEF NotTooManyMissed
      <4>3. /\ restarts' - Cardinality(Missed')
                 = restarts - Cardinality(Missed) - (m - LastExecuted - 1)
            /\ restarts' - Cardinality(Missed') >= 0
            /\ m \in (LastExecuted + 1)..hostMsg
        BY <1>1, <2>1, <3>1, <3>3, <4>1, <4>2 DEF Counters, Reqs
      <4>4. Service!Execute
        BY <1>2, <2>1, <3>1, <4>3 DEF Service!Execute
      <4>5. QED
        BY <4>4 DEF Service!AbsNext
    <3>4. CASE executed # <<>> /\ m = LastExecuted /\ m <= closed
      <4>1. Missed' = Missed
        BY <3>1, <3>4, MissedAfterRepeat
      <4>2. restarts - Cardinality(Missed) > 0
        BY <1>1, <3>4 DEF Counters
      <4>3. Service!Repeat
        BY <1>2, <2>1, <3>1, <3>4, <4>1, <4>2 DEF Service!Repeat
      <4>4. QED
        BY <4>3 DEF Service!AbsNext
    <3>5. QED
      BY <3>2, <3>3, <3>4
  <2>4. QED
    BY <2>2, <2>3
<1>7. CASE PserialAnswer
  <2>1. /\ ppc = "answer" /\ answered' = answered \union {got[1].msg}
        /\ UNCHANGED <<hostMsg, closed, restarts, executed>>
    BY <1>7 DEF PserialAnswer, hostVars
  <2>2. executed # <<>> /\ got[1].msg = LastExecuted
    BY <2>1 DEF ServiceInv
  <2>3. Service!Answer
    BY <1>2, <1>3, <2>1, <2>2 DEF Service!Answer
  <2>4. QED
    BY <2>3 DEF Service!AbsNext
<1>8. CASE ~HostBegin /\ ~HostRestart /\ ~PserialHandle /\ ~PserialAnswer
  BY <1>8, SilentSteps, SilentStutters
<1>9. QED
  BY <1>4, <1>5, <1>6, <1>7, <1>8

\* For a host that waits for each answer the control path implements the RPC
\* service, whatever the sizes of its requests and of r and the queue, however
\* often the host restarts, and whether or not allocations fail.
THEOREM ServiceCorrect ==
  ASSUME Window = 1
  PROVE  Spec => ImplementsRpcService
<1>1. Init => ServiceInv
  BY DEF Init, ServiceInv
<1>2. TypeOK /\ OrderInv /\ ServiceInv /\ [Next]_vars => ServiceInv'
  BY CountersHold, ServiceBegin, ServiceRestart, ServiceHandle, ServiceAnswer, SilentSteps,
     SilentService
<1>3. Init => Service!AbsInit
  <2> SUFFICES ASSUME Init PROVE Service!AbsInit
    OBVIOUS
  <2>1. LastExecuted = 0
    BY DEF Init, LastExecuted
  <2>2. Missed = {}
    BY <2>1 DEF Missed
  <2>3. Cardinality(Missed) = 0
    BY <2>2, FS_EmptySet
  <2>4. QED
    BY <2>3 DEF Init, Service!AbsInit
<1>4. /\ TypeOK /\ OrderInv /\ ServiceInv /\ [Next]_vars
      /\ TypeOK' /\ OrderInv' /\ ServiceInv'
      => [Service!AbsNext]_(Service!absVars)
  <2>1. TypeOK' /\ OrderInv' => Counters'
    BY CountersHold, PTL
  <2>2. QED
    BY <2>1, CountersHold, ServiceStep
<1>5. QED
  BY <1>1, <1>2, <1>3, <1>4, TypeCorrect, OrderHolds, PTL
     DEF Spec, ImplementsRpcService, Service!AbsSpec

-----------------------------------------------------------------------------
(***************************************************************************)
(* The reassembly of the requests of a host that waits for its answers,    *)
(* does not restart, and sends no request larger than r.data. It is in one *)
(* of three phases: between two requests, collecting the fragments of one, *)
(* or with one that is complete.                                           *)
(***************************************************************************)
PatientHost ==
  /\ Window = 1 /\ MaxRestarts = 0
  /\ \A m \in Reqs : Frags[m] <= BufCap

\* Fragment k of the request the host is sending.
Nth(k) == [payload |-> [msg |-> hostMsg, idx |-> k], more |-> k < Frags[hostMsg],
           seq |-> hostSeq]

\* The first n units of d are those of the request the host has begun last.
OfHost(d, n) == \A i \in 1..n : d[i] = [msg |-> hostMsg, idx |-> i]

\* How many fragments have been taken from the bus.
Taken == len + (IF rpc \in {"wait", "match", "count"} THEN 1 ELSE 0)

Between ==
  /\ hostLeft = 0 /\ bus = <<>> /\ rpc = "idle" /\ len = 0 /\ ~valid
  /\ ppc \in {"idle", "event"}

Collecting ==
  /\ hostMsg \in Reqs /\ hostMsg \notin answered
  /\ ~valid /\ ppc \in {"idle", "event"} /\ rpc \in {"idle", "wait", "match", "count"}
  /\ Taken + Len(bus) + hostLeft = Frags[hostMsg]
  /\ \A i \in 1..Len(bus) : bus[i] = Nth(Taken + i)
  /\ rpc \in {"wait", "match", "count"} => hdr = Nth(len + 1) /\ rem = BufCap - len
  /\ rpc = "count" => base = len /\ data[len + 1] = hdr.payload
  /\ \A i \in 1..len : data[i] = [msg |-> hostMsg, idx |-> i]
  /\ len > 0 \/ rpc \in {"match", "count"} => curSeq = hostSeq

Complete ==
  /\ hostMsg \in Reqs /\ hostMsg \notin answered
  /\ hostLeft = 0 /\ bus = <<>> /\ rpc \in {"idle", "alloc", "post"}
  /\ ppc \in {"idle", "event", "read"} => valid
  /\ ppc \in {"clear", "handle", "selfpost", "answer"} => rpc = "idle"
  /\ ppc = "clear" => /\ len = 0 \/ "len" \in clearing
                      /\ ~valid \/ "valid" \in clearing
  /\ ppc \in {"handle", "selfpost", "answer"} => len = 0 /\ ~valid

PhaseInv == Between \/ Collecting \/ Complete

\* While r is not valid no request is on its way to pserial_task, and what
\* that takes from the queue is an event. The host does not begin a request
\* while one is not answered.
LEMMA PatientFacts ==
  ASSUME PatientHost, TypeOK, TransitInv, Counters, ServiceInv
  PROVE  /\ closed = 0 /\ ~HostRestart
         /\ hostMsg + 1 \notin answered
         /\ hostMsg \in Reqs /\ hostMsg \notin answered => ~HostBegin
         /\ ~valid => /\ rpc \notin {"alloc", "post"} /\ ppc # "read"
                      /\ PserialTake => ppc' = "event"
<1>1. restarts = 0
  BY DEF PatientHost, TypeOK, HostOK
<1>2. closed = 0
  BY <1>1 DEF ServiceInv, Counters
<1>3. ~HostRestart
  BY <1>1 DEF HostRestart, PatientHost
<1>4. hostMsg + 1 \notin answered
  BY DEF ServiceInv, Executed, Counters
<1>5. ASSUME hostMsg \in Reqs, hostMsg \notin answered, HostBegin PROVE FALSE
  <2> DEFINE pending == {m \in (closed + 1)..hostMsg : m \notin answered}
  <2>1. IsFiniteSet((closed + 1)..hostMsg)
    BY FS_Interval DEF Counters
  <2>2. IsFiniteSet(pending)
    BY <2>1, FS_Subset
  <2>3. Cardinality(pending) \in Nat /\ Cardinality(pending) < 1
    BY <1>5, <2>2, FS_CardinalityType DEF HostBegin, Outstanding, PatientHost
  <2>4. pending = {}
    BY <2>2, <2>3, FS_EmptySet
  <2>5. hostMsg \in pending
    BY <1>2, <1>5 DEF Counters, Reqs
  <2>6. QED
    BY <2>4, <2>5
<1>6. ASSUME ~valid
      PROVE  /\ rpc \notin {"alloc", "post"} /\ ppc # "read"
             /\ PserialTake => ppc' = "event"
  <2>1. rpc \notin {"alloc", "post"} /\ ppc # "read" /\ QueuedAt = {}
    BY <1>6 DEF TransitInv, OneRequestInTransit, InRecv, InPserial
  <2>2. ASSUME PserialTake PROVE ppc' = "event"
    <3>1. q \in Seq(Entry) /\ q # <<>>
      BY <2>2 DEF PserialTake, TypeOK, QueueOK
    <3>2. Head(q).kind # "request"
      <4>1. Len(q) \in Nat \ {0} /\ Head(q) = q[1]
        BY <3>1, EmptySeq, LenProperties
      <4>2. QED
        BY <2>1, <4>1 DEF QueuedAt
    <3>3. Head(q) \in Entry
      BY <3>1, HeadTailProperties
    <3>4. QED
      BY <2>2, <3>2, <3>3 DEF PserialTake, Entry
  <2>3. QED
    BY <2>1, <2>2
<1>7. QED
  BY <1>2, <1>3, <1>4, <1>5, <1>6

\* The steps that leave the host, the bus, r and recv_task as they are.
Aside ==
  /\ UNCHANGED <<hostVars, bus, rVars, rpc, hdr, rem, base>>
  /\ answered' = answered \/ (ppc = "answer" /\ ppc' = "idle")

LEMMA AsideSteps ==
  ASSUME \/ UNCHANGED vars
         \/ \E p \in Producers : EventRaise(p) \/ EventPost(p) \/ EventNoMemory(p)
         \/ PserialTake \/ PserialEvent \/ PserialRead \/ PserialHandle
         \/ PserialSelfPost \/ PserialAnswer \/ PserialNoMemory
  PROVE  Aside
<1>1. CASE UNCHANGED vars
  BY <1>1 DEF vars, Aside, recvVars, pserVars
<1>2. CASE \E p \in Producers : EventRaise(p) \/ EventPost(p) \/ EventNoMemory(p)
  BY <1>2 DEF EventRaise, EventPost, EventNoMemory, Aside, recvVars, pserVars
<1>3. CASE \/ PserialTake \/ PserialEvent \/ PserialRead \/ PserialHandle
           \/ PserialSelfPost \/ PserialAnswer \/ PserialNoMemory
  BY <1>3 DEF PserialTake, PserialEvent, PserialRead, PserialHandle, PserialSelfPost,
              PserialAnswer, PserialNoMemory, Aside, recvVars
<1>4. QED
  BY <1>1, <1>2, <1>3

\* An idle pserial_task can but take an event.
LEMMA IdlePserial ==
  ASSUME PatientHost, TypeOK, TransitInv, Counters, ServiceInv, [Next]_vars,
         ~valid, ppc \in {"idle", "event"},
         ~HostBegin, ~HostFragment, ~Recv
  PROVE  Aside /\ ppc' \in {"idle", "event"} /\ answered' = answered
<1>1. ~HostRestart
  BY PatientFacts
<1>2. CASE UNCHANGED vars
  BY <1>2, AsideSteps DEF vars, pserVars
<1>3. CASE \E p \in Producers : EventRaise(p) \/ EventPost(p) \/ EventNoMemory(p)
  BY <1>3, AsideSteps DEF EventRaise, EventPost, EventNoMemory, pserVars
<1>4. CASE PserialTake
  BY <1>4, AsideSteps, PatientFacts DEF PserialTake
<1>5. CASE PserialEvent
  BY <1>5, AsideSteps DEF PserialEvent
<1>6. CASE Pserial /\ ~PserialTake /\ ~PserialEvent
  BY <1>6 DEF Pserial, PserialRead, PserialClear, PserialHandle, PserialSelfPost,
              PserialAnswer, PserialNoMemory
<1>7. QED
  BY <1>1, <1>2, <1>3, <1>4, <1>5, <1>6 DEF Next

LEMMA PhaseBetween ==
  ASSUME PatientHost, TypeOK, TransitInv, Counters, ServiceInv, Between, [Next]_vars
  PROVE  PhaseInv'
<1>1. CASE HostBegin
  <2>1. /\ hostMsg' = hostMsg + 1 /\ hostMsg' \in Reqs
        /\ hostLeft' = Frags[hostMsg'] /\ Frags[hostMsg'] \in Nat
        /\ UNCHANGED <<bus, rpc, len, valid, ppc, answered>>
    BY <1>1, ConstantsAssumption DEF HostBegin, rVars, recvVars, pserVars, Counters, Reqs
  <2>2. hostMsg' \notin answered'
    BY <2>1, PatientFacts
  <2>3. Taken' = 0 /\ Len(bus') = 0 /\ len' = 0
    BY <2>1 DEF Between, Taken
  <2>4. Collecting'
    BY <2>1, <2>2, <2>3 DEF Between, Collecting
  <2>5. QED
    BY <2>4 DEF PhaseInv
<1>2. ~HostFragment /\ ~Recv
  BY DEF Between, HostFragment, Recv, RecvTake, RecvStart, RecvMismatch, RecvCopy, RecvCount,
         RecvAlloc, RecvAllocFails, RecvPost
<1>3. CASE ~HostBegin
  <2>1. Aside /\ ppc' \in {"idle", "event"}
    BY <1>2, <1>3, IdlePserial DEF Between
  <2>2. Between'
    BY <2>1 DEF Between, Aside, hostVars, rVars
  <2>3. QED
    BY <2>2 DEF PhaseInv
<1>4. QED
  BY <1>1, <1>3

\* A fragment that has all the fragments before it ahead.
LEMMA CollectFragment ==
  ASSUME TypeOK, Collecting, HostFragment PROVE Collecting'
<1> DEFINE piece == [msg |-> hostMsg, idx |-> Frags[hostMsg] - hostLeft + 1]
           new == [payload |-> piece, more |-> hostLeft > 1, seq |-> hostSeq]
<1>1. /\ hostLeft > 0 /\ hostLeft' = hostLeft - 1 /\ bus' = Append(bus, new)
      /\ UNCHANGED <<hostMsg, hostSeq, answered, valid, curSeq, len, data, rpc, hdr, rem, base,
                     ppc>>
  BY DEF HostFragment, rVars, recvVars, pserVars
<1>2. /\ bus \in Seq(Fragment) /\ Len(bus) \in Nat /\ hostLeft \in Nat
      /\ len \in Nat /\ hostSeq \in Nat /\ Frags[hostMsg] \in Nat
  BY LenProperties, ConstantsAssumption DEF TypeOK, HostOK, BufferOK, Collecting, Reqs
<1>3. /\ Taken' = Taken /\ Taken \in Nat
      /\ Taken + Len(bus) + hostLeft = Frags[hostMsg]
  BY <1>1, <1>2 DEF Taken, Collecting
<1>4. \A k : Nth(k)' = Nth(k)
  BY <1>1 DEF Nth
<1>5. new = Nth(Taken + Len(bus) + 1) /\ new \in Fragment
  <2>1. Frags[hostMsg] - hostLeft + 1 = Taken + Len(bus) + 1
    BY <1>2, <1>3
  <2>2. (hostLeft > 1) <=> (Taken + Len(bus) + 1 < Frags[hostMsg])
    BY <1>2, <1>3
  <2>3. Frags[hostMsg] - hostLeft + 1 \in Nat /\ hostMsg \in Reqs
    BY <1>2, <1>3 DEF Collecting
  <2>4. QED
    BY <1>2, <2>1, <2>2, <2>3 DEF Nth, Fragment, Payload
<1> HIDE DEF new
<1>6. /\ Len(bus') = Len(bus) + 1
      /\ \A i \in 1..Len(bus) : bus'[i] = bus[i]
      /\ bus'[Len(bus) + 1] = new
  BY <1>1, <1>2, <1>5, AppendProperties
<1>7. \A i \in 1..Len(bus') : bus'[i] = Nth(Taken + i)
  <2> SUFFICES ASSUME NEW i \in 1..Len(bus') PROVE bus'[i] = Nth(Taken + i)
    OBVIOUS
  <2>1. CASE i \in 1..Len(bus)
    BY <1>6, <2>1 DEF Collecting
  <2>2. CASE i = Len(bus) + 1
    <3>1. Taken + i = Taken + Len(bus) + 1
      BY <1>2, <1>3, <2>2
    <3>2. QED
      BY <1>5, <1>6, <2>2, <3>1
  <2>3. QED
    BY <1>2, <1>6, <2>1, <2>2
<1>8. Taken' + Len(bus') + hostLeft' = Frags[hostMsg']
  BY <1>1, <1>2, <1>3, <1>6
<1>9. QED
  BY <1>1, <1>3, <1>4, <1>7, <1>8 DEF Collecting

LEMMA CollectTake ==
  ASSUME TypeOK, Collecting, RecvTake PROVE Collecting'
<1>1. /\ rpc = "idle" /\ rpc' = "wait" /\ bus # <<>> /\ rem' = BufCap - len
      /\ hdr' = Head(bus) /\ bus' = Tail(bus)
      /\ UNCHANGED <<hostMsg, hostLeft, hostSeq, answered, valid, curSeq, len, data, ppc>>
  BY DEF RecvTake, hostVars, rVars, pserVars
<1>2. /\ bus \in Seq(Fragment) /\ hostLeft \in Nat /\ len \in Nat
  BY ConstantsAssumption DEF TypeOK, HostOK, BufferOK
<1>3. /\ Len(bus) \in Nat \ {0} /\ Len(bus') = Len(bus) - 1 /\ Head(bus) = bus[1]
      /\ \A i \in 1..Len(bus') : bus'[i] = bus[i + 1]
  BY <1>1, <1>2, HeadTailProperties, EmptySeq
<1>4. Taken = len /\ Taken' = len + 1
  BY <1>1, <1>2 DEF Taken
<1>5. \A k : Nth(k)' = Nth(k)
  BY <1>1 DEF Nth
<1>6. hdr' = Nth(len + 1)
  BY <1>1, <1>3, <1>4 DEF Collecting
<1>7. \A i \in 1..Len(bus') : bus'[i] = Nth(len + 1 + i)
  <2> SUFFICES ASSUME NEW i \in 1..Len(bus') PROVE bus'[i] = Nth(len + 1 + i)
    OBVIOUS
  <2>1. i + 1 \in 1..Len(bus) /\ bus'[i] = bus[i + 1] /\ len + (i + 1) = len + 1 + i
    BY <1>2, <1>3
  <2>2. QED
    BY <1>4, <2>1 DEF Collecting
<1>8. Taken' + Len(bus') + hostLeft' = Frags[hostMsg']
  BY <1>1, <1>2, <1>3, <1>4 DEF Collecting
<1>9. QED
  BY <1>1, <1>4, <1>5, <1>6, <1>7, <1>8 DEF Collecting

LEMMA CollectStart ==
  ASSUME TypeOK, Collecting, RecvStart PROVE Collecting'
<1>1. /\ rpc = "wait" /\ rpc' = "match" /\ curSeq' = IF len = 0 THEN hdr.seq ELSE curSeq
      /\ UNCHANGED <<hostMsg, hostLeft, hostSeq, bus, answered, valid, len, data, hdr, rem,
                     base, ppc>>
  BY DEF RecvStart, hostVars, pserVars
<1>2. Taken' = Taken /\ \A k : Nth(k)' = Nth(k)
  BY <1>1 DEF Taken, Nth
<1>3. hdr.seq = hostSeq
  <2>1. hdr = Nth(len + 1)
    BY <1>1 DEF Collecting
  <2>2. QED
    BY <2>1 DEF Nth
<1>4. len = 0 \/ curSeq = hostSeq
  <2>1. len \in 0..BufCap /\ BufCap \in Nat
    BY ConstantsAssumption DEF TypeOK, BufferOK
  <2>2. len > 0 => curSeq = hostSeq
    BY DEF Collecting
  <2>3. QED
    BY <2>1, <2>2
<1>5. curSeq' = hostSeq
  BY <1>1, <1>3, <1>4
<1>6. QED
  BY <1>1, <1>2, <1>5 DEF Collecting

LEMMA CollectCopy ==
  ASSUME PatientHost, TypeOK, Collecting, RecvCopy PROVE Collecting'
<1>1. /\ rpc = "match" /\ rpc' = "count" /\ base' = len
      /\ data' = IF rem > 0 THEN [data EXCEPT ![len + 1] = hdr.payload] ELSE data
      /\ UNCHANGED <<hostMsg, hostLeft, hostSeq, bus, answered, valid, curSeq, len, hdr, rem,
                     ppc>>
  BY DEF RecvCopy, hostVars, pserVars
<1>2. Taken' = Taken /\ Taken = len + 1 /\ \A k : Nth(k)' = Nth(k)
  BY <1>1 DEF Taken, Nth
<1>3. /\ len \in Nat /\ BufCap \in Nat /\ Len(bus) \in Nat /\ hostLeft \in Nat
      /\ Frags[hostMsg] \in Nat /\ Frags[hostMsg] <= BufCap
  BY LenProperties, ConstantsAssumption
     DEF TypeOK, HostOK, BufferOK, Collecting, PatientHost, Reqs
<1>4. len + 1 \in 1..BufCap /\ rem > 0
  <2>1. Taken + Len(bus) + hostLeft = Frags[hostMsg] /\ rem = BufCap - len
    BY <1>1 DEF Collecting
  <2>2. len + 1 + Len(bus) + hostLeft <= BufCap
    BY <1>2, <1>3, <2>1
  <2>3. QED
    BY <1>3, <2>1, <2>2
<1>5. data'[len + 1] = hdr.payload /\ \A i \in 1..len : data'[i] = data[i]
  <2>1. data \in [1..BufCap -> Payload \union {NoFragment.payload}]
    BY DEF TypeOK, BufferOK
  <2>2. data' = [data EXCEPT ![len + 1] = hdr.payload]
    BY <1>1, <1>4
  <2>3. QED
    BY <1>3, <1>4, <2>1, <2>2
<1>6. QED
  BY <1>1, <1>2, <1>5 DEF Collecting

LEMMA CollectRoom ==
  ASSUME PatientHost, TypeOK, Collecting, rpc \in {"match", "count"}
  PROVE  /\ len \in Nat /\ BufCap \in Nat /\ Len(bus) \in Nat /\ hostLeft \in Nat
         /\ Frags[hostMsg] \in Nat /\ Frags[hostMsg] <= BufCap
         /\ Taken = len + 1 /\ len + 1 + Len(bus) + hostLeft = Frags[hostMsg]
         /\ len + 1 <= Frags[hostMsg]
<1>1. /\ len \in Nat /\ BufCap \in Nat /\ Len(bus) \in Nat /\ hostLeft \in Nat
      /\ Frags[hostMsg] \in Nat /\ Frags[hostMsg] <= BufCap
  BY LenProperties, ConstantsAssumption
     DEF TypeOK, HostOK, BufferOK, Collecting, PatientHost, Reqs
<1>2. Taken = len + 1 /\ len + 1 + Len(bus) + hostLeft = Frags[hostMsg]
  BY DEF Taken, Collecting
<1>3. QED
  BY <1>1, <1>2

\* The count of the fragment that was copied.
LEMMA CollectCountLen ==
  ASSUME PatientHost, TypeOK, Collecting, RecvCount
  PROVE  /\ len' = len + 1 /\ OfHost(data, len + 1)
         /\ hdr.more <=> len + 1 < Frags[hostMsg]
<1>1. rpc = "count" /\ len' \in {base + Min2(1, rem), len + Min2(1, rem)}
  BY DEF RecvCount
<1>2. len \in Nat /\ BufCap \in Nat /\ len + 1 <= Frags[hostMsg] /\ Frags[hostMsg] <= BufCap
      /\ Frags[hostMsg] \in Nat
  BY <1>1, CollectRoom
<1>3. len' = len + 1
  <2>1. rem = BufCap - len /\ base = len
    BY <1>1 DEF Collecting
  <2>2. rem \in Nat /\ rem > 0
    BY <1>2, <2>1
  <2>3. QED
    BY <1>1, <1>2, <2>1, <2>2 DEF Min2
<1>4. /\ hdr.payload = [msg |-> hostMsg, idx |-> len + 1]
      /\ hdr.more <=> len + 1 < Frags[hostMsg]
  <2>1. hdr = Nth(len + 1)
    BY <1>1 DEF Collecting
  <2>2. QED
    BY <2>1 DEF Nth
<1>5. OfHost(data, len + 1)
  <2>1. data[len + 1] = [msg |-> hostMsg, idx |-> len + 1]
    BY <1>1, <1>4 DEF Collecting
  <2>2. QED
    BY <1>2, <2>1 DEF Collecting, OfHost
<1>6. QED
  BY <1>3, <1>4, <1>5

\* The last fragment completes the request, and r holds all of it.
LEMMA CollectCount ==
  ASSUME PatientHost, TypeOK, Collecting, RecvCount
  PROVE  /\ IF hdr.more THEN Collecting' ELSE Complete'
         /\ ~hdr.more => Whole(FirstUnits(data', len'))
<1>1. /\ rpc = "count" /\ len' \in {base + Min2(1, rem), len + Min2(1, rem)}
      /\ IF hdr.more THEN rpc' = "idle" /\ valid' = valid
                     ELSE rpc' = "alloc" /\ valid' = TRUE
      /\ UNCHANGED <<hostMsg, hostLeft, hostSeq, bus, answered, curSeq, data, hdr, rem, base,
                     ppc>>
  BY DEF RecvCount, hostVars, pserVars
<1>2. /\ len \in Nat /\ BufCap \in Nat /\ Len(bus) \in Nat /\ hostLeft \in Nat
      /\ Frags[hostMsg] \in Nat /\ bus \in Seq(Fragment)
  BY <1>1, CollectRoom DEF TypeOK, HostOK
<1>3. Taken = len + 1 /\ len + 1 + Len(bus) + hostLeft = Frags[hostMsg]
  BY <1>1, CollectRoom
<1>4. len' = len + 1
  BY CollectCountLen
<1>5. hdr.more <=> len + 1 < Frags[hostMsg]
  BY CollectCountLen
<1>6. \A i \in 1..(len + 1) : data[i] = [msg |-> hostMsg, idx |-> i]
  BY CollectCountLen DEF OfHost
<1>7. CASE hdr.more
  <2>1. rpc' = "idle" /\ valid' = valid
    BY <1>1, <1>7
  <2>2. Taken' = Taken
    BY <1>2, <1>3, <1>4, <2>1 DEF Taken
  <2>3. \A k : Nth(k)' = Nth(k)
    BY <1>1 DEF Nth
  <2>4. curSeq = hostSeq
    BY <1>1 DEF Collecting
  <2>5. QED
    BY <1>1, <1>4, <1>6, <1>7, <2>1, <2>2, <2>3, <2>4 DEF Collecting
<1>8. CASE ~hdr.more
  <2>1. rpc' = "alloc" /\ valid' = TRUE
    BY <1>1, <1>8
  <2>2. Len(bus) = 0 /\ hostLeft = 0 /\ len + 1 = Frags[hostMsg]
    BY <1>2, <1>3, <1>5, <1>8
  <2>3. bus = <<>>
    BY <1>2, <2>2, EmptySeq
  <2>4. Complete'
    BY <1>1, <2>1, <2>2, <2>3 DEF Collecting, Complete
  <2>5. Whole(FirstUnits(data', len'))
    <3> DEFINE d == FirstUnits(data', len')
    <3>1. d = [i \in 1..(len + 1) |-> [msg |-> hostMsg, idx |-> i]]
      BY <1>1, <1>4, <1>6 DEF FirstUnits
    <3>2. hostMsg \in Reqs /\ data' = data /\ len + 1 \in Nat
      BY <1>1, <1>2 DEF Collecting
    <3>3. \A i \in 1..(len + 1) : data'[i] \in Payload
      <4>1. \A i \in 1..(len + 1) : i \in Nat /\ data'[i] = [msg |-> hostMsg, idx |-> i]
        BY <1>2, <1>6, <3>2
      <4>2. \A i \in Nat : [msg |-> hostMsg, idx |-> i] \in Payload
        BY <3>2 DEF Payload
      <4>3. QED
        BY <4>1, <4>2
    <3>4. d \in Seq(Payload) /\ Len(d) = len + 1
      BY <1>4, <3>2, <3>3, FirstUnitsType
    <3> HIDE DEF d
    <3>5. 1 \in 1..(len + 1)
      BY <1>2
    <3>6. d[1] = [msg |-> hostMsg, idx |-> 1]
      BY <3>1, <3>5
    <3>7. d # <<>>
      BY <1>2, <3>4, EmptySeq
    <3>8. \A i \in 1..Len(d) : d[i] = [msg |-> d[1].msg, idx |-> i]
      <4>1. \A i \in 1..Len(d) : d[i] = [msg |-> hostMsg, idx |-> i]
        BY <3>1, <3>4
      <4>2. d[1].msg = hostMsg
        BY <3>6
      <4>3. QED
        BY <4>1, <4>2
    <3>9. Whole(d)
      BY <2>2, <3>4, <3>6, <3>7, <3>8 DEF Whole
    <3>10. QED
      BY <3>9 DEF d
  <2>6. QED
    BY <1>8, <2>4, <2>5
<1>9. QED
  BY <1>7, <1>8

LEMMA PhaseCollecting ==
  ASSUME PatientHost, TypeOK, TransitInv, Counters, ServiceInv, Collecting, [Next]_vars
  PROVE  PhaseInv'
<1>1. CASE HostFragment
  BY <1>1, CollectFragment DEF PhaseInv
<1>2. CASE Recv
  <2>1. ~RecvMismatch
    BY DEF RecvMismatch, Collecting, Nth
  <2>2. ~RecvAlloc /\ ~RecvAllocFails /\ ~RecvPost
    BY DEF RecvAlloc, RecvAllocFails, RecvPost, Collecting
  <2>3. RecvTake \/ RecvStart \/ RecvCopy => Collecting'
    BY CollectTake, CollectStart, CollectCopy
  <2>4. RecvCount => Collecting' \/ Complete'
    BY CollectCount
  <2>5. QED
    BY <1>2, <2>1, <2>2, <2>3, <2>4 DEF Recv, PhaseInv
<1>3. CASE ~HostFragment /\ ~Recv
  <2>1. ~HostBegin
    BY PatientFacts DEF Collecting
  <2>2. Aside /\ ppc' \in {"idle", "event"} /\ answered' = answered
    BY <1>3, <2>1, IdlePserial DEF Collecting
  <2>3. Taken' = Taken /\ \A k : Nth(k)' = Nth(k)
    BY <2>2 DEF Aside, Taken, Nth, hostVars, rVars
  <2>4. Collecting'
    BY <2>2, <2>3 DEF Aside, Collecting, hostVars, rVars
  <2>5. QED
    BY <2>4 DEF PhaseInv
<1>4. QED
  BY <1>1, <1>2, <1>3

\* recv_task hands over the request it has completed.
LEMMA CompleteRecv == Complete /\ Recv => Complete'
<1> SUFFICES ASSUME Complete, Recv PROVE Complete'
  OBVIOUS
<1>1. RecvAlloc \/ RecvAllocFails \/ RecvPost
  BY DEF Recv, RecvTake, RecvStart, RecvMismatch, RecvCopy, RecvCount, Complete
<1>2. /\ rpc \in {"alloc", "post"} /\ rpc' \in {"idle", "post"}
      /\ UNCHANGED <<hostMsg, hostLeft, bus, answered, valid, len, ppc, clearing>>
  BY <1>1 DEF RecvAlloc, RecvAllocFails, RecvPost, hostVars, rVars, pserVars
<1>3. ppc \notin {"clear", "handle", "selfpost", "answer"}
  BY <1>2 DEF Complete
<1>4. QED
  BY <1>2, <1>3 DEF Complete

\* pserial_task releases r once it has cleared the last field.
LEMMA CompleteClear ==
  ASSUME Complete, NEW f \in {"valid", "len", "seq"}, PserialClear(f)
  PROVE  PhaseInv'
<1>1. /\ ppc = "clear" /\ f \in clearing /\ clearing' = clearing \ {f}
      /\ valid' = (IF f = "valid" THEN FALSE ELSE valid)
      /\ len' = (IF f = "len" THEN 0 ELSE len)
      /\ ppc' = (IF clearing # {f} THEN "clear" ELSE IF got = <<>> THEN "idle" ELSE "handle")
      /\ UNCHANGED <<hostMsg, hostLeft, bus, answered, rpc>>
  BY DEF PserialClear, hostVars, recvVars
<1>2. rpc = "idle" /\ hostLeft = 0 /\ bus = <<>>
  BY <1>1 DEF Complete
<1>3. CASE clearing # {f}
  <2>1. ppc' = "clear"
    BY <1>1, <1>3
  <2>2. (len' = 0 \/ "len" \in clearing') /\ (~valid' \/ "valid" \in clearing')
    BY <1>1 DEF Complete
  <2>3. Complete'
    BY <1>1, <1>2, <2>1, <2>2 DEF Complete
  <2>4. QED
    BY <2>3 DEF PhaseInv
<1>4. CASE clearing = {f}
  <2>1. len' = 0 /\ ~valid'
    BY <1>1, <1>4 DEF Complete
  <2>2. ppc' \in {"idle", "handle"}
    BY <1>1, <1>4
  <2>3. ppc' = "idle" => Between'
    BY <1>1, <1>2, <2>1 DEF Between
  <2>4. ppc' = "handle" => Complete'
    BY <1>1, <1>2, <2>1 DEF Complete
  <2>5. QED
    BY <2>2, <2>3, <2>4 DEF PhaseInv
<1>5. QED
  BY <1>3, <1>4

\* It reads, executes and answers the request, or drops it.
LEMMA CompletePserial ==
  ASSUME TransitInv, Complete, Pserial PROVE PhaseInv'
<1>1. CASE PserialTake
  <2>1. ppc = "idle" /\ ppc' \in {"event", "read"} /\ UNCHANGED <<answered, clearing>>
    BY <1>1 DEF PserialTake
  <2>2. Aside
    BY <1>1, AsideSteps
  <2>3. Complete'
    BY <2>1, <2>2 DEF Aside, Complete, hostVars, rVars
  <2>4. QED
    BY <2>3 DEF PhaseInv
<1>2. CASE PserialEvent
  <2>1. ppc = "event" /\ ppc' = "idle" /\ UNCHANGED <<answered, clearing>>
    BY <1>2 DEF PserialEvent
  <2>2. Aside
    BY <1>2, AsideSteps
  <2>3. Complete'
    BY <2>1, <2>2 DEF Aside, Complete, hostVars, rVars
  <2>4. QED
    BY <2>3 DEF PhaseInv
<1>3. CASE PserialRead
  <2>1. ppc = "read" /\ valid
    BY <1>3 DEF PserialRead, Complete
  <2>2. rpc = "idle"
    BY <2>1 DEF TransitInv, OneRequestInTransit, InPserial, InRecv, Complete
  <2>3. ppc' = "clear" /\ clearing' = {"valid", "len", "seq"} /\ answered' = answered
    BY <1>3, <2>1 DEF PserialRead
  <2>4. Aside
    BY <1>3, AsideSteps
  <2>5. Complete'
    BY <2>2, <2>3, <2>4 DEF Aside, Complete, hostVars, rVars
  <2>6. QED
    BY <2>5 DEF PhaseInv
<1>4. CASE \E f \in {"valid", "len", "seq"} : PserialClear(f)
  BY <1>4, CompleteClear
<1>5. CASE \/ PserialHandle /\ ppc' # "idle"
           \/ PserialSelfPost
  <2>1. /\ ppc \in {"handle", "selfpost"} /\ ppc' \in {"selfpost", "answer"}
        /\ answered' = answered
    BY <1>5 DEF PserialHandle, PserialSelfPost
  <2>2. Aside
    BY <1>5, AsideSteps
  <2>3. Complete'
    BY <2>1, <2>2 DEF Aside, Complete, hostVars, rVars
  <2>4. QED
    BY <2>3 DEF PhaseInv
<1>6. CASE (PserialHandle /\ ppc' = "idle") \/ PserialAnswer \/ PserialNoMemory
  <2>1. ppc \in {"handle", "answer"} /\ ppc' = "idle"
    BY <1>6 DEF PserialHandle, PserialAnswer, PserialNoMemory
  <2>2. Aside
    BY <1>6, AsideSteps
  <2>3. Between'
    BY <2>1, <2>2 DEF Aside, Complete, Between, hostVars, rVars
  <2>4. QED
    BY <2>3 DEF PhaseInv
<1>7. QED
  BY <1>1, <1>2, <1>3, <1>4, <1>5, <1>6 DEF Pserial

LEMMA PhaseComplete ==
  ASSUME PatientHost, TypeOK, TransitInv, Counters, ServiceInv, Complete, [Next]_vars
  PROVE  PhaseInv'
<1>1. ~HostBegin /\ ~HostRestart
  BY PatientFacts DEF Complete
<1>2. ~HostFragment
  BY DEF Complete, HostFragment
<1>3. CASE Recv
  BY <1>3, CompleteRecv DEF PhaseInv
<1>4. CASE \/ UNCHANGED vars
           \/ \E p \in Producers : EventRaise(p) \/ EventPost(p) \/ EventNoMemory(p)
  <2>1. UNCHANGED <<hostMsg, hostLeft, bus, valid, len, rpc, ppc, clearing, answered>>
    BY <1>4 DEF vars, hostVars, rVars, recvVars, pserVars, EventRaise, EventPost,
                EventNoMemory
  <2>2. QED
    BY <2>1 DEF Complete, PhaseInv
<1>5. CASE Pserial
  BY <1>5, CompletePserial
<1>6. QED
  BY <1>1, <1>2, <1>3, <1>4, <1>5 DEF Next

LEMMA PhaseHolds ==
  ASSUME PatientHost
  PROVE  Spec => [](TypeOK /\ TransitInv /\ OrderInv /\ ServiceInv /\ PhaseInv)
<1>1. Init => TransitInv /\ ServiceInv /\ PhaseInv
  <2>1. Init => TransitInv
    BY DEF Init, TransitInv, OneRequestInTransit, InRecv, InPserial, QueuedAt
  <2>2. Init => ServiceInv
    BY DEF Init, ServiceInv
  <2>3. Init => Between
    BY DEF Init, Between
  <2>4. QED
    BY <2>1, <2>2, <2>3 DEF PhaseInv
<1>2. TypeOK /\ TransitInv /\ [Next]_vars => TransitInv'
  BY NextTransit
<1>3. TypeOK /\ OrderInv /\ ServiceInv /\ [Next]_vars => ServiceInv'
  <2>1. Window = 1
    BY DEF PatientHost
  <2>2. QED
    BY <2>1, CountersHold, ServiceBegin, ServiceRestart, ServiceHandle, ServiceAnswer,
       SilentSteps, SilentService
<1>4. TypeOK /\ TransitInv /\ OrderInv /\ ServiceInv /\ PhaseInv /\ [Next]_vars => PhaseInv'
  <2> SUFFICES ASSUME TypeOK, TransitInv, OrderInv, ServiceInv, PhaseInv, [Next]_vars
               PROVE  PhaseInv'
    OBVIOUS
  <2>1. Counters
    BY CountersHold
  <2>2. QED
    BY <2>1, PhaseBetween, PhaseCollecting, PhaseComplete DEF PhaseInv
<1>5. QED
  BY <1>1, <1>2, <1>3, <1>4, TypeCorrect, OrderHolds, PTL DEF Spec

\* For a host that waits for each answer, does not restart and sends nothing
\* larger than r.data, "Received complete buffer" is what it says: whatever
\* allocations fail and whatever the tasks interleave, the last fragment of a
\* request leaves all of that request in r. (The host that does not wait breaks
\* it: the run SerialRpcPipelined.)
THEOREM ReceivedCorrect ==
  ASSUME PatientHost
  PROVE  Spec => ReceivedCompleteBuffer
<1>1. TypeOK /\ PhaseInv => (RecvCount /\ ~hdr.more => Whole(FirstUnits(data', len')))
  <2> SUFFICES ASSUME TypeOK, PhaseInv, RecvCount, ~hdr.more
               PROVE  Whole(FirstUnits(data', len'))
    OBVIOUS
  <2>1. Collecting
    BY DEF PhaseInv, Between, Complete, RecvCount
  <2>2. QED
    BY <2>1, CollectCount
<1>2. TypeOK /\ PhaseInv /\ [Next]_vars =>
        [RecvCount /\ ~hdr.more => Whole(FirstUnits(data', len'))]_vars
  BY <1>1
<1>3. QED
  BY <1>2, PhaseHolds, PTL DEF Spec, ReceivedCompleteBuffer

-----------------------------------------------------------------------------
(***************************************************************************)
(* When memory never runs out, the request that such a host has begun last *)
(* is carried, whole, from r through the queue to its handler.             *)
(***************************************************************************)
MemoryLasts == ~AllocMayFail

\* The request is in r, and what announces it has its length; or it was read.
Carried ==
  /\ ppc \in {"idle", "event", "read"} => len = Frags[hostMsg] /\ OfHost(data, len)
  /\ rpc = "post" => Len(out.data) = Frags[hostMsg]
  /\ \A i \in QueuedAt : Len(q[i].data) = Frags[hostMsg]
  /\ ppc = "read" => Len(arg.data) = Frags[hostMsg]
  /\ ppc \in {"clear", "handle", "selfpost", "answer"} =>
       Len(got) = Frags[hostMsg] /\ OfHost(got, Len(got))

Unlost ==
  /\ ~allocFailed
  /\ Between => hostMsg = 0 \/ hostMsg \in answered
  /\ Collecting => len < Frags[hostMsg]
  /\ Complete => Carried

\* Once no task can move, and the host has sent what it had begun to send, the
\* request has its answer, but where its handler posts into the full queue.
AnsweredAtRest ==
  Stopped /\ hostLeft = 0 =>
    \/ hostMsg = 0 \/ hostMsg \in answered
    \/ ppc = "selfpost" /\ Len(q) = QMax

\* The safety invariants of a patient host.
PatientInv ==
  TypeOK /\ TransitInv /\ OrderInv /\ ServiceInv /\ PhaseInv /\ Unlost

LEMMA PatientInvFacts ==
  ASSUME PatientHost, PatientInv
  PROVE  /\ TypeOK /\ TransitInv /\ Counters /\ ServiceInv /\ ~allocFailed
         /\ BufCap \in Nat \ {0} /\ len \in Nat /\ Len(bus) \in Nat
         /\ hostMsg \in Reqs => /\ Frags[hostMsg] \in Nat \ {0}
                                /\ Frags[hostMsg] <= BufCap
<1>1. Counters
  BY CountersHold DEF PatientInv
<1>2. BufCap \in Nat \ {0} /\ len \in Nat /\ Len(bus) \in Nat
  BY ConstantsAssumption, LenProperties DEF PatientInv, TypeOK, HostOK, BufferOK
<1>3. hostMsg \in Reqs => Frags[hostMsg] \in Nat \ {0} /\ Frags[hostMsg] <= BufCap
  BY ConstantsAssumption DEF PatientHost, Reqs
<1>4. QED
  BY <1>1, <1>2, <1>3 DEF PatientInv, Unlost

\* No allocation fails.
LEMMA MemoryLastsNext ==
  ASSUME MemoryLasts, ~allocFailed, [Next]_vars
  PROVE  ~allocFailed' /\ ~RecvAllocFails /\ ~PserialNoMemory
<1>1. ~RecvAllocFails /\ ~PserialNoMemory
  BY DEF MemoryLasts, RecvAllocFails, PserialNoMemory
<1>2. allocFailed' = allocFailed
  <2>1. CASE UNCHANGED vars
    BY <2>1 DEF vars, recvVars
  <2>2. CASE HostBegin \/ HostFragment \/ HostRestart
    BY <2>2 DEF HostBegin, HostFragment, HostRestart, recvVars
  <2>3. CASE Recv
    BY <1>1, <2>3 DEF Recv, RecvTake, RecvStart, RecvMismatch, RecvCopy, RecvCount,
                      RecvAlloc, RecvPost
  <2>4. CASE \E p \in Producers : EventRaise(p) \/ EventPost(p) \/ EventNoMemory(p)
    BY <2>4 DEF EventRaise, EventPost, EventNoMemory, recvVars
  <2>5. CASE Pserial
    BY <2>5 DEF Pserial, PserialTake, PserialEvent, PserialRead, PserialClear,
                PserialHandle, PserialSelfPost, PserialAnswer, PserialNoMemory, recvVars
  <2>6. QED
    BY <2>1, <2>2, <2>3, <2>4, <2>5 DEF Next
<1>3. QED
  BY <1>1, <1>2

LEMMA UnlostBetween ==
  ASSUME PatientHost, MemoryLasts, PatientInv, Between, [Next]_vars
  PROVE  Unlost'
<1>1. ~allocFailed'
  BY PatientInvFacts, MemoryLastsNext
<1>2. CASE HostBegin
  <2>1. /\ hostMsg' = hostMsg + 1 /\ hostMsg' \in Reqs /\ hostLeft' = Frags[hostMsg']
        /\ Frags[hostMsg'] \in Nat \ {0} /\ len' = len
    <3>1. Counters
      BY PatientInvFacts
    <3>2. QED
      BY <1>2, <3>1, ConstantsAssumption DEF HostBegin, rVars, Counters, Reqs
  <2>2. hostLeft' # 0 /\ len' < Frags[hostMsg']
    BY <2>1 DEF Between
  <2>3. QED
    BY <1>1, <2>2 DEF Unlost, Between, Complete
<1>3. CASE ~HostBegin
  <2>1. ~HostFragment /\ ~Recv
    BY DEF Between, HostFragment, Recv, RecvTake, RecvStart, RecvMismatch, RecvCopy,
           RecvCount, RecvAlloc, RecvAllocFails, RecvPost
  <2>2. Aside /\ ppc' \in {"idle", "event"} /\ answered' = answered
    BY <1>3, <2>1, IdlePserial, PatientInvFacts DEF Between
  <2>3. ~Complete'
    BY <2>2 DEF Between, Complete, Aside, rVars
  <2>4. Collecting' => FALSE
    <3> SUFFICES ASSUME Collecting' PROVE FALSE
      OBVIOUS
    <3>1. Len(bus') = 0 /\ Taken' = 0 /\ hostLeft' = 0 /\ hostMsg' = hostMsg
      BY <2>2 DEF Between, Aside, Taken, hostVars, rVars
    <3>2. Frags[hostMsg] = 0 /\ hostMsg \in Reqs
      BY <3>1 DEF Collecting
    <3>3. QED
      BY <3>2, PatientInvFacts
  <2>5. hostMsg' = 0 \/ hostMsg' \in answered'
    BY <2>2 DEF PatientInv, Unlost, Aside, hostVars
  <2>6. QED
    BY <1>1, <2>3, <2>4, <2>5 DEF Unlost
<1>4. QED
  BY <1>2, <1>3

\* A request that is not complete has fragments to come.
LEMMA UnlostCollecting ==
  ASSUME PatientHost, MemoryLasts, PatientInv, Collecting, [Next]_vars
  PROVE  Unlost'
<1>1. ~allocFailed'
  BY PatientInvFacts, MemoryLastsNext
<1>2. len < Frags[hostMsg] /\ ~valid /\ ppc \in {"idle", "event"}
  BY DEF PatientInv, Unlost, Collecting
<1>3. CASE HostFragment
  <2>1. bus' # <<>> /\ UNCHANGED <<hostMsg, len>>
    <3>1. Collecting'
      BY <1>3, CollectFragment, PatientInvFacts
    <3>2. /\ UNCHANGED <<hostMsg, len, rpc>> /\ hostLeft' = hostLeft - 1
          /\ hostLeft \in Nat
      BY <1>3 DEF HostFragment, rVars, recvVars, PatientInv, TypeOK, HostOK
    <3>3. /\ Taken + Len(bus) + hostLeft = Frags[hostMsg]
          /\ Taken + Len(bus') + hostLeft' = Frags[hostMsg]
          /\ Taken \in Nat
      BY <3>1, <3>2, PatientInvFacts DEF Collecting, Taken
    <3>4. bus' = <<>> => Len(bus') = 0
      OBVIOUS
    <3>5. QED
      BY <3>2, <3>3, <3>4, PatientInvFacts
  <2>2. QED
    BY <1>1, <1>2, <2>1 DEF Unlost, Between, Complete
<1>4. CASE RecvTake \/ RecvStart \/ RecvCopy
  <2>1. /\ rpc' \in {"wait", "match", "count"}
        /\ UNCHANGED <<hostMsg, len, valid, ppc>>
    BY <1>4 DEF RecvTake, RecvStart, RecvCopy, hostVars, rVars, pserVars
  <2>2. QED
    BY <1>1, <1>2, <2>1 DEF Unlost, Between, Complete
<1>5. CASE RecvCount
  <2>1. /\ UNCHANGED <<hostMsg, data, ppc, q, hdr>>
        /\ IF hdr.more THEN valid' = valid /\ rpc' = "idle" ELSE valid' = TRUE /\ rpc' = "alloc"
        /\ rpc = "count"
    BY <1>5 DEF RecvCount, hostVars, pserVars
  <2>2. /\ len' = len + 1 /\ OfHost(data, len + 1)
        /\ hdr.more <=> len + 1 < Frags[hostMsg]
    BY <1>5, CollectCountLen, PatientInvFacts
  <2>3. CASE hdr.more
    <3>1. ~Between' /\ ~Complete'
      BY <1>2, <2>1, <2>2, <2>3, PatientInvFacts DEF Between, Complete
    <3>2. len' < Frags[hostMsg']
      BY <2>1, <2>2, <2>3
    <3>3. QED
      BY <1>1, <3>1, <3>2 DEF Unlost
  <2>4. CASE ~hdr.more
    <3>1. ~Between' /\ ~Collecting'
      BY <2>1, <2>4 DEF Between, Collecting
    <3>2. len' = Frags[hostMsg']
      <4>1. len + 1 <= Frags[hostMsg]
        BY <2>1, CollectRoom, PatientInvFacts
      <4>2. QED
        BY <2>1, <2>2, <2>4, <4>1, PatientInvFacts DEF Collecting
    <3>3. OfHost(data, len)'
      BY <2>1, <2>2 DEF OfHost
    <3>4. QueuedAt' = {}
      <4>1. QueuedAt = {}
        BY <1>2, PatientInvFacts DEF TransitInv, OneRequestInTransit
      <4>2. QED
        BY <2>1, <4>1 DEF QueuedAt
    <3>5. Carried'
      BY <1>2, <2>1, <2>4, <3>2, <3>3, <3>4 DEF Carried
    <3>6. QED
      BY <1>1, <3>1, <3>5 DEF Unlost
  <2>5. QED
    BY <2>3, <2>4
<1>6. CASE ~HostFragment /\ ~Recv
  <2>1. ~HostBegin
    BY PatientFacts, PatientInvFacts DEF Collecting
  <2>2. Aside /\ ppc' \in {"idle", "event"} /\ answered' = answered
    BY <1>6, <2>1, IdlePserial, PatientInvFacts DEF Collecting
  <2>3. ~Complete'
    BY <1>2, <2>2 DEF Complete, Aside, rVars
  <2>4. ~Between'
    <3> SUFFICES ASSUME Between' PROVE FALSE
      OBVIOUS
    <3>1. Len(bus) = 0 /\ Taken = 0 /\ hostLeft = 0
      BY <2>2 DEF Between, Aside, Taken, hostVars, rVars
    <3>2. QED
      BY <3>1, PatientInvFacts DEF Collecting
  <2>5. len' < Frags[hostMsg']
    BY <1>2, <2>2 DEF Aside, rVars, hostVars
  <2>6. QED
    BY <1>1, <2>3, <2>4, <2>5 DEF Unlost
<1>7. ~RecvMismatch /\ ~RecvAlloc /\ ~RecvAllocFails /\ ~RecvPost
  BY DEF RecvMismatch, RecvAlloc, RecvAllocFails, RecvPost, Collecting, Nth
<1>8. QED
  BY <1>3, <1>4, <1>5, <1>6, <1>7 DEF Recv

\* What the queue holds of the request, when an entry comes or goes.
LEMMA AppendCarried ==
  ASSUME q \in Seq(Entry), NEW e \in Entry, q' = Append(q, e), NEW n,
         \A i \in QueuedAt : Len(q[i].data) = n,
         e.kind = "request" => Len(e.data) = n
  PROVE  \A i \in QueuedAt' : Len(q'[i].data) = n
<1>1. /\ Len(q) \in Nat /\ Len(q') = Len(q) + 1 /\ q'[Len(q) + 1] = e
      /\ \A i \in 1..Len(q) : q'[i] = q[i]
  BY AppendProperties, LenProperties
<1> SUFFICES ASSUME NEW i \in QueuedAt' PROVE Len(q'[i].data) = n
  OBVIOUS
<1>2. i \in 1..Len(q') /\ q'[i].kind = "request"
  BY DEF QueuedAt
<1>3. CASE i = Len(q) + 1
  BY <1>1, <1>2, <1>3
<1>4. CASE i \in 1..Len(q)
  <2>1. i \in QueuedAt /\ q'[i] = q[i]
    BY <1>1, <1>2, <1>4 DEF QueuedAt
  <2>2. QED
    BY <2>1
<1>5. QED
  BY <1>1, <1>2, <1>3, <1>4

LEMMA TakeCarried ==
  ASSUME q \in Seq(Entry), q # <<>>, q' = Tail(q), NEW n,
         \A i \in QueuedAt : Len(q[i].data) = n
  PROVE  /\ \A i \in QueuedAt' : Len(q'[i].data) = n
         /\ Head(q).kind = "request" => Len(Head(q).data) = n
<1>1. /\ Len(q) \in Nat \ {0} /\ Len(q') = Len(q) - 1 /\ Head(q) = q[1]
      /\ \A i \in 1..Len(q') : q'[i] = q[i + 1]
  BY HeadTailProperties, EmptySeq
<1>2. ASSUME NEW i \in QueuedAt' PROVE Len(q'[i].data) = n
  <2>1. i \in 1..Len(q') /\ q'[i].kind = "request"
    BY DEF QueuedAt
  <2>2. i + 1 \in 1..Len(q) /\ q'[i] = q[i + 1]
    BY <1>1, <2>1
  <2>3. i + 1 \in QueuedAt
    BY <2>1, <2>2 DEF QueuedAt
  <2>4. QED
    BY <2>2, <2>3
<1>3. ASSUME Head(q).kind = "request" PROVE Len(Head(q).data) = n
  <2>1. 1 \in QueuedAt
    BY <1>1, <1>3 DEF QueuedAt
  <2>2. QED
    BY <1>1, <2>1
<1>4. QED
  BY <1>2, <1>3

LEMMA InUnits == ASSUME PatientInv PROVE Len(FirstUnits(data, len)) = len
<1>1. len \in Nat /\ \A i \in 1..len : data[i] \in Payload
  BY ConstantsAssumption DEF PatientInv, TypeOK, BufferOK
<1>2. QED
  BY <1>1, FirstUnitsType

\* recv_task posts the length it counted.
LEMMA CarriedRecv ==
  ASSUME PatientHost, MemoryLasts, PatientInv, Complete, Carried, Recv, ~RecvAllocFails
  PROVE  Carried'
<1>1. RecvAlloc \/ RecvPost
  BY DEF Recv, RecvTake, RecvStart, RecvMismatch, RecvCopy, RecvCount, Complete
<1>2. /\ UNCHANGED <<hostMsg, len, data, arg, got, ppc>>
      /\ rpc \in {"alloc", "post"}
  BY <1>1 DEF RecvAlloc, RecvPost, hostVars, rVars, pserVars
<1>3. len = Frags[hostMsg] /\ ppc \in {"idle", "event", "read"}
  <2>1. ppc \in {"idle", "event", "read"}
    BY <1>2 DEF Complete, PatientInv, TypeOK, PserialOK
  <2>2. QED
    BY <2>1 DEF Carried
<1>4. CASE RecvAlloc
  <2>1. /\ rpc' = "post" /\ q' = q /\ out' = RequestEntry(FirstUnits(data, len))
    BY <1>4 DEF RecvAlloc
  <2>2. Len(FirstUnits(data, len)) = len
    BY InUnits
  <2>3. Len(out'.data) = Frags[hostMsg]
    BY <1>3, <2>1, <2>2 DEF RequestEntry
  <2>4. QED
    BY <1>2, <1>3, <2>1, <2>3 DEF Carried, QueuedAt, OfHost
<1>5. CASE RecvPost
  <2>1. rpc = "post" /\ rpc' = "idle" /\ q' = Append(q, out)
    BY <1>5 DEF RecvPost
  <2>2. \A i \in QueuedAt' : Len(q'[i].data) = Frags[hostMsg]
    <3>1. q \in Seq(Entry) /\ out \in Entry
      BY DEF PatientInv, TypeOK, QueueOK, RecvOK
    <3>2. QED
      BY <2>1, <3>1, AppendCarried DEF Carried
  <2>3. QED
    BY <1>2, <1>3, <2>1, <2>2 DEF Carried, OfHost
<1>6. QED
  BY <1>1, <1>4, <1>5

\* What was read of r is the request.
LEMMA CarriedRead ==
  ASSUME PatientHost, PatientInv, Complete, Carried, PserialRead
  PROVE  Carried' /\ valid /\ ppc' = "clear"
<1>1. ppc = "read" /\ valid
  BY DEF PserialRead, Complete
<1>2. /\ ppc' = "clear" /\ got' = FirstUnits(data, Min2(Len(arg.data), len))
      /\ UNCHANGED <<hostMsg, rpc, q>>
  BY <1>1 DEF PserialRead, hostVars, recvVars
<1>3. len = Frags[hostMsg] /\ Len(arg.data) = Frags[hostMsg] /\ len \in Nat
  BY <1>1, PatientInvFacts DEF Carried
<1>4. Min2(Len(arg.data), len) = len
  BY <1>3 DEF Min2
<1>5. Len(got') = len
  BY <1>2, <1>4, InUnits
<1>6. OfHost(got, Len(got))'
  <2>1. \A i \in 1..len : got'[i] = data[i]
    BY <1>2, <1>4 DEF FirstUnits
  <2>2. QED
    BY <1>1, <1>2, <1>5, <2>1 DEF Carried, OfHost
<1>7. rpc = "idle" /\ QueuedAt' = {}
  BY <1>1, <1>2 DEF PatientInv, TransitInv, OneRequestInTransit, InPserial, InRecv,
                    Complete, QueuedAt
<1>8. QED
  BY <1>1, <1>2, <1>3, <1>5, <1>6, <1>7 DEF Carried

\* It is whole when it comes to its handler.
LEMMA CarriedWhole ==
  ASSUME PatientHost, PatientInv, Complete, Carried,
         ppc \in {"clear", "handle", "selfpost", "answer"}
  PROVE  Whole(got) /\ got[1].msg = hostMsg
<1>1. hostMsg \in Reqs /\ Frags[hostMsg] \in Nat \ {0}
  BY PatientInvFacts DEF Complete
<1>2. Len(got) = Frags[hostMsg] /\ \A i \in 1..Len(got) : got[i] = [msg |-> hostMsg, idx |-> i]
  BY DEF Carried, OfHost
<1>3. got[1] = [msg |-> hostMsg, idx |-> 1]
  <2>1. 1 \in 1..Len(got)
    BY <1>1, <1>2
  <2>2. QED
    BY <1>2, <2>1
<1>4. got # <<>>
  BY <1>1, <1>2, EmptySeq DEF PatientInv, TypeOK, PserialOK
<1>5. QED
  BY <1>2, <1>3, <1>4 DEF Whole

LEMMA UnlostPserial ==
  ASSUME PatientHost, MemoryLasts, PatientInv, Complete, Carried, Pserial,
         ~allocFailed', ~PserialNoMemory
  PROVE  Unlost'
<1>1. q \in Seq(Entry)
  BY DEF PatientInv, TypeOK, QueueOK
<1>2. CASE PserialTake
  <2>1. /\ ppc = "idle" /\ q # <<>> /\ arg' = Head(q) /\ q' = Tail(q)
        /\ ppc' = IF Head(q).kind = "event" THEN "event" ELSE "read"
        /\ UNCHANGED <<hostMsg, valid, len, data, rpc, out>>
    BY <1>2 DEF PserialTake, hostVars, rVars, recvVars
  <2>2. /\ \A i \in QueuedAt' : Len(q'[i].data) = Frags[hostMsg]
        /\ Head(q).kind = "request" => Len(Head(q).data) = Frags[hostMsg]
    BY <1>1, <2>1, TakeCarried DEF Carried
  <2>3. Head(q).kind \in {"event", "request"}
    <3>1. q \in Seq(Entry) /\ q # <<>>
      BY <1>1, <2>1
    <3>2. Head(q) \in Entry
      BY <3>1, HeadTailProperties
    <3>3. QED
      BY <3>2 DEF Entry
  <2>4. Carried'
    <3>1. rpc' # "post" \/ Len(out'.data) = Frags[hostMsg]
      BY <2>1 DEF Carried
    <3>2. len' = Frags[hostMsg] /\ OfHost(data, len)'
      BY <2>1 DEF Carried, OfHost
    <3>3. ppc' \in {"event", "read"}
      BY <2>1
    <3>4. ppc' = "read" => Len(arg'.data) = Frags[hostMsg]
      BY <2>1, <2>2, <2>3
    <3>5. hostMsg' = hostMsg
      BY <2>1
    <3>6. QED
      BY <2>2, <3>1, <3>2, <3>3, <3>4, <3>5 DEF Carried
  <2>5. valid'
    BY <2>1 DEF Complete
  <2>6. QED
    BY <2>4, <2>5 DEF Unlost, Between, Collecting
<1>3. CASE PserialEvent
  <2>1. /\ ppc = "event" /\ ppc' = "idle"
        /\ UNCHANGED <<hostMsg, valid, len, data, rpc, out, q>>
    BY <1>3 DEF PserialEvent, hostVars, rVars, recvVars
  <2>2. Carried'
    BY <2>1 DEF Carried, OfHost, QueuedAt
  <2>3. valid'
    BY <2>1 DEF Complete
  <2>4. QED
    BY <2>2, <2>3 DEF Unlost, Between, Collecting
<1>4. CASE PserialRead
  <2>1. Carried' /\ ppc' = "clear"
    BY <1>4, CarriedRead
  <2>2. QED
    BY <2>1 DEF Unlost, Between, Collecting
<1>5. CASE \E f \in {"valid", "len", "seq"} : PserialClear(f)
  <2>1. PICK f \in {"valid", "len", "seq"} : PserialClear(f)
    BY <1>5
  <2>2. /\ ppc = "clear" /\ ppc' \in {"clear", "handle"}
        /\ UNCHANGED <<hostMsg, rpc, out, q, got>>
    <3>1. got # <<>>
      BY <2>1, CarriedWhole DEF PserialClear, Whole
    <3>2. QED
      BY <2>1, <3>1 DEF PserialClear, hostVars, recvVars
  <2>3. Carried'
    BY <2>2 DEF Carried, OfHost, QueuedAt
  <2>4. QED
    BY <2>2, <2>3 DEF Unlost, Between, Collecting
<1>6. CASE PserialHandle
  <2>1. Whole(got)
    BY <1>6, CarriedWhole DEF PserialHandle
  <2>2. /\ ppc = "handle" /\ ppc' \in {"selfpost", "answer"}
        /\ UNCHANGED <<hostMsg, rpc, out, q, got>>
    BY <1>6, <2>1 DEF PserialHandle, hostVars, recvVars
  <2>3. Carried'
    BY <2>2 DEF Carried, OfHost, QueuedAt
  <2>4. QED
    BY <2>2, <2>3 DEF Unlost, Between, Collecting
<1>7. CASE PserialSelfPost
  <2>1. /\ ppc = "selfpost" /\ ppc' \in {"selfpost", "answer"} /\ q' = Append(q, EventEntry)
        /\ UNCHANGED <<hostMsg, rpc, out, got>>
    BY <1>7 DEF PserialSelfPost, hostVars, recvVars
  <2>2. EventEntry \in Entry /\ EventEntry.kind # "request"
    BY DEF EventEntry, Entry
  <2>3. \A i \in QueuedAt' : Len(q'[i].data) = Frags[hostMsg]
    BY <1>1, <2>1, <2>2, AppendCarried DEF Carried
  <2>4. Carried'
    BY <2>1, <2>3 DEF Carried, OfHost
  <2>5. QED
    BY <2>1, <2>4 DEF Unlost, Between, Collecting
<1>8. CASE PserialAnswer
  <2>1. /\ ppc = "answer" /\ ppc' = "idle" /\ answered' = answered \union {got[1].msg}
        /\ UNCHANGED <<hostMsg, valid>>
    BY <1>8 DEF PserialAnswer, hostVars, rVars
  <2>2. hostMsg' \in answered'
    BY <2>1, CarriedWhole
  <2>3. QED
    BY <2>2 DEF Unlost, Between, Collecting, Complete
<1>9. QED
  BY <1>2, <1>3, <1>4, <1>5, <1>6, <1>7, <1>8 DEF Pserial

LEMMA UnlostComplete ==
  ASSUME PatientHost, MemoryLasts, PatientInv, Complete, [Next]_vars
  PROVE  Unlost'
<1>1. ~allocFailed' /\ ~RecvAllocFails /\ ~PserialNoMemory
  BY PatientInvFacts, MemoryLastsNext
<1>2. Carried
  BY DEF PatientInv, Unlost
<1>3. ~HostBegin /\ ~HostRestart /\ ~HostFragment
  BY PatientFacts, PatientInvFacts DEF Complete, HostFragment
<1>4. CASE Recv
  <2>1. Carried'
    BY <1>1, <1>2, <1>4, CarriedRecv
  <2>2. valid'
    <3>1. rpc \in {"alloc", "post"} /\ valid' = valid
      BY <1>4 DEF Recv, RecvTake, RecvStart, RecvMismatch, RecvCopy, RecvCount, RecvAlloc,
                  RecvAllocFails, RecvPost, Complete, rVars
    <3>2. ppc \in {"idle", "event", "read"}
      BY <3>1 DEF Complete, PatientInv, TypeOK, PserialOK
    <3>3. QED
      BY <3>1, <3>2 DEF Complete
  <2>3. QED
    BY <1>1, <2>1, <2>2 DEF Unlost, Between, Collecting
<1>5. CASE \/ UNCHANGED vars
           \/ \E p \in Producers : EventRaise(p) \/ EventPost(p) \/ EventNoMemory(p)
  <2>1. UNCHANGED <<hostMsg, valid, len, data, rpc, out, ppc, arg, got, answered>>
    BY <1>5 DEF vars, hostVars, rVars, recvVars, pserVars, EventRaise, EventPost,
                EventNoMemory
  <2>2. q' = q \/ q' = Append(q, EventEntry)
    BY <1>5 DEF vars, EventRaise, EventPost, EventNoMemory
  <2>3. \A i \in QueuedAt' : Len(q'[i].data) = Frags[hostMsg]
    <3>1. CASE q' = q
      BY <1>2, <3>1 DEF Carried, QueuedAt
    <3>2. CASE q' = Append(q, EventEntry)
      <4>1. EventEntry \in Entry /\ EventEntry.kind # "request" /\ q \in Seq(Entry)
        BY DEF EventEntry, Entry, PatientInv, TypeOK, QueueOK
      <4>2. QED
        BY <1>2, <3>2, <4>1, AppendCarried DEF Carried
    <3>3. QED
      BY <2>2, <3>1, <3>2
  <2>4. Carried'
    BY <1>2, <2>1, <2>3 DEF Carried, OfHost
  <2>5. ~Between' /\ ~Collecting'
    BY <2>1 DEF Between, Collecting, Complete
  <2>6. QED
    BY <1>1, <2>4, <2>5 DEF Unlost
<1>6. CASE Pserial
  BY <1>1, <1>2, <1>6, UnlostPserial
<1>7. QED
  BY <1>3, <1>4, <1>5, <1>6 DEF Next

\* Where everything stops, the request is still in r only if nobody carries it.
LEMMA RestAnswered == ASSUME PatientHost, PatientInv PROVE AnsweredAtRest
<1> SUFFICES ASSUME Stopped, hostLeft = 0, ~(ppc = "selfpost" /\ Len(q) = QMax)
             PROVE  hostMsg = 0 \/ hostMsg \in answered
  BY DEF AnsweredAtRest
<1>1. ppc = "idle" /\ q = <<>>
  <2>1. ppc = "selfpost" => Len(q) = QMax
    BY ConstantsAssumption, LenProperties DEF Stopped, Room, PatientInv, TypeOK, QueueOK
  <2>2. QED
    BY <2>1 DEF Stopped
<1>2. Room /\ QueuedAt = {}
  BY <1>1, ConstantsAssumption DEF Room, QueuedAt
<1>3. CASE Between
  BY <1>3 DEF PatientInv, Unlost
<1>4. CASE Collecting
  <2>1. len < Frags[hostMsg]
    BY <1>4 DEF PatientInv, Unlost
  <2>2. rpc = "idle" /\ bus = <<>>
    BY <1>4 DEF Collecting, Stopped
  <2>3. Taken = len /\ Len(bus) = 0
    BY <2>2, PatientInvFacts DEF Taken
  <2>4. QED
    BY <1>4, <2>1, <2>3, PatientInvFacts DEF Collecting
<1>5. CASE Complete
  <2>1. rpc = "idle" /\ valid
    BY <1>1, <1>2, <1>5 DEF Complete, Stopped
  <2>2. QED
    BY <1>1, <1>2, <2>1, PatientInvFacts
       DEF TransitInv, OneRequestInTransit, InRecv, InPserial
<1>6. QED
  BY <1>3, <1>4, <1>5 DEF PatientInv, PhaseInv

\* When memory lasts, a host that waits for each answer, does not restart and
\* sends nothing larger than r.data has the answer to its request wherever the
\* tasks stop, unless a handler waits for room in the queue that only its own
\* task empties: no interleaving of the reassembly, the queue, the events and
\* the release of r loses a request or leaves it unexecuted. (That the tasks
\* get as far as to stop is EveryRequestAnswered, checked under fairness.)
THEOREM AnsweredCorrect ==
  ASSUME PatientHost, MemoryLasts
  PROVE  Spec => []AnsweredAtRest
<1>1. Init => Unlost
  BY DEF Init, Unlost, Between, Collecting, Complete, Reqs
<1>2. PatientInv /\ [Next]_vars => Unlost'
  BY UnlostBetween, UnlostCollecting, UnlostComplete DEF PatientInv, PhaseInv
<1>3. PatientInv => AnsweredAtRest
  BY RestAnswered
<1>4. Spec => []PatientInv
  BY <1>1, <1>2, PhaseHolds, PTL DEF Spec, PatientInv
<1>5. QED
  BY <1>3, <1>4, PTL
=============================================================================
