-------------------------- MODULE SpiTransportProofs --------------------------
(***************************************************************************)
(* Proofs about SpiTransport, for any number of writers, any sizes of the  *)
(* queues, and whenever memory runs out or the host sleeps.                *)
(***************************************************************************)
EXTENDS SpiTransport, SequenceTheorems, FiniteSetTheorems, TLAPS

Tasks == Senders \union {Post}

PCs == Sending \union Loading \union {"wait", "cs", "process", "rxQueue"}

\* What TypeOK says of the program counters.
PcOK ==
  /\ pc \in [Tasks -> PCs]
  /\ \A w \in Writers : pc[w] \in Sending
  /\ pc[Reset] \in Sending \union Loading
  /\ pc[Post] \in Loading \union {"wait", "cs", "process", "rxQueue"}

\* One task moves, the others stay where they are.
LEMMA Moved ==
  ASSUME PcOK, NEW t \in Tasks, NEW l, Goto(t, l)
  PROVE  pc'[t] = l /\ \A u \in Tasks : u # t => pc'[u] = pc[u]
BY DEF PcOK, Goto

LEMMA WhoIsWho ==
  /\ \A w \in Writers : w \in Senders /\ w \in Tasks /\ w # Post /\ w # Reset /\ w \notin Agents
  /\ Reset \in Senders /\ Reset \in Tasks /\ Post \in Tasks /\ Post # Reset
  /\ Reset \in Agents /\ Post \in Agents /\ Post \notin Senders /\ Reset \notin Writers
  /\ \A a \in Agents : a \in Tasks /\ (a = Post \/ a = Reset)
  /\ \A s \in Senders : s \in Tasks /\ s # Post /\ (s \in Writers \/ s = Reset)
BY ConstantsAssumption DEF Senders, Tasks, Agents

\* A task that moves where it may be keeps the program counters well typed.
LEMMA PcMoves ==
  ASSUME PcOK, NEW t \in Tasks, NEW l, Goto(t, l),
         t \in Writers => l \in Sending,
         t = Reset => l \in Sending \union Loading,
         t = Post => l \in Loading \union {"wait", "cs", "process", "rxQueue"}
  PROVE  PcOK'
<1>1. l \in PCs
  BY WhoIsWho DEF Tasks, Senders, PCs
<1>2. pc' \in [Tasks -> PCs]
  BY <1>1 DEF PcOK, Goto
<1>3. pc'[t] = l /\ \A u \in Tasks : u # t => pc'[u] = pc[u]
  BY Moved
<1>4. \A w \in Writers : pc'[w] \in Sending
  BY <1>3, WhoIsWho DEF PcOK
<1>5. pc'[Reset] \in Sending \union Loading
  BY <1>3, WhoIsWho DEF PcOK
<1>6. pc'[Post] \in Loading \union {"wait", "cs", "process", "rxQueue"}
  BY <1>3, WhoIsWho DEF PcOK
<1>7. QED
  BY <1>2, <1>4, <1>5, <1>6 DEF PcOK

-----------------------------------------------------------------------------
(***************************************************************************)
(* Types                                                                   *)
(***************************************************************************)

\* The rest of TypeOK: packets under way, ...
TxOK ==
  /\ kind \in [Senders -> Queues] /\ kind[Reset] = "others"
  /\ tx \in [Agents -> Queues \union {Dummy}]
  /\ txQueue \in [Queues -> 0..TxSize] /\ txSem \in 0..(TxSize * 3)
  /\ pkts \in 0..MaxPkts

\* ... the bus, ...
BusOK ==
  /\ loaded \in Seq(Queues \union {Dummy}) /\ Len(loaded) <= DriverSize + 1
  /\ done \in Seq(Queues \union {Dummy, "awake"})
  /\ received \in Queues \union {Dummy, "awake"}
  /\ pc[Post] = "rxQueue" => received \in Queues
  /\ rxQueue \in [Queues -> 0..RxSize]
  /\ alerts \in Nat
  /\ hostPkts \in 0..MaxHostPkts /\ wakes \in 0..MaxWakes

\* ... and what is true or false.
FlagsOK ==
  /\ gpio \in BOOLEAN /\ flag \in BOOLEAN
  /\ cs \in BOOLEAN /\ csSem \in BOOLEAN /\ resetSem \in BOOLEAN
  /\ crossed \in BOOLEAN /\ starved \in BOOLEAN

LEMMA Parts == TypeOK <=> PcOK /\ TxOK /\ BusOK /\ FlagsOK
BY Zenon DEF TypeOK, PcOK, TxOK, BusOK, FlagsOK, Tasks, PCs

LEMMA PartsNext == PcOK' /\ TxOK' /\ BusOK' /\ FlagsOK' => TypeOK'
BY Zenon DEF TypeOK, PcOK, TxOK, BusOK, FlagsOK, Tasks, PCs

LEMMA TypeInit == Init => TypeOK
<1> SUFFICES ASSUME Init PROVE TypeOK
  OBVIOUS
<1>1. PcOK
  <2>1. pc = [t \in Tasks |-> IF t = Post THEN "wait" ELSE "idle"]
    BY DEF Init, Tasks
  <2>2. "wait" \in PCs /\ "idle" \in PCs /\ "idle" \in Sending
    BY DEF PCs, Sending
  <2> QED  BY <2>1, <2>2, WhoIsWho DEF PcOK
<1>2. TxOK
  BY ConstantsAssumption DEF Init, TxOK, Queues, Dummy, Senders
<1>3. BusOK
  <2>1. pc[Post] = "wait"
    BY WhoIsWho DEF Init, Tasks
  <2> QED  BY <2>1, ConstantsAssumption DEF Init, BusOK, Queues, Dummy
<1>4. FlagsOK
  BY Zenon DEF Init, FlagsOK
<1>5. QED
  BY <1>1, <1>2, <1>3, <1>4, Parts

\* What an action of a sender, of an agent, ... leaves alone.
LEMMA SendType ==
  ASSUME TypeOK, NEW s \in Senders, Send(s)
  PROVE  TypeOK'
<1> USE DEF sendVars, nextVars, lineVars, txVars, busVars, rxVars, hostVars
<1>0. PcOK /\ TxOK /\ BusOK /\ FlagsOK /\ s \in Tasks /\ s # Post /\ s \notin {Post}
  BY Parts, WhoIsWho
<1>1. PcOK'
  <2>1. \/ \E l \in Sending : Goto(s, l)
        \/ Goto(s, AfterRaise(s))
    BY DEF Send, QueuePacket, Raise, RaiseGpio, RaiseFlag, GiveTxSem, Sending, Announcing
  <2>2. AfterRaise(s) \in Sending \/ (s = Reset /\ AfterRaise(s) \in Loading)
    BY DEF AfterRaise, Sending, Announcing, Loading
  <2>3. s \in Writers => s # Reset
    BY WhoIsWho
  <2>4. "gpio" \in Sending
    BY DEF Sending, Announcing
  <2> QED  BY <1>0, <2>1, <2>2, <2>3, <2>4, PcMoves
<1>2. TxOK'
  <2>1. CASE QueuePacket(s)
    <3>1. kind' \in [Senders -> Queues] /\ kind'[Reset] = "others"
      BY <1>0, <2>1, WhoIsWho DEF QueuePacket, TxOK, Queues
    <3>2. txQueue' \in [Queues -> 0..TxSize]
      BY <1>0, <2>1, ConstantsAssumption DEF QueuePacket, TxOK
    <3> QED  BY <1>0, <2>1, <3>1, <3>2 DEF QueuePacket, TxOK
  <2>2. CASE GiveTxSem(s)
    <3>1. txSem' \in 0..(TxSize * 3)
      BY <1>0, <2>2, ConstantsAssumption DEF GiveTxSem, TxOK
    <3> QED  BY <1>0, <2>2, <3>1 DEF GiveTxSem, TxOK
  <2>3. CASE Raise(s) \/ RaiseGpio(s) \/ RaiseFlag(s)
    BY <1>0, <2>3 DEF Raise, RaiseGpio, RaiseFlag, TxOK
  <2> QED  BY <2>1, <2>2, <2>3 DEF Send
<1>3. BusOK'
  <2>1. UNCHANGED <<loaded, done, received, rxQueue, alerts, hostPkts, wakes>>
    BY DEF Send, QueuePacket, Raise, RaiseGpio, RaiseFlag, GiveTxSem
  <2>2. pc'[Post] = pc[Post]
    BY <1>0, WhoIsWho, Moved DEF Send, QueuePacket, Raise, RaiseGpio, RaiseFlag, GiveTxSem
  <2> QED  BY <1>0, <2>1, <2>2 DEF BusOK
<1>4. FlagsOK'
  <2>1. CASE QueuePacket(s) \/ GiveTxSem(s)
    BY <1>0, <2>1, Zenon DEF QueuePacket, GiveTxSem, FlagsOK
  <2>2. CASE Raise(s)
    BY <1>0, <2>2, Zenon DEF Raise, FlagsOK
  <2>3. CASE RaiseGpio(s) \/ RaiseFlag(s)
    BY <1>0, <2>3, Zenon DEF RaiseGpio, RaiseFlag, FlagsOK
  <2> QED  BY <2>1, <2>2, <2>3 DEF Send
<1>5. QED
  BY <1>1, <1>2, <1>3, <1>4, PartsNext

LEMMA NextTransactionType ==
  ASSUME TypeOK, NEW a \in Agents, NextTransaction(a)
  PROVE  TypeOK'
<1> USE DEF sendVars, nextVars, lineVars, txVars, busVars, rxVars, hostVars
<1>0. PcOK /\ TxOK /\ BusOK /\ FlagsOK /\ a \in Tasks /\ (a = Post \/ a = Reset)
  BY Parts, WhoIsWho
<1>1. PcOK'
  <2>1. \/ \E l \in Loading : Goto(a, l)
        \/ Goto(a, AfterNext(a))
    BY DEF NextTransaction, TakeTxSem, LookInto, Lower, LowerGpio, LowerFlag, MakeDummy,
           NoMemoryForDummy, Load, Loading, Lowering, Queues, Following
  <2>2. AfterNext(a) = IF a = Reset THEN "idle" ELSE "process"
    BY DEF AfterNext
  <2>3. "idle" \in Sending
    BY DEF Sending
  <2> QED  BY <1>0, <2>1, <2>2, <2>3, WhoIsWho, PcMoves
<1>2. TxOK'
  <2>1. CASE TakeTxSem(a)
    <3>1. txSem' \in 0..(TxSize * 3)
      BY <1>0, <2>1, ConstantsAssumption DEF TakeTxSem, TxOK
    <3> QED  BY <1>0, <2>1, <3>1 DEF TakeTxSem, TxOK
  <2>2. ASSUME NEW q \in Queues, LookInto(a, q) PROVE TxOK'
    <3>1. txQueue' \in [Queues -> 0..TxSize]
      BY <1>0, <2>2, ConstantsAssumption DEF LookInto, TxOK
    <3>2. tx' \in [Agents -> Queues \union {Dummy}]
      BY <1>0, <2>2 DEF LookInto, TxOK
    <3> QED  BY <1>0, <2>2, <3>1, <3>2 DEF LookInto, TxOK
  <2>3. CASE Load(a)
    BY <1>0, <2>3 DEF Load, TxOK
  <2>4. CASE Lower(a) \/ LowerGpio(a) \/ LowerFlag(a) \/ MakeDummy(a) \/ NoMemoryForDummy(a)
    BY <1>0, <2>4 DEF Lower, LowerGpio, LowerFlag, MakeDummy, NoMemoryForDummy, TxOK
  <2> QED  BY <2>1, <2>2, <2>3, <2>4 DEF NextTransaction
<1>3. BusOK'
  <2>1. UNCHANGED <<done, received, rxQueue, alerts, hostPkts, wakes>>
    BY DEF NextTransaction, TakeTxSem, LookInto, Lower, LowerGpio, LowerFlag, MakeDummy,
           NoMemoryForDummy, Load
  <2>2. pc'[Post] # "rxQueue" \/ pc'[Post] = pc[Post]
    <3>1. \/ \E l \in Loading : Goto(a, l)
          \/ Goto(a, AfterNext(a))
      BY DEF NextTransaction, TakeTxSem, LookInto, Lower, LowerGpio, LowerFlag, MakeDummy,
             NoMemoryForDummy, Load, Loading, Lowering, Queues, Following
    <3>2. "rxQueue" \notin Loading /\ AfterNext(a) # "rxQueue"
      BY DEF Loading, Lowering, Queues, AfterNext
    <3> QED  BY <1>0, <3>1, <3>2, Moved, WhoIsWho
  <2>3. CASE loaded' = loaded
    BY <1>0, <2>1, <2>2, <2>3 DEF BusOK
  <2>4. CASE Load(a)
    <3>1. PICK p \in Queues \union {Dummy} : loaded' = Append(loaded, p)
      BY <1>0, <2>4 DEF Load, TxOK
    <3>2. loaded \in Seq(Queues \union {Dummy}) /\ Len(loaded) <= DriverSize /\ DriverSize \in Nat
      BY <1>0, <2>4, ConstantsAssumption DEF Load, BusOK
    <3>3. loaded' \in Seq(Queues \union {Dummy}) /\ Len(loaded') <= DriverSize + 1
      BY <3>1, <3>2, AppendProperties
    <3> QED  BY <1>0, <2>1, <2>2, <3>3 DEF BusOK
  <2> QED
    BY <2>3, <2>4
    DEF NextTransaction, TakeTxSem, LookInto, Lower, LowerGpio, LowerFlag, MakeDummy,
        NoMemoryForDummy
<1>4. FlagsOK'
  <2>1. CASE TakeTxSem(a)
    BY <1>0, <2>1, Zenon DEF TakeTxSem, FlagsOK
  <2>2. ASSUME NEW q \in Queues, LookInto(a, q) PROVE FlagsOK'
    BY <1>0, <2>2, Zenon DEF LookInto, FlagsOK
  <2>3. CASE Lower(a) \/ MakeDummy(a) \/ Load(a)
    BY <1>0, <2>3, Zenon DEF Lower, MakeDummy, Load, FlagsOK
  <2>4. CASE LowerGpio(a) \/ LowerFlag(a) \/ NoMemoryForDummy(a)
    BY <1>0, <2>4, Zenon DEF LowerGpio, LowerFlag, NoMemoryForDummy, FlagsOK
  <2> QED  BY <2>1, <2>2, <2>3, <2>4 DEF NextTransaction
<1>5. QED
  BY <1>1, <1>2, <1>3, <1>4, PartsNext

\* What is neither a sender's step nor an agent's.
Other ==
  \/ \E rx \in RxKinds \union {Dummy, "awake"} : HostClock(rx)
  \/ HostRelease
  \/ \E w \in Writers, q \in TxKinds : Write(w, q)
  \/ Startup \/ PostTask \/ AlertGive \/ \E q \in Queues : Recv(q)

LEMMA NextCases ==
  Next <=> Other \/ (\E s \in Senders : Send(s)) \/ (\E a \in Agents : NextTransaction(a))
BY DEF Next, Other

LEMMA OtherType ==
  ASSUME TypeOK, Other
  PROVE  TypeOK'
<1> USE DEF sendVars, nextVars, lineVars, txVars, busVars, rxVars, hostVars
<1>0. PcOK /\ TxOK /\ BusOK /\ FlagsOK
  BY Parts
<1>a. "queue" \in Sending /\ "next" \in Loading
  BY DEF Sending, Loading
<1>1. ASSUME NEW rx \in RxKinds \union {Dummy, "awake"}, HostClock(rx) PROVE TypeOK'
  <2>1. PcOK'
    BY <1>0, <1>1 DEF HostClock, PcOK
  <2>2. TxOK'
    BY <1>0, <1>1 DEF HostClock, TxOK
  <2>3. BusOK'
    <3>1. hostPkts' \in 0..MaxHostPkts /\ wakes' \in 0..MaxWakes
      BY <1>0, <1>1, ConstantsAssumption DEF HostClock, BusOK
    <3>2. loaded' \in Seq(Queues \union {Dummy}) /\ Len(loaded') <= DriverSize + 1
      BY <1>0, <1>1, ConstantsAssumption DEF HostClock, BusOK
    <3>3. rx \in Queues \union {Dummy, "awake"}
      BY ConstantsAssumption
    <3>4. done' \in Seq(Queues \union {Dummy, "awake"})
      BY <1>0, <1>1, <3>3 DEF HostClock, BusOK
    <3> QED  BY <1>0, <1>1, <3>1, <3>2, <3>4 DEF HostClock, BusOK
  <2>4. FlagsOK'
    BY <1>0, <1>1, Zenon DEF HostClock, FlagsOK
  <2> QED  BY <2>1, <2>2, <2>3, <2>4, PartsNext
<1>2. CASE HostRelease
  <2>1. PcOK' /\ TxOK' /\ BusOK'
    BY <1>0, <1>2 DEF HostRelease, PcOK, TxOK, BusOK
  <2>2. FlagsOK'
    BY <1>0, <1>2, Zenon DEF HostRelease, FlagsOK
  <2> QED  BY <2>1, <2>2, PartsNext
<1>3. ASSUME NEW w \in Writers, NEW q \in TxKinds, Write(w, q) PROVE TypeOK'
  <2>1. PcOK'
    BY <1>0, <1>3, <1>a, PcMoves, WhoIsWho DEF Write
  <2>2. TxOK'
    <3>1. q \in Queues
      BY ConstantsAssumption
    <3>2. kind' \in [Senders -> Queues] /\ kind'[Reset] = "others"
      BY <1>0, <1>3, <3>1, WhoIsWho DEF Write, TxOK
    <3>3. pkts' \in 0..MaxPkts
      BY <1>0, <1>3, ConstantsAssumption DEF Write, TxOK
    <3> QED  BY <1>0, <1>3, <3>2, <3>3 DEF Write, TxOK
  <2>3. BusOK'
    <3>1. pc'[Post] = pc[Post]
      BY <1>0, <1>3, WhoIsWho, Moved DEF Write
    <3> QED  BY <1>0, <1>3, <3>1 DEF Write, BusOK
  <2>4. FlagsOK'
    BY <1>0, <1>3, Zenon DEF Write, FlagsOK
  <2> QED  BY <2>1, <2>2, <2>3, <2>4, PartsNext
<1>4. CASE Startup
  <2>1. PcOK'
    BY <1>0, <1>4, <1>a, PcMoves, WhoIsWho DEF Startup
  <2>2. TxOK'
    BY <1>0, <1>4 DEF Startup, TxOK
  <2>3. BusOK'
    <3>1. pc'[Post] = pc[Post]
      BY <1>0, <1>4, WhoIsWho, Moved DEF Startup
    <3> QED  BY <1>0, <1>4, <3>1 DEF Startup, BusOK
  <2>4. FlagsOK'
    BY <1>0, <1>4, Zenon DEF Startup, FlagsOK
  <2> QED  BY <2>1, <2>2, <2>3, <2>4, PartsNext
<1>5. CASE PostTask
  <2>1. PcOK'
    <3>1. \E l \in Loading \union {"wait", "cs", "rxQueue"} : Goto(Post, l)
      BY <1>5, <1>a DEF PostTask, GetResult, TakeCsSem, Process, RxQueue
    <3> QED  BY <1>0, <3>1, PcMoves, WhoIsWho
  <2>2. TxOK'
    BY <1>0, <1>5 DEF PostTask, GetResult, TakeCsSem, Process, RxQueue, TxOK
  <2>3. BusOK'
    <3>1. CASE GetResult
      <4>1. pc'[Post] = "cs"
        BY <1>0, <3>1, WhoIsWho, Moved DEF GetResult
      <4>2. done' \in Seq(Queues \union {Dummy, "awake"})
        BY <1>0, <3>1 DEF GetResult, BusOK
      <4>3. received' \in Queues \union {Dummy, "awake"}
        BY <1>0, <3>1 DEF GetResult, BusOK
      <4> QED  BY <1>0, <3>1, <4>1, <4>2, <4>3 DEF GetResult, BusOK
    <3>2. CASE TakeCsSem
      <4>1. pc'[Post] = "next"
        BY <1>0, <3>2, WhoIsWho, Moved DEF TakeCsSem
      <4> QED  BY <1>0, <3>2, <4>1 DEF TakeCsSem, BusOK
    <3>3. CASE Process
      <4>1. alerts' \in Nat
        BY <1>0, <3>3 DEF Process, BusOK
      <4>2. \/ pc'[Post] = "rxQueue" /\ received' = received /\ received \in Queues
            \/ pc'[Post] = "wait" /\ received' = Dummy
        BY <1>0, <3>3, WhoIsWho, Moved DEF Process
      <4> QED  BY <1>0, <3>3, <4>1, <4>2 DEF Process, BusOK
    <3>4. CASE RxQueue
      <4>1. pc'[Post] = "wait"
        BY <1>0, <3>4, WhoIsWho, Moved DEF RxQueue
      <4>2. rxQueue' \in [Queues -> 0..RxSize]
        BY <1>0, <3>4, ConstantsAssumption DEF RxQueue, BusOK
      <4> QED  BY <1>0, <3>4, <4>1, <4>2 DEF RxQueue, BusOK
    <3> QED  BY <1>5, <3>1, <3>2, <3>3, <3>4 DEF PostTask
  <2>4. FlagsOK'
    BY <1>0, <1>5, Zenon DEF PostTask, GetResult, TakeCsSem, Process, RxQueue, FlagsOK
  <2> QED  BY <2>1, <2>2, <2>3, <2>4, PartsNext
<1>6. CASE AlertGive
  <2>1. PcOK' /\ TxOK' /\ BusOK'
    BY <1>0, <1>6 DEF AlertGive, PcOK, TxOK, BusOK
  <2>2. FlagsOK'
    BY <1>0, <1>6, Zenon DEF AlertGive, FlagsOK
  <2> QED  BY <2>1, <2>2, PartsNext
<1>7. ASSUME NEW q \in Queues, Recv(q) PROVE TypeOK'
  <2>1. PcOK' /\ TxOK'
    BY <1>0, <1>7 DEF Recv, PcOK, TxOK
  <2>2. FlagsOK'
    BY <1>0, <1>7, Zenon DEF Recv, FlagsOK
  <2>3. BusOK'
    <3>1. rxQueue' \in [Queues -> 0..RxSize]
      BY <1>0, <1>7, ConstantsAssumption DEF Recv, BusOK
    <3> QED  BY <1>0, <1>7, <3>1 DEF Recv, BusOK
  <2> QED  BY <2>1, <2>2, <2>3, PartsNext
<1>8. QED
  BY <1>1, <1>2, <1>3, <1>4, <1>5, <1>6, <1>7 DEF Other

LEMMA TypeStutter == TypeOK /\ UNCHANGED vars => TypeOK'
BY DEF TypeOK, vars, sendVars, nextVars, lineVars, txVars, busVars, rxVars, hostVars, Announcing

\* Queues, semaphores and program counters keep their ranges: a packet is only
\* queued where there is room, and a transaction only loaded into a driver that
\* has place for it.
THEOREM TypeCorrect == Spec => []TypeOK
<1>1. TypeOK /\ [Next]_vars => TypeOK'
  BY NextCases, OtherType, SendType, NextTransactionType, TypeStutter
<1>2. QED
  BY <1>1, TypeInit, PTL DEF Spec

-----------------------------------------------------------------------------
(***************************************************************************)
(* The semaphore and the queues                                            *)
(***************************************************************************)
In(b) == IF b THEN 1 ELSE 0

\* A set that gains or loses one element at most.
LEMMA CountMoves ==
  ASSUME NEW S, NEW T, NEW x, IsFiniteSet(S), \A y : y # x => (y \in S <=> y \in T)
  PROVE  /\ Cardinality(S) \in Nat /\ Cardinality(T) \in Nat
         /\ Cardinality(T) + In(x \in S) = Cardinality(S) + In(x \in T)
         /\ x \in S => Cardinality(S) > 0
<1>1. Cardinality(S) \in Nat
  BY FS_CardinalityType
<1>2. CASE x \in S /\ x \notin T
  <2>1. T = S \ {x}
    BY <1>2
  <2>2. IsFiniteSet(T) /\ Cardinality(T) = Cardinality(S) - 1
    BY <1>2, <2>1, FS_RemoveElement
  <2> QED  BY <1>1, <1>2, <2>2, FS_CardinalityType DEF In
<1>3. CASE x \notin S /\ x \in T
  <2>1. T = S \union {x}
    BY <1>3
  <2>2. Cardinality(T) = Cardinality(S) + 1
    BY <1>3, <2>1, FS_AddElement
  <2> QED  BY <1>1, <1>3, <2>2 DEF In
<1>4. CASE (x \in S) = (x \in T)
  <2>1. T = S
    BY <1>4
  <2>2. x \in S => Cardinality(S) # 0
    BY FS_EmptySet
  <2> QED  BY <1>1, <2>1, <2>2 DEF In
<1>5. QED
  BY <1>2, <1>3, <1>4

AgentsAt(pcs) == {a \in Agents : pc[a] \in pcs}

\* Whether a task at place l has queued a packet it has not given the semaphore.
Gives(t, l) ==
  /\ t \in Senders
  /\ \/ l = "give"
     \/ t \in Writers /\ l \in {"raise", "gpio", "flag"}

LEMMA FiniteTasks == IsFiniteSet(Agents) /\ IsFiniteSet(Senders)
<1>1. IsFiniteSet({Post}) /\ IsFiniteSet(Writers)
  BY FS_Singleton, ConstantsAssumption
<1>2. Agents = {Post} \union {Reset} /\ Senders = Writers \union {Reset}
  BY DEF Agents, Senders
<1>3. QED
  BY <1>1, <1>2, FS_AddElement

LEMMA AgentsMove ==
  ASSUME PcOK, NEW t \in Tasks, NEW l, Goto(t, l), NEW pcs
  PROVE  /\ Cardinality(AgentsAt(pcs)) \in Nat /\ Cardinality(AgentsAt(pcs))' \in Nat
         /\ Cardinality(AgentsAt(pcs))' + In(t \in Agents /\ pc[t] \in pcs)
              = Cardinality(AgentsAt(pcs)) + In(t \in Agents /\ l \in pcs)
         /\ t \in Agents /\ pc[t] \in pcs => Cardinality(AgentsAt(pcs)) > 0
<1> DEFINE S == {a \in Agents : pc[a] \in pcs}
           T == {a \in Agents : pc'[a] \in pcs}
<1>1. IsFiniteSet(S)
  BY FiniteTasks, FS_Subset
<1>2. \A y : y # t => (y \in S <=> y \in T)
  BY Moved, WhoIsWho
<1>3. (t \in S) = (t \in Agents /\ pc[t] \in pcs) /\ (t \in T) = (t \in Agents /\ l \in pcs)
  BY Moved
<1>4. AgentsAt(pcs) = S /\ AgentsAt(pcs)' = T
  BY DEF AgentsAt
<1> HIDE DEF S, T
<1>5. QED
  BY <1>1, <1>2, <1>3, <1>4, CountMoves

LEMMA GivingMoves ==
  ASSUME PcOK, NEW t \in Tasks, NEW l, Goto(t, l)
  PROVE  /\ Cardinality(Giving) \in Nat /\ Cardinality(Giving)' \in Nat
         /\ Cardinality(Giving)' + In(Gives(t, pc[t])) = Cardinality(Giving) + In(Gives(t, l))
         /\ Gives(t, pc[t]) => Cardinality(Giving) > 0
<1> DEFINE S == {s \in Senders : Gives(s, pc[s])}
           T == {s \in Senders : Gives(s, pc'[s])}
<1>1. IsFiniteSet(S)
  BY FiniteTasks, FS_Subset
<1>2. \A y : y # t => (y \in S <=> y \in T)
  BY Moved, WhoIsWho
<1>3. t \in S <=> Gives(t, pc[t])
  BY DEF Gives
<1>4. t \in T <=> Gives(t, l)
  BY Moved DEF Gives
<1>5. Giving = S
  BY DEF Giving, Gives
<1>6. Giving' = T
  BY DEF Giving, Gives
<1>7. In(t \in S) = In(Gives(t, pc[t])) /\ In(t \in T) = In(Gives(t, l))
  BY <1>3, <1>4 DEF In
<1> HIDE DEF S, T
<1>8. QED
  BY <1>1, <1>2, <1>3, <1>5, <1>6, <1>7, CountMoves

(***************************************************************************)
(* The invariant. That an agent at the last queue finds a packet follows   *)
(* from how many agents look into the queues that are left, and how many   *)
(* packets these hold: an agent goes on to the next queue only when the    *)
(* one before is empty.                                                    *)
(***************************************************************************)
TakeInv ==
  /\ txSem + Cardinality(Looking) + Cardinality(Giving) = Queued
  /\ Cardinality(AgentsAt({"bt", "others"})) <= txQueue["bt"] + txQueue["others"]
  /\ Cardinality(AgentsAt({"others"})) <= txQueue["others"]

LEMMA TakeConsequence == TakeInv => TakeFindsPacket
<1>1. AgentsAt({"others"}) = {a \in Agents : pc[a] = "others"}
  BY DEF AgentsAt
<1>2. QED
  BY <1>1 DEF TakeInv, TakeFindsPacket

LEMMA TakeInit == Init => TakeInv
<1> SUFFICES ASSUME Init PROVE TakeInv
  OBVIOUS
<1>1. \A t \in Tasks : pc[t] \in {"wait", "idle"}
  BY DEF Init, Tasks
<1>2. \A pcs \in {Queues, {"bt", "others"}, {"others"}} : AgentsAt(pcs) = {}
  BY <1>1, WhoIsWho DEF AgentsAt, Queues
<1>3. Looking = {} /\ Giving = {} /\ AgentsAt({"bt", "others"}) = {} /\ AgentsAt({"others"}) = {}
  BY <1>1, <1>2, WhoIsWho DEF Looking, Giving, AgentsAt
<1>4. txSem = 0 /\ txQueue["serial"] = 0 /\ txQueue["bt"] = 0 /\ txQueue["others"] = 0
  BY DEF Init, Queues
<1>5. QED
  BY <1>3, <1>4, FS_EmptySet DEF TakeInv, Queued

LEMMA LookingIsAt == Looking = AgentsAt(Queues) /\ Looking' = AgentsAt(Queues)'
BY DEF Looking, AgentsAt

\* A step of a task that nobody counts before or after.
LEMMA TakeUncounted ==
  ASSUME TypeOK, TakeInv, NEW t \in Tasks, NEW l, Goto(t, l),
         t \in Agents => pc[t] \notin Queues /\ l \notin Queues,
         Gives(t, pc[t]) <=> Gives(t, l),
         UNCHANGED <<txSem, txQueue>>
  PROVE  TakeInv'
<1>1. {"bt", "others"} \subseteq Queues /\ {"others"} \subseteq Queues
  BY DEF Queues
<1>2. \A pcs \in {Queues, {"bt", "others"}, {"others"}} :
        ~(t \in Agents /\ pc[t] \in pcs) /\ ~(t \in Agents /\ l \in pcs)
  BY <1>1
<1>3. \A pcs \in {Queues, {"bt", "others"}, {"others"}} :
        Cardinality(AgentsAt(pcs))' = Cardinality(AgentsAt(pcs))
  BY <1>2, AgentsMove, Parts DEF In
<1>4. Cardinality(Giving)' = Cardinality(Giving)
  BY GivingMoves, Parts DEF In
<1>5. Cardinality(Looking)' = Cardinality(Looking)
  BY <1>3, LookingIsAt
<1>6. QED
  BY <1>3, <1>4, <1>5 DEF TakeInv, Queued

\* Nothing that is counted changes.
LEMMA TakeUntouched ==
  ASSUME TakeInv, UNCHANGED <<pc, txSem, txQueue>>
  PROVE  TakeInv'
BY DEF TakeInv, Looking, Giving, AgentsAt, Queued

\* One packet more, or less, in one of the queues.
LEMMA QueueGrows ==
  ASSUME TypeOK, NEW q \in Queues, txQueue' = [txQueue EXCEPT ![q] = @ + 1]
  PROVE  /\ Queued \in Nat /\ Queued' = Queued + 1
         /\ txQueue["others"] <= txQueue'["others"]
         /\ txQueue["bt"] + txQueue["others"] <= txQueue'["bt"] + txQueue'["others"]
         /\ \A p \in Queues : txQueue[p] \in Nat /\ txQueue'[p] \in Nat
<1>1. txQueue \in [Queues -> Nat]
  BY ConstantsAssumption DEF TypeOK
<1>2. CASE q = "serial"
  BY <1>1, <1>2 DEF Queued, Queues
<1>3. CASE q = "bt"
  BY <1>1, <1>3 DEF Queued, Queues
<1>4. CASE q = "others"
  BY <1>1, <1>4 DEF Queued, Queues
<1>5. QED
  BY <1>2, <1>3, <1>4 DEF Queues

LEMMA SendTake ==
  ASSUME TypeOK, TakeInv, NEW s \in Senders, Send(s)
  PROVE  TakeInv'
<1> USE DEF sendVars, nextVars, lineVars, txVars, busVars, rxVars, hostVars
<1>0. PcOK /\ s \in Tasks /\ s # Post /\ (s \in Writers => s # Reset) /\ (s \in Writers \/ s = Reset)
  BY Parts, WhoIsWho
<1>a. \A l \in {"queue", "raise", "gpio", "flag", "give", "next", "idle"} : l \notin Queues
  BY DEF Queues
<1>b. {"bt", "others"} \subseteq Queues /\ {"others"} \subseteq Queues
  BY DEF Queues
<1>c. ASSUME NEW l, Goto(s, l), pc[s] \notin Queues, l \notin Queues
      PROVE  /\ Cardinality(Looking)' = Cardinality(Looking) /\ Cardinality(Looking) \in Nat
             /\ \A pcs \in {{"bt", "others"}, {"others"}} :
                  Cardinality(AgentsAt(pcs))' = Cardinality(AgentsAt(pcs))
  <2>1. \A pcs \in {Queues, {"bt", "others"}, {"others"}} :
          /\ ~(s \in Agents /\ pc[s] \in pcs) /\ ~(s \in Agents /\ l \in pcs)
    BY <1>b, <1>c
  <2>2. \A pcs \in {Queues, {"bt", "others"}, {"others"}} :
          /\ Cardinality(AgentsAt(pcs))' = Cardinality(AgentsAt(pcs))
          /\ Cardinality(AgentsAt(pcs)) \in Nat
    BY <1>0, <1>c, <2>1, AgentsMove DEF In
  <2> QED  BY <2>2, LookingIsAt
<1>1. CASE QueuePacket(s)
  <2> DEFINE l == IF s = Reset THEN "give" ELSE "raise"
  <2>1. Goto(s, l) /\ pc[s] = "queue" /\ kind[s] \in Queues
    BY <1>1, WhoIsWho DEF QueuePacket, TypeOK
  <2>2. ~Gives(s, "queue") /\ Gives(s, l)
    BY <1>0 DEF Gives
  <2>3. l \notin Queues /\ "queue" \notin Queues
    BY <1>a
  <2> HIDE DEF l
  <2>4. Cardinality(Giving)' = Cardinality(Giving) + 1 /\ Cardinality(Giving) \in Nat
    BY <1>0, <2>1, <2>2, GivingMoves DEF In
  <2>5. /\ Cardinality(Looking)' = Cardinality(Looking) /\ Cardinality(Looking) \in Nat
        /\ Cardinality(AgentsAt({"bt", "others"}))' = Cardinality(AgentsAt({"bt", "others"}))
        /\ Cardinality(AgentsAt({"others"}))' = Cardinality(AgentsAt({"others"}))
    BY <1>c, <2>1, <2>3
  <2>6. /\ Queued \in Nat /\ Queued' = Queued + 1
        /\ txQueue["others"] <= txQueue'["others"]
        /\ txQueue["bt"] + txQueue["others"] <= txQueue'["bt"] + txQueue'["others"]
        /\ \A p \in {"bt", "others"} : txQueue[p] \in Nat /\ txQueue'[p] \in Nat
    BY <1>1, <1>b, <2>1, QueueGrows DEF QueuePacket
  <2>7. txSem' = txSem /\ txSem \in Nat
    BY <1>1, ConstantsAssumption DEF QueuePacket, TypeOK
  <2>8. \A pcs \in {{"bt", "others"}, {"others"}} : Cardinality(AgentsAt(pcs)) \in Nat
    BY <1>0, <2>1, AgentsMove
  <2> QED  BY <2>4, <2>5, <2>6, <2>7, <2>8 DEF TakeInv
<1>2. CASE GiveTxSem(s)
  <2> DEFINE l == IF s = Reset THEN "raise" ELSE "idle"
  <2>1. Goto(s, l) /\ pc[s] = "give"
    BY <1>2 DEF GiveTxSem
  <2>2. Gives(s, "give") /\ ~Gives(s, l)
    BY <1>0 DEF Gives
  <2>3. l \notin Queues /\ "give" \notin Queues
    BY <1>a
  <2> HIDE DEF l
  <2>4. Cardinality(Giving)' + 1 = Cardinality(Giving) /\ Cardinality(Giving) \in Nat
        /\ Cardinality(Giving)' \in Nat
    BY <1>0, <2>1, <2>2, GivingMoves DEF In
  <2>5. /\ Cardinality(Looking)' = Cardinality(Looking) /\ Cardinality(Looking) \in Nat
        /\ Cardinality(AgentsAt({"bt", "others"}))' = Cardinality(AgentsAt({"bt", "others"}))
        /\ Cardinality(AgentsAt({"others"}))' = Cardinality(AgentsAt({"others"}))
    BY <1>c, <2>1, <2>3
  <2>6. /\ txSem \in Nat /\ TxSize \in Nat
        /\ \A q \in Queues : txQueue[q] \in Nat /\ txQueue[q] <= TxSize
    BY ConstantsAssumption DEF TypeOK
  <2>7. Queued <= TxSize * 3
    BY <2>6 DEF Queued, Queues
  <2>8. txSem < TxSize * 3
    <3>1. Queued \in Nat
      BY <2>6 DEF Queued, Queues
    <3> QED  BY <2>4, <2>5, <2>6, <2>7, <3>1 DEF TakeInv
  <2>9. txSem' = txSem + 1 /\ txQueue' = txQueue
    BY <1>2, <2>8 DEF GiveTxSem
  <2>10. Queued' = Queued
    BY <2>9 DEF Queued
  <2> QED  BY <2>4, <2>5, <2>6, <2>9, <2>10 DEF TakeInv
<1>3. CASE Raise(s) \/ RaiseGpio(s) \/ RaiseFlag(s)
  <2>1. PICK l \in {"gpio", "flag", AfterRaise(s)} : Goto(s, l)
    BY <1>3 DEF Raise, RaiseGpio, RaiseFlag
  <2>2. pc[s] \in {"raise", "gpio", "flag"} /\ UNCHANGED <<txSem, txQueue>>
    BY <1>3 DEF Raise, RaiseGpio, RaiseFlag
  <2>3. l \in {"gpio", "flag"} \/ (s = Reset /\ l = "next") \/ (s \in Writers /\ l = "give")
    BY <1>0, <2>1 DEF AfterRaise
  <2>4. Gives(s, pc[s]) <=> Gives(s, l)
    BY <1>0, <2>2, <2>3 DEF Gives
  <2>5. pc[s] \notin Queues /\ l \notin Queues
    BY <1>a, <2>2, <2>3
  <2> QED  BY <1>0, <2>1, <2>2, <2>4, <2>5, TakeUncounted
<1>4. QED
  BY <1>1, <1>2, <1>3 DEF Send

LEMMA NextTransactionTake ==
  ASSUME TypeOK, TakeInv, NEW a \in Agents, NextTransaction(a)
  PROVE  TakeInv'
<1> USE DEF sendVars, nextVars, lineVars, txVars, busVars, rxVars, hostVars
<1>0. PcOK /\ a \in Tasks /\ (a = Post \/ a = Reset) /\ a \notin Writers
  BY Parts, WhoIsWho
<1>a. "serial" \in Queues /\ "bt" \in Queues /\ "others" \in Queues
  BY DEF Queues
<1>b. \A l \in {"next", "lower", "lowerGpio", "lowerFlag", "dummy", "load", "idle", "process"} :
        l \notin Queues /\ ~Gives(a, l)
  BY <1>0 DEF Queues, Gives
<1>c. txSem \in Nat /\ \A q \in Queues : txQueue[q] \in Nat
  BY ConstantsAssumption DEF TypeOK
<1>d. ~Gives(a, "serial") /\ ~Gives(a, "bt") /\ ~Gives(a, "others")
  BY DEF Gives
<1>1. ASSUME TakeTxSem(a), txSem > 0 PROVE TakeInv'
  <2>1. Goto(a, "serial") /\ pc[a] = "next" /\ txSem' = txSem - 1 /\ txQueue' = txQueue
    BY <1>1 DEF TakeTxSem
  <2>2. Cardinality(Giving)' = Cardinality(Giving) /\ Cardinality(Giving) \in Nat
    BY <1>0, <1>b, <1>d, <2>1, GivingMoves DEF In
  <2>3. Cardinality(Looking)' = Cardinality(Looking) + 1 /\ Cardinality(Looking) \in Nat
    BY <1>0, <1>a, <1>b, <2>1, AgentsMove, LookingIsAt DEF In
  <2>4. \A pcs \in {{"bt", "others"}, {"others"}} :
          Cardinality(AgentsAt(pcs))' = Cardinality(AgentsAt(pcs))
    BY <1>0, <2>1, AgentsMove DEF In
  <2>5. Queued' = Queued
    BY <2>1 DEF Queued
  <2> QED  BY <1>1, <1>c, <2>1, <2>2, <2>3, <2>4, <2>5 DEF TakeInv
<1>2. ASSUME TakeTxSem(a), ~(txSem > 0) PROVE TakeInv'
  <2>1. Goto(a, "lower") /\ pc[a] = "next" /\ UNCHANGED <<txSem, txQueue>>
    BY <1>2 DEF TakeTxSem
  <2> QED  BY <1>0, <1>b, <2>1, TakeUncounted
<1>3. ASSUME NEW q \in Queues, LookInto(a, q), txQueue[q] > 0 PROVE TakeInv'
  <2>1. /\ Goto(a, "load") /\ pc[a] = q /\ txSem' = txSem
        /\ txQueue' = [txQueue EXCEPT ![q] = @ - 1]
    BY <1>3 DEF LookInto
  <2>2. Cardinality(Giving)' = Cardinality(Giving) /\ Cardinality(Giving) \in Nat
    <3>1. ~Gives(a, q)
      BY <1>d DEF Queues
    <3> QED  BY <1>0, <1>b, <2>1, <3>1, GivingMoves DEF In
  <2>3. Cardinality(Looking)' + 1 = Cardinality(Looking) /\ Cardinality(Looking)' \in Nat
    BY <1>0, <1>b, <2>1, AgentsMove, LookingIsAt DEF In
  <2>4. \A pcs \in {{"bt", "others"}, {"others"}} :
          /\ Cardinality(AgentsAt(pcs)) \in Nat /\ Cardinality(AgentsAt(pcs))' \in Nat
          /\ Cardinality(AgentsAt(pcs))' + In(q \in pcs) = Cardinality(AgentsAt(pcs))
    <3>1. \A pcs \in {{"bt", "others"}, {"others"}} : ~(a \in Agents /\ "load" \in pcs)
      OBVIOUS
    <3>2. \A pcs : In(a \in Agents /\ pc[a] \in pcs) = In(q \in pcs)
      BY <2>1 DEF In
    <3> QED  BY <1>0, <2>1, <3>1, <3>2, AgentsMove DEF In
  <2>5. txQueue \in [Queues -> Nat]
    BY ConstantsAssumption DEF TypeOK
  <2>6. Queued' + 1 = Queued /\ Queued \in Nat /\ Queued' \in Nat
    <3>1. CASE q = "serial"  BY <1>3, <2>1, <2>5, <3>1 DEF Queued, Queues
    <3>2. CASE q = "bt"      BY <1>3, <2>1, <2>5, <3>2 DEF Queued, Queues
    <3>3. CASE q = "others"  BY <1>3, <2>1, <2>5, <3>3 DEF Queued, Queues
    <3> QED  BY <3>1, <3>2, <3>3 DEF Queues
  <2>7. /\ Cardinality(AgentsAt({"bt", "others"}))' <= txQueue'["bt"] + txQueue'["others"]
        /\ Cardinality(AgentsAt({"others"}))' <= txQueue'["others"]
    <3> DEFINE NB == Cardinality(AgentsAt({"bt", "others"}))
               NO == Cardinality(AgentsAt({"others"}))
    <3>1. /\ NB \in Nat /\ NO \in Nat
          /\ NB <= txQueue["bt"] + txQueue["others"] /\ NO <= txQueue["others"]
      BY <2>4 DEF TakeInv
    <3>2. /\ NB' \in Nat /\ NO' \in Nat
          /\ NB' + In(q \in {"bt", "others"}) = NB
          /\ NO' + In(q \in {"others"}) = NO
      BY <2>4
    <3> HIDE DEF NB, NO
    <3>3. \A p \in Queues : txQueue'[p] = IF p = q THEN txQueue[p] - 1 ELSE txQueue[p]
      BY <2>1, <2>5
    <3>4. /\ txQueue["bt"] \in Nat /\ txQueue["others"] \in Nat
          /\ txQueue'["bt"] = IF q = "bt" THEN txQueue["bt"] - 1 ELSE txQueue["bt"]
          /\ txQueue'["others"] = IF q = "others" THEN txQueue["others"] - 1 ELSE txQueue["others"]
      BY <1>a, <1>c, <3>3
    <3>5. /\ In(q \in {"bt", "others"}) = IF q = "serial" THEN 0 ELSE 1
          /\ In(q \in {"others"}) = IF q = "others" THEN 1 ELSE 0
      BY DEF In, Queues
    <3>6. NB' <= txQueue'["bt"] + txQueue'["others"] /\ NO' <= txQueue'["others"]
      <4>1. CASE q = "serial"  BY <3>1, <3>2, <3>4, <3>5, <4>1
      <4>2. CASE q = "bt"      BY <3>1, <3>2, <3>4, <3>5, <4>2
      <4>3. CASE q = "others"  BY <3>1, <3>2, <3>4, <3>5, <4>3
      <4> QED  BY <4>1, <4>2, <4>3 DEF Queues
    <3> QED  BY <3>6 DEF NB, NO
  <2>8. txSem + Cardinality(Looking) + Cardinality(Giving) = Queued
    BY DEF TakeInv
  <2>9. txSem' + Cardinality(Looking)' + Cardinality(Giving)' = Queued'
    BY <1>c, <2>1, <2>2, <2>3, <2>6, <2>8
  <2> QED  BY <2>7, <2>9 DEF TakeInv
<1>4. ASSUME NEW q \in Queues, LookInto(a, q), ~(txQueue[q] > 0) PROVE TakeInv'
  <2> DEFINE NB == Cardinality(AgentsAt({"bt", "others"}))
             NO == Cardinality(AgentsAt({"others"}))
  <2>1. /\ Goto(a, IF q = "others" THEN "lower" ELSE Following(q)) /\ pc[a] = q
        /\ UNCHANGED <<txSem, txQueue>> /\ txQueue[q] = 0
    BY <1>4, <1>c DEF LookInto
  <2>2. Queued' = Queued
    BY <2>1 DEF Queued
  <2>3. q # "others"
    <3>1. CASE q = "others"
      <4>1. NO > 0 /\ NO \in Nat
        BY <1>0, <2>1, <3>1, AgentsMove
      <4>2. txQueue["others"] = 0
        BY <2>1, <3>1
      <4> HIDE DEF NO
      <4>3. NO <= 0
        BY <4>2 DEF TakeInv, NO
      <4> QED  BY <4>1, <4>3
    <3> QED  BY <3>1
  <2>4. \E l \in {"bt", "others"} : Goto(a, l) /\ (q = "serial" => l = "bt") /\ (q = "bt" => l = "others")
    BY <2>1, <2>3 DEF Following, Queues
  <2>5. PICK l \in {"bt", "others"} :
          Goto(a, l) /\ (q = "serial" => l = "bt") /\ (q = "bt" => l = "others")
    BY <2>4
  <2>6. l \in Queues
    BY <1>a
  <2>7. Cardinality(Giving)' = Cardinality(Giving)
    <3>1. ~Gives(a, q) /\ ~Gives(a, l)
      BY <1>d DEF Queues
    <3> QED  BY <1>0, <2>1, <2>5, <3>1, GivingMoves DEF In
  <2>8. Cardinality(Looking)' = Cardinality(Looking) /\ Cardinality(Looking) \in Nat
    BY <1>0, <2>1, <2>5, <2>6, AgentsMove, LookingIsAt DEF In
  <2>9. NB' <= Cardinality(Looking)' /\ NO' <= NB'
    <3>1. /\ AgentsAt({"others"})' \subseteq AgentsAt({"bt", "others"})'
          /\ AgentsAt({"bt", "others"})' \subseteq AgentsAt(Queues)'
      BY DEF AgentsAt, Queues
    <3>2. \A pcs : IsFiniteSet(AgentsAt(pcs)')
      BY FiniteTasks, FS_Subset DEF AgentsAt
    <3> QED  BY <3>1, <3>2, FS_Subset, LookingIsAt
  <2>10. /\ NB \in Nat /\ NB' \in Nat /\ NO \in Nat /\ NO' \in Nat
         /\ NB' + In(a \in Agents /\ q \in {"bt", "others"}) = NB + 1
         /\ NO' = NO + In(a \in Agents /\ l \in {"others"})
    <3>1. ~(a \in Agents /\ pc[a] \in {"others"})
      BY <2>1, <2>3
    <3>2. a \in Agents /\ l \in {"bt", "others"}
      OBVIOUS
    <3> QED  BY <1>0, <2>1, <2>5, <3>1, <3>2, AgentsMove DEF In
  <2>11. /\ txSem + Cardinality(Looking) + Cardinality(Giving)
              = txQueue["serial"] + txQueue["bt"] + txQueue["others"]
         /\ NB <= txQueue["bt"] + txQueue["others"] /\ NO <= txQueue["others"]
         /\ Cardinality(Giving) \in Nat
    BY <1>0, <2>5, GivingMoves DEF TakeInv, Queued
  <2> HIDE DEF NB, NO
  <2>12. NB' <= txQueue["bt"] + txQueue["others"] /\ NO' <= txQueue["others"]
    <3>1. CASE q = "serial"
      <4>1. NO' = NO
        BY <2>5, <2>10, <3>1 DEF In
      <4>2. txQueue["serial"] = 0
        BY <2>1, <3>1
      <4> QED  BY <1>a, <1>c, <2>8, <2>9, <2>10, <2>11, <4>1, <4>2
    <3>2. CASE q = "bt"
      <4>1. NB' = NB
        <5>1. In(a \in Agents /\ q \in {"bt", "others"}) = 1
          BY <3>2 DEF In
        <5> HIDE DEF In
        <5> QED  BY <2>10, <5>1
      <4>2. txQueue["bt"] = 0
        BY <2>1, <3>2
      <4> QED  BY <1>a, <1>c, <2>9, <2>10, <2>11, <4>1, <4>2
    <3> QED  BY <2>3, <3>1, <3>2 DEF Queues
  <2> QED  BY <2>1, <2>2, <2>7, <2>8, <2>12 DEF TakeInv, NB, NO
<1>5. CASE Lower(a) \/ LowerGpio(a) \/ LowerFlag(a) \/ MakeDummy(a) \/ NoMemoryForDummy(a) \/ Load(a)
  <2>1. PICK l \in {"lowerGpio", "lowerFlag", "dummy", "load", "idle", "process"} : Goto(a, l)
    BY <1>5 DEF Lower, LowerGpio, LowerFlag, MakeDummy, NoMemoryForDummy, Load, AfterNext
  <2>2. /\ pc[a] \in {"lower", "lowerGpio", "lowerFlag", "dummy", "load"}
        /\ UNCHANGED <<txSem, txQueue>>
    BY <1>5 DEF Lower, LowerGpio, LowerFlag, MakeDummy, NoMemoryForDummy, Load
  <2> QED  BY <1>0, <1>b, <2>1, <2>2, TakeUncounted
<1>6. QED
  BY <1>1, <1>2, <1>3, <1>4, <1>5 DEF NextTransaction

LEMMA OtherTake ==
  ASSUME TypeOK, TakeInv, Other
  PROVE  TakeInv'
<1> USE DEF sendVars, nextVars, lineVars, txVars, busVars, rxVars, hostVars
<1>1. ASSUME NEW w \in Writers, NEW q \in TxKinds, Write(w, q) PROVE TakeInv'
  <2>1. Goto(w, "queue") /\ pc[w] = "idle" /\ UNCHANGED <<txSem, txQueue>>
    BY <1>1 DEF Write
  <2>2. "queue" \notin Queues /\ "idle" \notin Queues /\ ~Gives(w, "queue") /\ ~Gives(w, "idle")
    BY DEF Queues, Gives
  <2> QED  BY <2>1, <2>2, WhoIsWho, TakeUncounted
<1>2. CASE Startup
  <2>1. Goto(Reset, "queue") /\ pc[Reset] = "idle" /\ UNCHANGED <<txSem, txQueue>>
    BY <1>2 DEF Startup
  <2>2. "queue" \notin Queues /\ "idle" \notin Queues /\ ~Gives(Reset, "queue") /\ ~Gives(Reset, "idle")
    BY DEF Queues, Gives
  <2> QED  BY <2>1, <2>2, WhoIsWho, TakeUncounted
<1>3. CASE PostTask
  <2>1. PICK l \in {"cs", "next", "rxQueue", "wait"} : Goto(Post, l)
    BY <1>3 DEF PostTask, GetResult, TakeCsSem, Process, RxQueue
  <2>2. pc[Post] \in {"wait", "cs", "process", "rxQueue"} /\ UNCHANGED <<txSem, txQueue>>
    BY <1>3 DEF PostTask, GetResult, TakeCsSem, Process, RxQueue
  <2>3. l \notin Queues /\ pc[Post] \notin Queues
    BY <2>2 DEF Queues
  <2>4. ~Gives(Post, l) /\ ~Gives(Post, pc[Post])
    BY WhoIsWho DEF Gives
  <2> QED  BY <2>1, <2>2, <2>3, <2>4, WhoIsWho, TakeUncounted
<1>4. CASE UNCHANGED <<pc, txSem, txQueue>>
  BY <1>4, TakeUntouched
<1>5. QED
  BY <1>1, <1>2, <1>3, <1>4 DEF Other, HostClock, HostRelease, AlertGive, Recv

LEMMA TakeStep == TypeOK /\ TakeInv /\ [Next]_vars => TakeInv'
<1>1. UNCHANGED vars => UNCHANGED <<pc, txSem, txQueue>>
  BY DEF vars, txVars
<1>2. QED
  BY <1>1, NextCases, SendTake, NextTransactionTake, OtherTake, TakeUntouched

\* The semaphore counts the packets in the queues, and an agent that has taken
\* it finds a packet, whatever the senders and the other agent do meanwhile.
THEOREM TakeCorrect == Spec => []TakeFindsPacket
<1>1. TypeOK /\ TakeInv /\ [Next]_vars => TypeOK' /\ TakeInv'
  BY NextCases, OtherType, SendType, NextTransactionType, TypeStutter, TakeStep
<1>2. QED
  BY <1>1, TypeInit, TakeInit, TakeConsequence, PTL DEF Spec

-----------------------------------------------------------------------------
(***************************************************************************)
(* One transaction circulates until a host wakes up: host_reset_task loads *)
(* it while Post waits, and from then on only Post loads one, after it has *)
(* got the last one back.                                                  *)
(***************************************************************************)
OneInv ==
  wakes = 0 =>
    /\ alerts = 0 /\ received # "awake" /\ \A i \in 1..Len(done) : done[i] # "awake"
    /\ resetSem => pc[Reset] = "idle"
    /\ resetSem \/ pc[Reset] # "idle" => pc[Post] = "wait" /\ loaded = <<>> /\ done = <<>>
    /\ loaded = <<>> \/ done = <<>>
    /\ Len(loaded) <= 1 /\ Len(done) <= 1
    /\ pc[Post] \in Loading \union {"cs"} => loaded = <<>> /\ done = <<>>

\* An agent holds a packet only while it is about to load it.
HoldInv == \A a \in Agents : pc[a] # "load" => tx[a] = Dummy

LEMMA OneInit == Init => OneInv /\ HoldInv
<1> SUFFICES ASSUME Init PROVE OneInv /\ HoldInv
  OBVIOUS
<1>1. pc[Reset] = "idle" /\ pc[Post] = "wait"
  BY WhoIsWho DEF Init, Tasks
<1>2. "wait" \notin Loading
  BY DEF Loading, Lowering, Queues
<1>3. OneInv
  BY <1>1, <1>2 DEF Init, OneInv, Dummy
<1>4. HoldInv
  BY DEF Init, HoldInv
<1>5. QED
  BY <1>3, <1>4

LEMMA HoldStep == TypeOK /\ HoldInv /\ [Next]_vars => HoldInv'
<1> SUFFICES ASSUME TypeOK, HoldInv, [Next]_vars PROVE HoldInv'
  OBVIOUS
<1> USE DEF sendVars, nextVars, lineVars, txVars, busVars, rxVars, hostVars
<1>0. PcOK /\ tx \in [Agents -> Queues \union {Dummy}]
  BY Parts DEF TxOK
<1>a. ASSUME NEW t \in Tasks, NEW l, Goto(t, l), pc[t] # "load", tx' = tx PROVE HoldInv'
  BY <1>0, <1>a, Moved, WhoIsWho DEF HoldInv
<1>1. ASSUME NEW s \in Senders, Send(s) PROVE HoldInv'
  <2>1. \E l : Goto(s, l) /\ pc[s] # "load" /\ tx' = tx
    BY <1>1 DEF Send, QueuePacket, Raise, RaiseGpio, RaiseFlag, GiveTxSem
  <2> QED  BY <1>a, <2>1, WhoIsWho
<1>2. ASSUME NEW a \in Agents, NextTransaction(a) PROVE HoldInv'
  <2>1. CASE Load(a)
    <3>1. tx'[a] = Dummy /\ \A b \in Agents : b # a => tx'[b] = tx[b] /\ pc'[b] = pc[b]
      BY <1>0, <2>1, Moved, WhoIsWho DEF Load
    <3> QED  BY <3>1 DEF HoldInv
  <2>2. ASSUME NEW q \in Queues, LookInto(a, q), txQueue[q] > 0 PROVE HoldInv'
    <3>1. pc'[a] = "load" /\ \A b \in Agents : b # a => tx'[b] = tx[b] /\ pc'[b] = pc[b]
      BY <1>0, <2>2, Moved, WhoIsWho DEF LookInto
    <3> QED  BY <3>1 DEF HoldInv
  <2>3. ASSUME NEW q \in Queues, LookInto(a, q), ~(txQueue[q] > 0) PROVE HoldInv'
    <3>1. \E l : Goto(a, l) /\ pc[a] # "load" /\ tx' = tx
      BY <2>3 DEF LookInto, Queues
    <3> QED  BY <1>a, <3>1, WhoIsWho
  <2>4. CASE TakeTxSem(a) \/ Lower(a) \/ LowerGpio(a) \/ LowerFlag(a) \/ MakeDummy(a)
               \/ NoMemoryForDummy(a)
    <3>1. \E l : Goto(a, l) /\ pc[a] # "load" /\ tx' = tx
      BY <2>4 DEF TakeTxSem, Lower, LowerGpio, LowerFlag, MakeDummy, NoMemoryForDummy
    <3> QED  BY <1>a, <3>1, WhoIsWho
  <2> QED  BY <1>2, <2>1, <2>2, <2>3, <2>4 DEF NextTransaction
<1>3. CASE Other
  <2>1. CASE UNCHANGED <<pc, tx>>
    BY <2>1 DEF HoldInv
  <2>2. CASE \E t \in Tasks : \E l : Goto(t, l) /\ pc[t] # "load" /\ tx' = tx
    BY <1>a, <2>2
  <2> QED
    BY <1>3, <2>1, <2>2, WhoIsWho
    DEF Other, HostClock, HostRelease, Write, Startup, PostTask, GetResult, TakeCsSem, Process,
        RxQueue, AlertGive, Recv
<1>4. CASE UNCHANGED vars
  BY <1>4 DEF vars, HoldInv
<1>5. QED
  BY <1>1, <1>2, <1>3, <1>4, NextCases

\* Wake-ups are never forgotten, nor is a crossing.
LEMMA HistoryGrows ==
  ASSUME TypeOK, [Next]_vars
  PROVE  (wakes' = 0 => wakes = 0) /\ (crossed => crossed')
<1> USE DEF sendVars, nextVars, lineVars, txVars, busVars, rxVars, hostVars
<1>0. wakes \in Nat
  BY ConstantsAssumption DEF TypeOK
<1>1. wakes' = 0 => wakes = 0
  <2>1. wakes' = wakes \/ wakes' = wakes + 1
    BY DEF Next, HostClock, HostRelease, Write, Startup, Send, QueuePacket, Raise, RaiseGpio,
           RaiseFlag, GiveTxSem, NextTransaction, TakeTxSem, LookInto, Lower, LowerGpio, LowerFlag,
           MakeDummy, NoMemoryForDummy, Load, PostTask, GetResult, TakeCsSem, Process, RxQueue,
           AlertGive, Recv, vars
  <2> QED  BY <1>0, <2>1
<1>2. crossed => crossed'
  BY Zenon DEF Next, HostClock, HostRelease, Write, Startup, Send, QueuePacket, Raise, RaiseGpio,
         RaiseFlag, GiveTxSem, NextTransaction, TakeTxSem, LookInto, Lower, LowerGpio, LowerFlag,
         MakeDummy, NoMemoryForDummy, Load, PostTask, GetResult, TakeCsSem, Process, RxQueue,
         AlertGive, Recv, vars
<1>3. QED
  BY <1>1, <1>2

LEMMA AtMostOne == \A n \in Nat : n # 0 /\ n <= 1 => n = 1
OBVIOUS

LEMMA OneStep == TypeOK /\ OneInv /\ [Next]_vars => OneInv'
<1> SUFFICES ASSUME TypeOK, OneInv, [Next]_vars, wakes' = 0 PROVE OneInv'
  BY DEF OneInv
<1> USE DEF sendVars, nextVars, lineVars, txVars, busVars, rxVars, hostVars
<1>0. PcOK /\ wakes = 0
  BY Parts, HistoryGrows
<1>a. /\ loaded \in Seq(Queues \union {Dummy}) /\ done \in Seq(Queues \union {Dummy, "awake"})
      /\ Len(loaded) \in Nat /\ Len(done) \in Nat
      /\ (loaded = <<>> <=> Len(loaded) = 0) /\ (done = <<>> <=> Len(done) = 0)
  BY EmptySeq DEF TypeOK
<1>b. /\ alerts = 0 /\ received # "awake" /\ \A i \in 1..Len(done) : done[i] # "awake"
      /\ resetSem => pc[Reset] = "idle"
      /\ resetSem \/ pc[Reset] # "idle" => pc[Post] = "wait" /\ loaded = <<>> /\ done = <<>>
      /\ loaded = <<>> \/ done = <<>>
      /\ Len(loaded) <= 1 /\ Len(done) <= 1
      /\ pc[Post] \in Loading \union {"cs"} => loaded = <<>> /\ done = <<>>
  BY <1>0 DEF OneInv
<1>d. Len(loaded) <= 1 /\ Len(done) <= 1
  BY <1>b
<1>c. /\ \A l \in {"wait", "process", "rxQueue", "idle", "cs"} : l \notin Loading
      /\ {"next", "dummy", "load", "lower", "lowerGpio", "lowerFlag"} \subseteq Loading
      /\ Queues \subseteq Loading
  BY DEF Loading, Lowering, Queues
<1>1. ASSUME NEW rx \in RxKinds \union {Dummy, "awake"}, HostClock(rx) PROVE OneInv'
  <2>1. rx # "awake"
    BY <1>0, <1>1 DEF HostClock
  <2>2. loaded # <<>> /\ Len(loaded) = 1 /\ done = <<>>
    <3>1. loaded # <<>>
      BY <1>1 DEF HostClock
    <3> QED  BY <3>1, <1>a, <1>b, <1>d
  <2>3. loaded' = <<>> /\ done' = <<rx>>
    BY <1>1, <1>a, <2>2 DEF HostClock
  <2>4. UNCHANGED <<alerts, received, resetSem, pc>>
    BY <1>1 DEF HostClock
  <2> QED  BY <1>b, <2>1, <2>2, <2>3, <2>4 DEF OneInv
<1>2. ASSUME NEW s \in Senders, Send(s) PROVE OneInv'
  <2>1. UNCHANGED <<alerts, received, resetSem, loaded, done>>
    BY <1>2 DEF Send, QueuePacket, Raise, RaiseGpio, RaiseFlag, GiveTxSem
  <2>2. pc[s] # "idle" /\ \E l : Goto(s, l) /\ (s = Reset => l # "idle")
    BY <1>2 DEF Send, QueuePacket, Raise, RaiseGpio, RaiseFlag, GiveTxSem, AfterRaise
  <2>3. /\ pc'[Post] = pc[Post]
        /\ pc'[Reset] = pc[Reset] \/ (pc[Reset] # "idle" /\ pc'[Reset] # "idle")
    BY <1>0, <2>2, Moved, WhoIsWho
  <2> QED  BY <1>b, <2>1, <2>3 DEF OneInv
<1>3. CASE NextTransaction(Reset)
  <2>1. pc[Reset] \in Loading
    BY <1>3, <1>c DEF NextTransaction, TakeTxSem, LookInto, Lower, LowerGpio, LowerFlag, MakeDummy,
                  NoMemoryForDummy, Load
  <2>2. pc[Reset] # "idle" /\ ~resetSem /\ pc[Post] = "wait" /\ loaded = <<>> /\ done = <<>>
    BY <1>b, <1>c, <2>1
  <2>3. UNCHANGED <<alerts, received, resetSem, done>> /\ \E l : Goto(Reset, l)
    BY <1>3 DEF NextTransaction, TakeTxSem, LookInto, Lower, LowerGpio, LowerFlag, MakeDummy,
                  NoMemoryForDummy, Load
  <2>4. pc'[Post] = "wait"
    BY <1>0, <2>2, <2>3, Moved, WhoIsWho
  <2>5. CASE Load(Reset)
    <3>1. pc'[Reset] = "idle"
      BY <1>0, <2>5, Moved, WhoIsWho DEF Load, AfterNext
    <3>2. Len(loaded') = 1
      BY <2>2, <2>5 DEF Load
    <3> QED  BY <1>b, <1>c, <2>2, <2>3, <2>4, <3>1, <3>2 DEF OneInv
  <2>6. CASE loaded' = loaded
    BY <1>b, <1>c, <2>2, <2>3, <2>4, <2>6 DEF OneInv
  <2> QED
    BY <1>3, <2>5, <2>6
    DEF NextTransaction, TakeTxSem, LookInto, Lower, LowerGpio, LowerFlag, MakeDummy,
        NoMemoryForDummy
<1>4. CASE NextTransaction(Post)
  <2>1. pc[Post] \in Loading
    BY <1>4, <1>c DEF NextTransaction, TakeTxSem, LookInto, Lower, LowerGpio, LowerFlag, MakeDummy,
                  NoMemoryForDummy, Load
  <2>2. loaded = <<>> /\ done = <<>> /\ ~resetSem /\ pc[Reset] = "idle"
    BY <1>b, <1>c, <2>1
  <2>3. UNCHANGED <<alerts, received, resetSem, done>> /\ \E l : Goto(Post, l)
    BY <1>4 DEF NextTransaction, TakeTxSem, LookInto, Lower, LowerGpio, LowerFlag, MakeDummy,
                  NoMemoryForDummy, Load
  <2>4. pc'[Reset] = "idle"
    BY <1>0, <2>2, <2>3, Moved, WhoIsWho
  <2>5. CASE Load(Post)
    <3>1. pc'[Post] = "process"
      BY <1>0, <2>5, Moved, WhoIsWho DEF Load, AfterNext
    <3>2. Len(loaded') = 1
      BY <2>2, <2>5 DEF Load
    <3> QED  BY <1>b, <1>c, <2>2, <2>3, <2>4, <3>1, <3>2 DEF OneInv
  <2>6. CASE loaded' = loaded
    BY <1>b, <2>2, <2>3, <2>4, <2>6 DEF OneInv
  <2> QED
    BY <1>4, <2>5, <2>6
    DEF NextTransaction, TakeTxSem, LookInto, Lower, LowerGpio, LowerFlag, MakeDummy,
        NoMemoryForDummy
<1>5. ASSUME NEW w \in Writers, NEW q \in TxKinds, Write(w, q) PROVE OneInv'
  <2>1. pc'[Post] = pc[Post] /\ pc'[Reset] = pc[Reset]
    BY <1>0, <1>5, Moved, WhoIsWho DEF Write
  <2>2. UNCHANGED <<alerts, received, resetSem, loaded, done>>
    BY <1>5 DEF Write
  <2> QED  BY <1>b, <2>1, <2>2 DEF OneInv
<1>6. CASE Startup
  <2>1. pc'[Post] = pc[Post] /\ pc'[Reset] = "queue"
    BY <1>0, <1>6, Moved, WhoIsWho DEF Startup
  <2>2. UNCHANGED <<alerts, received, loaded, done>> /\ resetSem' = FALSE /\ resetSem
    BY <1>6 DEF Startup
  <2> QED  BY <1>b, <2>1, <2>2 DEF OneInv
<1>7. CASE PostTask
  <2>1. pc'[Reset] = pc[Reset] /\ resetSem' = resetSem
    BY <1>0, <1>7, Moved, WhoIsWho DEF PostTask, GetResult, TakeCsSem, Process, RxQueue
  <2>2. CASE GetResult
    <3>1. done # <<>> /\ Len(done) = 1 /\ loaded = <<>> /\ ~resetSem /\ pc[Reset] = "idle"
      <4>1. done # <<>>
        BY <2>2 DEF GetResult
      <4>2. ~(resetSem \/ pc[Reset] # "idle") /\ loaded = <<>>
        BY <4>1, <1>b
      <4>3. Len(done) = 1
        BY <4>1, <1>a, <1>d, AtMostOne, Zenon
      <4> QED  BY <4>1, <4>2, <4>3
    <3>2. done' = <<>> /\ received' # "awake"
      BY <1>a, <1>b, <2>2, <3>1 DEF GetResult
    <3>3. loaded' = loaded /\ alerts' = alerts
      BY <2>2 DEF GetResult
    <3> QED  BY <1>b, <2>1, <3>1, <3>2, <3>3 DEF OneInv
  <2>3. CASE TakeCsSem
    <3>1. UNCHANGED <<loaded, done, alerts, received>> /\ pc[Post] = "cs"
      BY <2>3 DEF TakeCsSem
    <3> QED  BY <1>b, <2>1, <3>1 DEF OneInv
  <2>4. CASE Process
    <3>1. UNCHANGED <<loaded, done, alerts>> /\ received' # "awake" /\ pc[Post] = "process"
      BY <1>b, <2>4 DEF Process, Dummy
    <3>2. pc'[Post] \in {"rxQueue", "wait"}
      BY <1>0, <2>4, Moved, WhoIsWho DEF Process
    <3> QED  BY <1>b, <1>c, <2>1, <3>1, <3>2 DEF OneInv
  <2>5. CASE RxQueue
    <3>1. UNCHANGED <<loaded, done, alerts>> /\ received' # "awake" /\ pc[Post] = "rxQueue"
      BY <2>5 DEF RxQueue, Dummy
    <3>2. pc'[Post] = "wait"
      BY <1>0, <2>5, Moved, WhoIsWho DEF RxQueue
    <3> QED  BY <1>b, <1>c, <2>1, <3>1, <3>2 DEF OneInv
  <2> QED  BY <1>7, <2>2, <2>3, <2>4, <2>5 DEF PostTask
<1>8. CASE UNCHANGED <<pc, alerts, received, resetSem, loaded, done>>
  BY <1>b, <1>8 DEF OneInv
<1>9. ~AlertGive
  BY <1>b DEF AlertGive
<1>10. QED
  BY <1>1, <1>2, <1>3, <1>4, <1>5, <1>6, <1>7, <1>8, <1>9, WhoIsWho
  DEF Next, HostRelease, Recv, vars

-----------------------------------------------------------------------------
(***************************************************************************)
(* The line and its flag. Held packets are those that an agent may load,   *)
(* or has loaded: the line is high for them, or host_reset_task is about   *)
(* to raise it. While an agent lowers it there are none.                   *)
(***************************************************************************)
Held ==
  \/ txSem # 0
  \/ \E a \in Agents : pc[a] \in Queues
  \/ \E i \in 1..Len(loaded) : loaded[i] # Dummy
  \/ \E a \in Agents : tx[a] # Dummy

LowerInv == \A a \in Agents : pc[a] \in Lowering =>
              txSem = 0 /\ \A s \in Senders : pc[s] \notin Announcing

PinInv ==
  /\ flag => gpio \/ \E a \in Agents : pc[a] = "lowerFlag"
  /\ gpio => flag \/ \E s \in Senders : pc[s] = "flag"
  /\ \A a \in Agents : pc[a] = "lowerFlag" => ~gpio
  /\ \A s \in Senders : pc[s] = "flag" => gpio
  /\ \A w \in Writers : pc[w] = "give" => flag

HeldInv == Held => flag \/ pc[Reset] \in {"raise", "gpio", "flag"}

LineInv == ~crossed /\ wakes = 0 => LowerInv /\ PinInv /\ HeldInv

IInv == TypeOK /\ TakeInv /\ OneInv /\ HoldInv /\ LineInv

LEMMA LineInit == Init => LineInv
<1> SUFFICES ASSUME Init PROVE LowerInv /\ PinInv /\ HeldInv
  BY DEF LineInv
<1>1. \A t \in Tasks : pc[t] \in {"wait", "idle"}
  BY DEF Init, Tasks
<1>2. \A t \in Tasks : pc[t] \notin Lowering /\ pc[t] \notin Queues /\ pc[t] # "flag"
                       /\ pc[t] # "give" /\ pc[t] # "lowerFlag"
  BY <1>1 DEF Lowering, Queues
<1>3. LowerInv
  BY <1>2, WhoIsWho DEF LowerInv
<1>4. PinInv
  BY <1>2, WhoIsWho DEF PinInv, Init
<1>5. HeldInv
  <2>1. txSem = 0 /\ Len(loaded) = 0 /\ \A a \in Agents : tx[a] = Dummy
    BY DEF Init
  <2>2. ~Held
    BY <1>2, <2>1, WhoIsWho DEF Held
  <2> QED  BY <2>2 DEF HeldInv
<1>6. QED
  BY <1>3, <1>4, <1>5

\* While nothing is crossed, one agent at most is between "next" and "load",
\* and then nothing is in the driver.
LEMMA OneAgent ==
  ASSUME TypeOK, OneInv, wakes = 0, NEW a \in Agents, pc[a] \in Loading
  PROVE  loaded = <<>> /\ \A b \in Agents : b # a => pc[b] \notin Loading
<1>1. "wait" \notin Loading /\ "idle" \notin Loading
  BY DEF Loading, Lowering, Queues
<1>2. CASE a = Reset
  BY <1>1, <1>2, WhoIsWho DEF OneInv
<1>3. CASE a = Post
  <2>1. pc[Post] # "wait" /\ loaded = <<>>
    BY <1>1, <1>3 DEF OneInv
  <2>2. pc[Reset] = "idle"
    BY <2>1 DEF OneInv
  <2> QED  BY <1>1, <1>3, <2>1, <2>2, WhoIsWho
<1>4. QED
  BY <1>2, <1>3, WhoIsWho

\* A task moves between places that the invariant does not look at.
LEMMA LineUntouched ==
  ASSUME TypeOK, LowerInv, PinInv, HeldInv, NEW t \in Tasks, NEW l, Goto(t, l),
         {pc[t], l} \cap (Announcing \union Lowering \union Queues \union {"raise"}) = {},
         UNCHANGED <<gpio, flag, txSem, loaded, tx>>
  PROVE  LowerInv' /\ PinInv' /\ HeldInv'
<1>1. /\ pc'[t] = l /\ \A u \in Tasks : u # t => pc'[u] = pc[u]
      /\ \A p \in Announcing \union Lowering \union Queues \union {"raise"} : pc[t] # p /\ l # p
  BY Moved, Parts
<1>2. \A u \in Tasks : \A p \in Announcing \union Lowering \union Queues \union {"raise"} :
        pc'[u] = p <=> pc[u] = p
  BY <1>1
<1>3. /\ {"gpio", "flag", "give"} = Announcing
      /\ {"lower", "lowerGpio", "lowerFlag"} = Lowering
  BY DEF Announcing, Lowering
<1>4. \A u \in Tasks :
        /\ pc'[u] \in Lowering <=> pc[u] \in Lowering
        /\ pc'[u] \in Announcing <=> pc[u] \in Announcing
        /\ pc'[u] \in Queues <=> pc[u] \in Queues
        /\ pc'[u] = "raise" <=> pc[u] = "raise"
  BY <1>2
<1>5. \A u \in Tasks :
        /\ pc'[u] = "lowerFlag" <=> pc[u] = "lowerFlag"
        /\ pc'[u] = "flag" <=> pc[u] = "flag"
        /\ pc'[u] = "gpio" <=> pc[u] = "gpio"
        /\ pc'[u] = "give" <=> pc[u] = "give"
  BY <1>2, <1>3
<1>6. LowerInv'
  BY <1>4, WhoIsWho DEF LowerInv
<1>7. PinInv'
  BY <1>5, WhoIsWho DEF PinInv
<1>8. HeldInv'
  BY <1>4, <1>5, WhoIsWho DEF HeldInv, Held
<1>9. QED
  BY <1>6, <1>7, <1>8

LEMMA LineSend ==
  ASSUME IInv, NEW s \in Senders, Send(s), LowerInv, PinInv, HeldInv, ~crossed', wakes = 0
  PROVE  LowerInv' /\ PinInv' /\ HeldInv'
<1> USE DEF sendVars, nextVars, lineVars, txVars, busVars, rxVars, hostVars
<1>0. /\ PcOK /\ s \in Tasks /\ s # Post /\ (s \in Writers => s # Reset) /\ (s \in Writers \/ s = Reset)
      /\ \A a \in Agents : a # s => a = Post \/ a = Reset
  BY Parts, WhoIsWho DEF IInv
<1>a. \A l \in {"queue", "raise", "gpio", "flag", "give", "next", "idle"} :
        l \notin Queues /\ l \notin Lowering /\ l # "lowerFlag"
  BY DEF Queues, Lowering
<1>b. ASSUME NEW l \in {"queue", "raise", "gpio", "flag", "give", "next", "idle"}, Goto(s, l),
             pc[s] \in {"queue", "raise", "gpio", "flag", "give", "next", "idle"}
      PROVE  /\ pc'[s] = l /\ \A u \in Tasks : u # s => pc'[u] = pc[u]
             /\ \A a \in Agents : /\ pc'[a] \in Lowering <=> pc[a] \in Lowering
                                  /\ pc'[a] \in Queues <=> pc[a] \in Queues
                                  /\ pc'[a] = "lowerFlag" <=> pc[a] = "lowerFlag"
             /\ pc[s] \notin Lowering /\ pc[s] \notin Queues
  BY <1>0, <1>a, <1>b, Moved, WhoIsWho
<1>1. CASE QueuePacket(s)
  <2> DEFINE l == IF s = Reset THEN "give" ELSE "raise"
  <2>1. Goto(s, l) /\ pc[s] = "queue" /\ UNCHANGED <<gpio, flag, txSem, loaded, tx>>
    BY <1>1 DEF QueuePacket
  <2>2. l \in {"raise", "give"} /\ (s \in Writers => l = "raise")
    BY <1>0
  <2> HIDE DEF l
  <2>3. /\ pc'[s] = l /\ \A u \in Tasks : u # s => pc'[u] = pc[u]
        /\ \A a \in Agents : /\ pc'[a] \in Lowering <=> pc[a] \in Lowering
                             /\ pc'[a] \in Queues <=> pc[a] \in Queues
                             /\ pc'[a] = "lowerFlag" <=> pc[a] = "lowerFlag"
    BY <1>b, <2>1, <2>2
  <2>4. LowerInv'
    <3>1. CASE s = Reset
      <4>1. pc[Reset] = "queue" /\ "wait" \notin Lowering /\ "queue" \notin Lowering
        BY <2>1, <3>1 DEF Lowering
      <4>2. pc[Post] = "wait"
        BY <4>1 DEF IInv, OneInv
      <4>3. \A a \in Agents : pc[a] \notin Lowering
        BY <4>1, <4>2, WhoIsWho
      <4> QED  BY <2>3, <4>3 DEF LowerInv
    <3>2. CASE s \in Writers
      <4>1. pc'[s] \notin Announcing
        BY <2>2, <2>3, <3>2 DEF Announcing
      <4> QED  BY <2>1, <2>3, <4>1, WhoIsWho DEF LowerInv
    <3> QED  BY <1>0, <3>1, <3>2
  <2>5. PinInv'
    BY <1>0, <2>1, <2>2, <2>3, WhoIsWho DEF PinInv
  <2>6. HeldInv'
    BY <1>0, <2>1, <2>2, <2>3, WhoIsWho DEF HeldInv, Held
  <2> QED  BY <2>4, <2>5, <2>6
<1>2. CASE Raise(s)
  <2> DEFINE l == IF flag THEN AfterRaise(s) ELSE "gpio"
  <2>1. Goto(s, l) /\ pc[s] = "raise" /\ UNCHANGED <<gpio, flag, txSem, loaded, tx>>
    BY <1>2 DEF Raise
  <2>2. /\ l \in {"give", "gpio", "next"} /\ (flag => l # "gpio") /\ (l # "gpio" => flag)
        /\ (s \in Writers => l # "next")
    BY <1>0 DEF AfterRaise
  <2>3. \A a \in Agents : pc[a] \notin Lowering
    BY <1>2 DEF Raise
  <2> HIDE DEF l
  <2>4. /\ pc'[s] = l /\ \A u \in Tasks : u # s => pc'[u] = pc[u]
        /\ \A a \in Agents : /\ pc'[a] \in Lowering <=> pc[a] \in Lowering
                             /\ pc'[a] \in Queues <=> pc[a] \in Queues
                             /\ pc'[a] = "lowerFlag" <=> pc[a] = "lowerFlag"
    BY <1>b, <2>1, <2>2
  <2>5. LowerInv'
    BY <2>3, <2>4 DEF LowerInv
  <2>6. PinInv'
    BY <1>0, <2>1, <2>2, <2>4, WhoIsWho DEF PinInv
  <2>7. HeldInv'
    BY <1>0, <2>1, <2>2, <2>4, WhoIsWho DEF HeldInv, Held
  <2> QED  BY <2>5, <2>6, <2>7
<1>3. CASE RaiseGpio(s)
  <2>1. Goto(s, "flag") /\ pc[s] = "gpio" /\ gpio' = TRUE /\ UNCHANGED <<flag, txSem, loaded, tx>>
    BY <1>3 DEF RaiseGpio
  <2>2. \A a \in Agents : pc[a] \notin Lowering
    BY <2>1 DEF LowerInv, Announcing
  <2>3. /\ pc'[s] = "flag" /\ \A u \in Tasks : u # s => pc'[u] = pc[u]
        /\ \A a \in Agents : /\ pc'[a] \in Lowering <=> pc[a] \in Lowering
                             /\ pc'[a] \in Queues <=> pc[a] \in Queues
                             /\ pc'[a] = "lowerFlag" <=> pc[a] = "lowerFlag"
    BY <1>b, <2>1
  <2>4. \A a \in Agents : pc'[a] # "lowerFlag"
    BY <2>2, <2>3 DEF Lowering
  <2>5. LowerInv'
    BY <2>2, <2>3 DEF LowerInv
  <2>6. PinInv'
    BY <1>0, <2>1, <2>3, <2>4, WhoIsWho DEF PinInv
  <2>7. HeldInv'
    BY <1>0, <2>1, <2>3, WhoIsWho DEF HeldInv, Held
  <2> QED  BY <2>5, <2>6, <2>7
<1>4. CASE RaiseFlag(s)
  <2>1. Goto(s, AfterRaise(s)) /\ pc[s] = "flag" /\ flag' = TRUE /\ UNCHANGED <<gpio, txSem, loaded, tx>>
    BY <1>4 DEF RaiseFlag
  <2>2. \A a \in Agents : pc[a] \notin Lowering
    BY <2>1 DEF LowerInv, Announcing
  <2>3. AfterRaise(s) \in {"give", "next"}
    BY DEF AfterRaise
  <2>4. /\ pc'[s] \in {"give", "next"} /\ \A u \in Tasks : u # s => pc'[u] = pc[u]
        /\ \A a \in Agents : /\ pc'[a] \in Lowering <=> pc[a] \in Lowering
                             /\ pc'[a] = "lowerFlag" <=> pc[a] = "lowerFlag"
    BY <1>b, <2>1, <2>3
  <2>5. gpio
    BY <2>1 DEF PinInv
  <2>6. \A a \in Agents : pc'[a] # "lowerFlag"
    BY <2>2, <2>4 DEF Lowering
  <2>7. LowerInv'
    BY <2>2, <2>4 DEF LowerInv
  <2>8. PinInv'
    BY <1>0, <2>1, <2>4, <2>5, <2>6, WhoIsWho DEF PinInv
  <2>9. HeldInv'
    BY <2>1 DEF HeldInv
  <2> QED  BY <2>7, <2>8, <2>9
<1>5. CASE GiveTxSem(s)
  <2> DEFINE l == IF s = Reset THEN "raise" ELSE "idle"
  <2>1. Goto(s, l) /\ pc[s] = "give" /\ UNCHANGED <<gpio, flag, loaded, tx>>
    BY <1>5 DEF GiveTxSem
  <2>2. \A a \in Agents : pc[a] \notin Lowering
    BY <2>1 DEF LowerInv, Announcing
  <2>3. l \in {"raise", "idle"} /\ (s = Reset => l = "raise")
    OBVIOUS
  <2> HIDE DEF l
  <2>4. /\ pc'[s] = l /\ \A u \in Tasks : u # s => pc'[u] = pc[u]
        /\ \A a \in Agents : /\ pc'[a] \in Lowering <=> pc[a] \in Lowering
                             /\ pc'[a] \in Queues <=> pc[a] \in Queues
                             /\ pc'[a] = "lowerFlag" <=> pc[a] = "lowerFlag"
    BY <1>b, <2>1, <2>3
  <2>5. LowerInv'
    BY <2>2, <2>4 DEF LowerInv
  <2>6. PinInv'
    BY <1>0, <2>1, <2>3, <2>4, WhoIsWho DEF PinInv
  <2>7. HeldInv'
    <3>1. CASE s = Reset
      BY <2>3, <2>4, <3>1 DEF HeldInv
    <3>2. CASE s \in Writers
      <4>1. flag
        BY <2>1, <3>2 DEF PinInv
      <4> QED  BY <2>1, <4>1 DEF HeldInv
    <3> QED  BY <1>0, <3>1, <3>2
  <2> QED  BY <2>5, <2>6, <2>7
<1>6. QED
  BY <1>1, <1>2, <1>3, <1>4, <1>5 DEF Send

LEMMA LineNextTransaction ==
  ASSUME IInv, NEW a \in Agents, NextTransaction(a), LowerInv, PinInv, HeldInv,
         ~crossed', wakes = 0
  PROVE  LowerInv' /\ PinInv' /\ HeldInv'
<1> USE DEF sendVars, nextVars, lineVars, txVars, busVars, rxVars, hostVars
<1>0. PcOK /\ a \in Tasks /\ (a = Post \/ a = Reset) /\ a \notin Writers
  BY Parts, WhoIsWho DEF IInv
<1>a. pc[a] \in Loading
  BY DEF NextTransaction, TakeTxSem, LookInto, Lower, LowerGpio, LowerFlag, MakeDummy,
         NoMemoryForDummy, Load, Loading, Lowering, Queues
<1>b. loaded = <<>> /\ \A b \in Agents : b # a => pc[b] \notin Loading
  BY <1>a, OneAgent DEF IInv
<1>c. \A b \in Agents : b # a => pc[b] \notin Lowering /\ pc[b] \notin Queues /\ pc[b] # "lowerFlag"
                                 /\ tx[b] = Dummy
  BY <1>b DEF Loading, Lowering, IInv, HoldInv
<1>d. ASSUME NEW l, Goto(a, l)
      PROVE  /\ pc'[a] = l /\ \A u \in Tasks : u # a => pc'[u] = pc[u]
             /\ \A b \in Agents : b # a => /\ pc'[b] \notin Lowering /\ pc'[b] \notin Queues
                                           /\ pc'[b] # "lowerFlag"
  BY <1>0, <1>c, <1>d, Moved, WhoIsWho
<1>e. \A q \in Queues : q \notin Lowering /\ q # "lowerFlag" /\ q \notin Announcing /\ q # "raise"
  BY DEF Queues, Lowering, Announcing
<1>f. \A l \in {"next", "lower", "lowerGpio", "lowerFlag", "dummy", "load", "idle", "process"} :
        l \notin Queues /\ l \notin Announcing /\ l # "raise"
  BY DEF Queues, Announcing
<1>g. \A l \in {"next", "dummy", "load", "idle", "process"} : l \notin Lowering /\ l # "lowerFlag"
  BY DEF Lowering
\* A step that begins and ends outside Lowering, Announcing and "raise".
<1>h. ASSUME NEW l, Goto(a, l), l \notin Lowering, l \notin Announcing, l # "raise",
             pc[a] \notin Lowering, pc[a] \notin Announcing, pc[a] # "raise",
             UNCHANGED <<gpio, flag>>
      PROVE  LowerInv' /\ PinInv'
  <2>1. /\ pc'[a] = l /\ \A u \in Tasks : u # a => pc'[u] = pc[u]
        /\ \A b \in Agents : b # a => pc'[b] \notin Lowering /\ pc'[b] # "lowerFlag"
    BY <1>d, <1>h
  <2>2. \A b \in Agents : pc'[b] \notin Lowering /\ pc'[b] # "lowerFlag" /\ pc[b] # "lowerFlag"
    BY <1>c, <1>h, <2>1 DEF Lowering
  <2>3. LowerInv'
    BY <2>2 DEF LowerInv
  <2>4. l # "flag" /\ l # "give" /\ pc[a] # "flag" /\ pc[a] # "give"
    BY <1>h DEF Announcing
  <2>5. PinInv'
    BY <1>0, <1>h, <2>1, <2>2, <2>4, WhoIsWho DEF PinInv
  <2> QED  BY <2>3, <2>5
<1>i. ASSUME NEW l, Goto(a, l), l \notin Announcing, pc[a] \notin Announcing,
             l # "raise", pc[a] # "raise", flag' = flag, Held' => Held
      PROVE  HeldInv'
  <2>1. pc'[Reset] \in {"raise", "gpio", "flag"} <=> pc[Reset] \in {"raise", "gpio", "flag"}
    <3>1. pc'[a] = l /\ \A u \in Tasks : u # a => pc'[u] = pc[u]
      BY <1>d, <1>i
    <3>2. pc'[a] \notin {"raise", "gpio", "flag"} /\ pc[a] \notin {"raise", "gpio", "flag"}
      BY <1>i, <3>1 DEF Announcing
    <3> QED  BY <3>1, <3>2, WhoIsWho
  <2> QED  BY <1>i, <2>1 DEF HeldInv
<1>1. ASSUME TakeTxSem(a), txSem > 0 PROVE LowerInv' /\ PinInv' /\ HeldInv'
  <2>1. Goto(a, "serial") /\ pc[a] = "next" /\ UNCHANGED <<gpio, flag>> /\ txSem # 0
    BY <1>1 DEF TakeTxSem
  <2>2. Held
    BY <2>1 DEF Held
  <2> QED  BY <1>e, <1>f, <1>g, <1>h, <1>i, <2>1, <2>2 DEF Queues
<1>2. ASSUME TakeTxSem(a), ~(txSem > 0) PROVE LowerInv' /\ PinInv' /\ HeldInv'
  <2>1. /\ Goto(a, "lower") /\ pc[a] = "next" /\ UNCHANGED <<gpio, flag, txSem, loaded, tx>>
        /\ \A s \in Senders : pc[s] \notin Announcing
    BY <1>2 DEF TakeTxSem
  <2>2. txSem = 0
    BY <1>2, ConstantsAssumption DEF IInv, TypeOK
  <2>3. /\ pc'[a] = "lower" /\ \A u \in Tasks : u # a => pc'[u] = pc[u]
        /\ \A b \in Agents : b # a => pc'[b] \notin Lowering /\ pc'[b] \notin Queues
                                      /\ pc'[b] # "lowerFlag"
    BY <1>d, <2>1
  <2>4. \A s \in Senders : pc'[s] \notin Announcing
    BY <1>f, <2>1, <2>3, WhoIsWho
  <2>5. LowerInv'
    BY <2>1, <2>2, <2>4 DEF LowerInv
  <2>6. \A b \in Agents : pc'[b] # "lowerFlag" /\ pc[b] # "lowerFlag"
    BY <1>c, <2>1, <2>3
  <2>7. \A s \in Senders : pc'[s] \notin {"flag", "give"} /\ pc[s] \notin {"flag", "give"}
    BY <2>1, <2>4 DEF Announcing
  <2>8. PinInv'
    BY <2>1, <2>6, <2>7, WhoIsWho DEF PinInv
  <2>9. ~Held'
    <3>1. \A b \in Agents : pc'[b] \notin Queues /\ tx'[b] = Dummy
      BY <1>c, <1>f, <2>1, <2>3 DEF IInv, HoldInv
    <3>2. Len(loaded') = 0 /\ txSem' = 0
      BY <1>b, <2>1, <2>2
    <3> QED  BY <3>1, <3>2 DEF Held
  <2> QED  BY <2>5, <2>8, <2>9 DEF HeldInv
<1>3. ASSUME NEW q \in Queues, LookInto(a, q) PROVE LowerInv' /\ PinInv' /\ HeldInv'
  <2>1. pc[a] = q /\ UNCHANGED <<gpio, flag, txSem, loaded>>
    BY <1>3 DEF LookInto
  <2>2. Held
    BY <2>1 DEF Held
  <2>3. \E l \in {"load", "bt", "others"} : Goto(a, l)
    <3>1. CASE txQueue[q] > 0
      BY <1>3, <3>1 DEF LookInto
    <3>2. CASE ~(txQueue[q] > 0) /\ q # "others"
      BY <1>3, <3>2 DEF LookInto, Following, Queues
    <3>3. ~(q = "others" /\ ~(txQueue[q] > 0))
      <4>1. SUFFICES ASSUME q = "others", ~(txQueue[q] > 0) PROVE FALSE
        OBVIOUS
      <4>2. txQueue["others"] = 0
        BY <4>1, ConstantsAssumption DEF IInv, TypeOK
      <4>3. PICK l : Goto(a, l)
        BY <1>3 DEF LookInto
      <4>4. Cardinality(AgentsAt({"others"})) > 0 /\ Cardinality(AgentsAt({"others"})) \in Nat
        BY <1>0, <2>1, <4>1, <4>3, AgentsMove
      <4>5. Cardinality(AgentsAt({"others"})) <= 0
        BY <4>2 DEF IInv, TakeInv
      <4> QED  BY <4>4, <4>5
    <3> QED  BY <3>1, <3>2, <3>3
  <2>4. PICK l \in {"load", "bt", "others"} : Goto(a, l)
    BY <2>3
  <2>5. l \notin Lowering /\ l \notin Announcing /\ l # "raise"
    BY DEF Lowering, Announcing
  <2> QED  BY <1>e, <1>h, <1>i, <2>1, <2>2, <2>4, <2>5
<1>4. CASE Lower(a)
  <2> DEFINE l == IF flag THEN "lowerGpio" ELSE "dummy"
  <2>1. Goto(a, l) /\ pc[a] = "lower" /\ UNCHANGED <<gpio, flag, txSem, loaded, tx>>
    BY <1>4 DEF Lower
  <2>2. txSem = 0 /\ \A s \in Senders : pc[s] \notin Announcing
    BY <2>1 DEF LowerInv, Lowering
  <2>3. l \in {"lowerGpio", "dummy"}
    OBVIOUS
  <2> HIDE DEF l
  <2>4. /\ pc'[a] = l /\ \A u \in Tasks : u # a => pc'[u] = pc[u]
        /\ \A b \in Agents : b # a => pc'[b] \notin Lowering /\ pc'[b] \notin Queues
                                      /\ pc'[b] # "lowerFlag"
    BY <1>d, <2>1
  <2>5. \A s \in Senders : pc'[s] \notin Announcing
    BY <1>f, <2>2, <2>3, <2>4, WhoIsWho
  <2>6. LowerInv'
    BY <2>1, <2>2, <2>5 DEF LowerInv
  <2>7. \A b \in Agents : pc'[b] # "lowerFlag" /\ pc[b] # "lowerFlag"
    BY <1>c, <2>1, <2>3, <2>4
  <2>8. \A s \in Senders : pc'[s] \notin {"flag", "give"} /\ pc[s] \notin {"flag", "give"}
    BY <2>2, <2>5 DEF Announcing
  <2>9. PinInv'
    BY <2>1, <2>7, <2>8, WhoIsWho DEF PinInv
  <2>10. ~Held'
    <3>1. \A b \in Agents : pc'[b] \notin Queues /\ tx'[b] = Dummy
      BY <1>c, <1>f, <2>1, <2>3, <2>4 DEF IInv, HoldInv
    <3>2. Len(loaded') = 0 /\ txSem' = 0
      BY <1>b, <2>1, <2>2
    <3> QED  BY <3>1, <3>2 DEF Held
  <2> QED  BY <2>6, <2>9, <2>10 DEF HeldInv
<1>5. CASE LowerGpio(a) \/ LowerFlag(a)
  <2> DEFINE l == IF LowerGpio(a) THEN "lowerFlag" ELSE "dummy"
  <2>1. /\ Goto(a, l) /\ pc[a] \in {"lowerGpio", "lowerFlag"} /\ UNCHANGED <<txSem, loaded, tx>>
        /\ \/ pc[a] = "lowerGpio" /\ l = "lowerFlag" /\ gpio' = FALSE /\ flag' = flag
           \/ pc[a] = "lowerFlag" /\ l = "dummy" /\ gpio' = gpio /\ flag' = FALSE
    BY <1>5 DEF LowerGpio, LowerFlag
  <2>2. txSem = 0 /\ \A s \in Senders : pc[s] \notin Announcing
    BY <2>1 DEF LowerInv, Lowering
  <2>3. l \in {"lowerFlag", "dummy"}
    OBVIOUS
  <2> HIDE DEF l
  <2>4. /\ pc'[a] = l /\ \A u \in Tasks : u # a => pc'[u] = pc[u]
        /\ \A b \in Agents : b # a => pc'[b] \notin Lowering /\ pc'[b] \notin Queues
                                      /\ pc'[b] # "lowerFlag"
    BY <1>d, <2>1
  <2>5. \A s \in Senders : pc'[s] \notin Announcing
    BY <1>f, <2>2, <2>3, <2>4, WhoIsWho
  <2>6. LowerInv'
    BY <2>1, <2>2, <2>5 DEF LowerInv
  <2>7. gpio' = FALSE
    BY <2>1 DEF PinInv
  <2>8. \A s \in Senders : pc'[s] \notin {"flag", "give"}
    BY <2>5 DEF Announcing
  <2>9. flag' => pc'[a] = "lowerFlag"
    BY <2>1, <2>4
  <2>10. PinInv'
    BY <2>7, <2>8, <2>9, WhoIsWho DEF PinInv
  <2>11. ~Held'
    <3>1. \A b \in Agents : pc'[b] \notin Queues /\ tx'[b] = Dummy
      BY <1>c, <1>f, <2>1, <2>3, <2>4 DEF IInv, HoldInv
    <3>2. Len(loaded') = 0 /\ txSem' = 0
      BY <1>b, <2>1, <2>2
    <3> QED  BY <3>1, <3>2 DEF Held
  <2> QED  BY <2>6, <2>10, <2>11 DEF HeldInv
<1>6. CASE MakeDummy(a) \/ NoMemoryForDummy(a)
  <2>1. PICK l \in {"load", "idle", "process"} : Goto(a, l)
    BY <1>6 DEF MakeDummy, NoMemoryForDummy, AfterNext
  <2>2. pc[a] = "dummy" /\ UNCHANGED <<gpio, flag, txSem, loaded, tx>>
    BY <1>6 DEF MakeDummy, NoMemoryForDummy
  <2>3. Held' => Held
    <3>1. pc'[a] \notin Queues /\ \A b \in Agents : b # a => pc'[b] \notin Queues
      BY <1>d, <1>f, <2>1
    <3> QED  BY <2>2, <3>1 DEF Held
  <2> QED  BY <1>f, <1>g, <1>h, <1>i, <2>1, <2>2, <2>3
<1>7. CASE Load(a)
  <2>1. PICK l \in {"idle", "process"} : Goto(a, l)
    BY <1>7 DEF Load, AfterNext
  <2>2. /\ pc[a] = "load" /\ UNCHANGED <<gpio, flag, txSem>>
        /\ loaded' = Append(loaded, tx[a]) /\ tx' = [tx EXCEPT ![a] = Dummy]
    BY <1>7 DEF Load
  <2>3. Held' => Held
    <3>1. pc'[a] \notin Queues /\ \A b \in Agents : b # a => pc'[b] \notin Queues
      BY <1>d, <1>f, <2>1
    <3>2. \A b \in Agents : tx'[b] # Dummy => tx[b] # Dummy
      BY <2>2 DEF IInv, TypeOK
    <3>3. loaded' = <<tx[a]>>
      BY <1>b, <2>2
    <3>4. (\E i \in 1..Len(loaded') : loaded'[i] # Dummy) => tx[a] # Dummy
      BY <3>3
    <3> QED  BY <2>2, <3>1, <3>2, <3>4 DEF Held
  <2> QED  BY <1>f, <1>g, <1>h, <1>i, <2>1, <2>2, <2>3
<1>8. QED
  BY <1>1, <1>2, <1>3, <1>4, <1>5, <1>6, <1>7 DEF NextTransaction

LEMMA LineOther ==
  ASSUME IInv, Other, LowerInv, PinInv, HeldInv, ~crossed', wakes' = 0
  PROVE  LowerInv' /\ PinInv' /\ HeldInv'
<1> USE DEF sendVars, nextVars, lineVars, txVars, busVars, rxVars, hostVars
<1>a. \A l \in {"queue", "idle", "wait", "cs", "next", "process", "rxQueue"} :
        l \notin Announcing \union Lowering \union Queues \union {"raise"}
  BY DEF Announcing, Lowering, Queues
<1>1. ASSUME NEW rx \in RxKinds \union {Dummy, "awake"}, HostClock(rx)
      PROVE LowerInv' /\ PinInv' /\ HeldInv'
  <2>1. UNCHANGED <<pc, gpio, flag, txSem, tx>> /\ loaded' = Tail(loaded) /\ loaded # <<>>
    BY <1>1 DEF HostClock
  <2>2. loaded \in Seq(Queues \union {Dummy})
    BY DEF IInv, TypeOK
  <2>3. Len(loaded') = Len(loaded) - 1 /\ \A i \in 1..Len(loaded') : loaded'[i] = loaded[i + 1]
    BY <2>1, <2>2, HeadTailProperties
  <2>4. (\E i \in 1..Len(loaded') : loaded'[i] # Dummy) => \E i \in 1..Len(loaded) : loaded[i] # Dummy
    <3>1. Len(loaded) \in Nat
      BY <2>2
    <3>2. \A i \in 1..Len(loaded') : i + 1 \in 1..Len(loaded)
      BY <2>3, <3>1
    <3> QED  BY <2>3, <3>2
  <2>5. LowerInv' /\ PinInv'
    BY <2>1 DEF LowerInv, PinInv
  <2>6. HeldInv'
    BY <2>1, <2>4 DEF HeldInv, Held
  <2> QED  BY <2>5, <2>6
<1>2. CASE UNCHANGED <<pc, gpio, flag, txSem, loaded, tx>>
  BY <1>2 DEF LowerInv, PinInv, HeldInv, Held
<1>3. ASSUME NEW t \in Tasks,
             NEW l \in {"queue", "idle", "wait", "cs", "next", "process", "rxQueue"}, Goto(t, l),
             pc[t] \in {"queue", "idle", "wait", "cs", "next", "process", "rxQueue"},
             UNCHANGED <<gpio, flag, txSem, loaded, tx>>
      PROVE  LowerInv' /\ PinInv' /\ HeldInv'
  <2>1. {pc[t], l} \cap (Announcing \union Lowering \union Queues \union {"raise"}) = {}
    BY <1>a, <1>3
  <2> QED  BY <1>3, <2>1, LineUntouched DEF IInv
<1>4. ASSUME NEW w \in Writers, NEW q \in TxKinds, Write(w, q)
      PROVE LowerInv' /\ PinInv' /\ HeldInv'
  <2>1. Goto(w, "queue") /\ pc[w] = "idle" /\ UNCHANGED <<gpio, flag, txSem, loaded, tx>>
    BY <1>4 DEF Write
  <2> QED  BY <1>3, <2>1, WhoIsWho
<1>5. CASE Startup
  <2>1. Goto(Reset, "queue") /\ pc[Reset] = "idle" /\ UNCHANGED <<gpio, flag, txSem, loaded, tx>>
    BY <1>5 DEF Startup
  <2> QED  BY <1>3, <2>1, WhoIsWho
<1>6. CASE PostTask
  <2>1. PICK l \in {"cs", "next", "rxQueue", "wait"} : Goto(Post, l)
    BY <1>6 DEF PostTask, GetResult, TakeCsSem, Process, RxQueue
  <2>2. /\ pc[Post] \in {"wait", "cs", "process", "rxQueue"}
        /\ UNCHANGED <<gpio, flag, txSem, loaded, tx>>
    BY <1>6 DEF PostTask, GetResult, TakeCsSem, Process, RxQueue
  <2> QED  BY <1>3, <2>1, <2>2, WhoIsWho
<1>7. QED
  BY <1>1, <1>2, <1>4, <1>5, <1>6 DEF Other, HostRelease, AlertGive, Recv

LEMMA LineStep == IInv /\ [Next]_vars => LineInv'
<1> SUFFICES ASSUME IInv, [Next]_vars, ~crossed', wakes' = 0
             PROVE  LowerInv' /\ PinInv' /\ HeldInv'
  BY DEF LineInv
<1>1. ~crossed /\ wakes = 0
  BY HistoryGrows DEF IInv
<1>2. LowerInv /\ PinInv /\ HeldInv
  BY <1>1 DEF IInv, LineInv
<1>3. UNCHANGED vars => LowerInv' /\ PinInv' /\ HeldInv'
  BY <1>2 DEF vars, nextVars, lineVars, txVars, busVars, LowerInv, PinInv, HeldInv, Held
<1>4. QED
  BY <1>1, <1>2, <1>3, NextCases, LineSend, LineNextTransaction, LineOther

LEMMA Consequence == IInv => PacketsAnnounced
<1> SUFFICES ASSUME IInv, ~crossed, wakes = 0,
                    \A s \in Senders : pc[s] \in {"idle", "queue"},
                    \A a \in Agents : pc[a] \notin Lowering
             PROVE  (Waiting => gpio) /\ gpio = flag
  BY DEF PacketsAnnounced
<1>1. LowerInv /\ PinInv /\ HeldInv
  BY DEF IInv, LineInv
<1>2. (gpio => flag) /\ (flag => gpio)
  BY <1>1, Zenon DEF PinInv, Lowering
<1>3. gpio = flag
  <2>1. gpio \in BOOLEAN /\ flag \in BOOLEAN
    BY Zenon DEF IInv, TypeOK
  <2> QED  BY <1>2, <2>1
<1>4. Held => gpio
  <2>1. pc[Reset] \notin {"raise", "gpio", "flag"}
    BY WhoIsWho
  <2> QED  BY <1>1, <1>2, <2>1 DEF HeldInv
<1>5. Waiting => Held
  <2>1. ASSUME NEW q \in Queues, txQueue[q] > 0 PROVE Held
    <3>1. Giving = {}
      BY DEF Giving
    <3>2. \A p \in Queues : txQueue[p] \in Nat
      BY ConstantsAssumption DEF IInv, TypeOK
    <3>3. Queued > 0
      BY <2>1, <3>2 DEF Queued, Queues
    <3>4. txSem + Cardinality(Looking) + 0 = Queued
      BY <3>1, FS_EmptySet DEF IInv, TakeInv
    <3>5. CASE Looking = {}
      <4>1. txSem # 0
        BY <3>3, <3>4, <3>5, FS_EmptySet
      <4> QED  BY <4>1 DEF Held
    <3>6. CASE Looking # {}
      BY <3>6 DEF Looking, Held
    <3> QED  BY <3>5, <3>6
  <2> QED  BY <2>1 DEF Waiting, Held
<1>6. QED
  BY <1>3, <1>4, <1>5

LEMMA IInvInit == Init => IInv
BY TypeInit, TakeInit, OneInit, LineInit DEF IInv

LEMMA IInvStep == IInv /\ [Next]_vars => IInv'
<1>1. IInv /\ [Next]_vars => TypeOK' /\ TakeInv' /\ OneInv' /\ HoldInv'
  BY NextCases, OtherType, SendType, NextTransactionType, TypeStutter, TakeStep, OneStep, HoldStep
  DEF IInv
<1>2. IInv /\ [Next]_vars => LineInv'
  BY LineStep
<1>3. QED
  BY <1>1, <1>2 DEF IInv

\* Until the host wakes up or a packet is announced while an agent concludes
\* that there is none, the data-ready line is high when a packet waits and no
\* task is about to change the line.
THEOREM AnnouncedCorrect == Spec => []PacketsAnnounced
BY IInvInit, IInvStep, Consequence, PTL DEF Spec

-----------------------------------------------------------------------------
(***************************************************************************)
(* What is left when everything has come to rest: the safety part of       *)
(* PacketsReachHost.                                                       *)
(***************************************************************************)
\* No task can move, and the host has nothing to do about the line or chip
\* select.
Stopped ==
  /\ \A s \in Senders :
       /\ pc[s] \in {"idle", "queue"} \/ (s = Reset /\ pc[s] \in Loading)
       /\ pc[s] = "queue" => txQueue[kind[s]] >= TxSize
  /\ pc[Reset] = "idle" => ~resetSem
  /\ \A a \in Agents : pc[a] \in Loading => pc[a] = "load" /\ Len(loaded) > DriverSize
  /\ pc[Post] = "wait" => done = <<>>
  /\ pc[Post] = "cs" => ~csSem
  /\ pc[Post] # "process"
  /\ pc[Post] = "rxQueue" => rxQueue[received] >= RxSize
  /\ alerts = 0
  /\ \A q \in Queues : rxQueue[q] = 0
  /\ ~cs
  /\ ~gpio \/ loaded = <<>>

\* The round of the one transaction: chip select is or was asserted for what
\* Post has to finish, and unless memory ran out the transaction is loaded,
\* finished, in Post's hands, or host_reset_task is to load the first.
RoundInv ==
  wakes = 0 =>
    /\ pc[Post] = "cs" \/ done # <<>> => cs \/ csSem
    /\ ~starved => \/ resetSem \/ pc[Reset] # "idle"
                   \/ loaded # <<>> \/ done # <<>>
                   \/ pc[Post] \in Loading \union {"cs"}

\* Under the conditions of PacketsReachHost the transport comes to rest only
\* with all packets at the host and no sender waiting, or held up by a startup
\* event that waits for the queue which only its own transaction would empty.
RestsWhenDone ==
  Stopped /\ ~crossed /\ wakes = 0 /\ ~starved =>
    \/ StartupHeldUp
    \/ ~Waiting /\ \A s \in Senders : pc[s] = "idle"

LEMMA RoundInit == Init => RoundInv
<1>1. Init => pc[Reset] = "idle" /\ pc[Post] = "wait"
  BY WhoIsWho DEF Init, Tasks
<1>2. QED
  BY <1>1 DEF Init, RoundInv

LEMMA RoundStep == TypeOK /\ OneInv /\ RoundInv /\ [Next]_vars => RoundInv'
<1> SUFFICES ASSUME TypeOK, OneInv, RoundInv, [Next]_vars, wakes' = 0 PROVE RoundInv'
  BY DEF RoundInv
<1> USE DEF sendVars, nextVars, lineVars, txVars, busVars, rxVars, hostVars
<1>0. PcOK /\ wakes = 0
  BY Parts, HistoryGrows
<1>b. /\ alerts = 0
      /\ resetSem \/ pc[Reset] # "idle" => pc[Post] = "wait" /\ loaded = <<>> /\ done = <<>>
      /\ pc[Post] \in Loading \union {"cs"} => loaded = <<>> /\ done = <<>>
  BY <1>0 DEF OneInv
<1>r. /\ pc[Post] = "cs" \/ done # <<>> => cs \/ csSem
      /\ ~starved => \/ resetSem \/ pc[Reset] # "idle"
                     \/ loaded # <<>> \/ done # <<>>
                     \/ pc[Post] \in Loading \union {"cs"}
  BY <1>0 DEF RoundInv
<1>c. /\ \A l \in {"wait", "process", "rxQueue", "idle", "cs"} : l \notin Loading
      /\ {"next", "dummy", "load", "lower", "lowerGpio", "lowerFlag"} \subseteq Loading
      /\ Queues \subseteq Loading
  BY DEF Loading, Lowering, Queues
<1>a. /\ loaded \in Seq(Queues \union {Dummy})
      /\ done \in Seq(Queues \union {Dummy, "awake"})
  BY DEF TypeOK
<1>u. ASSUME UNCHANGED <<cs, csSem, done, loaded, starved, resetSem>>,
             pc'[Post] = pc[Post] \/ {pc'[Post], pc[Post]} \subseteq {"wait", "process", "rxQueue"},
             pc'[Reset] = pc[Reset] \/ pc'[Reset] # "idle"
      PROVE  RoundInv'
  BY <1>r, <1>u, <1>c DEF RoundInv
<1>1. ASSUME NEW rx \in RxKinds \union {Dummy, "awake"}, HostClock(rx) PROVE RoundInv'
  <2>1. cs' /\ done' = Append(done, rx)
    BY <1>1 DEF HostClock
  <2>2. done' # <<>>
    <3>1. rx \in Queues \union {Dummy, "awake"}
      BY ConstantsAssumption
    <3> QED  BY <1>a, <2>1, <3>1, AppendProperties, EmptySeq
  <2> QED  BY <2>1, <2>2 DEF RoundInv
<1>2. CASE HostRelease
  BY <1>2, <1>r DEF HostRelease, RoundInv
<1>3. ASSUME NEW s \in Senders, Send(s) PROVE RoundInv'
  <2>1. UNCHANGED <<cs, csSem, done, loaded, starved, resetSem>>
    BY <1>3 DEF Send, QueuePacket, Raise, RaiseGpio, RaiseFlag, GiveTxSem
  <2>2. \E l : Goto(s, l) /\ (s = Reset => l # "idle")
    BY <1>3 DEF Send, QueuePacket, Raise, RaiseGpio, RaiseFlag, GiveTxSem, AfterRaise
  <2>3. pc'[Post] = pc[Post] /\ (pc'[Reset] = pc[Reset] \/ pc'[Reset] # "idle")
    BY <1>0, <2>2, Moved, WhoIsWho
  <2> QED  BY <1>u, <2>1, <2>3
<1>4. ASSUME NEW a \in Agents, NextTransaction(a) PROVE RoundInv'
  <2>1. pc[a] \in Loading
    BY <1>4, <1>c DEF NextTransaction, TakeTxSem, LookInto, Lower, LowerGpio, LowerFlag,
                      MakeDummy, NoMemoryForDummy, Load
  <2>2. done = <<>>
    BY <1>b, <1>c, <2>1, WhoIsWho
  <2>3. UNCHANGED <<cs, csSem, done, resetSem>> /\ \E l : Goto(a, l)
    BY <1>4 DEF NextTransaction, TakeTxSem, LookInto, Lower, LowerGpio, LowerFlag,
                MakeDummy, NoMemoryForDummy, Load
  <2>4. pc'[Post] # "cs"
    <3>1. \E l : Goto(a, l) /\ l # "cs"
      BY <1>4 DEF NextTransaction, TakeTxSem, LookInto, Lower, LowerGpio, LowerFlag,
                  MakeDummy, NoMemoryForDummy, Load, AfterNext, Queues, Following
    <3>2. CASE a = Post
      BY <1>0, <3>1, <3>2, Moved, WhoIsWho
    <3>3. CASE a = Reset
      <4>1. pc'[Post] = pc[Post] /\ pc[Post] = "wait"
        BY <1>0, <1>b, <1>c, <2>1, <2>3, <3>3, Moved, WhoIsWho
      <4> QED  BY <4>1
    <3> QED  BY <3>2, <3>3, WhoIsWho
  <2>5. CASE Load(a)
    <3>1. tx[a] \in Queues \union {Dummy}
      BY DEF TypeOK
    <3>2. loaded' # <<>>
      BY <1>a, <2>5, <3>1, AppendProperties, EmptySeq DEF Load
    <3> QED  BY <2>2, <2>3, <2>4, <3>2 DEF RoundInv
  <2>6. CASE NoMemoryForDummy(a)
    BY <2>2, <2>3, <2>4, <2>6 DEF NoMemoryForDummy, RoundInv
  <2>7. CASE ~Load(a) /\ ~NoMemoryForDummy(a)
    <3>1. \E l \in Loading : Goto(a, l)
      BY <1>4, <1>c, <2>7 DEF NextTransaction, TakeTxSem, LookInto, Lower, LowerGpio,
                              LowerFlag, MakeDummy, Queues, Following
    <3>2. pc'[a] \in Loading
      BY <1>0, <3>1, Moved, WhoIsWho
    <3>3. pc'[Reset] # "idle" \/ pc'[Post] \in Loading
      BY <1>c, <3>2, WhoIsWho
    <3> QED  BY <2>2, <2>3, <2>4, <3>3 DEF RoundInv
  <2> QED  BY <2>5, <2>6, <2>7
<1>5. ASSUME NEW w \in Writers, NEW k \in TxKinds, Write(w, k) PROVE RoundInv'
  <2>1. pc'[Post] = pc[Post] /\ pc'[Reset] = pc[Reset]
    BY <1>0, <1>5, Moved, WhoIsWho DEF Write
  <2>2. UNCHANGED <<cs, csSem, done, loaded, starved, resetSem>>
    BY <1>5 DEF Write
  <2> QED  BY <1>u, <2>1, <2>2
<1>6. CASE Startup
  <2>1. pc'[Post] = pc[Post] /\ pc'[Reset] = "queue"
    BY <1>0, <1>6, Moved, WhoIsWho DEF Startup
  <2>2. UNCHANGED <<cs, csSem, done, loaded, starved>>
    BY <1>6 DEF Startup
  <2> QED  BY <1>r, <2>1, <2>2 DEF RoundInv
<1>7. CASE GetResult
  <2>1. pc'[Post] = "cs" /\ done # <<>> /\ UNCHANGED <<cs, csSem>>
    BY <1>0, <1>7, Moved, WhoIsWho DEF GetResult
  <2> QED  BY <1>r, <2>1 DEF RoundInv
<1>8. CASE TakeCsSem
  <2>1. pc[Post] = "cs" /\ pc'[Post] = "next" /\ done' = done
    BY <1>0, <1>8, Moved, WhoIsWho DEF TakeCsSem
  <2> QED  BY <1>b, <1>c, <2>1 DEF RoundInv
<1>9. CASE Process \/ RxQueue
  <2>1. UNCHANGED <<cs, csSem, done, loaded, starved, resetSem>>
    BY <1>9 DEF Process, RxQueue
  <2>2. {pc'[Post], pc[Post]} \subseteq {"wait", "process", "rxQueue"}
    BY <1>0, <1>9, Moved, WhoIsWho DEF Process, RxQueue
  <2>3. pc'[Reset] = pc[Reset]
    BY <1>0, <1>9, Moved, WhoIsWho DEF Process, RxQueue
  <2> QED  BY <1>u, <2>1, <2>2, <2>3
<1>10. ~AlertGive
  BY <1>b DEF AlertGive
<1>11. CASE UNCHANGED vars \/ \E k \in Queues : Recv(k)
  BY <1>u, <1>11 DEF Recv, vars
<1>12. QED
  BY <1>1, <1>2, <1>3, <1>4, <1>5, <1>6, <1>7, <1>8, <1>9, <1>10, <1>11 DEF Next, PostTask

\* However many tasks write, whatever the host sends in between and whatever
\* the sizes of the queues: as long as no packet crosses a lowered line, the
\* host does not wake up and there is memory for dummies, the transport does
\* not stop with a packet undelivered or a sender waiting, but for the first
\* startup event behind a queue that others have filled.
THEOREM RestCorrect == Spec => []RestsWhenDone
<1>1. IInv /\ RoundInv /\ [Next]_vars => RoundInv'
  BY RoundStep DEF IInv
<1>2. IInv /\ RoundInv => RestsWhenDone
  <2> SUFFICES ASSUME IInv, RoundInv, Stopped, ~crossed, wakes = 0, ~starved, ~StartupHeldUp
               PROVE  ~Waiting /\ \A s \in Senders : pc[s] = "idle"
    BY DEF RestsWhenDone
  <2>1. PcOK /\ {TxSize, RxSize, DriverSize} \subseteq Nat \ {0}
    BY Parts, ConstantsAssumption DEF IInv
  <2>2. Len(loaded) \in Nat /\ Len(loaded) <= 1
    BY DEF IInv, TypeOK, OneInv
  <2>3. \A a \in Agents : pc[a] \notin Loading
    BY <2>1, <2>2 DEF Stopped
  <2>4. pc[Post] = "wait"
    <3>1. pc[Post] # "rxQueue"
      BY <2>1 DEF Stopped, IInv, TypeOK
    <3>2. pc[Post] # "cs"
      BY DEF Stopped, RoundInv
    <3> QED  BY <2>1, <2>3, <3>1, <3>2, WhoIsWho DEF Stopped, PcOK
  <2>5. \A s \in Senders : pc[s] \in {"idle", "queue"}
    BY <2>3, WhoIsWho DEF Stopped
  <2>6. \A s \in Senders : kind[s] \in Queues /\ txQueue[kind[s]] \in 0..TxSize
    BY DEF IInv, TypeOK
  <2>7. pc[Reset] = "idle" /\ ~resetSem
    <3>1. kind[Reset] = "others" /\ pc[Reset] \in {"idle", "queue"}
      BY <2>5, WhoIsWho DEF IInv, TypeOK
    <3>2. pc[Reset] = "queue" => txQueue["others"] = TxSize
      BY <2>1, <2>6, <3>1, WhoIsWho DEF Stopped
    <3>3. pc[Reset] = "idle"
      BY <2>4, <3>1, <3>2 DEF StartupHeldUp
    <3> QED  BY <3>3 DEF Stopped
  <2>8. loaded # <<>>
    <3>1. "wait" \notin Loading \union {"cs"}
      BY DEF Loading, Lowering, Queues
    <3> QED  BY <2>4, <2>7, <3>1 DEF Stopped, RoundInv
  <2>9. ~gpio
    BY <2>8 DEF Stopped
  <2>10. ~Waiting
    <3>1. \A a \in Agents : pc[a] \notin Lowering
      BY <2>3 DEF Loading
    <3> QED  BY <2>5, <2>9, <3>1, Consequence DEF PacketsAnnounced
  <2>11. \A s \in Senders : pc[s] = "idle"
    <3> SUFFICES ASSUME NEW s \in Senders, pc[s] = "queue" PROVE FALSE
      BY <2>5
    <3>1. txQueue[kind[s]] > 0
      BY <2>1, <2>6 DEF Stopped
    <3> QED  BY <2>6, <2>10, <3>1 DEF Waiting
  <2> QED  BY <2>10, <2>11
<1>3. QED
  BY <1>1, <1>2, IInvInit, IInvStep, RoundInit, PTL DEF Spec
=============================================================================
