--------------------------- MODULE SerialRpcProofs ---------------------------
(***************************************************************************)
(* Proofs about SerialRpc, for every number and size of requests, every    *)
(* buffer and queue capacity, every window, and any number of restarts,    *)
(* failed allocations and events.                                          *)
(***************************************************************************)
EXTENDS SerialRpc, SequenceTheorems, TLAPS

(***************************************************************************)
(* Sequences: what the model's operations on the queue and on r.data yield.*)
(***************************************************************************)

\* The first n units of a buffer, all of them payloads, are a sequence of n
\* payloads.
LEMMA FirstUnitsType ==
  ASSUME NEW d, NEW n \in Nat, \A i \in 1..n : d[i] \in Payload
  PROVE  /\ FirstUnits(d, n) \in Seq(Payload)
         /\ Len(FirstUnits(d, n)) = n
<1>1. FirstUnits(d, n) \in [1..n -> Payload]
  BY DEF FirstUnits
<1>2. FirstUnits(d, n) \in Seq(Payload)
  BY <1>1, SeqDef
<1>3. 1..Len(FirstUnits(d, n)) = 1..n /\ Len(FirstUnits(d, n)) \in Nat
  BY <1>1, <1>2, LenProperties
<1>4. Len(FirstUnits(d, n)) = n
  BY <1>3
<1>5. QED
  BY <1>2, <1>4

\* The two kinds of queue entry are entries.
LEMMA EntryType ==
  /\ EventEntry \in Entry
  /\ \A d \in Seq(Payload) : RequestEntry(d) \in Entry
<1>1. <<>> \in Seq(Payload)
  BY EmptySeq
<1>2. QED
  BY <1>1 DEF EventEntry, RequestEntry, Entry

-----------------------------------------------------------------------------
LEMMA InitTypeOK == Init => TypeOK
<1> SUFFICES ASSUME Init PROVE TypeOK
  OBVIOUS
<1> USE ConstantsAssumption DEF Init
<1>1. HostOK
  BY EmptySeq DEF HostOK
<1>2. BufferOK
  <2>1. 1..len = {}
    OBVIOUS
  <2>2. data \in [1..BufCap -> Payload \union {NoFragment.payload}]
    OBVIOUS
  <2>3. valid \in BOOLEAN
    OBVIOUS
  <2>4. curSeq \in Nat /\ len \in 0..BufCap
    OBVIOUS
  <2>5. rpc # "count"
    OBVIOUS
  <2>6. QED
    BY <2>1, <2>2, <2>3, <2>4, <2>5 DEF BufferOK
<1>3. RecvOK
  <2>1. allocFailed \in BOOLEAN
    OBVIOUS
  <2>2. rem \in 0..BufCap /\ base \in 0..BufCap
    OBVIOUS
  <2>3. out \in Entry
    BY EntryType
  <2>4. rpc = "idle" /\ hdr = NoFragment
    OBVIOUS
  <2>5. QED
    BY <2>1, <2>2, <2>3, <2>4 DEF RecvOK
<1>4. PserialOK
  BY EntryType, EmptySeq DEF PserialOK
<1>5. QueueOK
  BY EmptySeq DEF QueueOK
<1>6. EventsOK
  BY DEF EventsOK
<1>7. QED
  BY <1>1, <1>2, <1>3, <1>4, <1>5, <1>6 DEF TypeOK

\* The host's steps.
LEMMA HostTypeOK ==
  TypeOK /\ (HostBegin \/ HostFragment \/ HostRestart) => TypeOK'
<1> SUFFICES ASSUME TypeOK, HostBegin \/ HostFragment \/ HostRestart PROVE TypeOK'
  OBVIOUS
<1> USE ConstantsAssumption
<1>1. UNCHANGED <<rVars, recvVars, q, pserVars, evtVars>>
  BY DEF HostBegin, HostFragment, HostRestart
<1>2. (BufferOK /\ RecvOK /\ PserialOK /\ QueueOK /\ EventsOK)'
  BY <1>1 DEF TypeOK, BufferOK, RecvOK, PserialOK, QueueOK, EventsOK,
              rVars, recvVars, pserVars, evtVars
<1>3. HostOK'
  <2>1. CASE HostBegin
    BY <2>1 DEF HostBegin, TypeOK, HostOK
  <2>2. CASE HostFragment
    <3> DEFINE piece == [msg |-> hostMsg, idx |-> Frags[hostMsg] - hostLeft + 1]
               frag == [payload |-> piece, more |-> hostLeft > 1, seq |-> hostSeq]
    <3>1. piece \in Payload
      BY <2>2 DEF HostFragment, TypeOK, HostOK, Payload, Reqs
    <3>2. frag \in Fragment
      BY <3>1 DEF TypeOK, HostOK, Fragment
    <3>3. bus' = Append(bus, frag)
      BY <2>2 DEF HostFragment
    <3> HIDE DEF frag
    <3>4. bus' \in Seq(Fragment)
      BY <3>2, <3>3, AppendProperties DEF TypeOK, HostOK
    <3>5. QED
      BY <2>2, <3>4 DEF HostFragment, TypeOK, HostOK
  <2>3. CASE HostRestart
    <3>1. PICK n \in 0..Len(bus) : bus' = SubSeq(bus, 1, n)
      BY <2>3 DEF HostRestart
    <3>2. \A i \in 1..n : bus[i] \in Fragment
      BY ElementOfSeq, LenProperties DEF TypeOK, HostOK
    <3>3. bus' \in Seq(Fragment)
      BY <3>1, <3>2, SubSeqProperties, LenProperties DEF TypeOK, HostOK
    <3>4. QED
      BY <2>3, <3>3 DEF HostRestart, TypeOK, HostOK
  <2>4. QED
    BY <2>1, <2>2, <2>3
<1>4. QED
  BY <1>2, <1>3 DEF TypeOK

\* recv_task's steps: that the copy stays inside r.data is what keeps its
\* type.
LEMMA RecvTypeOK == TypeOK /\ CopyStaysInBuffer /\ Recv => TypeOK'
<1> SUFFICES ASSUME TypeOK, CopyStaysInBuffer, Recv PROVE TypeOK'
  OBVIOUS
<1> USE ConstantsAssumption
<1>1. UNCHANGED <<hostVars, pserVars, evtVars>>
  BY DEF Recv, RecvTake, RecvStart, RecvMismatch, RecvCopy, RecvCount, RecvAlloc,
         RecvAllocFails, RecvPost
<1>2. (PserialOK /\ EventsOK)'
  BY <1>1 DEF TypeOK, PserialOK, EventsOK, pserVars, evtVars
<1>3. HostOK'
  <2>1. bus' = bus \/ (bus # <<>> /\ bus' = Tail(bus))
    BY DEF Recv, RecvTake, RecvStart, RecvMismatch, RecvCopy, RecvCount, RecvAlloc,
           RecvAllocFails, RecvPost
  <2>2. bus' \in Seq(Fragment)
    BY <2>1, HeadTailProperties DEF TypeOK, HostOK
  <2>3. QED
    BY <1>1, <2>2 DEF TypeOK, HostOK, hostVars
<1>4. BufferOK'
  <2>1. CASE RecvTake \/ RecvAlloc \/ RecvAllocFails \/ RecvPost
    <3>1. rpc' # "count" /\ UNCHANGED rVars
      BY <2>1 DEF RecvTake, RecvAlloc, RecvAllocFails, RecvPost
    <3>2. QED
      BY <3>1 DEF TypeOK, BufferOK, rVars
  <2>2. CASE RecvStart
    <3>1. hdr.seq \in Nat /\ rpc' # "count"
      BY <2>2 DEF RecvStart, TypeOK, RecvOK, Fragment
    <3>2. QED
      BY <2>2, <3>1 DEF RecvStart, TypeOK, BufferOK
  <2>3. CASE RecvMismatch
    <3>1. valid' \in BOOLEAN /\ rpc' # "count"
      BY <2>3 DEF RecvMismatch
    <3>2. QED
      BY <2>3, <3>1 DEF RecvMismatch, TypeOK, BufferOK
  <2>4. CASE RecvCopy
    <3>1. valid' \in BOOLEAN
      BY <2>4 DEF RecvCopy, TypeOK, BufferOK
    <3>2. hdr.payload \in Payload
      BY <2>4 DEF RecvCopy, TypeOK, RecvOK, Fragment
    <3>3. /\ data' = IF rem > 0 THEN [data EXCEPT ![len + 1] = hdr.payload] ELSE data
          /\ UNCHANGED <<curSeq, len, rem>> /\ base' = len
      BY <2>4 DEF RecvCopy
    <3>4. /\ len \in Nat /\ rem \in Nat /\ BufCap \in Nat /\ len + rem <= BufCap
          /\ len \in 0..BufCap /\ curSeq \in Nat
      BY <2>4 DEF RecvCopy, CopyStaysInBuffer, TypeOK, BufferOK, RecvOK
    <3>5. data' \in [1..BufCap -> Payload \union {NoFragment.payload}]
      BY <3>2, <3>3 DEF TypeOK, BufferOK
    <3>6. \A i \in 1..(len + Min2(1, rem)) : data'[i] \in Payload
      BY <3>2, <3>3, <3>4 DEF TypeOK, BufferOK, Min2
    <3>7. \A i \in 1..len : data'[i] \in Payload
      BY <3>4, <3>6 DEF Min2
    <3>8. QED
      BY <3>1, <3>3, <3>4, <3>5, <3>6, <3>7 DEF BufferOK
  <2>5. CASE RecvCount
    <3>1. valid' \in BOOLEAN /\ rpc' # "count" /\ UNCHANGED <<curSeq, data>>
      BY <2>5 DEF RecvCount, TypeOK, BufferOK
    <3>2. PICK l \in {base, len} : len' = l + Min2(1, rem)
      BY <2>5 DEF RecvCount
    <3>3. /\ base \in Nat /\ len \in Nat /\ rem \in Nat /\ len <= base
          /\ base + rem <= BufCap
          /\ \A i \in 1..(base + Min2(1, rem)) : data[i] \in Payload
      BY <2>5 DEF RecvCount, CopyStaysInBuffer, TypeOK, BufferOK, RecvOK
    <3>4. len' \in 0..BufCap /\ \A i \in 1..len' : data[i] \in Payload
      BY <3>2, <3>3 DEF Min2
    <3>5. QED
      BY <3>1, <3>4 DEF TypeOK, BufferOK
  <2>6. QED
    BY <2>1, <2>2, <2>3, <2>4, <2>5 DEF Recv
<1>5. RecvOK'
  <2>1. CASE RecvTake
    <3>1. hdr' \in Fragment
      BY <2>1, HeadTailProperties DEF RecvTake, TypeOK, HostOK
    <3>2. rem' \in 0..BufCap
      BY <2>1 DEF RecvTake, TypeOK, BufferOK
    <3>3. rpc' = "wait" /\ UNCHANGED <<base, out, allocFailed>>
      BY <2>1 DEF RecvTake
    <3>4. QED
      BY <3>1, <3>2, <3>3 DEF TypeOK, RecvOK
  <2>2. CASE RecvStart \/ RecvMismatch
    <3>1. rpc' \in {"match", "alloc"} /\ UNCHANGED <<hdr, rem, base, out, allocFailed>>
      BY <2>2 DEF RecvStart, RecvMismatch
    <3>2. hdr \in Fragment
      BY <2>2 DEF RecvStart, RecvMismatch, TypeOK, RecvOK
    <3>3. QED
      BY <3>1, <3>2 DEF TypeOK, RecvOK
  <2>3. CASE RecvCopy
    <3>1. rpc' = "count" /\ base' = len /\ UNCHANGED <<hdr, rem, out, allocFailed>>
      BY <2>3 DEF RecvCopy
    <3>2. QED
      BY <3>1 DEF TypeOK, RecvOK, BufferOK
  <2>4. CASE RecvAlloc
    <3>1. out' = RequestEntry(FirstUnits(data, len))
          /\ rpc' = "post" /\ UNCHANGED <<hdr, rem, base, allocFailed>>
      BY <2>4 DEF RecvAlloc
    <3>2. FirstUnits(data, len) \in Seq(Payload)
      BY FirstUnitsType DEF TypeOK, BufferOK
    <3>3. out' \in Entry /\ out'.kind = "request"
      BY <3>1, <3>2, EntryType DEF RequestEntry
    <3>4. QED
      BY <3>1, <3>3 DEF TypeOK, RecvOK
  <2>5. CASE RecvAllocFails
    <3>1. rpc' = "idle" /\ UNCHANGED <<hdr, rem, base, out>> /\ allocFailed' \in BOOLEAN
      BY <2>5 DEF RecvAllocFails
    <3>2. QED
      BY <3>1 DEF TypeOK, RecvOK
  <2>6. CASE RecvPost
    <3>1. rpc' = "idle" /\ UNCHANGED <<hdr, rem, base, out, allocFailed>>
      BY <2>6 DEF RecvPost
    <3>2. QED
      BY <3>1 DEF TypeOK, RecvOK
  <2>7. CASE RecvCount
    <3>1. rpc' \in {"idle", "alloc"} /\ UNCHANGED <<hdr, rem, base, out, allocFailed>>
      BY <2>7 DEF RecvCount
    <3>2. QED
      BY <3>1 DEF TypeOK, RecvOK
  <2>8. QED
    BY <2>1, <2>2, <2>3, <2>4, <2>5, <2>6, <2>7 DEF Recv
<1>6. QueueOK'
  <2>1. CASE RecvPost
    BY <2>1, AppendProperties DEF RecvPost, Room, TypeOK, QueueOK, RecvOK
  <2>2. CASE ~RecvPost
    <3>1. UNCHANGED q
      BY <2>2 DEF Recv, RecvTake, RecvStart, RecvMismatch, RecvCopy, RecvCount, RecvAlloc,
                  RecvAllocFails
    <3>2. QED
      BY <3>1 DEF TypeOK, QueueOK
  <2>3. QED
    BY <2>1, <2>2
<1>7. QED
  BY <1>2, <1>3, <1>4, <1>5, <1>6 DEF TypeOK

\* The producers' steps.
LEMMA ProducerTypeOK ==
  ASSUME TypeOK, NEW p \in Producers, EventRaise(p) \/ EventPost(p) \/ EventNoMemory(p)
  PROVE  TypeOK'
<1> USE ConstantsAssumption
<1>1. UNCHANGED <<hostVars, bus, rVars, recvVars, pserVars>>
  BY DEF EventRaise, EventPost, EventNoMemory
<1>2. (HostOK /\ BufferOK /\ RecvOK /\ PserialOK)'
  BY <1>1 DEF TypeOK, HostOK, BufferOK, RecvOK, PserialOK,
              hostVars, rVars, recvVars, pserVars
<1>3. EventsOK'
  <2>1. CASE EventRaise(p)
    BY <2>1 DEF EventRaise, TypeOK, EventsOK
  <2>2. CASE EventPost(p) \/ EventNoMemory(p)
    <3>1. epc' = [epc EXCEPT ![p] = "idle"] /\ events' = events
      BY <2>2 DEF EventPost, EventNoMemory
    <3>2. QED
      BY <3>1 DEF TypeOK, EventsOK
  <2>3. QED
    BY <2>1, <2>2
<1>4. QueueOK'
  <2>1. CASE EventRaise(p) \/ EventNoMemory(p)
    BY <2>1 DEF EventRaise, EventNoMemory, TypeOK, QueueOK
  <2>2. CASE EventPost(p)
    BY <2>2, AppendProperties, EntryType DEF EventPost, Room, TypeOK, QueueOK
  <2>3. QED
    BY <2>1, <2>2
<1>5. QED
  BY <1>2, <1>3, <1>4 DEF TypeOK

\* pserial_task's steps: the entries it takes from the queue, what it reads
\* from r, and what it does with it.
LEMMA PserialTypeOK == TypeOK /\ Pserial => TypeOK'
<1> SUFFICES ASSUME TypeOK, Pserial PROVE TypeOK'
  OBVIOUS
<1> USE ConstantsAssumption
<1> DEFINE Clear == \E f \in {"valid", "len", "seq"} : PserialClear(f)
<1>1. UNCHANGED <<hostVars, bus, recvVars, evtVars>>
  BY DEF Pserial, PserialTake, PserialEvent, PserialRead, PserialClear,
         PserialHandle, PserialSelfPost, PserialAnswer, PserialNoMemory
<1>2. (HostOK /\ RecvOK /\ EventsOK)'
  BY <1>1 DEF TypeOK, HostOK, RecvOK, EventsOK, hostVars, recvVars, evtVars
<1>3. BufferOK'
  <2>1. CASE Clear
    <3>1. PICK f \in {"valid", "len", "seq"} : PserialClear(f)
      BY <2>1
    <3>2. valid' \in BOOLEAN
      BY <3>1 DEF PserialClear, TypeOK, BufferOK
    <3>3. /\ curSeq' \in Nat /\ len' \in {0, len}
          /\ data' = data /\ UNCHANGED <<rpc, rem, base>>
      BY <3>1 DEF PserialClear, TypeOK, BufferOK, recvVars
    <3>4. base \in Nat /\ len \in Nat
      BY DEF TypeOK, BufferOK, RecvOK
    <3>5. QED
      BY <3>2, <3>3, <3>4 DEF TypeOK, BufferOK
  <2>2. CASE UNCHANGED rVars
    BY <1>1, <2>2 DEF TypeOK, BufferOK, rVars, recvVars
  <2>3. QED
    BY <2>1, <2>2 DEF Pserial, PserialTake, PserialEvent, PserialRead,
       PserialHandle, PserialSelfPost, PserialAnswer, PserialNoMemory
<1>4. QueueOK'
  <2>1. CASE PserialTake
    BY <2>1, HeadTailProperties DEF PserialTake, TypeOK, QueueOK
  <2>2. CASE PserialSelfPost
    BY <2>2, AppendProperties, EntryType DEF PserialSelfPost, Room, TypeOK, QueueOK
  <2>3. CASE UNCHANGED q
    BY <2>3 DEF TypeOK, QueueOK
  <2>4. QED
    BY <2>1, <2>2, <2>3 DEF Pserial, PserialEvent, PserialRead, PserialClear,
       PserialHandle, PserialAnswer, PserialNoMemory
<1>5. PserialOK'
  <2>1. CASE PserialTake
    <3>1. arg' \in Entry
      BY <2>1, HeadTailProperties DEF PserialTake, TypeOK, QueueOK
    <3>2. QED
      BY <2>1, <3>1 DEF PserialTake, TypeOK, PserialOK
  <2>2. CASE PserialEvent
    BY <2>2 DEF PserialEvent, TypeOK, PserialOK
  <2>3. CASE PserialRead
    <3> DEFINE n == Min2(Len(arg.data), len)
    <3>1. arg.data \in Seq(Payload)
      BY DEF TypeOK, PserialOK, Entry
    <3>2. Len(arg.data) \in Nat /\ len \in Nat
      BY <3>1, LenProperties DEF TypeOK, BufferOK
    <3>3. n \in 0..len /\ n \in 0..Len(arg.data)
      BY <3>2 DEF Min2
    <3>4. \A i \in 1..n : data[i] \in Payload /\ arg.data[i] \in Payload
      BY <3>1, <3>3, <3>2, ElementOfSeq DEF TypeOK, BufferOK
    <3> HIDE DEF n
    <3>5. /\ FirstUnits(data, n) \in Seq(Payload)
          /\ FirstUnits(arg.data, n) \in Seq(Payload)
          /\ Len(FirstUnits(arg.data, n)) = n
      BY <3>3, <3>4, FirstUnitsType
    <3>6. CASE valid
      <4>1. /\ got' = FirstUnits(data, n) /\ ppc' = "clear"
            /\ clearing' = {"valid", "len", "seq"}
            /\ UNCHANGED <<arg, posts, executed, answered>>
        BY <2>3, <3>6 DEF PserialRead, n
      <4>2. QED
        BY <3>5, <4>1 DEF TypeOK, PserialOK
    <3>7. CASE ~valid
      <4>1. /\ got' = FirstUnits(arg.data, n)
            /\ ppc' = IF n = 0 THEN "idle" ELSE "handle"
            /\ UNCHANGED <<clearing, arg, posts, executed, answered>>
        BY <2>3, <3>7 DEF PserialRead, n
      <4>2. ppc' = "handle" => got' # <<>>
        BY <3>5, <4>1, EmptySeq
      <4>3. QED
        BY <3>5, <4>1, <4>2 DEF TypeOK, PserialOK
    <3>8. QED
      BY <3>6, <3>7
  <2>4. CASE Clear
    <3>1. PICK f \in {"valid", "len", "seq"} : PserialClear(f)
      BY <2>4
    <3>2. QED
      BY <3>1 DEF PserialClear, TypeOK, PserialOK
  <2>5. CASE PserialHandle
    <3>1. got # <<>> /\ got \in Seq(Payload)
      BY <2>5 DEF PserialHandle, TypeOK, PserialOK
    <3>2. got[1] \in Payload
      BY <3>1, EmptySeq, ElementOfSeq
    <3>3. executed' \in Seq(Reqs)
      <4> DEFINE m == got[1].msg
      <4>1. m \in Reqs /\ executed \in Seq(Reqs)
        BY <3>2 DEF Payload, TypeOK, PserialOK
      <4>2. executed' = executed \/ executed' = Append(executed, m)
        BY <2>5 DEF PserialHandle
      <4> HIDE DEF m
      <4>3. Append(executed, m) \in Seq(Reqs)
        BY <4>1, AppendProperties
      <4>4. QED
        BY <4>1, <4>2, <4>3
    <3>4. SelfPosts[got[1].msg] \in Nat
      BY <3>2 DEF Payload, Reqs
    <3>5. UNCHANGED <<arg, got, clearing, answered>>
      BY <2>5 DEF PserialHandle
    <3>6. CASE Whole(got)
      <4>1. /\ posts' = SelfPosts[got[1].msg]
            /\ ppc' = IF SelfPosts[got[1].msg] > 0 THEN "selfpost" ELSE "answer"
        BY <2>5, <3>6 DEF PserialHandle
      <4>2. QED
        BY <3>1, <3>3, <3>4, <3>5, <4>1 DEF TypeOK, PserialOK
    <3>7. CASE ~Whole(got)
      <4>1. posts' = posts /\ ppc' = "idle"
        BY <2>5, <3>7 DEF PserialHandle
      <4>2. QED
        BY <3>1, <3>3, <3>5, <4>1 DEF TypeOK, PserialOK
    <3>8. QED
      BY <3>6, <3>7
  <2>6. CASE PserialSelfPost
    BY <2>6 DEF PserialSelfPost, TypeOK, PserialOK
  <2>7. CASE PserialAnswer
    <3>1. got[1] \in Payload
      BY <2>7, EmptySeq, ElementOfSeq DEF PserialAnswer, TypeOK, PserialOK
    <3>2. QED
      BY <2>7, <3>1 DEF PserialAnswer, TypeOK, PserialOK, Payload
  <2>8. CASE PserialNoMemory
    BY <2>8 DEF PserialNoMemory, TypeOK, PserialOK
  <2>9. QED
    BY <2>1, <2>2, <2>3, <2>4, <2>5, <2>6, <2>7, <2>8 DEF Pserial
<1>6. QED
  BY <1>2, <1>3, <1>4, <1>5 DEF TypeOK

LEMMA NextTypeOK == TypeOK /\ CopyStaysInBuffer /\ [Next]_vars => TypeOK'
<1> SUFFICES ASSUME TypeOK, CopyStaysInBuffer, [Next]_vars PROVE TypeOK'
  OBVIOUS
<1>1. CASE UNCHANGED vars
  BY <1>1 DEF vars, hostVars, rVars, recvVars, pserVars, evtVars, TypeOK, HostOK,
              BufferOK, RecvOK, PserialOK, QueueOK, EventsOK
<1>2. CASE Next
  BY <1>2, HostTypeOK, RecvTypeOK, ProducerTypeOK, PserialTypeOK DEF Next
<1>3. QED
  BY <1>1, <1>2

-----------------------------------------------------------------------------
(***************************************************************************)
(* The room recv_task remembers while it waits is room it really has:      *)
(* only recv_task makes r.len grow, and pserial_task can only clear it.    *)
(***************************************************************************)
LEMMA NextCopyStays ==
  TypeOK /\ CopyStaysInBuffer /\ [Next]_vars => CopyStaysInBuffer'
<1> SUFFICES ASSUME TypeOK, CopyStaysInBuffer, [Next]_vars PROVE CopyStaysInBuffer'
  OBVIOUS
<1> USE ConstantsAssumption DEF CopyStaysInBuffer
<1>1. CASE RecvTake
  BY <1>1 DEF RecvTake, rVars, TypeOK, BufferOK
<1>2. CASE RecvStart
  BY <1>2 DEF RecvStart
<1>3. CASE RecvCopy
  <2>1. rpc = "match" /\ UNCHANGED <<len, rem>> /\ base' = len
    BY <1>3 DEF RecvCopy
  <2>2. QED
    BY <2>1
<1>4. CASE RecvMismatch \/ RecvCount \/ RecvAlloc \/ RecvAllocFails \/ RecvPost
  <2>1. rpc' \notin {"wait", "match", "count"}
    BY <1>4 DEF RecvMismatch, RecvCount, RecvAlloc, RecvAllocFails, RecvPost
  <2>2. QED
    BY <2>1
<1>5. ASSUME NEW f \in {"valid", "len", "seq"}, PserialClear(f)
      PROVE  CopyStaysInBuffer'
  <2>1. len' \in {0, len} /\ UNCHANGED <<rpc, rem, base>>
    BY <1>5 DEF PserialClear, recvVars
  <2>2. len \in Nat /\ rem \in 0..BufCap /\ BufCap \in Nat
    BY DEF TypeOK, BufferOK, RecvOK
  <2>3. CASE len' = len
    BY <2>1, <2>3
  <2>4. CASE len' = 0
    BY <2>1, <2>2, <2>4
  <2>5. QED
    BY <2>1, <2>3, <2>4
<1>6. CASE UNCHANGED <<len, rpc, rem, base>>
  BY <1>6
<1>7. QED
  BY <1>1, <1>2, <1>3, <1>4, <1>5, <1>6 DEF Next, Recv, Pserial, HostBegin, HostFragment,
     HostRestart, EventRaise, EventPost, EventNoMemory, PserialTake, PserialEvent, PserialRead,
     PserialHandle, PserialSelfPost, PserialAnswer, PserialNoMemory, vars, rVars, recvVars

\* Every variable of the control path keeps its type, and nothing but
\* payloads of the host is ever read from r.data or queued.
THEOREM TypeCorrect == Spec => []TypeOK
<1>1. Init => TypeOK /\ CopyStaysInBuffer
  BY InitTypeOK DEF Init, CopyStaysInBuffer
<1>2. TypeOK /\ CopyStaysInBuffer /\ [Next]_vars => (TypeOK /\ CopyStaysInBuffer)'
  BY NextTypeOK, NextCopyStays
<1>3. QED
  BY <1>1, <1>2, PTL DEF Spec

\* No interleaving of recv_task with pserial_task's release of r lets the
\* memcpy of a fragment leave r.data.
THEOREM CopyInBounds == Spec => []CopyStaysInBuffer
<1>1. Init => TypeOK /\ CopyStaysInBuffer
  BY InitTypeOK DEF Init, CopyStaysInBuffer
<1>2. TypeOK /\ CopyStaysInBuffer /\ [Next]_vars => (TypeOK /\ CopyStaysInBuffer)'
  BY NextTypeOK, NextCopyStays
<1>3. QED
  BY <1>1, <1>2, PTL DEF Spec

-----------------------------------------------------------------------------
(***************************************************************************)
(* The hand-over of r. OneRequestInTransit is not inductive by itself:     *)
(* recv_task sets valid some steps after it has seen it clear, so the      *)
(* invariant says that valid is still clear in between.                    *)
(***************************************************************************)
TransitInv == OneRequestInTransit /\ (rpc \in {"match", "count"} => ~valid)

\* What the requests in the queue become when an entry is appended.
LEMMA QueuedAfterAppend ==
  ASSUME q \in Seq(Entry), NEW e \in Entry, q' = Append(q, e)
  PROVE  QueuedAt' = QueuedAt \union (IF e.kind = "request" THEN {Len(q) + 1} ELSE {})
<1>1. /\ Len(q') = Len(q) + 1 /\ Len(q) \in Nat
      /\ \A i \in 1..Len(q) : q'[i] = q[i]
      /\ q'[Len(q) + 1] = e
  BY AppendProperties, LenProperties
<1>2. QED
  BY <1>1 DEF QueuedAt

\* What they become when the first entry is taken.
LEMMA QueuedAfterTake ==
  ASSUME q \in Seq(Entry), q # <<>>, q' = Tail(q)
  PROVE  /\ QueuedAt' = {i - 1 : i \in QueuedAt \ {1}}
         /\ 1 \in QueuedAt <=> Head(q).kind = "request"
<1>1. /\ Len(q) \in Nat \ {0} /\ Len(q') = Len(q) - 1
      /\ \A i \in 1..Len(q') : q'[i] = q[i + 1]
  BY HeadTailProperties, EmptySeq
<1>2. Head(q) = q[1]
  OBVIOUS
<1>3. \A i : i \in QueuedAt' <=> i \in {j - 1 : j \in QueuedAt \ {1}}
  BY <1>1 DEF QueuedAt
<1>4. QED
  BY <1>1, <1>2, <1>3 DEF QueuedAt

LEMMA NextTransit == TypeOK /\ TransitInv /\ [Next]_vars => TransitInv'
<1> SUFFICES ASSUME TypeOK, TransitInv, [Next]_vars PROVE TransitInv'
  OBVIOUS
<1> USE DEF TransitInv, OneRequestInTransit, InRecv, InPserial
<1>1. CASE UNCHANGED <<rpc, valid, allocFailed, q, ppc, clearing>>
  BY <1>1 DEF QueuedAt
<1>2. CASE RecvTake \/ RecvStart
  <2>1. /\ rpc \notin {"alloc", "post"} /\ rpc' \notin {"alloc", "post"}
        /\ rpc' = "match" => ~valid
        /\ rpc' # "count"
        /\ UNCHANGED <<valid, allocFailed, q, ppc, clearing>>
    BY <1>2 DEF RecvTake, RecvStart, rVars, pserVars
  <2>2. QED
    BY <2>1 DEF QueuedAt
<1>3. CASE RecvMismatch \/ RecvCopy \/ RecvCount
  <2>1. /\ rpc \in {"match", "count"} /\ UNCHANGED <<allocFailed, q, ppc, clearing>>
        /\ \/ rpc' = "alloc" /\ valid' = TRUE
           \/ rpc' \in {"idle", "count"} /\ valid' = valid
    BY <1>3 DEF RecvMismatch, RecvCopy, RecvCount, pserVars
  <2>2. ~valid /\ QueuedAt = {} /\ ~InPserial
    BY <2>1
  <2>3. QueuedAt' = {} /\ ~InPserial'
    BY <2>1, <2>2 DEF QueuedAt
  <2>4. QED
    BY <2>1, <2>2, <2>3
<1>4. CASE RecvAlloc
  <2>1. /\ rpc = "alloc" /\ rpc' = "post"
        /\ UNCHANGED <<valid, allocFailed, q, ppc, clearing>>
    BY <1>4 DEF RecvAlloc, rVars, pserVars
  <2>2. QED
    BY <2>1 DEF QueuedAt
<1>5. CASE RecvAllocFails
  <2>1. /\ rpc = "alloc" /\ rpc' = "idle" /\ allocFailed' = TRUE
        /\ UNCHANGED <<valid, q, ppc, clearing>>
    BY <1>5 DEF RecvAllocFails, rVars, pserVars
  <2>2. QED
    BY <2>1 DEF QueuedAt
<1>6. CASE RecvPost
  <2>1. /\ rpc = "post" /\ rpc' = "idle" /\ q' = Append(q, out)
        /\ UNCHANGED <<valid, allocFailed, ppc, clearing>>
    BY <1>6 DEF RecvPost, rVars, pserVars
  <2>2. QueuedAt = {} /\ ~InPserial /\ valid
    BY <2>1
  <2>3. QueuedAt' = {Len(q) + 1}
    BY <2>1, <2>2, QueuedAfterAppend DEF TypeOK, RecvOK, QueueOK
  <2>4. QED
    BY <2>1, <2>2, <2>3
<1>7. CASE PserialSelfPost \/ \E p \in Producers : EventPost(p)
  <2>1. /\ q' = Append(q, EventEntry) /\ ~InPserial' = ~InPserial
        /\ UNCHANGED <<rpc, valid, allocFailed, clearing>>
    BY <1>7 DEF PserialSelfPost, EventPost, rVars, recvVars, pserVars
  <2>2. QueuedAt' = QueuedAt
    BY <2>1, QueuedAfterAppend, EntryType DEF EventEntry, TypeOK, QueueOK
  <2>3. QED
    BY <2>1, <2>2
<1>8. CASE PserialTake
  <2>1. /\ ppc = "idle" /\ q # <<>> /\ q' = Tail(q)
        /\ ppc' = IF Head(q).kind = "event" THEN "event" ELSE "read"
        /\ UNCHANGED <<rpc, valid, allocFailed, clearing>>
    BY <1>8 DEF PserialTake, rVars, recvVars
  <2>2. /\ QueuedAt' = {i - 1 : i \in QueuedAt \ {1}}
        /\ 1 \in QueuedAt <=> Head(q).kind = "request"
    BY <2>1, QueuedAfterTake DEF TypeOK, QueueOK
  <2>3. Head(q).kind \in {"event", "request"}
    <3>1. Head(q) \in Entry
      BY <2>1, HeadTailProperties DEF TypeOK, QueueOK
    <3>2. QED
      BY <3>1 DEF Entry
  <2>4. CASE Head(q).kind = "request"
    <3>1. QueuedAt = {1} /\ QueuedAt' = {} /\ valid /\ ~InRecv
      BY <2>2, <2>4
    <3>2. QED
      BY <2>1, <2>4, <3>1
  <2>5. CASE Head(q).kind = "event"
    <3>1. QueuedAt' = {} <=> QueuedAt = {}
      BY <2>2, <2>5
    <3>2. \A i, j \in QueuedAt' : i = j
      BY <2>2
    <3>3. QED
      BY <2>1, <2>5, <3>1, <3>2
  <2>6. QED
    BY <2>3, <2>4, <2>5
<1>9. CASE PserialRead
  <2>1. ppc = "read" /\ valid
    BY <1>9 DEF PserialRead
  <2>2. /\ ppc' = "clear" /\ clearing' = {"valid", "len", "seq"}
        /\ UNCHANGED <<rpc, valid, allocFailed, q>>
    BY <1>9, <2>1 DEF PserialRead, rVars, recvVars
  <2>3. QED
    BY <2>1, <2>2 DEF QueuedAt
<1>10. ASSUME NEW f \in {"valid", "len", "seq"}, PserialClear(f) PROVE TransitInv'
  <2>1. /\ ppc = "clear" /\ f \in clearing /\ clearing' = clearing \ {f}
        /\ valid' = IF f = "valid" THEN FALSE ELSE valid
        /\ ppc' = IF clearing # {f} THEN "clear" ELSE IF got = <<>> THEN "idle" ELSE "handle"
        /\ UNCHANGED <<rpc, allocFailed, q>>
    BY <1>10 DEF PserialClear, recvVars
  <2>2. QueuedAt' = QueuedAt
    BY <2>1 DEF QueuedAt
  <2>3. CASE f = "valid"
    BY <2>1, <2>2, <2>3
  <2>4. CASE f # "valid"
    <3>1. InPserial' <=> InPserial
      BY <2>1, <2>4
    <3>2. QED
      BY <2>1, <2>2, <2>4, <3>1
  <2>5. QED
    BY <2>3, <2>4
<1>11. CASE PserialEvent \/ PserialHandle \/ PserialAnswer \/ PserialNoMemory
  <2>1. /\ ppc \notin {"read", "clear"} /\ ppc' \notin {"read", "clear"}
        /\ UNCHANGED <<rpc, valid, allocFailed, q>>
    BY <1>11 DEF PserialEvent, PserialHandle, PserialAnswer, PserialNoMemory,
                 rVars, recvVars
  <2>2. QED
    BY <2>1 DEF QueuedAt
<1>12. QED
  BY <1>1, <1>2, <1>3, <1>4, <1>5, <1>6, <1>7, <1>8, <1>9, <1>10, <1>11
     DEF Next, Recv, Pserial, HostBegin, HostFragment, HostRestart, EventRaise, EventNoMemory, vars,
         hostVars, rVars, recvVars, pserVars, evtVars

\* r.valid is set exactly while one request is between recv_task's "Received
\* complete buffer" and pserial_task's release, whatever the tasks interleave.
THEOREM TransitCorrect == Spec => []OneRequestInTransit
<1>1. Init => TransitInv
  BY DEF Init, TransitInv, OneRequestInTransit, InRecv, InPserial, QueuedAt
<1>2. TypeOK /\ TransitInv /\ [Next]_vars => TransitInv'
  BY NextTransit
<1>3. TransitInv => OneRequestInTransit
  BY DEF TransitInv
<1>4. QED
  BY <1>1, <1>2, <1>3, TypeCorrect, PTL DEF Spec

\* The tasks of the control path stop with work left only when a handler posts
\* into the full queue of its own task, or after a failed malloc of recv_task.
THEOREM HangsCorrect == Spec => []OnlyTwoWaysToHang
<1>1. Init => TransitInv
  BY DEF Init, TransitInv, OneRequestInTransit, InRecv, InPserial, QueuedAt
<1>2. TypeOK /\ TransitInv /\ [Next]_vars => TransitInv'
  BY NextTransit
<1>3. TypeOK /\ TransitInv => OnlyTwoWaysToHang
  <2> SUFFICES ASSUME TypeOK, TransitInv, Stopped,
                      ~(ppc = "selfpost" /\ Len(q) = QMax)
               PROVE  \/ allocFailed /\ valid /\ rpc = "wait" /\ q = <<>>
                      \/ /\ rpc = "idle" /\ bus = <<>> /\ q = <<>>
                         /\ \A p \in Producers : epc[p] = "idle"
    BY DEF OnlyTwoWaysToHang
  <2>1. ppc = "idle" /\ q = <<>>
    <3>1. Len(q) \in Nat /\ Len(q) <= QMax /\ QMax \in Nat
      BY ConstantsAssumption DEF TypeOK, QueueOK
    <3>2. QED
      BY <3>1 DEF Stopped, Room
  <2>2. Room /\ QueuedAt = {}
    BY <2>1, ConstantsAssumption DEF Room, QueuedAt
  <2>3. \A p \in Producers : epc[p] = "idle"
    BY <2>2 DEF Stopped, TypeOK, EventsOK
  <2>4. rpc \in {"idle", "wait"}
    BY <2>2 DEF Stopped, TypeOK, RecvOK
  <2>5. CASE rpc = "idle"
    BY <2>1, <2>3, <2>5 DEF Stopped
  <2>6. CASE rpc = "wait"
    <3>1. valid
      BY <2>6 DEF Stopped
    <3>2. ~InRecv /\ ~InPserial
      BY <2>1, <2>6 DEF InRecv, InPserial
    <3>3. allocFailed
      BY <2>2, <3>1, <3>2 DEF TransitInv, OneRequestInTransit
    <3>4. QED
      BY <2>1, <2>6, <3>1, <3>3
  <2>7. QED
    BY <2>4, <2>5, <2>6
<1>4. QED
  BY <1>1, <1>2, <1>3, TypeCorrect, PTL DEF Spec
=============================================================================
