---------------------------- MODULE SdioRxProofs ----------------------------
(***************************************************************************)
(* Proofs about the receive half of the SDIO transport, for any buffers,   *)
(* thresholds and number of packets. The bounds of the queues and of the   *)
(* semaphore follow from the buffers: every packet is in one of them, so   *)
(* that no queue ever holds more packets than there are buffers.           *)
(***************************************************************************)
EXTENDS SdioRx, FiniteSetTheorems, TLAPS

\* Having taken sdio_rx_sem, recv_task finds a packet in one of the queues it
\* has not looked into yet: sdio_rx_task only adds to the others.
Found ==
  /\ rpc = "bt" => rxQueue["bt"] # <<>> \/ rxQueue["others"] # <<>>
  /\ rpc = "others" => rxQueue["others"] # <<>>

RxBusy   == IF xpc = "give" THEN 1 ELSE 0
ReadBusy == IF rpc \in Queues THEN 1 ELSE 0

SemIsQueued == rxSem + RxBusy + ReadBusy = Queued

IInv == TypeOK /\ BuffersConserved /\ SemIsQueued /\ Found

-----------------------------------------------------------------------------
(***************************************************************************)
(* Buffers in queues.                                                      *)
(***************************************************************************)
LEMMA BufCount == NumBufs \in Nat /\ NumBufs > 0
<1>1. IsFiniteSet(Bufs) /\ Bufs # {}
  BY ConstantsAssumption
<1>2. Cardinality(Bufs) \in Nat
  BY <1>1, FS_CardinalityType
<1>3. Cardinality(Bufs) # 0
  BY <1>1, FS_EmptySet
<1> QED  BY <1>2, <1>3 DEF NumBufs

\* Packets in distinct buffers of B are no more than these.
LEMMA QueueBound ==
  ASSUME NEW s \in Seq(Packet), NoDuplicates(s), NEW B, IsFiniteSet(B), BufsIn(s) \subseteq B
  PROVE  Len(s) <= Cardinality(B)
<1> DEFINE f == [i \in 1..Len(s) |-> s[i].buf]
<1>1. f \in [1..Len(s) -> B]
  BY DEF BufsIn
<1>2. \A i, j \in 1..Len(s) : f[i] = f[j] => i = j
  BY DEF NoDuplicates
<1>3. Len(s) \in Nat /\ 1 \in Int /\ Len(s) \in Int
  OBVIOUS
<1>4. IsFiniteSet(1..Len(s)) /\ Cardinality(1..Len(s)) = IF 1 > Len(s) THEN 0 ELSE Len(s) - 1 + 1
  BY <1>3, FS_Interval
<1>5. Cardinality(1..Len(s)) = Len(s)
  BY <1>3, <1>4
<1>6. Cardinality(B) \in Nat
  BY FS_CardinalityType
<1>7. ~(Cardinality(B) < Cardinality(1..Len(s)))
  <2> SUFFICES ASSUME Cardinality(B) < Cardinality(1..Len(s)) PROVE FALSE
    OBVIOUS
  <2> HIDE DEF f
  <2>1. \E x, y \in 1..Len(s) : x # y /\ f[x] = f[y]
    BY <1>1, <1>4, FS_PigeonHole
  <2> QED  BY <2>1, <1>2
<1> QED  BY <1>3, <1>5, <1>6, <1>7

LEMMA Appended ==
  ASSUME NEW s \in Seq(Packet), NEW e \in Packet, NoDuplicates(s), e.buf \notin BufsIn(s)
  PROVE  /\ BufsIn(Append(s, e)) = BufsIn(s) \cup {e.buf}
         /\ NoDuplicates(Append(s, e))
<1> DEFINE t == Append(s, e)
<1>1. /\ Len(s) \in Nat /\ Len(t) = Len(s) + 1
      /\ \A i \in 1..Len(s) : t[i] = s[i]
      /\ t[Len(s) + 1] = e
  OBVIOUS
<1> HIDE DEF t
<1>2. 1..Len(t) = 1..Len(s) \cup {Len(s) + 1}
  BY <1>1
<1>3. BufsIn(t) = BufsIn(s) \cup {e.buf}
  BY <1>1, <1>2 DEF BufsIn
<1>4. ASSUME NEW i \in 1..Len(t), NEW j \in 1..Len(t), t[i].buf = t[j].buf PROVE i = j
  <2>1. CASE i \in 1..Len(s) /\ j \in 1..Len(s)
    BY <2>1, <1>1, <1>4 DEF NoDuplicates
  <2>2. CASE i = Len(s) + 1 /\ j \in 1..Len(s)
    BY <2>2, <1>1, <1>4 DEF BufsIn
  <2>3. CASE i \in 1..Len(s) /\ j = Len(s) + 1
    BY <2>3, <1>1, <1>4 DEF BufsIn
  <2> QED  BY <2>1, <2>2, <2>3, <1>2
<1>5. NoDuplicates(t)
  BY <1>4 DEF NoDuplicates
<1> QED  BY <1>3, <1>5 DEF t

LEMMA Taken ==
  ASSUME NEW s \in Seq(Packet), s # <<>>, NoDuplicates(s)
  PROVE  /\ Head(s) \in Packet /\ Head(s).buf \in BufsIn(s)
         /\ Tail(s) \in Seq(Packet) /\ Len(Tail(s)) = Len(s) - 1
         /\ BufsIn(Tail(s)) = BufsIn(s) \ {Head(s).buf}
         /\ NoDuplicates(Tail(s))
<1> DEFINE t == Tail(s)
<1>1. /\ Len(s) \in Nat /\ Len(s) > 0 /\ Len(t) = Len(s) - 1 /\ t \in Seq(Packet)
      /\ \A i \in 1..Len(t) : t[i] = s[i + 1]
      /\ Head(s) = s[1] /\ Head(s) \in Packet
  OBVIOUS
<1> HIDE DEF t
<1>2. 1 \in 1..Len(s) /\ \A i \in 1..Len(t) : i + 1 \in 1..Len(s) /\ i + 1 # 1
  BY <1>1
<1>3. \A i \in 1..Len(s) : i # 1 => i - 1 \in 1..Len(t) /\ t[i - 1] = s[i]
  BY <1>1
<1>4. Head(s).buf \in BufsIn(s)
  BY <1>1, <1>2 DEF BufsIn
<1>5. BufsIn(t) \subseteq BufsIn(s) \ {Head(s).buf}
  <2> SUFFICES ASSUME NEW i \in 1..Len(t)
               PROVE  t[i].buf \in BufsIn(s) /\ t[i].buf # s[1].buf
    BY <1>1 DEF BufsIn
  <2> QED  BY <1>1, <1>2 DEF BufsIn, NoDuplicates
<1>6. BufsIn(s) \ {Head(s).buf} \subseteq BufsIn(t)
  <2> SUFFICES ASSUME NEW i \in 1..Len(s), s[i].buf # s[1].buf
               PROVE  s[i].buf \in BufsIn(t)
    BY <1>1 DEF BufsIn
  <2> QED  BY <1>3 DEF BufsIn
<1>7. NoDuplicates(t)
  <2> SUFFICES ASSUME NEW i \in 1..Len(t), NEW j \in 1..Len(t), t[i].buf = t[j].buf
               PROVE  i = j
    BY DEF NoDuplicates
  <2>1. i + 1 = j + 1
    BY <1>1, <1>2 DEF NoDuplicates
  <2> QED  BY <2>1
<1> QED  BY <1>1, <1>4, <1>5, <1>6, <1>7 DEF t

-----------------------------------------------------------------------------
(***************************************************************************)
(* Places: at says which buffers are where. A buffer that goes from one    *)
(* place to another leaves every buffer in one place.                      *)
(***************************************************************************)
Spread(at) ==
  /\ \A b \in Bufs : \E p \in Places : b \in at[p]
  /\ \A p1, p2 \in Places : p1 # p2 => at[p1] \intersect at[p2] = {}

Now == [p \in Places |-> BufsAt(p)]

Distinct == NoDuplicates(arrived) /\ \A c \in Queues : NoDuplicates(rxQueue[c])

LEMMA Conserved ==
  /\ BuffersConserved <=> Spread(Now) /\ Distinct
  /\ BuffersConserved' <=> Spread(Now') /\ Distinct'
BY Zenon DEF BuffersConserved, Spread, Now, Distinct

LEMMA MoveSpread ==
  ASSUME NEW at, NEW new, Spread(at),
         NEW p \in Places, NEW q \in Places, p # q, NEW b \in at[p],
         new[p] = at[p] \ {b}, new[q] = at[q] \cup {b},
         \A o \in Places \ {p, q} : new[o] = at[o]
  PROVE  Spread(new)
<1>1. \A c \in Bufs : \E o \in Places : c \in new[o]
  <2> SUFFICES ASSUME NEW c \in Bufs PROVE \E o \in Places : c \in new[o]
    OBVIOUS
  <2>1. PICK o \in Places : c \in at[o]
    BY DEF Spread
  <2>2. CASE c = b
    BY <2>2
  <2>3. CASE c # b
    <3>1. c \in new[o]
      BY <2>1, <2>3
    <3> QED  BY <3>1
  <2> QED  BY <2>2, <2>3
<1>2. \A o \in Places : o # p => b \notin at[o]
  BY DEF Spread
<1>3. \A o1, o2 \in Places : o1 # o2 => at[o1] \intersect at[o2] = {}
  BY DEF Spread
<1>4. \A o \in Places : new[o] \subseteq at[o] \cup {b} /\ (b \in new[o] => o = q)
  BY <1>2
<1>5. \A o1, o2 \in Places : o1 # o2 => new[o1] \intersect new[o2] = {}
  <2> SUFFICES ASSUME NEW o1 \in Places, NEW o2 \in Places, o1 # o2,
                      NEW c \in new[o1], c \in new[o2]
               PROVE  FALSE
    OBVIOUS
  <2>1. c # b
    BY <1>4
  <2>2. c \in at[o1] /\ c \in at[o2]
    BY <1>4, <2>1
  <2> QED  BY <2>2, <1>3
<1> QED  BY <1>1, <1>5 DEF Spread

LEMMA PlaceNames ==
  /\ Places = {"driver", "arrived", "rx_task", "recv_task", "serial", "bt", "others"}
  /\ Queues = {"serial", "bt", "others"}
  /\ Queues \subseteq Places
  /\ \A k : QueueOf(k) \in Queues
BY DEF Places, Queues, QueueOf

LEMMA NowIs ==
  /\ Now["driver"] = loaded /\ Now["arrived"] = BufsIn(arrived)
  /\ Now["rx_task"] = RxHolds /\ Now["recv_task"] = ReadHolds
  /\ \A c \in Queues : Now[c] = BufsIn(rxQueue[c])
  /\ Now["driver"]' = loaded' /\ Now["arrived"]' = BufsIn(arrived')
  /\ Now["rx_task"]' = RxHolds' /\ Now["recv_task"]' = ReadHolds'
  /\ \A c \in Queues : Now[c]' = BufsIn(rxQueue'[c])
BY PlaceNames DEF Now, BufsAt, BufsIn

-----------------------------------------------------------------------------
(***************************************************************************)
(* The bounds that follow.                                                 *)
(***************************************************************************)
LEMMA LoadBound ==
  ASSUME NEW N \in Nat, N > 0, NEW n \in Nat, n <= N
  PROVE  (n * 100) \div N \in 0..100
<1>1. ASSUME NEW a \in Nat, a <= 100 * N PROVE a \div N \in 0..100
  BY <1>1
<1>2. n * 100 \in Nat /\ n * 100 <= 100 * N
  OBVIOUS
<1> QED  BY <1>1, <1>2

LEMMA QueueBounds ==
  ASSUME TypeOK, BuffersConserved
  PROVE  /\ \A c \in Queues : Len(rxQueue[c]) \in 0..NumBufs
         /\ xpc = "queue" => Len(rxQueue[QueueOf(xpkt.kind)]) < NumBufs
<1>1. IsFiniteSet(Bufs) /\ NumBufs \in Nat
  BY ConstantsAssumption, BufCount
<1>2. ASSUME NEW c \in Queues
      PROVE  /\ rxQueue[c] \in Seq(Packet) /\ NoDuplicates(rxQueue[c])
             /\ BufsIn(rxQueue[c]) \subseteq Bufs
  <2>1. rxQueue[c] \in Seq(Packet)
    BY DEF TypeOK
  <2>2. \A i \in 1..Len(rxQueue[c]) : rxQueue[c][i] \in Packet
    BY <2>1
  <2>3. \A i \in 1..Len(rxQueue[c]) : rxQueue[c][i].buf \in Bufs
    BY <2>2 DEF Packet
  <2> QED  BY <2>1, <2>3 DEF BufsIn, BuffersConserved
<1>3. ASSUME NEW c \in Queues PROVE Len(rxQueue[c]) \in 0..NumBufs
  <2>1. Len(rxQueue[c]) <= Cardinality(Bufs)
    BY <1>1, <1>2, QueueBound
  <2>2. Len(rxQueue[c]) \in Nat
    BY <1>2
  <2> QED  BY <1>1, <2>1, <2>2 DEF NumBufs
<1>4. ASSUME xpc = "queue" PROVE Len(rxQueue[QueueOf(xpkt.kind)]) < NumBufs
  <2> DEFINE c == QueueOf(xpkt.kind)
             B == Bufs \ {xpkt.buf}
  <2>1. c \in Queues /\ c \in Places /\ "rx_task" \in Places /\ c # "rx_task"
    BY PlaceNames
  <2>2. RxHolds = {xpkt.buf} /\ xpkt.buf \in Bufs
    BY <1>4 DEF RxHolds, TypeOK, Packet
  <2>3. Now[c] \intersect Now["rx_task"] = {}
    <3> HIDE DEF c
    <3> QED  BY <2>1, Conserved DEF Spread
  <2>4. xpkt.buf \notin BufsIn(rxQueue[c])
    <3> HIDE DEF c
    <3> QED  BY <2>1, <2>2, <2>3, NowIs
  <2>5. BufsIn(rxQueue[c]) \subseteq B
    BY <2>1, <2>4, <1>2
  <2>6. /\ IsFiniteSet(B)
        /\ Cardinality(B) = IF xpkt.buf \in Bufs THEN Cardinality(Bufs) - 1 ELSE Cardinality(Bufs)
    BY <1>1, FS_RemoveElement
  <2> HIDE DEF B, c
  <2>7. Len(rxQueue[c]) <= Cardinality(B)
    BY <1>2, <2>1, <2>5, <2>6, QueueBound
  <2>8. Len(rxQueue[c]) \in Nat /\ Cardinality(B) = NumBufs - 1
    BY <1>2, <2>1, <2>2, <2>6 DEF NumBufs
  <2>9. Len(rxQueue[c]) < NumBufs
    BY <1>1, <2>7, <2>8
  <2> QED  BY <2>9 DEF c
<1> QED  BY <1>3, <1>4

\* sdio_rx_sem has room for a give.
LEMMA SemBound ==
  ASSUME TypeOK, BuffersConserved, SemIsQueued
  PROVE  xpc = "give" => rxSem < NumBufs * Cardinality(Queues)
<1>1. Cardinality(Queues) = 3
  <2>1. IsFiniteSet({}) /\ Cardinality({}) = 0
    BY FS_EmptySet
  <2>2. IsFiniteSet({} \cup {"serial"}) /\ Cardinality({} \cup {"serial"}) = 1
    BY <2>1, FS_AddElement
  <2>3. /\ IsFiniteSet(({} \cup {"serial"}) \cup {"bt"})
        /\ Cardinality(({} \cup {"serial"}) \cup {"bt"}) = 2
    BY <2>2, FS_AddElement
  <2>4. Cardinality((({} \cup {"serial"}) \cup {"bt"}) \cup {"others"}) = 3
    BY <2>3, FS_AddElement
  <2>5. Queues = (({} \cup {"serial"}) \cup {"bt"}) \cup {"others"}
    BY PlaceNames
  <2> QED  BY <2>4, <2>5
<1>2. /\ Len(rxQueue["serial"]) \in 0..NumBufs /\ Len(rxQueue["bt"]) \in 0..NumBufs
      /\ Len(rxQueue["others"]) \in 0..NumBufs
  BY QueueBounds, PlaceNames
<1>3. ASSUME xpc = "give" PROVE rxSem < NumBufs * 3
  <2>1. RxBusy = 1 /\ ReadBusy \in 0..1 /\ rxSem \in Nat /\ NumBufs \in Nat
    BY <1>3, BufCount DEF RxBusy, ReadBusy, TypeOK
  <2> DEFINE s == Len(rxQueue["serial"])
             b == Len(rxQueue["bt"])
             o == Len(rxQueue["others"])
  <2>2. rxSem + RxBusy + ReadBusy = s + b + o
    BY DEF SemIsQueued, Queued
  <2> HIDE DEF s, b, o
  <2>4. s \in 0..NumBufs /\ b \in 0..NumBufs /\ o \in 0..NumBufs
    BY <1>2 DEF s, b, o
  <2>3. s + b + o <= NumBufs * 3
    BY <2>1, <2>4
  <2>5. rxSem + 1 <= s + b + o
    BY <2>1, <2>2, <2>4
  <2> QED  BY <2>1, <2>3, <2>4, <2>5
<1> QED  BY <1>1, <1>3

-----------------------------------------------------------------------------
(***************************************************************************)
(* Types.                                                                  *)
(***************************************************************************)
LEMMA Bounds == MaxPkts \in Nat /\ MaxCloses \in Nat
BY ConstantsAssumption

LEMMA Thresholds == \A c \in Configs : c[1] \in 0..255 /\ c[2] \in 0..255
BY ConstantsAssumption

LEMMA TypeInit == Init => TypeOK
<1> SUFFICES ASSUME Init PROVE TypeOK
  OBVIOUS
<1>1. xpkt \in Packet /\ rpkt \in Packet
  BY DEF Init, Packet, Kinds
<1>2. rxQueue \in [Queues -> Seq(Packet)] /\ arrived \in Seq(Packet)
  BY DEF Init
<1>3. MaxPkts \in Nat /\ MaxCloses \in Nat
  BY Bounds
<1>4. /\ sent \in 0..MaxPkts /\ closes \in 0..MaxCloses /\ rxSem \in Nat
      /\ high \in 0..255 /\ low \in 0..255 /\ xload \in 0..100
  BY <1>3 DEF Init
<1>5. /\ hostThrottled \in BOOLEAN /\ datapath \in BOOLEAN /\ throttling \in BOOLEAN
      /\ crossed \in BOOLEAN /\ lowZero \in BOOLEAN
  BY DEF Init
<1> QED  BY <1>1, <1>2, <1>4, <1>5 DEF Init, TypeOK

LEMMA TypeStep == TypeOK /\ BuffersConserved /\ [Next]_vars => TypeOK'
<1> SUFFICES ASSUME TypeOK, BuffersConserved, [Next]_vars PROVE TypeOK'
  OBVIOUS
<1> USE DEF TypeOK, hostVars, cfgVars, rxVars, rdVars, queueVars
<1>a. MaxPkts \in Nat /\ MaxCloses \in Nat /\ \A c \in Configs : c[1] \in 0..255 /\ c[2] \in 0..255
  BY Bounds, Thresholds
<1>1. CASE \E kind \in Kinds, b \in Bufs : HostSend(kind, b)
  <2>1. PICK kind \in Kinds, b \in Bufs : HostSend(kind, b)
    BY <1>1
  <2>2. [buf |-> b, kind |-> kind] \in Packet
    BY DEF Packet
  <2>3. arrived' \in Seq(Packet)
    BY <2>1, <2>2 DEF HostSend
  <2> QED  BY <2>1, <2>3, <1>a DEF HostSend
<1>2. CASE HostOpen \/ HostClose
  <2>1. datapath' \in BOOLEAN
    BY <1>2 DEF HostOpen, HostClose
  <2>2. closes' \in 0..MaxCloses
    BY <1>2, <1>a DEF HostOpen, HostClose
  <2>3. UNCHANGED <<sent, hostThrottled, crossed, loaded, arrived, queueVars, throttling,
                    cfgVars, rxVars, rdVars>>
    BY <1>2 DEF HostOpen, HostClose
  <2> QED  BY <2>1, <2>2, <2>3
<1>3. CASE RxTask
  <2>1. CASE RxTake
    <3>1. Head(arrived) \in Packet /\ Tail(arrived) \in Seq(Packet)
      BY <2>1 DEF RxTake
    <3>2. Head(arrived).buf \in Bufs
      BY <3>1 DEF Packet
    <3> QED  BY <2>1, <3>1, <3>2 DEF RxTake
  <2>2. CASE RxCheckLoad
    <3>1. LoadPercent \in 0..100
      <4>1. Len(rxQueue["others"]) \in 0..NumBufs
        BY QueueBounds, PlaceNames
      <4> DEFINE n == Len(rxQueue["others"])
      <4> HIDE DEF n
      <4>2. n \in Nat /\ n <= NumBufs
        BY <4>1, BufCount DEF n
      <4>3. (n * 100) \div NumBufs \in 0..100
        BY <4>2, BufCount, LoadBound
      <4> QED  BY <4>3 DEF LoadPercent, n
    <3>2. xload' \in 0..100 /\ xpc' \in {"compare", "queue"}
      <4>1. /\ xload' = LoadPercent \/ xload' = xload
            /\ xpc' = "compare" \/ xpc' = "queue"
        BY <2>2, Zenon DEF RxCheckLoad
      <4>2. xload \in 0..100
        OBVIOUS
      <4> HIDE DEF TypeOK
      <4> QED  BY <3>1, <4>1, <4>2
    <3>3. UNCHANGED <<hostVars, loaded, arrived, queueVars, cfgVars, xpkt, rdVars>>
      BY <2>2 DEF RxCheckLoad
    <3>4. UNCHANGED <<datapath, throttling>>
      BY <2>2 DEF RxCheckLoad
    <3> QED  BY <3>2, <3>3, <3>4
  <2>3. CASE RxStartThrottling \/ RxInterruptHost
    <3>1. /\ xpc' \in {"queue", "interrupt"} /\ UNCHANGED xload
          /\ hostThrottled' \in BOOLEAN /\ throttling' \in BOOLEAN /\ crossed' \in BOOLEAN
      BY <2>3 DEF RxStartThrottling, RxInterruptHost
    <3> QED  BY <2>3, <3>1 DEF RxStartThrottling, RxInterruptHost
  <2>6. CASE RxCompare
    BY <2>6 DEF RxCompare
  <2>4. CASE RxQueue
    <3> DEFINE c == QueueOf(xpkt.kind)
    <3>1. c \in Queues /\ rxQueue' = [rxQueue EXCEPT ![c] = Append(@, xpkt)]
      BY <2>4, PlaceNames DEF RxQueue
    <3> HIDE DEF c
    <3>2. Append(rxQueue[c], xpkt) \in Seq(Packet)
      BY <3>1
    <3>3. rxQueue' \in [Queues -> Seq(Packet)]
      BY <3>1, <3>2
    <3> QED  BY <2>4, <3>3 DEF RxQueue
  <2>5. CASE RxGive
    BY <2>5 DEF RxGive
  <2> QED  BY <1>3, <2>1, <2>2, <2>3, <2>4, <2>5, <2>6 DEF RxTask
<1>4. CASE RecvTask
  <2>1. CASE ReadBegin \/ ReadTakeSem
    <3>1. rxSem' \in Nat /\ rpc' \in {"sem", "serial"}
      BY <2>1 DEF ReadBegin, ReadTakeSem
    <3>2. rpc' \in {"idle", "sem", "load", "clear", "interrupt", "process", "config", "free"}
                     \union Queues
      BY <3>1, PlaceNames
    <3>3. UNCHANGED <<hostVars, datapath, loaded, arrived, rxQueue, throttling, cfgVars, rxVars,
                      rpkt>>
      BY <2>1 DEF ReadBegin, ReadTakeSem
    <3> QED  BY <3>1, <3>2, <3>3
  <2>2. CASE \E c \in Queues : ReadQueue(c)
    <3>1. PICK c \in Queues : ReadQueue(c)
      BY <2>2
    <3>2. CASE rxQueue[c] # <<>>
      <4>1. Head(rxQueue[c]) \in Packet /\ Tail(rxQueue[c]) \in Seq(Packet)
        BY <3>2
      <4>2. rxQueue' \in [Queues -> Seq(Packet)]
        BY <3>1, <3>2, <4>1 DEF ReadQueue
      <4> QED  BY <3>1, <3>2, <4>1, <4>2 DEF ReadQueue
    <3>3. CASE rxQueue[c] = <<>>
      <4>1. rpc' \in {"bt", "others", "idle"} /\ UNCHANGED <<rpkt, rxQueue>>
        BY <3>1, <3>3, PlaceNames DEF ReadQueue
      <4> QED  BY <3>1, <4>1, PlaceNames DEF ReadQueue
    <3> QED  BY <3>2, <3>3
  <2>3. CASE ReadCheckLoad \/ ReadStopThrottling \/ ReadInterruptHost \/ ReadProcess
    <3>1. rpc' \in {"clear", "process", "interrupt", "config", "free"}
      BY <2>3 DEF ReadCheckLoad, ReadStopThrottling, ReadInterruptHost, ReadProcess
    <3>2. hostThrottled' \in BOOLEAN /\ throttling' \in BOOLEAN /\ crossed' \in BOOLEAN
      <4>1. CASE ReadCheckLoad \/ ReadProcess
        BY <4>1 DEF ReadCheckLoad, ReadProcess
      <4>2. CASE ReadStopThrottling
        BY <4>2 DEF ReadStopThrottling
      <4>3. CASE ReadInterruptHost
        BY <4>3 DEF ReadInterruptHost
      <4> QED  BY <2>3, <4>1, <4>2, <4>3
    <3>3. tlvs' \subseteq {"high", "low"}
      <4>1. CASE ReadProcess
        BY <4>1 DEF ReadProcess
      <4>2. CASE ReadCheckLoad \/ ReadStopThrottling \/ ReadInterruptHost
        BY <4>2 DEF ReadCheckLoad, ReadStopThrottling, ReadInterruptHost
      <4> QED  BY <2>3, <4>1, <4>2
    <3>4. lowZero' \in BOOLEAN
      <4>1. lowZero' = (low = 0) \/ lowZero' = lowZero
        BY <2>3, Zenon DEF ReadCheckLoad, ReadStopThrottling, ReadInterruptHost, ReadProcess
      <4> QED  BY <4>1, Zenon
    <3>5. UNCHANGED <<sent, closes, datapath, loaded, arrived, queueVars, high, low, rxVars, rpkt>>
      BY <2>3 DEF ReadCheckLoad, ReadStopThrottling, ReadInterruptHost, ReadProcess
    <3> QED  BY <3>1, <3>2, <3>3, <3>4, <3>5
  <2>4. CASE \E t \in {"high", "low"} : ReadConfig(t)
    <3>1. PICK t \in {"high", "low"} : ReadConfig(t)
      BY <2>4
    <3>2. PICK c \in Configs : /\ high' = IF t = "high" THEN c[1] ELSE high
                               /\ low'  = IF t = "low" THEN c[2] ELSE low
      BY <3>1 DEF ReadConfig
    <3>3. c[1] \in 0..255 /\ c[2] \in 0..255
      BY <1>a
    <3> QED  BY <3>1, <3>2, <3>3 DEF ReadConfig
  <2>5. CASE ReadFree
    BY <2>5 DEF ReadFree, Packet
  <2> QED  BY <1>4, <2>1, <2>2, <2>3, <2>4, <2>5 DEF RecvTask
<1>5. CASE UNCHANGED vars
  BY <1>5 DEF vars
<1> QED  BY <1>1, <1>2, <1>3, <1>4, <1>5 DEF Next

-----------------------------------------------------------------------------
(***************************************************************************)
(* The buffers.                                                            *)
(***************************************************************************)
LEMMA BuffersInit == Init => BuffersConserved
<1> SUFFICES ASSUME Init PROVE BuffersConserved
  OBVIOUS
<1>1. Distinct
  BY DEF Init, Distinct, NoDuplicates
<1>2. Now["driver"] = Bufs /\ \A p \in Places \ {"driver"} : Now[p] = {}
  <2>1. \A s : s = <<>> => BufsIn(s) = {}
    BY DEF BufsIn
  <2>2. RxHolds = {} /\ ReadHolds = {}
    BY DEF Init, RxHolds, ReadHolds
  <2>3. \A c \in Queues : rxQueue[c] = <<>>
    BY DEF Init
  <2> QED  BY <2>1, <2>2, <2>3, NowIs, PlaceNames DEF Init
<1>3. Spread(Now)
  <2>1. "driver" \in Places
    BY PlaceNames
  <2>2. \A b \in Bufs : \E p \in Places : b \in Now[p]
    BY <1>2, <2>1
  <2>3. \A p1, p2 \in Places : p1 # p2 => Now[p1] \intersect Now[p2] = {}
    BY <1>2
  <2> QED  BY <2>2, <2>3 DEF Spread
<1> QED  BY <1>1, <1>3, Conserved

LEMMA Stays ==
  ASSUME BuffersConserved,
         UNCHANGED <<loaded, arrived, rxQueue, RxHolds, ReadHolds>>
  PROVE  BuffersConserved'
<1>1. Distinct' /\ Spread(Now)
  BY Conserved DEF Distinct
<1>2. Now' = Now
  BY Zenon DEF Now, BufsAt
<1>3. Spread(Now')
  BY <1>1, <1>2
<1> QED  BY <1>1, <1>3, Conserved

LEMMA Moves ==
  ASSUME BuffersConserved, NEW p \in Places, NEW q \in Places, p # q, NEW b \in Now[p],
         Now[p]' = Now[p] \ {b}, Now[q]' = Now[q] \cup {b},
         \A o \in Places \ {p, q} : Now[o]' = Now[o],
         Distinct'
  PROVE  BuffersConserved'
<1>1. Spread(Now)
  BY Conserved
<1>2. Spread(Now')
  BY <1>1, MoveSpread
<1> QED  BY <1>2, Conserved

LEMMA BuffersStep == TypeOK /\ BuffersConserved /\ [Next]_vars => BuffersConserved'
<1> SUFFICES ASSUME TypeOK, BuffersConserved, [Next]_vars PROVE BuffersConserved'
  OBVIOUS
<1>d. Distinct /\ Spread(Now)
  BY Conserved
\* Buffers in different places differ.
<1>e. \A p, q \in Places : p # q => Now[p] \intersect Now[q] = {}
  BY <1>d DEF Spread
<1>h. ASSUME UNCHANGED <<xpc, xpkt>> PROVE UNCHANGED RxHolds
  BY <1>h DEF RxHolds
<1>r. ASSUME UNCHANGED <<rpc, rpkt>> PROVE UNCHANGED ReadHolds
  BY <1>r DEF ReadHolds
<1>1. CASE \E kind \in Kinds, b \in Bufs : HostSend(kind, b)
  <2>1. PICK kind \in Kinds, b \in Bufs : HostSend(kind, b)
    BY <1>1
  <2> DEFINE e == [buf |-> b, kind |-> kind]
  <2>2. e \in Packet /\ e.buf = b /\ b \in loaded
    BY <2>1 DEF Packet, HostSend
  <2>3. /\ loaded' = loaded \ {b} /\ arrived' = Append(arrived, e)
        /\ UNCHANGED <<rxQueue, xpc, xpkt, rpc, rpkt>>
    BY <2>1 DEF HostSend, queueVars, rxVars, rdVars
  <2> HIDE DEF e
  <2>4. b \notin BufsIn(arrived)
    BY <1>e, <2>2, NowIs, PlaceNames
  <2>5. BufsIn(arrived') = BufsIn(arrived) \cup {b} /\ NoDuplicates(arrived')
    BY <2>2, <2>3, <2>4, <1>d, Appended DEF TypeOK, Distinct
  <2>6. Distinct'
    BY <2>3, <2>5, <1>d DEF Distinct
  <2>7. \A o \in Places \ {"driver", "arrived"} : Now[o]' = Now[o]
    BY <2>3, <1>h, <1>r, NowIs, PlaceNames
  <2>8. /\ "driver" \in Places /\ "arrived" \in Places /\ b \in Now["driver"]
        /\ Now["driver"]' = Now["driver"] \ {b} /\ Now["arrived"]' = Now["arrived"] \cup {b}
    BY <2>2, <2>3, <2>5, NowIs, PlaceNames
  <2> QED  BY <2>6, <2>7, <2>8, Moves
<1>2. CASE HostOpen \/ HostClose \/ UNCHANGED vars
  BY <1>2, <1>h, <1>r, Stays DEF HostOpen, HostClose, vars, queueVars, rxVars, rdVars
<1>3. CASE RxTake
  <2> DEFINE e == Head(arrived)
  <2>1. /\ arrived # <<>> /\ arrived' = Tail(arrived) /\ xpc = "recv" /\ xpkt' = e
        /\ UNCHANGED <<rxQueue, rpc, rpkt>>
    BY <1>3 DEF RxTake, queueVars, rdVars
  <2>2. /\ e \in Packet /\ e.buf \in BufsIn(arrived)
        /\ BufsIn(arrived') = BufsIn(arrived) \ {e.buf} /\ NoDuplicates(arrived')
    BY <2>1, <1>d, Taken DEF TypeOK, Distinct
  <2> DEFINE b == e.buf
  <2>3. Distinct'
    BY <2>1, <2>2, <1>d DEF Distinct
  <2>4. /\ "arrived" \in Places /\ b \in Now["arrived"]
        /\ Now["arrived"]' = Now["arrived"] \ {b}
    BY <2>2, NowIs, PlaceNames
  <2>5. \A o \in {"recv_task", "serial", "bt", "others"} : Now[o]' = Now[o]
    BY <2>1, <1>r, NowIs, PlaceNames
  <2>6. RxHolds = {}
    BY <2>1 DEF RxHolds
  <2>7. CASE e.kind = "bad"
    <3>1. loaded' = loaded \cup {b} /\ xpc' = "recv"
      BY <1>3, <2>7, <2>1 DEF RxTake
    <3>2. RxHolds' = {}
      BY <3>1 DEF RxHolds
    <3>3. \A o \in Places \ {"arrived", "driver"} : Now[o]' = Now[o]
      BY <2>5, <2>6, <3>2, NowIs, PlaceNames
    <3>4. "driver" \in Places /\ Now["driver"]' = Now["driver"] \cup {b}
      BY <3>1, NowIs, PlaceNames
    <3> HIDE DEF b
    <3> QED  BY <2>3, <2>4, <3>3, <3>4, Moves
  <2>8. CASE e.kind # "bad"
    <3>1. loaded' = loaded /\ xpc' = "check"
      BY <1>3, <2>8 DEF RxTake
    <3>2. RxHolds' = {b}
      BY <2>1, <3>1 DEF RxHolds
    <3>3. \A o \in Places \ {"arrived", "rx_task"} : Now[o]' = Now[o]
      BY <2>5, <3>1, NowIs, PlaceNames
    <3>4. "rx_task" \in Places /\ Now["rx_task"]' = Now["rx_task"] \cup {b}
      BY <2>6, <3>2, NowIs, PlaceNames
    <3> HIDE DEF b
    <3> QED  BY <2>3, <2>4, <3>3, <3>4, Moves
  <2> QED  BY <2>7, <2>8
<1>4. CASE RxCheckLoad \/ RxCompare \/ RxStartThrottling \/ RxInterruptHost \/ RxGive
  <2>1. UNCHANGED RxHolds
    BY <1>4 DEF RxHolds, RxCheckLoad, RxCompare, RxStartThrottling, RxInterruptHost, RxGive
  <2>2. UNCHANGED <<loaded, arrived, rxQueue, rpc, rpkt>>
    BY <1>4 DEF RxCheckLoad, RxCompare, RxStartThrottling, RxInterruptHost, RxGive, queueVars,
                rdVars
  <2> QED  BY <2>1, <2>2, <1>r, Stays
<1>5. CASE RxQueue
  <2> DEFINE b == xpkt.buf
  <2>0. PICK c \in Queues : c = QueueOf(xpkt.kind)
    BY PlaceNames
  <2>1. /\ xpc = "queue" /\ xpc' = "give" /\ xpkt \in Packet
        /\ rxQueue \in [Queues -> Seq(Packet)]
        /\ rxQueue' = [rxQueue EXCEPT ![c] = Append(@, xpkt)]
        /\ UNCHANGED <<loaded, arrived, rpc, rpkt>>
    BY <1>5, <2>0 DEF RxQueue, TypeOK, rdVars
  <2>2. RxHolds = {b} /\ RxHolds' = {}
    BY <2>1 DEF RxHolds
  <2>3. c \in Places /\ "rx_task" \in Places /\ c # "rx_task"
    BY <2>1, PlaceNames
  <2>4. b \notin BufsIn(rxQueue[c])
    BY <1>e, <2>1, <2>2, <2>3, NowIs
  <2>5. /\ rxQueue'[c] = Append(rxQueue[c], xpkt)
        /\ \A o \in Queues \ {c} : rxQueue'[o] = rxQueue[o]
    BY <2>1
  <2>6. BufsIn(rxQueue'[c]) = BufsIn(rxQueue[c]) \cup {b} /\ NoDuplicates(rxQueue'[c])
    BY <2>1, <2>4, <2>5, <1>d, Appended DEF Distinct
  <2>7. Distinct'
    BY <2>1, <2>5, <2>6, <1>d DEF Distinct
  <2>8. \A o \in Places \ {"rx_task", c} : Now[o]' = Now[o]
    BY <2>1, <2>5, <1>r, NowIs, PlaceNames
  <2>9. /\ b \in Now["rx_task"] /\ Now["rx_task"]' = Now["rx_task"] \ {b}
        /\ Now[c]' = Now[c] \cup {b}
    BY <2>1, <2>2, <2>6, NowIs
  <2> HIDE DEF b
  <2> QED  BY <2>3, <2>7, <2>8, <2>9, Moves
<1>6. CASE \/ ReadBegin \/ ReadTakeSem \/ ReadCheckLoad \/ ReadStopThrottling
           \/ ReadInterruptHost \/ ReadProcess \/ \E t \in {"high", "low"} : ReadConfig(t)
  <2>1. UNCHANGED ReadHolds
    <3>1. CASE ReadBegin \/ ReadTakeSem
      BY <3>1 DEF ReadHolds, ReadBegin, ReadTakeSem
    <3>2. CASE ReadCheckLoad \/ ReadStopThrottling \/ ReadInterruptHost \/ ReadProcess
      BY <3>2 DEF ReadHolds, ReadCheckLoad, ReadStopThrottling, ReadInterruptHost, ReadProcess
    <3>3. CASE \E t \in {"high", "low"} : ReadConfig(t)
      BY <3>3 DEF ReadHolds, ReadConfig
    <3> QED  BY <1>6, <3>1, <3>2, <3>3
  <2>2. UNCHANGED <<loaded, arrived, rxQueue, xpc, xpkt>>
    BY <1>6 DEF ReadBegin, ReadTakeSem, ReadCheckLoad, ReadStopThrottling, ReadInterruptHost,
                ReadProcess, ReadConfig, queueVars, rxVars
  <2> QED  BY <2>1, <2>2, <1>h, Stays
<1>7. CASE \E c \in Queues : ReadQueue(c)
  <2>1. PICK c \in Queues : ReadQueue(c)
    BY <1>7
  <2>2. UNCHANGED <<loaded, arrived, xpc, xpkt>> /\ rpc = c /\ ReadHolds = {}
    BY <2>1, PlaceNames DEF ReadQueue, rxVars, ReadHolds
  <2>3. CASE rxQueue[c] = <<>>
    <3>1. rpc' \in {"bt", "others", "idle"} /\ UNCHANGED rxQueue
      BY <2>1, <2>3, PlaceNames DEF ReadQueue
    <3>2. ReadHolds' = {}
      BY <3>1 DEF ReadHolds
    <3> QED  BY <2>2, <3>1, <3>2, <1>h, Stays
  <2>4. CASE rxQueue[c] # <<>>
    <3> DEFINE b == Head(rxQueue[c]).buf
    <3>1. /\ rpkt' = Head(rxQueue[c]) /\ rpc' = "load"
          /\ rxQueue' = [rxQueue EXCEPT ![c] = Tail(@)]
          /\ rxQueue \in [Queues -> Seq(Packet)]
      BY <2>1, <2>4 DEF ReadQueue, TypeOK
    <3>2. ReadHolds' = {b}
      BY <3>1 DEF ReadHolds
    <3>3. /\ rxQueue'[c] = Tail(rxQueue[c])
          /\ \A o \in Queues \ {c} : rxQueue'[o] = rxQueue[o]
      BY <3>1
    <3>4. /\ b \in BufsIn(rxQueue[c]) /\ BufsIn(rxQueue'[c]) = BufsIn(rxQueue[c]) \ {b}
          /\ NoDuplicates(rxQueue'[c])
      BY <2>4, <3>1, <3>3, <1>d, Taken DEF Distinct
    <3> HIDE DEF b
    <3>5. Distinct'
      BY <2>2, <3>3, <3>4, <1>d DEF Distinct
    <3>6. \A o \in Places \ {c, "recv_task"} : Now[o]' = Now[o]
      BY <2>2, <3>3, <1>h, NowIs, PlaceNames
    <3>7. c \in Places /\ "recv_task" \in Places /\ c # "recv_task"
      BY PlaceNames
    <3>8. /\ b \in Now[c] /\ Now[c]' = Now[c] \ {b}
          /\ Now["recv_task"]' = Now["recv_task"] \cup {b}
      BY <2>2, <3>2, <3>4, NowIs
    <3> QED  BY <3>5, <3>6, <3>7, <3>8, Moves
  <2> QED  BY <2>3, <2>4
<1>8. CASE ReadFree
  <2> DEFINE b == rpkt.buf
  <2>1. /\ rpc = "free" /\ rpc' = "idle" /\ loaded' = loaded \cup {b}
        /\ UNCHANGED <<arrived, rxQueue, xpc, xpkt>>
    BY <1>8 DEF ReadFree, queueVars, rxVars
  <2>2. ReadHolds = {b} /\ ReadHolds' = {}
    BY <2>1 DEF ReadHolds
  <2>3. Distinct'
    BY <2>1, <1>d DEF Distinct
  <2>4. \A o \in Places \ {"recv_task", "driver"} : Now[o]' = Now[o]
    BY <2>1, <1>h, NowIs, PlaceNames
  <2>5. /\ "recv_task" \in Places /\ "driver" \in Places /\ b \in Now["recv_task"]
        /\ Now["recv_task"]' = Now["recv_task"] \ {b}
        /\ Now["driver"]' = Now["driver"] \cup {b}
    BY <2>1, <2>2, NowIs, PlaceNames
  <2> HIDE DEF b
  <2> QED  BY <2>3, <2>4, <2>5, Moves
<1> QED
  BY <1>1, <1>2, <1>3, <1>4, <1>5, <1>6, <1>7, <1>8 DEF Next, RxTask, RecvTask

-----------------------------------------------------------------------------
(***************************************************************************)
(* The semaphore, and what recv_task finds.                                *)
(***************************************************************************)
LEMMA QueuedChange ==
  ASSUME NEW c \in Queues, NEW d \in Int,
         \A o \in Queues : Len(rxQueue[o]) \in Nat,
         \A o \in Queues \ {c} : rxQueue'[o] = rxQueue[o],
         Len(rxQueue'[c]) = Len(rxQueue[c]) + d
  PROVE  Queued' = Queued + d
<1> DEFINE n == [o \in Queues |-> Len(rxQueue[o])]
           k == [o \in Queues |-> Len(rxQueue'[o])]
<1>1. /\ Queued = n["serial"] + n["bt"] + n["others"]
      /\ Queued' = k["serial"] + k["bt"] + k["others"]
  BY PlaceNames DEF Queued
<1>2. /\ n["serial"] \in Nat /\ n["bt"] \in Nat /\ n["others"] \in Nat
      /\ k[c] = n[c] + d /\ \A o \in Queues \ {c} : k[o] = n[o]
  BY PlaceNames
<1> HIDE DEF n, k
<1>3. CASE c = "serial"
  BY <1>1, <1>2, <1>3, PlaceNames
<1>4. CASE c = "bt"
  BY <1>1, <1>2, <1>4, PlaceNames
<1>5. CASE c = "others"
  BY <1>1, <1>2, <1>5, PlaceNames
<1> QED  BY <1>3, <1>4, <1>5, PlaceNames

LEMMA SemStep ==
  ASSUME TypeOK, BuffersConserved, SemIsQueued, Found, [Next]_vars
  PROVE  SemIsQueued' /\ Found'
<1>1. rxSem \in Nat /\ \A o \in Queues : Len(rxQueue[o]) \in Nat
  BY QueueBounds, BufCount DEF TypeOK
<1> DEFINE n == [o \in Queues |-> Len(rxQueue[o])]
<1>n. /\ Queued = n["serial"] + n["bt"] + n["others"]
      /\ n["serial"] \in Nat /\ n["bt"] \in Nat /\ n["others"] \in Nat
  BY <1>1, PlaceNames DEF Queued
<1>l. \A o \in Queues : n[o] = Len(rxQueue[o])
  OBVIOUS
<1> HIDE DEF n
<1>q. Queued \in Nat
  BY <1>n
<1>2. /\ RxBusy \in 0..1 /\ ReadBusy \in 0..1
      /\ rxSem + RxBusy + ReadBusy = Queued
  <2>1. RxBusy \in 0..1 /\ ReadBusy \in 0..1
    BY DEF RxBusy, ReadBusy
  <2> QED  BY <2>1 DEF SemIsQueued
\* Nothing of it changes in most steps.
<1>3. ASSUME UNCHANGED <<rxQueue, rxSem, RxBusy, ReadBusy>>,
             rpc' = rpc \/ rpc' \notin Queues
      PROVE  SemIsQueued' /\ Found'
  <2>1. SemIsQueued'
    BY <1>3 DEF SemIsQueued, Queued
  <2>2. Found'
    BY <1>3, PlaceNames DEF Found
  <2> QED  BY <2>1, <2>2
<1>r. ASSUME UNCHANGED rpc PROVE UNCHANGED ReadBusy
  BY <1>r DEF ReadBusy
<1>x. ASSUME UNCHANGED xpc PROVE UNCHANGED RxBusy
  BY <1>x DEF RxBusy
<1>4. CASE \/ \E kind \in Kinds, b \in Bufs : HostSend(kind, b)
           \/ HostOpen \/ HostClose \/ UNCHANGED vars
  <2>1. UNCHANGED <<rxQueue, rxSem, xpc, rpc>>
    BY <1>4 DEF HostSend, HostOpen, HostClose, vars, queueVars, rxVars, rdVars
  <2> QED  BY <2>1, <1>3, <1>r, <1>x
<1>5. CASE RxTake \/ RxCheckLoad \/ RxCompare \/ RxStartThrottling \/ RxInterruptHost
  <2>1. UNCHANGED <<rxQueue, rxSem, rpc>> /\ xpc # "give" /\ xpc' # "give"
    BY <1>5 DEF RxTake, RxCheckLoad, RxCompare, RxStartThrottling, RxInterruptHost, queueVars,
                rdVars
  <2>2. UNCHANGED RxBusy
    BY <2>1 DEF RxBusy
  <2> QED  BY <2>1, <2>2, <1>3, <1>r
<1>6. CASE RxQueue
  <2>1. PICK c \in Queues : c = QueueOf(xpkt.kind)
    BY PlaceNames
  <2>2. /\ xpc = "queue" /\ xpc' = "give" /\ xpkt \in Packet /\ UNCHANGED <<rxSem, rpc>>
        /\ rxQueue \in [Queues -> Seq(Packet)]
        /\ rxQueue' = [rxQueue EXCEPT ![c] = Append(@, xpkt)]
    BY <1>6, <2>1 DEF RxQueue, TypeOK, rdVars
  <2>3. /\ Len(rxQueue'[c]) = Len(rxQueue[c]) + 1 /\ rxQueue'[c] # <<>>
        /\ \A o \in Queues \ {c} : rxQueue'[o] = rxQueue[o]
    BY <2>2
  <2>4. Queued' = Queued + 1
    BY <2>3, <1>1, QueuedChange
  <2>5. RxBusy = 0 /\ RxBusy' = 1
    BY <2>2 DEF RxBusy
  <2>6. SemIsQueued'
    BY <2>2, <2>4, <2>5, <1>2, <1>1, <1>q, <1>r DEF SemIsQueued
  <2>7. \A o \in Queues : rxQueue[o] # <<>> => rxQueue'[o] # <<>>
    BY <2>3
  <2>8. Found'
    BY <2>2, <2>7, PlaceNames DEF Found
  <2> QED  BY <2>6, <2>8
<1>7. CASE RxGive
  <2>1. xpc = "give" /\ xpc' = "recv" /\ UNCHANGED <<rxQueue, rpc>>
    BY <1>7 DEF RxGive, rdVars
  <2>2. rxSem' = rxSem + 1
    BY <1>7, <2>1, SemBound DEF RxGive
  <2>3. RxBusy = 1 /\ RxBusy' = 0 /\ Queued' = Queued
    BY <2>1 DEF RxBusy, Queued
  <2>4. SemIsQueued'
    BY <2>1, <2>2, <2>3, <1>1, <1>2, <1>q, <1>r DEF SemIsQueued
  <2> QED  BY <2>1, <2>4 DEF Found
<1>8. CASE ReadTakeSem
  <2>1. /\ rpc = "sem" /\ rpc' = "serial" /\ rxSem > 0 /\ rxSem' = rxSem - 1
        /\ UNCHANGED <<rxQueue, xpc>>
    BY <1>8 DEF ReadTakeSem, rxVars
  <2>2. ReadBusy = 0 /\ ReadBusy' = 1 /\ Queued' = Queued
    BY <2>1, PlaceNames DEF ReadBusy, Queued
  <2>3. SemIsQueued'
    BY <2>1, <2>2, <1>1, <1>2, <1>q, <1>x DEF SemIsQueued
  <2> QED  BY <2>1, <2>3 DEF Found
<1>9. CASE \E c \in Queues : ReadQueue(c)
  <2>1. PICK c \in Queues : ReadQueue(c)
    BY <1>9
  <2>2. /\ rpc = c /\ UNCHANGED <<rxSem, xpc>> /\ rxQueue \in [Queues -> Seq(Packet)]
        /\ ReadBusy = 1
    BY <2>1 DEF ReadQueue, rxVars, TypeOK, ReadBusy
  <2>3. CASE rxQueue[c] = <<>>
    <3>1. /\ UNCHANGED rxQueue
          /\ rpc' = CASE c = "serial" -> "bt" [] c = "bt" -> "others" [] OTHER -> "idle"
      BY <2>1, <2>3 DEF ReadQueue
    <3>2. c # "others"
      BY <2>2, <2>3 DEF Found
    <3>3. ReadBusy' = 1 /\ Queued' = Queued
      BY <3>1, <3>2, PlaceNames DEF ReadBusy, Queued
    <3>4. SemIsQueued'
      BY <2>2, <3>3, <1>x DEF SemIsQueued
    <3>5. CASE c = "serial"
      <4>1. Len(rxQueue["serial"]) = 0
        BY <3>5, <2>3
      <4>2. Len(rxQueue["bt"]) # 0 \/ Len(rxQueue["others"]) # 0
        <5>1. Queued > 0
          BY <1>1, <1>2, <1>q, <2>2
        <5>2. n["serial"] = 0
          BY <4>1, <1>l, PlaceNames
        <5>3. n["bt"] # 0 \/ n["others"] # 0
          BY <5>1, <5>2, <1>n
        <5> QED  BY <5>3, <1>l, PlaceNames
      <4>3. rxQueue["bt"] # <<>> \/ rxQueue["others"] # <<>>
        BY <4>2
      <4> QED  BY <3>1, <3>4, <3>5, <4>3 DEF Found
    <3>6. CASE c = "bt"
      BY <3>1, <3>4, <3>6, <2>2, <2>3 DEF Found
    <3> QED  BY <3>2, <3>5, <3>6, PlaceNames
  <2>4. CASE rxQueue[c] # <<>>
    <3>1. rxQueue' = [rxQueue EXCEPT ![c] = Tail(@)] /\ rpc' = "load"
      BY <2>1, <2>4 DEF ReadQueue
    <3>2. /\ Len(rxQueue'[c]) = Len(rxQueue[c]) - 1
          /\ \A o \in Queues \ {c} : rxQueue'[o] = rxQueue[o]
      BY <2>2, <2>4, <3>1
    <3>3. Queued' = Queued - 1
      <4>1. Len(rxQueue'[c]) = Len(rxQueue[c]) + (-1)
        BY <3>2, <1>1
      <4>2. Queued' = Queued + (-1)
        BY <3>2, <4>1, <1>1, QueuedChange
      <4> QED  BY <4>2, <1>q
    <3>4. ReadBusy' = 0
      BY <3>1, PlaceNames DEF ReadBusy
    <3>5. SemIsQueued'
      BY <2>2, <3>3, <3>4, <1>1, <1>2, <1>q, <1>x DEF SemIsQueued
    <3> QED  BY <3>1, <3>5 DEF Found
  <2> QED  BY <2>3, <2>4
<1>10. CASE \/ ReadBegin \/ ReadCheckLoad \/ ReadStopThrottling \/ ReadInterruptHost
            \/ ReadProcess \/ (\E t \in {"high", "low"} : ReadConfig(t)) \/ ReadFree
  <2>1. UNCHANGED <<rxQueue, rxSem, xpc>> /\ rpc \notin Queues /\ rpc' \notin Queues
    <3>1. UNCHANGED <<rxQueue, rxSem, xpc>>
      BY <1>10 DEF ReadBegin, ReadCheckLoad, ReadStopThrottling, ReadInterruptHost, ReadProcess,
                   ReadConfig, ReadFree, queueVars, rxVars
    <3>2. /\ rpc \in {"idle", "load", "clear", "interrupt", "process", "config", "free"}
          /\ rpc' \in {"sem", "clear", "process", "interrupt", "config", "free", "idle"}
      BY <1>10 DEF ReadBegin, ReadCheckLoad, ReadStopThrottling, ReadInterruptHost, ReadProcess,
                   ReadConfig, ReadFree
    <3> QED  BY <3>1, <3>2, PlaceNames
  <2>2. UNCHANGED ReadBusy
    BY <2>1 DEF ReadBusy
  <2> QED  BY <2>1, <2>2, <1>3, <1>x
<1> QED
  BY <1>4, <1>5, <1>6, <1>7, <1>8, <1>9, <1>10 DEF Next, RxTask, RecvTask

-----------------------------------------------------------------------------
(***************************************************************************)
(* The theorems.                                                           *)
(***************************************************************************)
LEMMA IInvInit == Init => IInv
<1> SUFFICES ASSUME Init PROVE IInv
  OBVIOUS
<1>1. SemIsQueued
  BY PlaceNames DEF Init, SemIsQueued, RxBusy, ReadBusy, Queued
<1>2. Found
  BY DEF Init, Found
<1> QED  BY <1>1, <1>2, TypeInit, BuffersInit DEF IInv

LEMMA IInvStep == IInv /\ [Next]_vars => IInv'
BY TypeStep, BuffersStep, SemStep DEF IInv

LEMMA IInvHolds == Spec => []IInv
BY IInvInit, IInvStep, PTL DEF Spec

\* The variables keep their types: the load of the queue is a percentage, and
\* the thresholds are bytes.
THEOREM TypeCorrect == Spec => []TypeOK
<1>1. IInv => TypeOK
  BY DEF IInv
<1> QED  BY <1>1, IInvHolds, PTL

\* No receive buffer is lost or loaded while its packet is in use: sdio_rx_task
\* and recv_task hand each buffer on before they let go of it.
THEOREM BuffersCorrect == Spec => []BuffersConserved
<1>1. IInv => BuffersConserved
  BY DEF IInv
<1> QED  BY <1>1, IInvHolds, PTL

\* sdio_rx_sem counts the packets in the three queues, and no give of
\* sdio_rx_task is lost at its maximum.
THEOREM SemCorrect == Spec => []SemCountsQueued
<1>1. IInv => SemCountsQueued
  BY SemBound DEF IInv, SemCountsQueued, SemIsQueued, RxBusy, ReadBusy
<1> QED  BY <1>1, IInvHolds, PTL

\* sdio_read, which looks into one queue after the other, finds a packet, and
\* sdio_rx_task finds room in the queue of its packet.
THEOREM ReadCorrect == Spec => []ReadFindsPacket
<1>1. IInv => ReadFindsPacket
  BY QueueBounds DEF IInv, Found, ReadFindsPacket
<1> QED  BY <1>1, IInvHolds, PTL

-----------------------------------------------------------------------------
(***************************************************************************)
(* What is left when everything has come to rest: the safety part of       *)
(* ThrottlingEnds and BuffersReturn.                                       *)
(***************************************************************************)
\* Neither task can move.
Stopped ==
  /\ xpc \in {"recv", "queue"}
  /\ xpc = "recv" => arrived = <<>>
  /\ xpc = "queue" => Len(rxQueue[QueueOf(xpkt.kind)]) >= NumBufs
  /\ rpc \in {"idle", "sem", "config"}
  /\ rpc = "idle" => ~datapath
  /\ rpc = "sem" => rxSem = 0
  /\ rpc = "config" => tlvs = {}

\* recv_task leaves a configuration when it has read all of it.
TlvsLeft == rpc = "config" => tlvs # {}

\* While throttling is on, recv_task is about to end it, or a packet is still on
\* its way to the place where recv_task tests whether to end it: unless it last did
\* so with a low threshold of 0.
EndIsDue ==
  throttling => \/ xpc \in {"interrupt", "queue", "give"}
                \/ rpc \in {"load", "clear"} \union Queues
                \/ Queued > 0
                \/ lowZero

\* If its last store did not cross an interrupt of the other task, the flag is what
\* the host was told, or will be by the interrupt that is under way.
HostKnows ==
  ~crossed => /\ xpc = "interrupt" => throttling /\ rpc # "interrupt"
              /\ rpc = "interrupt" => ~throttling
              /\ xpc # "interrupt" /\ rpc # "interrupt" => (throttling <=> hostThrottled)

\* While the data path is open the receive half comes to rest only with every
\* buffer back in the driver, with the flag off unless recv_task last compared the
\* load with a low threshold of 0, and with the host throttled only when the flag
\* says so or its last store crossed an interrupt.
RestsWhenDone ==
  Stopped /\ datapath => /\ loaded = Bufs
                         /\ throttling => lowZero
                         /\ hostThrottled => throttling \/ crossed

LEMMA TlvsStep == TlvsLeft /\ [Next]_vars => TlvsLeft'
<1> SUFFICES ASSUME TlvsLeft, [Next]_vars PROVE TlvsLeft'
  OBVIOUS
<1>0. ASSUME UNCHANGED <<rpc, tlvs>> PROVE TlvsLeft'
  BY <1>0 DEF TlvsLeft
<1>1. CASE RxTask
  BY <1>0, <1>1 DEF RxTask, RxTake, RxCheckLoad, RxCompare, RxStartThrottling, RxInterruptHost,
                    RxQueue, RxGive, cfgVars, rdVars
<1>2. CASE ReadProcess
  BY <1>2 DEF ReadProcess, TlvsLeft
<1>3. ASSUME NEW t \in {"high", "low"}, ReadConfig(t) PROVE TlvsLeft'
  BY <1>3 DEF ReadConfig, TlvsLeft
<1>4. CASE \/ ReadBegin \/ ReadTakeSem \/ (\E c \in Queues : ReadQueue(c)) \/ ReadCheckLoad
           \/ ReadStopThrottling \/ ReadInterruptHost \/ ReadFree
  <2>1. rpc' # "config"
    BY <1>4, PlaceNames DEF ReadBegin, ReadTakeSem, ReadQueue, ReadCheckLoad,
                ReadStopThrottling, ReadInterruptHost, ReadFree
  <2> QED  BY <2>1 DEF TlvsLeft
<1>5. CASE \/ \E kind \in Kinds, b \in Bufs : HostSend(kind, b)
           \/ HostOpen \/ HostClose \/ UNCHANGED vars
  BY <1>0, <1>5 DEF HostSend, HostOpen, HostClose, vars, cfgVars, rdVars
<1> QED
  BY <1>1, <1>2, <1>3, <1>4, <1>5 DEF Next, RecvTask

LEMMA KnowsStep == TypeOK /\ HostKnows /\ [Next]_vars => HostKnows'
<1> SUFFICES ASSUME TypeOK, HostKnows, [Next]_vars PROVE HostKnows'
  OBVIOUS
<1>0. ASSUME UNCHANGED <<throttling, hostThrottled, crossed>>,
             xpc' = xpc \/ (xpc # "interrupt" /\ xpc' # "interrupt"),
             rpc' = rpc \/ (rpc # "interrupt" /\ rpc' # "interrupt")
      PROVE  HostKnows'
  BY <1>0 DEF HostKnows
<1> USE DEF hostVars, rxVars, rdVars
<1>1. CASE RxTake \/ RxCheckLoad \/ RxCompare \/ RxQueue \/ RxGive
  BY <1>0, <1>1 DEF RxTake, RxCheckLoad, RxCompare, RxQueue, RxGive
<1>2. CASE RxStartThrottling
  <2>1. throttling' = TRUE /\ crossed' = (rpc = "interrupt") /\ xpc' = "interrupt" /\ rpc' = rpc
    BY <1>2 DEF RxStartThrottling
  <2> QED  BY <2>1 DEF HostKnows
<1>3. CASE RxInterruptHost
  <2>1. /\ hostThrottled' = TRUE /\ xpc = "interrupt" /\ xpc' = "queue"
        /\ UNCHANGED <<throttling, crossed, rpc>>
    BY <1>3 DEF RxInterruptHost
  <2> QED  BY <2>1 DEF HostKnows
<1>4. CASE ReadStopThrottling
  <2>1. throttling' = FALSE /\ crossed' = (xpc = "interrupt") /\ rpc' = "interrupt" /\ xpc' = xpc
    BY <1>4 DEF ReadStopThrottling
  <2> QED  BY <2>1 DEF HostKnows
<1>5. CASE ReadInterruptHost
  <2>1. /\ hostThrottled' = FALSE /\ rpc = "interrupt" /\ rpc' = "process"
        /\ UNCHANGED <<throttling, crossed, xpc>>
    BY <1>5 DEF ReadInterruptHost
  <2> QED  BY <2>1 DEF HostKnows
<1>6. CASE \/ ReadBegin \/ ReadTakeSem \/ (\E c \in Queues : ReadQueue(c)) \/ ReadCheckLoad
           \/ ReadProcess \/ (\E t \in {"high", "low"} : ReadConfig(t)) \/ ReadFree
  <2>1. rpc # "interrupt" /\ rpc' # "interrupt"
    BY <1>6, PlaceNames DEF ReadBegin, ReadTakeSem, ReadQueue, ReadCheckLoad, ReadProcess,
                            ReadConfig, ReadFree
  <2>2. UNCHANGED <<throttling, hostThrottled, crossed, xpc>>
    BY <1>6 DEF ReadBegin, ReadTakeSem, ReadQueue, ReadCheckLoad, ReadProcess, ReadConfig,
                ReadFree
  <2> QED  BY <1>0, <2>1, <2>2
<1>7. CASE \/ \E kind \in Kinds, b \in Bufs : HostSend(kind, b)
           \/ HostOpen \/ HostClose \/ UNCHANGED vars
  BY <1>0, <1>7 DEF HostSend, HostOpen, HostClose, vars
<1> QED
  BY <1>1, <1>2, <1>3, <1>4, <1>5, <1>6, <1>7 DEF Next, RxTask, RecvTask

\* With a positive low threshold, a load that is not below it is of packets.
LEMMA LoadNeedsPackets ==
  ASSUME TypeOK, LoadPercent >= low, low > 0 PROVE Len(rxQueue["others"]) > 0
<1>1. NumBufs \in Nat /\ NumBufs > 0
  BY BufCount
<1>2. Len(rxQueue["others"]) \in Nat /\ low \in 0..255
  BY PlaceNames DEF TypeOK
<1>3. ASSUME Len(rxQueue["others"]) = 0 PROVE FALSE
  <2>1. \A N \in Nat : N > 0 => (0 * 100) \div N = 0
    OBVIOUS
  <2>2. LoadPercent = 0
    BY <1>1, <1>3, <2>1 DEF LoadPercent
  <2> QED  BY <1>2, <2>2
<1> QED  BY <1>2, <1>3

LEMMA EndStep ==
  ASSUME IInv, EndIsDue, [Next]_vars PROVE EndIsDue'
<1>1. /\ TypeOK /\ rxSem \in Nat /\ \A c \in Queues : Len(rxQueue[c]) \in Nat
      /\ Queued \in Nat
  BY QueueBounds, BufCount, PlaceNames DEF IInv, TypeOK, Queued
<1>2. SUFFICES ASSUME throttling'
               PROVE  \/ xpc' \in {"interrupt", "queue", "give"}
                      \/ rpc' \in {"load", "clear"} \union Queues
                      \/ Queued' > 0
                      \/ lowZero'
  BY DEF EndIsDue
<1>3. ASSUME UNCHANGED <<throttling, rxQueue, lowZero>>,
             xpc' = xpc \/ xpc' \in {"interrupt", "queue", "give"}
                        \/ xpc \notin {"interrupt", "queue", "give"},
             rpc' = rpc \/ rpc' \in {"load", "clear"} \union Queues
                        \/ rpc \notin {"load", "clear"} \union Queues
      PROVE  \/ xpc' \in {"interrupt", "queue", "give"}
             \/ rpc' \in {"load", "clear"} \union Queues
             \/ Queued' > 0
             \/ lowZero'
  BY <1>2, <1>3 DEF EndIsDue, Queued
<1>4. CASE RxTake \/ RxCheckLoad \/ RxCompare \/ RxInterruptHost
  BY <1>3, <1>4 DEF RxTake, RxCheckLoad, RxCompare, RxInterruptHost, queueVars, rdVars,
                    cfgVars
<1>5. CASE RxStartThrottling
  BY <1>5 DEF RxStartThrottling
<1>6. CASE RxQueue
  BY <1>6 DEF RxQueue
<1>7. CASE RxGive
  <2>1. RxBusy = 1 /\ ReadBusy \in 0..1 /\ rxSem + RxBusy + ReadBusy = Queued
    BY <1>7 DEF RxGive, RxBusy, ReadBusy, IInv, SemIsQueued
  <2>2. Queued > 0
    BY <1>1, <2>1
  <2>3. Queued' = Queued
    BY <1>7 DEF RxGive, Queued
  <2> QED  BY <2>2, <2>3
<1>8. CASE ReadBegin \/ ReadInterruptHost \/ ReadProcess \/ ReadFree
           \/ \E t \in {"high", "low"} : ReadConfig(t)
  <2>1. rpc \in {"idle", "interrupt", "process", "free", "config"}
    BY <1>8 DEF ReadBegin, ReadInterruptHost, ReadProcess, ReadFree, ReadConfig
  <2>2. UNCHANGED <<throttling, rxQueue, xpc, lowZero>>
    BY <1>8 DEF ReadBegin, ReadInterruptHost, ReadProcess, ReadFree, ReadConfig, queueVars,
                rxVars, cfgVars
  <2>3. rpc \notin {"load", "clear"} \union Queues
    BY <2>1, PlaceNames
  <2> QED  BY <1>3, <2>2, <2>3
<1>9. CASE ReadTakeSem
  BY <1>9, PlaceNames DEF ReadTakeSem
<1>10. ASSUME NEW c \in Queues, ReadQueue(c)
       PROVE  rpc' \in {"load", "clear"} \union Queues
  <2>1. rpc = c
    BY <1>10 DEF ReadQueue
  <2>2. CASE rxQueue[c] # <<>>
    BY <1>10, <2>2 DEF ReadQueue
  <2>3. CASE rxQueue[c] = <<>>
    <3>1. c # "others"
      BY <2>1, <2>3 DEF IInv, Found
    <3>2. c = "serial" \/ c = "bt"
      BY <3>1, PlaceNames
    <3>3. rpc' = CASE c = "serial" -> "bt" [] c = "bt" -> "others" [] OTHER -> "idle"
      BY <1>10, <2>3 DEF ReadQueue
    <3>4. rpc' \in {"bt", "others"}
      BY <3>2, <3>3
    <3> QED  BY <3>4, PlaceNames
  <2> QED  BY <2>2, <2>3
<1>11. CASE ReadCheckLoad
  <2>1. rpc = "load" /\ UNCHANGED <<throttling, rxQueue>>
    BY <1>11 DEF ReadCheckLoad, queueVars
  <2>2. lowZero' = (low = 0)
    BY <1>2, <1>11, <2>1 DEF ReadCheckLoad
  <2>3. CASE LoadPercent < low
    BY <1>2, <1>11, <2>1, <2>3 DEF ReadCheckLoad
  <2>4. CASE LoadPercent >= low /\ low > 0
    <3>1. Len(rxQueue["others"]) > 0
      BY <1>1, <2>4, LoadNeedsPackets
    <3>2. /\ Len(rxQueue["serial"]) \in Nat /\ Len(rxQueue["bt"]) \in Nat
          /\ Len(rxQueue["others"]) \in Nat
      BY <1>1, PlaceNames
    <3>3. Queued > 0
      <4>1. \A x, y, z \in Nat : z > 0 => x + y + z > 0
        OBVIOUS
      <4> QED  BY <3>1, <3>2, <4>1 DEF Queued
    <3>4. Queued' = Queued
      BY <2>1 DEF Queued
    <3> QED  BY <3>3, <3>4
  <2>5. LoadPercent \in 0..100 /\ low \in 0..255
    <3>1. NumBufs \in Nat /\ NumBufs > 0
      BY BufCount
    <3>2. Len(rxQueue["others"]) \in Nat /\ Len(rxQueue["others"]) <= NumBufs
      <4>1. Len(rxQueue["others"]) \in 0..NumBufs
        BY QueueBounds, PlaceNames DEF IInv
      <4> QED  BY <3>1, <4>1
    <3>3. LoadPercent \in 0..100
      BY <3>1, <3>2, LoadBound DEF LoadPercent
    <3> QED  BY <3>3 DEF IInv, TypeOK
  <2>6. CASE low = 0
    BY <2>2, <2>6, Zenon
  <2>7. LoadPercent < low \/ (LoadPercent >= low /\ low > 0) \/ low = 0
    BY <2>5
  <2> QED  BY <2>3, <2>4, <2>6, <2>7
<1>12. CASE ReadStopThrottling
  BY <1>2, <1>12 DEF ReadStopThrottling
<1>13. CASE \/ \E kind \in Kinds, b \in Bufs : HostSend(kind, b)
            \/ HostOpen \/ HostClose \/ UNCHANGED vars
  BY <1>3, <1>13 DEF HostSend, HostOpen, HostClose, vars, queueVars, rxVars, rdVars,
                     cfgVars
<1> QED
  BY <1>4, <1>5, <1>6, <1>7, <1>8, <1>9, <1>10, <1>11, <1>12, <1>13
     DEF Next, RxTask, RecvTask

\* While the data path is open, sdio_rx_task and recv_task stop only when every
\* buffer is loaded again and the flag current_throttling is off, or stuck by a low
\* threshold of 0; and the host is then still throttled only if the flag is on or
\* its last store crossed an interrupt of the other task. For any number of
\* buffers, any thresholds, and whenever the host changes these.
THEOREM RestCorrect == Spec => []RestsWhenDone
<1>1. Init => TlvsLeft /\ EndIsDue /\ HostKnows
  BY DEF Init, TlvsLeft, EndIsDue, HostKnows
<1>2. TlvsLeft /\ [Next]_vars => TlvsLeft'
  BY TlvsStep
<1>3. IInv /\ EndIsDue /\ [Next]_vars => EndIsDue'
  BY EndStep
<1>5. IInv /\ HostKnows /\ [Next]_vars => HostKnows'
  BY KnowsStep DEF IInv
<1>4. IInv /\ TlvsLeft /\ EndIsDue /\ HostKnows => RestsWhenDone
  <2> SUFFICES ASSUME IInv, TlvsLeft, EndIsDue, HostKnows, Stopped, datapath
               PROVE  /\ loaded = Bufs
                      /\ throttling => lowZero
                      /\ hostThrottled => throttling \/ crossed
    BY DEF RestsWhenDone
  <2>1. xpc = "recv" /\ arrived = <<>>
    <3>1. Len(rxQueue[QueueOf(xpkt.kind)]) \in Nat /\ NumBufs \in Nat
      BY PlaceNames, QueueBounds, BufCount DEF IInv
    <3> QED  BY <3>1, QueueBounds DEF Stopped, IInv
  <2>2. rpc = "sem" /\ rxSem = 0
    BY DEF Stopped, TlvsLeft
  <2>3. Queued = 0
    BY <2>1, <2>2, PlaceNames DEF IInv, SemIsQueued, RxBusy, ReadBusy
  <2>4. \A c \in Queues : rxQueue[c] = <<>>
    <3>1. /\ Len(rxQueue["serial"]) \in Nat /\ Len(rxQueue["bt"]) \in Nat
          /\ Len(rxQueue["others"]) \in Nat
      BY PlaceNames DEF IInv, TypeOK
    <3>2. \A c \in Queues : Len(rxQueue[c]) = 0 /\ rxQueue[c] \in Seq(Packet)
      BY <2>3, <3>1, PlaceNames DEF Queued, IInv, TypeOK
    <3> QED  BY <3>2
  <2>5. throttling => lowZero
    BY <2>1, <2>2, <2>3, PlaceNames DEF EndIsDue
  <2>6. \A p \in Places \ {"driver"} : Now[p] = {}
    <3>1. BufsIn(arrived) = {} /\ \A c \in Queues : BufsIn(rxQueue[c]) = {}
      BY <2>1, <2>4 DEF BufsIn
    <3>2. RxHolds = {} /\ ReadHolds = {}
      BY <2>1, <2>2 DEF RxHolds, ReadHolds
    <3> QED  BY <3>1, <3>2, NowIs, PlaceNames
  <2>7. \A b \in Bufs : b \in loaded
    <3>1. \A b \in Bufs : \E p \in Places : b \in Now[p]
      BY Conserved DEF IInv, Spread
    <3> QED  BY <2>6, <3>1, NowIs
  <2>8. loaded \subseteq Bufs
    BY DEF IInv, TypeOK
  <2>9. hostThrottled => throttling \/ crossed
    BY <2>1, <2>2 DEF HostKnows
  <2> QED  BY <2>5, <2>7, <2>8, <2>9
<1> QED
  BY <1>1, <1>2, <1>3, <1>4, <1>5, IInvInit, IInvStep, PTL DEF Spec
=============================================================================
