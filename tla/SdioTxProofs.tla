---------------------------- MODULE SdioTxProofs ----------------------------
(***************************************************************************)
(* Proofs about SdioTx, for any number of senders, any capacity of the     *)
(* driver's queue, whatever fails and whenever the host comes and goes.    *)
(***************************************************************************)
EXTENDS SdioTx, SequenceTheorems, FiniteSetTheorems, TLAPS

PCs == {"idle", "check", "alloc", "take", "send", "undo", "free"}

\* What sdio_send_queue_sem is about, and what the heap is about.
HoldsSlot   == {"send", "undo"}
HoldsBuffer == {"take", "send", "undo", "free"}

In(pc, pcs) == IF pc \in pcs THEN 1 ELSE 0

\* The writers at some places are counted by a natural number, ...
LEMMA WritersAtType ==
  ASSUME NEW pcs
  PROVE  /\ IsFiniteSet({w \in Writers : wpc[w] \in pcs})
         /\ WritersAt(pcs) \in Nat
<1>1. {w \in Writers : wpc[w] \in pcs} \in SUBSET Writers
  OBVIOUS
<1>2. IsFiniteSet({w \in Writers : wpc[w] \in pcs})
  BY <1>1, FS_Subset, ConstantsAssumption
<1>3. QED
  BY <1>2, FS_CardinalityType DEF WritersAt

\* ... which a writer's step changes by what the writer leaves and enters.
LEMMA WriterMoves ==
  ASSUME wpc \in [Writers -> PCs], NEW w \in Writers, NEW from, NEW to, NEW pcs,
         Goes(w, from, to)
  PROVE  /\ WritersAt(pcs)' = WritersAt(pcs) + In(to, pcs) - In(from, pcs)
         /\ WritersAt(pcs) >= In(from, pcs)
<1> DEFINE S == {v \in Writers : wpc[v] \in pcs}
           T == {v \in Writers : wpc'[v] \in pcs}
<1>1. /\ wpc[w] = from /\ wpc'[w] = to
      /\ \A v \in Writers : v # w => wpc'[v] = wpc[v]
  BY DEF Goes
<1>2. IsFiniteSet(S) /\ WritersAt(pcs) = Cardinality(S) /\ WritersAt(pcs)' = Cardinality(T)
  BY WritersAtType DEF WritersAt
<1>3. Cardinality(S) \in Nat
  BY <1>2, FS_CardinalityType
<1>4. IsFiniteSet(S \ {w}) /\ IsFiniteSet(S \union {w})
  BY <1>2, FS_RemoveElement, FS_AddElement
<1>5. CASE from \in pcs /\ to \in pcs
  <2>1. S = T /\ w \in S
    BY <1>1, <1>5
  <2>2. Cardinality(S) # 0
    BY <2>1, <1>2, <1>3, FS_EmptySet
  <2>3. WritersAt(pcs)' = WritersAt(pcs)
    BY <2>1, <1>2
  <2>4. QED
    BY <1>2, <1>3, <1>5, <2>2, <2>3 DEF In
<1>6. CASE from \in pcs /\ to \notin pcs
  <2>1. T = S \ {w} /\ w \in S
    BY <1>1, <1>6
  <2>2. Cardinality(T) = Cardinality(S) - 1
    BY <2>1, <1>2, FS_RemoveElement
  <2>3. Cardinality(S) # 0
    BY <2>1, <1>2, FS_EmptySet
  <2>4. QED
    BY <1>2, <1>3, <1>6, <2>2, <2>3 DEF In
<1>7. CASE from \notin pcs /\ to \in pcs
  <2>1. T = S \union {w} /\ w \notin S
    BY <1>1, <1>7
  <2>2. Cardinality(T) = Cardinality(S) + 1
    BY <2>1, <1>2, FS_AddElement
  <2>3. QED
    BY <1>2, <1>3, <1>7, <2>2 DEF In
<1>8. CASE from \notin pcs /\ to \notin pcs
  <2>1. S = T
    BY <1>1, <1>8
  <2>2. WritersAt(pcs)' = WritersAt(pcs)
    BY <2>1, <1>2
  <2>3. QED
    BY <1>2, <1>3, <1>8, <2>2 DEF In
<1>9. QED
  BY <1>5, <1>6, <1>7, <1>8

\* No writer is anywhere but "idle" at the start, and after a restart.
LEMMA AllIdle ==
  ASSUME NEW pcs, "idle" \notin pcs
  PROVE  /\ wpc = [w \in Writers |-> "idle"] => WritersAt(pcs) = 0
         /\ wpc' = [w \in Writers |-> "idle"] => WritersAt(pcs)' = 0
<1>1. ASSUME wpc = [w \in Writers |-> "idle"] PROVE WritersAt(pcs) = 0
  <2>1. {w \in Writers : wpc[w] \in pcs} = {}
    BY <1>1
  <2>2. QED
    BY <2>1, FS_EmptySet DEF WritersAt
<1>2. ASSUME wpc' = [w \in Writers |-> "idle"] PROVE WritersAt(pcs)' = 0
  <2>1. {w \in Writers : wpc'[w] \in pcs} = {}
    BY <1>2
  <2>2. QED
    BY <2>1, FS_EmptySet DEF WritersAt
<1>3. QED
  BY <1>1, <1>2

-----------------------------------------------------------------------------
(***************************************************************************)
(* The invariant. TypeOK bounds the semaphore by TxMax only together with  *)
(* SlotsConserved, and a give is without loss because its giver holds a    *)
(* place; so the three are proved together.                                *)
(***************************************************************************)
Inv == TypeOK /\ SlotsConserved /\ BuffersAccounted

StartupHoldsSlot   == IF spc = "send" THEN 1 ELSE 0
StartupHoldsBuffer == IF spc \in {"take", "send", "free"} THEN 1 ELSE 0
DoneHoldsSlot      == IF dpc = "give" THEN 1 ELSE 0
DoneHoldsBuffer    == IF dpc # "wait" THEN 1 ELSE 0

\* The two counting invariants, in the terms the proof of each step speaks of.
Slots(sem, inDriver, writers, startup, done, losses) ==
  sem + inDriver + (writers + startup + done) + losses = TxMax

LEMMA InvUnfolded ==
  /\ SlotsConserved <=> Slots(txSem, InDriver, WritersAt(HoldsSlot),
                              StartupHoldsSlot, DoneHoldsSlot, lost)
  /\ BuffersAccounted <=> heap = InDriver + WritersAt(HoldsBuffer)
                                 + StartupHoldsBuffer + DoneHoldsBuffer
  BY DEF SlotsConserved, SlotsHeld, BuffersAccounted, HoldsSlot, HoldsBuffer, Slots,
         StartupHoldsSlot, StartupHoldsBuffer, DoneHoldsSlot, DoneHoldsBuffer

LEMMA InvUnfoldedNext ==
  /\ SlotsConserved' <=> Slots(txSem', InDriver', WritersAt(HoldsSlot)',
                               StartupHoldsSlot', DoneHoldsSlot', lost')
  /\ BuffersAccounted' <=> heap' = InDriver' + WritersAt(HoldsBuffer)'
                                   + StartupHoldsBuffer' + DoneHoldsBuffer'
  BY DEF SlotsConserved, SlotsHeld, BuffersAccounted, HoldsSlot, HoldsBuffer, Slots,
         StartupHoldsSlot, StartupHoldsBuffer, DoneHoldsSlot, DoneHoldsBuffer

\* All the terms are natural numbers.
LEMMA TermsType ==
  ASSUME TypeOK
  PROVE  /\ Len(sending) \in Nat /\ InDriver \in Nat /\ TxMax \in Nat \ {0}
         /\ WritersAt(HoldsSlot) \in Nat /\ WritersAt(HoldsBuffer) \in Nat
         /\ StartupHoldsSlot \in {0, 1} /\ StartupHoldsBuffer \in {0, 1}
         /\ DoneHoldsSlot \in {0, 1} /\ DoneHoldsBuffer \in {0, 1}
<1>1. Len(sending) \in Nat /\ finished \in Nat
  BY LenProperties DEF TypeOK, BuffersOK
<1>2. InDriver \in Nat
  BY <1>1 DEF InDriver
<1>3. WritersAt(HoldsSlot) \in Nat /\ WritersAt(HoldsBuffer) \in Nat
  BY WritersAtType
<1>4. /\ StartupHoldsSlot \in {0, 1} /\ StartupHoldsBuffer \in {0, 1}
      /\ DoneHoldsSlot \in {0, 1} /\ DoneHoldsBuffer \in {0, 1}
  BY DEF StartupHoldsSlot, StartupHoldsBuffer, DoneHoldsSlot, DoneHoldsBuffer
<1>5. QED
  BY <1>1, <1>2, <1>3, <1>4, ConstantsAssumption

\* The driver takes a buffer into its queue.
LEMMA DriverAccepts ==
  ASSUME TypeOK, NEW item \in {"data", "startup"}, sending' = Append(sending, item),
         finished' = finished
  PROVE  InDriver' = InDriver + 1 /\ sending' \in Seq({"data", "startup"})
<1>1. Len(sending') = Len(sending) + 1 /\ sending' \in Seq({"data", "startup"})
  BY AppendProperties DEF TypeOK, BuffersOK
<1>2. QED
  BY <1>1, TermsType DEF InDriver, TypeOK, BuffersOK

-----------------------------------------------------------------------------
LEMMA InitInv == Init => Inv
<1> SUFFICES ASSUME Init PROVE Inv
  OBVIOUS
<1>1. TypeOK
  <2>1. InterfaceOK
    BY DEF Init, InterfaceOK
  <2>2. BuffersOK
    BY ConstantsAssumption, EmptySeq DEF Init, BuffersOK
  <2>3. TasksOK /\ BoundsOK
    BY ConstantsAssumption DEF Init, TasksOK, BoundsOK
  <2>4. QED
    BY <2>1, <2>2, <2>3 DEF TypeOK
<1>2. WritersAt(HoldsSlot) = 0 /\ WritersAt(HoldsBuffer) = 0
  BY AllIdle DEF Init, HoldsSlot, HoldsBuffer
<1>3. InDriver = 0
  BY EmptySeq DEF Init, InDriver
<1>4. SlotsConserved /\ BuffersAccounted
  BY <1>2, <1>3, InvUnfolded, ConstantsAssumption DEF Init, Slots, StartupHoldsSlot,
     StartupHoldsBuffer, DoneHoldsSlot, DoneHoldsBuffer
<1>5. QED
  BY <1>1, <1>4 DEF Inv

\* The host's steps move no place and no buffer: what it reads stays in the
\* driver until sdio_tx_done_task takes it back.
LEMMA HostInv ==
  ASSUME Inv, HostOpen \/ HostClose \/ HostReset \/ HostRead
  PROVE  Inv'
<1>1. UNCHANGED <<txSem, heap, wpc, spc, dpc, lost>>
  BY DEF HostOpen, HostClose, HostReset, HostRead
<1>2. InDriver' = InDriver /\ sending' \in Seq({"data", "startup"}) /\ finished' \in Nat
  <2>1. CASE HostRead
    <3>1. Len(sending') = Len(sending) - 1 /\ sending' \in Seq({"data", "startup"})
      BY <2>1, HeadTailProperties DEF HostRead, Inv, TypeOK, BuffersOK
    <3>2. QED
      BY <2>1, <3>1, TermsType DEF HostRead, InDriver, Inv, TypeOK, BuffersOK
  <2>2. CASE HostOpen \/ HostClose \/ HostReset
    BY <2>2 DEF HostOpen, HostClose, HostReset, driverVars, InDriver, Inv, TypeOK, BuffersOK
  <2>3. QED
    BY <2>1, <2>2
<1>3. TypeOK'
  <2>1. InterfaceOK'
    BY DEF HostOpen, HostClose, HostReset, HostRead, ifVars, Inv, TypeOK, InterfaceOK
  <2>2. BuffersOK' /\ TasksOK'
    BY <1>1, <1>2 DEF Inv, TypeOK, BuffersOK, TasksOK
  <2>3. BoundsOK'
    BY ConstantsAssumption DEF HostOpen, HostClose, HostReset, HostRead, HostEvent,
       boundVars, Inv, TypeOK, BoundsOK
  <2>4. QED
    BY <2>1, <2>2, <2>3 DEF TypeOK
<1>4. SlotsConserved' /\ BuffersAccounted'
  BY <1>1, <1>2 DEF Inv, SlotsConserved, BuffersAccounted, SlotsHeld, WritersAt
<1>5. QED
  BY <1>3, <1>4 DEF Inv

\* A writer's steps.
LEMMA WriteInv ==
  ASSUME Inv, NEW w \in Writers, WriteBegin(w) \/ Write(w)
  PROVE  Inv'
<1>1. /\ UNCHANGED <<spc, dpc, lost, hostVars, ifVars, hostEvents>>
      /\ StartupHoldsSlot' = StartupHoldsSlot /\ StartupHoldsBuffer' = StartupHoldsBuffer
      /\ DoneHoldsSlot' = DoneHoldsSlot /\ DoneHoldsBuffer' = DoneHoldsBuffer
  BY DEF WriteBegin, Write, WriteCheck, WriteAlloc, WriteTake, WriteSend, WriteUndo,
         WriteFree, boundVars, StartupHoldsSlot, StartupHoldsBuffer, DoneHoldsSlot,
         DoneHoldsBuffer
<1>2. InterfaceOK'
  BY <1>1 DEF hostVars, ifVars, Inv, TypeOK, InterfaceOK
<1>3. BoundsOK'
  BY <1>1, ConstantsAssumption DEF WriteBegin, Write, WriteCheck, WriteAlloc, WriteTake,
     WriteSend, WriteUndo, WriteFree, boundVars, Inv, TypeOK, BoundsOK
<1> DEFINE Slot   == WritersAt(HoldsSlot)
           Buffer == WritersAt(HoldsBuffer)
\* Where the writer goes, and what that does to the counts.
<1>4. ASSUME NEW from \in PCs, NEW to \in PCs, Goes(w, from, to)
      PROVE  /\ Slot' = Slot + In(to, HoldsSlot) - In(from, HoldsSlot)
             /\ Slot >= In(from, HoldsSlot)
             /\ Buffer' = Buffer + In(to, HoldsBuffer) - In(from, HoldsBuffer)
             /\ Buffer >= In(from, HoldsBuffer)
             /\ TasksOK'
  <2>1. wpc \in [Writers -> PCs]
    BY DEF Inv, TypeOK, TasksOK, PCs
  <2>2. TasksOK'
    BY <1>1, <1>4, <2>1 DEF Goes, Inv, TypeOK, TasksOK, PCs
  <2>3. QED
    BY <1>4, <2>1, <2>2, WriterMoves
<1>5. /\ txSem \in 0..TxMax /\ heap \in Nat /\ lost \in Nat /\ InDriver \in Nat
      /\ TxMax \in Nat /\ Slot \in Nat /\ Buffer \in Nat
      /\ StartupHoldsSlot \in Nat /\ StartupHoldsBuffer \in Nat
      /\ DoneHoldsSlot \in Nat /\ DoneHoldsBuffer \in Nat
  BY TermsType DEF Inv, TypeOK, BuffersOK
<1>6. /\ Slots(txSem, InDriver, Slot, StartupHoldsSlot, DoneHoldsSlot, lost)
      /\ heap = InDriver + Buffer + StartupHoldsBuffer + DoneHoldsBuffer
  BY InvUnfolded DEF Inv
\* It is enough to see that the counts still add up.
<1>7. ASSUME TasksOK', txSem' \in 0..TxMax, heap' \in Nat,
             sending' \in Seq({"data", "startup"}), finished' \in Nat,
             Slots(txSem', InDriver', Slot', StartupHoldsSlot, DoneHoldsSlot, lost),
             heap' = InDriver' + Buffer' + StartupHoldsBuffer + DoneHoldsBuffer
      PROVE  Inv'
  <2>1. BuffersOK'
    BY <1>1, <1>7 DEF Inv, TypeOK, BuffersOK
  <2>2. SlotsConserved' /\ BuffersAccounted'
    BY <1>1, <1>7, InvUnfoldedNext
  <2>3. QED
    BY <1>2, <1>3, <1>7, <2>1, <2>2 DEF Inv, TypeOK
<1>8. ASSUME UNCHANGED driverVars
      PROVE  /\ InDriver' = InDriver /\ finished' \in Nat
             /\ sending' \in Seq({"data", "startup"})
  BY <1>8 DEF driverVars, InDriver, Inv, TypeOK, BuffersOK
<1> HIDE DEF Slot, Buffer
\* Outside the parts that hold something.
<1>9. CASE WriteBegin(w) \/ WriteCheck(w)
  <2>1. PICK from \in {"idle", "check"}, to \in {"idle", "check", "alloc"} : Goes(w, from, to)
    BY <1>9 DEF WriteBegin, WriteCheck
  <2>2. UNCHANGED <<txSem, heap>> /\ UNCHANGED driverVars
    BY <1>9 DEF WriteBegin, WriteCheck
  <2>3. TasksOK' /\ Slot' = Slot /\ Buffer' = Buffer
    BY <2>1, <1>4, <1>5 DEF In, HoldsSlot, HoldsBuffer, PCs
  <2>4. QED
    BY <2>2, <2>3, <1>5, <1>6, <1>7, <1>8
<1>10. CASE WriteAlloc(w)
  <2>1. UNCHANGED txSem /\ UNCHANGED driverVars
    BY <1>10 DEF WriteAlloc
  <2>2. CASE Goes(w, "alloc", "take") /\ heap' = heap + 1
    <3>1. TasksOK' /\ Slot' = Slot /\ Buffer' = Buffer + 1
      BY <2>2, <1>4, <1>5 DEF In, HoldsSlot, HoldsBuffer, PCs
    <3>2. QED
      BY <2>1, <2>2, <3>1, <1>5, <1>6, <1>7, <1>8
  <2>3. CASE Goes(w, "alloc", "idle") /\ heap' = heap
    <3>1. TasksOK' /\ Slot' = Slot /\ Buffer' = Buffer
      BY <2>3, <1>4, <1>5 DEF In, HoldsSlot, HoldsBuffer, PCs
    <3>2. QED
      BY <2>1, <2>3, <3>1, <1>5, <1>6, <1>7, <1>8
  <2>4. QED
    BY <1>10, <2>2, <2>3 DEF WriteAlloc
<1>11. CASE WriteTake(w)
  <2>1. /\ txSem > 0 /\ txSem' = txSem - 1 /\ Goes(w, "take", "send")
        /\ heap' = heap /\ UNCHANGED driverVars
    BY <1>11 DEF WriteTake
  <2>2. TasksOK' /\ Slot' = Slot + 1 /\ Buffer' = Buffer
    BY <2>1, <1>4, <1>5 DEF In, HoldsSlot, HoldsBuffer, PCs
  <2>3. QED
    BY <2>1, <2>2, <1>5, <1>6, <1>7, <1>8 DEF Slots
<1>12. CASE WriteSend(w)
  <2>1. txSem' = txSem /\ heap' = heap /\ finished' = finished
    BY <1>12 DEF WriteSend
  <2>2. CASE Goes(w, "send", "idle") /\ sending' = Append(sending, "data")
    <3>1. InDriver' = InDriver + 1 /\ sending' \in Seq({"data", "startup"})
      BY <2>1, <2>2, DriverAccepts DEF Inv
    <3>2. TasksOK' /\ Slot' = Slot - 1 /\ Buffer' = Buffer - 1
      BY <2>2, <1>4, <1>5 DEF In, HoldsSlot, HoldsBuffer, PCs
    <3>3. finished' \in Nat
      BY <2>1 DEF Inv, TypeOK, BuffersOK
    <3>4. QED
      BY <2>1, <3>1, <3>2, <3>3, <1>5, <1>6, <1>7 DEF Slots
  <2>3. CASE Goes(w, "send", "undo") /\ sending' = sending
    <3>1. TasksOK' /\ Slot' = Slot /\ Buffer' = Buffer
      BY <2>3, <1>4, <1>5 DEF In, HoldsSlot, HoldsBuffer, PCs
    <3>2. UNCHANGED driverVars
      BY <2>1, <2>3 DEF driverVars
    <3>3. QED
      BY <2>1, <3>1, <3>2, <1>5, <1>6, <1>7, <1>8
  <2>4. QED
    BY <1>12, <2>2, <2>3 DEF WriteSend
<1>13. CASE WriteUndo(w)
  <2>1. GiveTxSem /\ Goes(w, "undo", "free") /\ heap' = heap /\ UNCHANGED driverVars
    BY <1>13 DEF WriteUndo
  <2>2. TasksOK' /\ Slot' = Slot - 1 /\ Slot >= 1 /\ Buffer' = Buffer
    BY <2>1, <1>4, <1>5 DEF In, HoldsSlot, HoldsBuffer, PCs
  <2>3. txSem' = txSem + 1 /\ txSem' \in 0..TxMax
    BY <2>1, <2>2, <1>5, <1>6 DEF GiveTxSem, Slots
  <2>4. QED
    BY <2>1, <2>2, <2>3, <1>5, <1>6, <1>7, <1>8 DEF Slots
<1>14. CASE WriteFree(w)
  <2>1. heap' = heap - 1 /\ Goes(w, "free", "idle") /\ txSem' = txSem /\ UNCHANGED driverVars
    BY <1>14 DEF WriteFree
  <2>2. TasksOK' /\ Slot' = Slot /\ Buffer' = Buffer - 1 /\ Buffer >= 1
    BY <2>1, <1>4, <1>5 DEF In, HoldsSlot, HoldsBuffer, PCs
  <2>3. QED
    BY <2>1, <2>2, <1>5, <1>6, <1>7, <1>8
<1>15. QED
  BY <1>9, <1>10, <1>11, <1>12, <1>13, <1>14 DEF Write

\* The steps of host_reset_task, but for the restart.
LEMMA StartupInv ==
  ASSUME Inv, StartupBegin \/ StartupAlloc \/ StartupTake \/ StartupSend \/ StartupFree
  PROVE  Inv'
<1>1. /\ UNCHANGED <<wpc, dpc, hostVars, boundVars, finished, state, datapath>>
      /\ DoneHoldsSlot' = DoneHoldsSlot /\ DoneHoldsBuffer' = DoneHoldsBuffer
  BY DEF StartupBegin, StartupAlloc, StartupTake, StartupSend, StartupFree,
         ifVars, driverVars, DoneHoldsSlot, DoneHoldsBuffer
<1>2. InterfaceOK' /\ BoundsOK'
  BY <1>1 DEF StartupBegin, StartupAlloc, StartupTake, StartupSend, StartupFree, hostVars,
     ifVars, boundVars, Inv, TypeOK, InterfaceOK, BoundsOK
<1>3. TasksOK'
  BY <1>1 DEF StartupBegin, StartupAlloc, StartupTake, StartupSend, StartupFree,
     Inv, TypeOK, TasksOK
<1> DEFINE Slot   == WritersAt(HoldsSlot)
           Buffer == WritersAt(HoldsBuffer)
<1>4. Slot' = Slot /\ Buffer' = Buffer
  BY <1>1 DEF WritersAt
<1>5. /\ txSem \in 0..TxMax /\ heap \in Nat /\ lost \in Nat /\ InDriver \in Nat
      /\ TxMax \in Nat /\ Slot \in Nat /\ Buffer \in Nat
      /\ DoneHoldsSlot \in Nat /\ DoneHoldsBuffer \in Nat
  BY TermsType DEF Inv, TypeOK, BuffersOK
<1>6. /\ Slots(txSem, InDriver, Slot, StartupHoldsSlot, DoneHoldsSlot, lost)
      /\ heap = InDriver + Buffer + StartupHoldsBuffer + DoneHoldsBuffer
  BY InvUnfolded DEF Inv
<1>7. ASSUME txSem' \in 0..TxMax, heap' \in Nat, lost' \in Nat,
             sending' \in Seq({"data", "startup"}),
             Slots(txSem', InDriver', Slot, StartupHoldsSlot', DoneHoldsSlot, lost'),
             heap' = InDriver' + Buffer + StartupHoldsBuffer' + DoneHoldsBuffer
      PROVE  Inv'
  <2>1. BuffersOK'
    BY <1>1, <1>7 DEF Inv, TypeOK, BuffersOK
  <2>2. SlotsConserved' /\ BuffersAccounted'
    BY <1>1, <1>4, <1>7, InvUnfoldedNext
  <2>3. QED
    BY <1>2, <1>3, <2>1, <2>2 DEF Inv, TypeOK
<1>8. ASSUME sending' = sending
      PROVE  InDriver' = InDriver /\ sending' \in Seq({"data", "startup"})
  BY <1>1, <1>8 DEF InDriver, Inv, TypeOK, BuffersOK
<1> HIDE DEF Slot, Buffer
<1> USE DEF StartupHoldsSlot, StartupHoldsBuffer
<1>9. CASE StartupBegin \/ StartupAlloc
  <2>1. UNCHANGED <<txSem, sending, lost>>
    BY <1>9 DEF StartupBegin, StartupAlloc, driverVars
  <2>2. \/ spc = "wait" /\ spc' = "alloc" /\ heap' = heap
        \/ spc = "alloc" /\ spc' = "take" /\ heap' = heap + 1
    BY <1>9 DEF StartupBegin, StartupAlloc
  <2>3. QED
    BY <2>1, <2>2, <1>5, <1>6, <1>7, <1>8
<1>10. CASE StartupTake
  <2>1. /\ txSem > 0 /\ txSem' = txSem - 1 /\ spc = "take" /\ spc' = "send"
        /\ UNCHANGED <<heap, sending, lost>>
    BY <1>10 DEF StartupTake, driverVars
  <2>2. QED
    BY <2>1, <1>5, <1>6, <1>7, <1>8 DEF Slots
<1>11. CASE StartupSend
  <2>1. spc = "send" /\ UNCHANGED <<txSem, heap>>
    BY <1>11 DEF StartupSend
  <2>2. CASE sending' = Append(sending, "startup") /\ spc' = "wait" /\ lost' = lost
    <3>1. InDriver' = InDriver + 1 /\ sending' \in Seq({"data", "startup"})
      BY <1>1, <2>2, DriverAccepts DEF Inv
    <3>2. QED
      BY <2>1, <2>2, <3>1, <1>5, <1>6, <1>7 DEF Slots
  <2>3. CASE sending' = sending /\ spc' = "free" /\ lost' = lost + 1
    BY <2>1, <2>3, <1>5, <1>6, <1>7, <1>8 DEF Slots
  <2>4. QED
    BY <1>11, <2>2, <2>3 DEF StartupSend
<1>12. CASE StartupFree
  <2>1. /\ spc = "free" /\ spc' = "wait" /\ heap' = heap - 1
        /\ UNCHANGED <<txSem, sending, lost>>
    BY <1>12 DEF StartupFree, driverVars
  <2>2. QED
    BY <2>1, <1>5, <1>6, <1>7, <1>8 DEF Slots
<1>13. QED
  BY <1>9, <1>10, <1>11, <1>12

\* A restart of the co-processor starts from nothing.
LEMMA RestartInv == Inv /\ StartupAssert => Inv'
<1> SUFFICES ASSUME Inv, StartupAssert PROVE Inv'
  OBVIOUS
<1>1. TypeOK'
  <2>1. InterfaceOK'
    BY DEF StartupAssert, Inv, TypeOK, InterfaceOK
  <2>2. BuffersOK'
    BY ConstantsAssumption, EmptySeq DEF StartupAssert, BuffersOK
  <2>3. TasksOK'
    BY DEF StartupAssert, TasksOK
  <2>4. BoundsOK'
    BY ConstantsAssumption DEF StartupAssert, HostEvent, Inv, TypeOK, BoundsOK
  <2>5. QED
    BY <2>1, <2>2, <2>3, <2>4 DEF TypeOK
<1>2. WritersAt(HoldsSlot)' = 0 /\ WritersAt(HoldsBuffer)' = 0
  BY AllIdle DEF StartupAssert, HoldsSlot, HoldsBuffer
<1>3. InDriver' = 0
  BY EmptySeq DEF StartupAssert, InDriver
<1>4. SlotsConserved' /\ BuffersAccounted'
  BY <1>2, <1>3, InvUnfoldedNext, ConstantsAssumption DEF StartupAssert, Slots,
     StartupHoldsSlot, StartupHoldsBuffer, DoneHoldsSlot, DoneHoldsBuffer
<1>5. QED
  BY <1>1, <1>4 DEF Inv

\* sdio_tx_done_task's steps.
LEMMA DoneInv == Inv /\ Done => Inv'
<1> SUFFICES ASSUME Inv, Done PROVE Inv'
  OBVIOUS
<1>1. /\ UNCHANGED <<wpc, spc, hostVars, boundVars, ifVars, sending, lost>>
      /\ StartupHoldsSlot' = StartupHoldsSlot /\ StartupHoldsBuffer' = StartupHoldsBuffer
  BY DEF Done, DoneGet, DoneGive, DoneFree, driverVars, StartupHoldsSlot, StartupHoldsBuffer
<1>2. InterfaceOK' /\ BoundsOK'
  BY <1>1 DEF hostVars, ifVars, boundVars, Inv, TypeOK, InterfaceOK, BoundsOK
<1>3. TasksOK'
  BY <1>1 DEF Done, DoneGet, DoneGive, DoneFree, Inv, TypeOK, TasksOK
<1> DEFINE Slot   == WritersAt(HoldsSlot)
           Buffer == WritersAt(HoldsBuffer)
<1>4. Slot' = Slot /\ Buffer' = Buffer
  BY <1>1 DEF WritersAt
<1>5. /\ txSem \in 0..TxMax /\ heap \in Nat /\ lost \in Nat /\ InDriver \in Nat
      /\ TxMax \in Nat /\ Slot \in Nat /\ Buffer \in Nat /\ finished \in Nat
      /\ Len(sending) \in Nat /\ StartupHoldsSlot \in Nat /\ StartupHoldsBuffer \in Nat
  BY TermsType DEF Inv, TypeOK, BuffersOK
<1>6. /\ Slots(txSem, InDriver, Slot, StartupHoldsSlot, DoneHoldsSlot, lost)
      /\ heap = InDriver + Buffer + StartupHoldsBuffer + DoneHoldsBuffer
  BY InvUnfolded DEF Inv
<1>7. ASSUME txSem' \in 0..TxMax, heap' \in Nat, finished' \in Nat,
             Slots(txSem', InDriver', Slot, StartupHoldsSlot, DoneHoldsSlot', lost),
             heap' = InDriver' + Buffer + StartupHoldsBuffer + DoneHoldsBuffer'
      PROVE  Inv'
  <2>1. BuffersOK'
    BY <1>1, <1>7 DEF Inv, TypeOK, BuffersOK
  <2>2. SlotsConserved' /\ BuffersAccounted'
    BY <1>1, <1>4, <1>7, InvUnfoldedNext
  <2>3. QED
    BY <1>2, <1>3, <2>1, <2>2 DEF Inv, TypeOK
<1> HIDE DEF Slot, Buffer
<1> USE DEF DoneHoldsSlot, DoneHoldsBuffer
<1>8. CASE DoneGet
  <2>1. /\ dpc = "wait" /\ dpc' = "give" /\ finished > 0 /\ finished' = finished - 1
        /\ UNCHANGED <<txSem, heap>>
    BY <1>8 DEF DoneGet
  <2>2. InDriver' = InDriver - 1
    BY <1>1, <1>5, <2>1 DEF InDriver
  <2>3. QED
    BY <2>1, <2>2, <1>5, <1>6, <1>7 DEF Slots
<1>9. CASE DoneGive
  <2>1. dpc = "give" /\ dpc' = "free" /\ GiveTxSem /\ UNCHANGED <<heap, finished>>
    BY <1>9 DEF DoneGive, driverVars
  <2>2. InDriver' = InDriver
    BY <1>1, <2>1 DEF InDriver
  <2>3. txSem' = txSem + 1 /\ txSem' \in 0..TxMax
    BY <2>1, <1>5, <1>6 DEF GiveTxSem, Slots
  <2>4. QED
    BY <2>1, <2>2, <2>3, <1>5, <1>6, <1>7 DEF Slots
<1>10. CASE DoneFree
  <2>1. dpc = "free" /\ dpc' = "wait" /\ heap' = heap - 1 /\ UNCHANGED <<txSem, finished>>
    BY <1>10 DEF DoneFree, driverVars
  <2>2. InDriver' = InDriver
    BY <1>1, <2>1 DEF InDriver
  <2>3. QED
    BY <2>1, <2>2, <1>5, <1>6, <1>7 DEF Slots
<1>11. QED
  BY <1>8, <1>9, <1>10 DEF Done

LEMMA NextInv == Inv /\ [Next]_vars => Inv'
<1> SUFFICES ASSUME Inv, [Next]_vars PROVE Inv'
  OBVIOUS
<1>1. CASE UNCHANGED vars
  <2>1. TypeOK'
    BY <1>1 DEF vars, boundVars, hostVars, ifVars, driverVars, Inv, TypeOK, InterfaceOK,
                BuffersOK, TasksOK, BoundsOK
  <2>2. SlotsConserved' /\ BuffersAccounted'
    BY <1>1 DEF vars, driverVars, Inv, SlotsConserved, BuffersAccounted, SlotsHeld,
                InDriver, WritersAt
  <2>3. QED
    BY <2>1, <2>2 DEF Inv
<1>2. CASE Next
  BY <1>2, HostInv, WriteInv, StartupInv, RestartInv, DoneInv DEF Next, Startup
<1>3. QED
  BY <1>1, <1>2

-----------------------------------------------------------------------------
\* sdio_send_queue_sem never leaves the bounds it was created with, and the
\* other variables keep their types.
THEOREM TypeCorrect == Spec => []TypeOK
<1>1. Inv => TypeOK
  BY DEF Inv
<1>2. QED
  BY <1>1, InitInv, NextInv, PTL DEF Spec

\* Whatever fails, and however many tasks send: a place of the driver's queue
\* is lost only by a startup event that the driver refuses.
THEOREM SlotsCorrect == Spec => []SlotsConserved
<1>1. Inv => SlotsConserved
  BY DEF Inv
<1>2. QED
  BY <1>1, InitInv, NextInv, PTL DEF Spec

\* No transport buffer is leaked or freed twice.
THEOREM BuffersCorrect == Spec => []BuffersAccounted
<1>1. Inv => BuffersAccounted
  BY DEF Inv
<1>2. QED
  BY <1>1, InitInv, NextInv, PTL DEF Spec

\* A task that has taken sdio_send_queue_sem finds room in the driver's queue:
\* its own place is counted, so the driver holds fewer than TxMax buffers.
THEOREM RoomCorrect == Spec => []DriverHasRoom
<1>1. Inv => DriverHasRoom
  <2> SUFFICES ASSUME Inv PROVE DriverHasRoom
    OBVIOUS
  <2>1. /\ txSem \in 0..TxMax /\ lost \in Nat /\ InDriver \in Nat /\ TxMax \in Nat
        /\ WritersAt(HoldsSlot) \in Nat /\ DoneHoldsSlot \in Nat /\ StartupHoldsSlot \in Nat
    BY TermsType DEF Inv, TypeOK, BuffersOK
  <2>2. Slots(txSem, InDriver, WritersAt(HoldsSlot), StartupHoldsSlot, DoneHoldsSlot, lost)
    BY InvUnfolded DEF Inv
  <2>3. spc = "send" => InDriver < TxMax
    BY <2>1, <2>2 DEF Slots, StartupHoldsSlot
  <2>4. ASSUME NEW w \in Writers, wpc[w] = "send" PROVE InDriver < TxMax
    <3>1. IsFiniteSet({v \in Writers : wpc[v] \in HoldsSlot})
      BY WritersAtType
    <3>2. w \in {v \in Writers : wpc[v] \in HoldsSlot}
      BY <2>4 DEF HoldsSlot
    <3>3. WritersAt(HoldsSlot) # 0
      BY <3>1, <3>2, FS_EmptySet DEF WritersAt
    <3>4. \A sem, inDriver, writers, startup, done, losses \in Nat :
            Slots(sem, inDriver, writers, startup, done, losses) /\ writers # 0
              => inDriver < TxMax
      BY <2>1 DEF Slots
    <3>5. QED
      BY <2>1, <2>2, <3>3, <3>4
  <2>5. QED
    BY <2>3, <2>4 DEF DriverHasRoom
<1>2. QED
  BY <1>1, InitInv, NextInv, PTL DEF Spec

-----------------------------------------------------------------------------
(***************************************************************************)
(* What is left when everything has come to rest: the safety part of       *)
(* HostIsGreeted and WritersReturn.                                        *)
(***************************************************************************)
\* No task can move, and a host that is up has read all there is to read.
Stopped ==
  /\ hostUp => sending = <<>>
  /\ \A w \in Writers : /\ wpc[w] \in {"idle", "take", "send"}
                        /\ wpc[w] = "take" => txSem = 0
                        /\ wpc[w] = "send" => InDriver >= TxMax
  /\ spc \in {"wait", "take", "send"}
  /\ spc = "wait" => resetSem = 0
  /\ spc = "take" => txSem = 0
  /\ spc = "send" => InDriver >= TxMax
  /\ dpc = "wait" /\ finished = 0

\* The startup event a host waits for is due, under way, or was refused.
GreetingUnderWay ==
  hostUp /\ ~greeted =>
    \/ resetSem = 1
    \/ spc \in {"alloc", "take", "send"}
    \/ \E i \in 1..Len(sending) : sending[i] = "startup"
    \/ lost > 0

\* With a host that is up, the transmit half comes to rest with nothing left to
\* do: no writer and no startup event waits, and the host has been greeted. But
\* for refused startup events: one may leave the host without a greeting, and
\* TxMax of them leave no place to send with.
RestsWhenDone ==
  Stopped /\ hostUp =>
    \/ lost = TxMax
    \/ /\ \A w \in Writers : wpc[w] = "idle"
       /\ spc = "wait"
       /\ greeted \/ lost > 0

LEMMA GreetingSent ==
  ASSUME NEW x \in {"data", "startup"}, sending \in Seq({"data", "startup"}),
         sending' = Append(sending, x)
  PROVE  /\ x = "startup" => \E i \in 1..Len(sending') : sending'[i] = "startup"
         /\ (\E i \in 1..Len(sending) : sending[i] = "startup")
              => \E i \in 1..Len(sending') : sending'[i] = "startup"
<1>1. /\ Len(sending) \in Nat /\ Len(sending') = Len(sending) + 1
      /\ \A i \in 1..Len(sending) : sending'[i] = sending[i]
      /\ sending'[Len(sending) + 1] = x
  BY AppendProperties, LenProperties
<1>2. Len(sending) + 1 \in 1..Len(sending')
  BY <1>1
<1>3. \A i \in 1..Len(sending) : i \in 1..Len(sending')
  BY <1>1
<1>4. QED
  BY <1>1, <1>2, <1>3

LEMMA GreetingNext == TypeOK /\ GreetingUnderWay /\ [Next]_vars => GreetingUnderWay'
<1> SUFFICES ASSUME TypeOK, GreetingUnderWay, [Next]_vars, hostUp', ~greeted'
             PROVE  \/ resetSem' = 1
                    \/ spc' \in {"alloc", "take", "send"}
                    \/ \E i \in 1..Len(sending') : sending'[i] = "startup"
                    \/ lost' > 0
  BY DEF GreetingUnderWay
<1>1. sending \in Seq({"data", "startup"}) /\ lost \in Nat
  BY DEF TypeOK, BuffersOK
<1>2. CASE HostOpen \/ HostClose \/ HostReset \/ StartupAssert
  BY <1>2 DEF HostOpen, HostClose, HostReset, StartupAssert
<1>3. CASE HostRead
  <2>1. /\ hostUp /\ ~greeted /\ Head(sending) # "startup" /\ sending # <<>>
        /\ sending' = Tail(sending)
        /\ UNCHANGED <<resetSem, spc, lost>>
    BY <1>3 DEF HostRead, ifVars
  <2>2. /\ Head(sending) = sending[1] /\ Len(sending) \in Nat
        /\ Len(sending') = Len(sending) - 1
        /\ \A i \in 1..Len(sending') : sending'[i] = sending[i + 1]
    BY <1>1, <2>1, HeadTailProperties, EmptySeq
  <2>3. ASSUME NEW i \in 1..Len(sending), sending[i] = "startup"
        PROVE  \E j \in 1..Len(sending') : sending'[j] = "startup"
    <3>1. i # 1
      BY <2>1, <2>2, <2>3
    <3>2. i - 1 \in 1..Len(sending') /\ (i - 1) + 1 = i
      BY <2>2, <3>1
    <3>3. sending'[i - 1] = "startup"
      BY <2>2, <2>3, <3>2
    <3>4. QED
      BY <3>2, <3>3
  <2>4. QED
    BY <2>1, <2>3 DEF GreetingUnderWay
<1>4. CASE \E w \in Writers : WriteBegin(w) \/ Write(w)
  <2>1. PICK w \in Writers : WriteBegin(w) \/ Write(w)
    BY <1>4
  <2>2. UNCHANGED <<hostUp, greeted, resetSem, spc, lost>>
    BY <2>1 DEF WriteBegin, Write, WriteCheck, WriteAlloc, WriteTake, WriteSend, WriteUndo,
                WriteFree, hostVars, ifVars
  <2>3. sending' = sending \/ sending' = Append(sending, "data")
    BY <2>1 DEF WriteBegin, Write, WriteCheck, WriteAlloc, WriteTake, WriteSend, WriteUndo,
                WriteFree, driverVars
  <2>4. QED
    BY <1>1, <2>2, <2>3, GreetingSent DEF GreetingUnderWay
<1>5. CASE StartupBegin \/ StartupAlloc \/ StartupTake
  BY <1>5 DEF StartupBegin, StartupAlloc, StartupTake
<1>6. CASE StartupSend
  <2>1. lost' = lost + 1 \/ sending' = Append(sending, "startup")
    BY <1>6 DEF StartupSend
  <2>2. QED
    BY <1>1, <2>1, GreetingSent
<1>7. CASE StartupFree \/ Done \/ UNCHANGED vars
  <2>1. UNCHANGED <<hostUp, greeted, resetSem, sending, lost>>
    BY <1>7 DEF StartupFree, Done, DoneGet, DoneGive, DoneFree, vars, hostVars, ifVars,
                driverVars
  <2>2. spc \in {"alloc", "take", "send"} => spc' = spc
    BY <1>7 DEF StartupFree, Done, DoneGet, DoneGive, DoneFree, vars
  <2>3. QED
    BY <2>1, <2>2 DEF GreetingUnderWay
<1>8. QED
  BY <1>2, <1>3, <1>4, <1>5, <1>6, <1>7 DEF Next, Startup

\* Nothing but startup events that the driver has refused keeps a writer or the
\* startup event waiting, or a host that is up without its greeting, however
\* many tasks send and whenever the host comes and goes.
THEOREM RestCorrect == Spec => []RestsWhenDone
<1>1. Init => GreetingUnderWay
  BY DEF Init, GreetingUnderWay
<1>2. Inv /\ [Next]_vars => TypeOK
  BY DEF Inv
<1>3. Inv /\ GreetingUnderWay => RestsWhenDone
  <2> SUFFICES ASSUME Inv, GreetingUnderWay, Stopped, hostUp, lost # TxMax
               PROVE  /\ \A w \in Writers : wpc[w] = "idle"
                      /\ spc = "wait"
                      /\ greeted \/ lost > 0
    BY DEF RestsWhenDone
  <2>1. sending = <<>> /\ finished = 0 /\ dpc = "wait" /\ TxMax \in Nat \ {0}
    BY ConstantsAssumption DEF Stopped
  <2>2. InDriver = 0
    BY <2>1, EmptySeq DEF InDriver
  <2>3. spc # "send" /\ \A w \in Writers : wpc[w] \notin HoldsSlot
    BY <2>1, <2>2 DEF Stopped, HoldsSlot
  <2>4. WritersAt(HoldsSlot) = 0
    <3>1. {w \in Writers : wpc[w] \in HoldsSlot} = {}
      BY <2>3
    <3>2. QED
      BY <3>1, FS_EmptySet DEF WritersAt
  <2>5. txSem + lost = TxMax /\ txSem \in Nat /\ lost \in Nat
    <3>1. StartupHoldsSlot = 0 /\ DoneHoldsSlot = 0
      BY <2>1, <2>3 DEF StartupHoldsSlot, DoneHoldsSlot
    <3>2. txSem \in Nat /\ lost \in Nat
      BY <2>1 DEF Inv, TypeOK, BuffersOK
    <3>3. Slots(txSem, 0, 0, 0, 0, lost)
      BY <2>2, <2>4, <3>1, InvUnfolded DEF Inv
    <3>4. QED
      BY <3>2, <3>3 DEF Slots
  <2>6. txSem # 0
    BY <2>1, <2>5
  <2>7. spc = "wait" /\ resetSem = 0 /\ \A w \in Writers : wpc[w] = "idle"
    BY <2>3, <2>6 DEF Stopped, HoldsSlot
  <2>8. greeted \/ lost > 0
    BY <2>1, <2>7, EmptySeq DEF GreetingUnderWay
  <2>9. QED
    BY <2>7, <2>8
<1>4. QED
  BY <1>1, <1>2, <1>3, InitInv, NextInv, GreetingNext, PTL DEF Spec
=============================================================================
