------------------------------- MODULE SdioTx -------------------------------
(***************************************************************************)
(* The transmit half of the SDIO transport, with the host's control of it. *)
(*                                                                         *)
(*   Writers             the tasks that send to the host: process_tx_pkt,  *)
(*                       called in their own context, and sdio_write;      *)
(*   host_reset_task     sends the startup event, generate_startup_event,  *)
(*                       each time the host opens the data path;           *)
(*   sdio_tx_done_task   takes transmitted buffers back from the driver;   *)
(*   the host            opens and closes the data path and resets the     *)
(*                       interface: event_cb, in interrupt context.        *)
(*                                                                         *)
(* The counting semaphore sdio_send_queue_sem stands for the free places   *)
(* in the driver's send queue: one is taken before a buffer is queued and  *)
(* given when it comes back. The buffers themselves are allocated by the   *)
(* sender and freed by sdio_tx_done_task.                                  *)
(*                                                                         *)
(* The build is the default one: no host power save, so that the interface *)
(* never leaves ACTIVE and DEACTIVE once it has been initialised.          *)
(***************************************************************************)
EXTENDS Integers, Sequences, FiniteSets

CONSTANTS
  Writers,        \* the tasks that send to the host
  TxMax,          \* SDIO_DRIVER_TX_QUEUE_SIZE
  SendMayFail,    \* whether sdio_slave_send_queue may return an error
  AllocMayFail,   \* whether the heap may be exhausted
  MaxPkts,        \* bound: packets sent to the host
  MaxEvents       \* bound: events of the host, and restarts of the co-processor

ASSUME ConstantsAssumption ==
  /\ IsFiniteSet(Writers)
  /\ TxMax \in Nat \ {0}
  /\ SendMayFail \in BOOLEAN /\ AllocMayFail \in BOOLEAN
  /\ MaxPkts \in Nat /\ MaxEvents \in Nat

VARIABLES
  pkts, hostEvents,    \* bounds: packets begun, events and restarts
  hostUp,              \* the host reads what the co-processor sends
  greeted,             \* history: it has read a startup event since it opened
  state, datapath,     \* if_handle_g.state, datapath
  resetSem,            \* host_reset_sem, a binary semaphore
  txSem,               \* the count of sdio_send_queue_sem
  sending, finished,   \* the driver's send queue, and what it has transmitted
  heap,                \* transport buffers allocated and not yet freed
  wpc,                 \* where each writer is
  spc,                 \* where host_reset_task is
  dpc,                 \* where sdio_tx_done_task is
  lost                 \* history: startup events the driver refused

boundVars  == <<pkts, hostEvents>>
hostVars   == <<hostUp, greeted>>
ifVars     == <<state, datapath, resetSem>>
driverVars == <<sending, finished>>
vars == <<boundVars, hostVars, ifVars, txSem, driverVars, heap, wpc, spc, dpc, lost>>

-----------------------------------------------------------------------------
\* What the driver holds: in its queue or transmitted, and not taken back.
InDriver == Len(sending) + finished

Init ==
  /\ pkts = 0 /\ hostEvents = 0
  /\ hostUp = FALSE /\ greeted = FALSE
  /\ state = "active" /\ datapath = FALSE /\ resetSem = 0
  /\ txSem = TxMax /\ sending = <<>> /\ finished = 0 /\ heap = 0
  /\ wpc = [w \in Writers |-> "idle"] /\ spc = "wait" /\ dpc = "wait"
  /\ lost = 0

-----------------------------------------------------------------------------
(***************************************************************************)
(* The host, and event_cb with event_handler for its events. They run in   *)
(* interrupt context, that is, in one step for the tasks.                  *)
(***************************************************************************)
HostEvent == hostEvents < MaxEvents /\ hostEvents' = hostEvents + 1

\* Mutant: the startup event is sent only if the interface was inactive.
HostOpenOfInactive ==
  /\ HostEvent
  /\ hostUp' = TRUE /\ greeted' = FALSE
  /\ state' = "active" /\ datapath' = TRUE
  /\ resetSem' = IF state = "deactive" THEN 1 ELSE resetSem
  /\ UNCHANGED <<pkts, txSem, driverVars, heap, wpc, spc, dpc, lost>>

\* ESP_OPEN_DATA_PATH: sdio_reset makes the state DEACTIVE and event_handler
\* makes it ACTIVE again.
HostOpen ==
  /\ HostEvent
  /\ hostUp' = TRUE /\ greeted' = FALSE
  /\ state' = "active" /\ datapath' = TRUE
  /\ resetSem' = 1
  /\ UNCHANGED <<pkts, txSem, driverVars, heap, wpc, spc, dpc, lost>>

\* ESP_CLOSE_DATA_PATH.
HostClose ==
  /\ HostEvent
  /\ hostUp
  /\ hostUp' = FALSE
  /\ datapath' = FALSE /\ state' = "deactive"
  /\ UNCHANGED <<pkts, greeted, resetSem, txSem, driverVars, heap, wpc, spc, dpc, lost>>

\* ESP_RESET: the host reboots. The data path stays open, what the driver has
\* queued stays queued.
HostReset ==
  /\ HostEvent
  /\ hostUp' = FALSE
  /\ state' = "deactive"
  /\ UNCHANGED <<pkts, greeted, datapath, resetSem, txSem, driverVars, heap, wpc, spc, dpc, lost>>

\* The host reads the next packet.
HostRead ==
  /\ hostUp
  /\ sending # <<>>
  /\ sending' = Tail(sending)
  /\ finished' = finished + 1
  /\ greeted' = (greeted \/ Head(sending) = "startup")
  /\ UNCHANGED <<boundVars, hostUp, ifVars, txSem, heap, wpc, spc, dpc, lost>>

-----------------------------------------------------------------------------
(***************************************************************************)
(* A writer: process_tx_pkt and sdio_write.                                *)
(***************************************************************************)
Goes(w, from, to) == wpc[w] = from /\ wpc' = [wpc EXCEPT ![w] = to]

\* xSemaphoreGive has no effect at the semaphore's maximum.
GiveTxSem == txSem' = IF txSem < TxMax THEN txSem + 1 ELSE txSem

\* "Data path stopped": the packet is dropped, after a delay.
WriteBegin(w) ==
  /\ pkts < MaxPkts
  /\ pkts' = pkts + 1
  /\ Goes(w, "idle", IF datapath THEN "check" ELSE "idle")
  /\ UNCHANGED <<hostEvents, hostVars, ifVars, txSem, driverVars, heap, spc, dpc, lost>>

\* "Driver state not active, drop".
WriteCheck(w) ==
  /\ Goes(w, "check", IF state = "active" THEN "alloc" ELSE "idle")
  /\ UNCHANGED <<boundVars, hostVars, ifVars, txSem, driverVars, heap, spc, dpc, lost>>

WriteAlloc(w) ==
  /\ \/ Goes(w, "alloc", "take") /\ heap' = heap + 1
     \/ AllocMayFail /\ Goes(w, "alloc", "idle") /\ UNCHANGED heap
  /\ UNCHANGED <<boundVars, hostVars, ifVars, txSem, driverVars, spc, dpc, lost>>

\* Mutant: the semaphore is not waited for.
WriteTakeAtOnce(w) ==
  /\ txSem' = txSem - 1
  /\ Goes(w, "take", "send")
  /\ UNCHANGED <<boundVars, hostVars, ifVars, driverVars, heap, spc, dpc, lost>>

\* xSemaphoreTake(sdio_send_queue_sem, portMAX_DELAY).
WriteTake(w) ==
  /\ txSem > 0
  /\ txSem' = txSem - 1
  /\ Goes(w, "take", "send")
  /\ UNCHANGED <<boundVars, hostVars, ifVars, driverVars, heap, spc, dpc, lost>>

\* sdio_slave_send_queue(..., portMAX_DELAY) waits for room, or fails.
WriteSend(w) ==
  /\ \/ /\ InDriver < TxMax
        /\ Goes(w, "send", "idle")
        /\ sending' = Append(sending, "data")
     \/ SendMayFail /\ Goes(w, "send", "undo") /\ UNCHANGED sending
  /\ UNCHANGED <<boundVars, hostVars, ifVars, txSem, finished, heap, spc, dpc, lost>>

\* Mutant: the place in the queue is not given back.
WriteUndoNothing(w) ==
  /\ Goes(w, "undo", "free")
  /\ UNCHANGED <<boundVars, hostVars, ifVars, txSem, driverVars, heap, spc, dpc, lost>>

\* "sdio slave transmit error": the semaphore is given back, ...
WriteUndo(w) ==
  /\ Goes(w, "undo", "free")
  /\ GiveTxSem
  /\ UNCHANGED <<boundVars, hostVars, ifVars, driverVars, heap, spc, dpc, lost>>

\* Mutant: the buffer is not freed.
WriteFreeNothing(w) ==
  /\ Goes(w, "free", "idle")
  /\ UNCHANGED <<boundVars, hostVars, ifVars, txSem, driverVars, heap, spc, dpc, lost>>

\* ... and the buffer freed.
WriteFree(w) ==
  /\ Goes(w, "free", "idle")
  /\ heap' = heap - 1
  /\ UNCHANGED <<boundVars, hostVars, ifVars, txSem, driverVars, spc, dpc, lost>>

Write(w) ==
  \/ WriteCheck(w) \/ WriteAlloc(w) \/ WriteTake(w) \/ WriteSend(w)
  \/ WriteUndo(w) \/ WriteFree(w)

-----------------------------------------------------------------------------
(***************************************************************************)
(* host_reset_task: generate_startup_event.                                *)
(***************************************************************************)
StartupBegin ==
  /\ spc = "wait"
  /\ resetSem = 1
  /\ resetSem' = 0
  /\ spc' = "alloc"
  /\ UNCHANGED <<boundVars, hostVars, state, datapath, txSem, driverVars, heap, wpc, dpc, lost>>

StartupAlloc ==
  /\ spc = "alloc"
  /\ heap' = heap + 1
  /\ spc' = "take"
  /\ UNCHANGED <<boundVars, hostVars, ifVars, txSem, driverVars, wpc, dpc, lost>>

\* assert(buf_handle.payload): the co-processor restarts, and nothing survives.
StartupAssert ==
  /\ spc = "alloc"
  /\ AllocMayFail
  /\ HostEvent
  /\ hostUp' = FALSE
  /\ state' = "active" /\ datapath' = FALSE /\ resetSem' = 0
  /\ txSem' = TxMax /\ sending' = <<>> /\ finished' = 0 /\ heap' = 0
  /\ wpc' = [w \in Writers |-> "idle"] /\ spc' = "wait" /\ dpc' = "wait"
  /\ lost' = 0
  /\ UNCHANGED <<pkts, greeted>>

\* Mutant: the startup event goes past the semaphore.
StartupTakeNothing ==
  /\ spc = "take"
  /\ spc' = "send"
  /\ UNCHANGED <<boundVars, hostVars, ifVars, txSem, driverVars, heap, wpc, dpc, lost>>

StartupTake ==
  /\ spc = "take"
  /\ txSem > 0
  /\ txSem' = txSem - 1
  /\ spc' = "send"
  /\ UNCHANGED <<boundVars, hostVars, ifVars, driverVars, heap, wpc, dpc, lost>>

StartupSend ==
  /\ spc = "send"
  /\ \/ /\ InDriver < TxMax
        /\ sending' = Append(sending, "startup")
        /\ spc' = "wait"
        /\ UNCHANGED lost
     \/ /\ SendMayFail
        /\ spc' = "free"
        /\ lost' = lost + 1
        /\ UNCHANGED sending
  /\ UNCHANGED <<boundVars, hostVars, ifVars, txSem, finished, heap, wpc, dpc>>

\* "sdio slave tx error": the buffer is freed, and that is all.
StartupFree ==
  /\ spc = "free"
  /\ heap' = heap - 1
  /\ spc' = "wait"
  /\ UNCHANGED <<boundVars, hostVars, ifVars, txSem, driverVars, wpc, dpc, lost>>

Startup ==
  \/ StartupBegin \/ StartupAlloc \/ StartupAssert
  \/ StartupTake \/ StartupSend \/ StartupFree

-----------------------------------------------------------------------------
(***************************************************************************)
(* sdio_tx_done_task                                                       *)
(***************************************************************************)
\* sdio_slave_send_get_finished
DoneGet ==
  /\ dpc = "wait"
  /\ finished > 0
  /\ finished' = finished - 1
  /\ dpc' = "give"
  /\ UNCHANGED <<boundVars, hostVars, ifVars, txSem, sending, heap, wpc, spc, lost>>

\* Mutant: the semaphore is not given.
DoneGiveNothing ==
  /\ dpc = "give"
  /\ dpc' = "free"
  /\ UNCHANGED <<boundVars, hostVars, ifVars, txSem, driverVars, heap, wpc, spc, lost>>

DoneGive ==
  /\ dpc = "give"
  /\ GiveTxSem
  /\ dpc' = "free"
  /\ UNCHANGED <<boundVars, hostVars, ifVars, driverVars, heap, wpc, spc, lost>>

DoneFree ==
  /\ dpc = "free"
  /\ heap' = heap - 1
  /\ dpc' = "wait"
  /\ UNCHANGED <<boundVars, hostVars, ifVars, txSem, driverVars, wpc, spc, lost>>

Done == DoneGet \/ DoneGive \/ DoneFree

-----------------------------------------------------------------------------
Next ==
  \/ HostOpen \/ HostClose \/ HostReset \/ HostRead
  \/ \E w \in Writers : WriteBegin(w) \/ Write(w)
  \/ Startup \/ Done

Spec == Init /\ [][Next]_vars

\* The tasks have the same priority and are time sliced; a host that has opened
\* the data path reads what is there. Opening, closing, resetting and sending
\* are nobody's duty.
FairSpec ==
  /\ Spec
  /\ WF_vars(HostRead) /\ WF_vars(Startup) /\ WF_vars(Done)
  /\ \A w \in Writers : WF_vars(Write(w))

-----------------------------------------------------------------------------
(***************************************************************************)
(* Properties.                                                             *)
(***************************************************************************)
InterfaceOK ==
  /\ hostUp \in BOOLEAN /\ greeted \in BOOLEAN /\ datapath \in BOOLEAN
  /\ state \in {"deactive", "active"} /\ resetSem \in {0, 1}

BuffersOK ==
  /\ txSem \in 0..TxMax
  /\ sending \in Seq({"data", "startup"}) /\ finished \in Nat
  /\ heap \in Nat /\ lost \in Nat

TasksOK ==
  /\ wpc \in [Writers -> {"idle", "check", "alloc", "take", "send", "undo", "free"}]
  /\ spc \in {"wait", "alloc", "take", "send", "free"}
  /\ dpc \in {"wait", "give", "free"}

BoundsOK == pkts \in 0..MaxPkts /\ hostEvents \in 0..MaxEvents

\* The variables keep their types; in particular the semaphore stays within
\* the bounds it was created with.
TypeOK == InterfaceOK /\ BuffersOK /\ TasksOK /\ BoundsOK

WritersAt(pcs) == Cardinality({w \in Writers : wpc[w] \in pcs})

\* Places of the semaphore that a task has taken and neither filled nor given.
SlotsHeld ==
  WritersAt({"send", "undo"}) + (IF spc = "send" THEN 1 ELSE 0)
                              + (IF dpc = "give" THEN 1 ELSE 0)

\* Every place of the driver's queue is free, filled, or in one task's hands.
\* Only a startup event that the driver refuses loses one.
SlotsConserved == txSem + InDriver + SlotsHeld + lost = TxMax

\* Having taken the semaphore, no task finds the driver's queue full: it never
\* waits inside sdio_slave_send_queue, whatever has failed before.
DriverHasRoom ==
  /\ spc = "send" => InDriver < TxMax
  /\ \A w \in Writers : wpc[w] = "send" => InDriver < TxMax

\* Each transport buffer that is allocated is in the driver or in the hands of
\* one task: none is leaked and none freed twice, on any of the error paths.
BuffersAccounted ==
  heap = InDriver + WritersAt({"take", "send", "undo", "free"})
         + (IF spc \in {"take", "send", "free"} THEN 1 ELSE 0)
         + (IF dpc # "wait" THEN 1 ELSE 0)

\* A host that opens the data path, and stays, gets the startup event, whatever
\* was queued for the host before it and however many tasks send, unless the
\* driver has refused one.
HostIsGreeted == (hostUp /\ ~greeted) ~> (greeted \/ ~hostUp \/ lost > 0)

\* A task that sends to a host that reads does not wait for ever, while there is
\* a place that no refused startup event has lost.
WritersReturn ==
  \A w \in Writers : (wpc[w] = "take") ~> (wpc[w] # "take" \/ ~hostUp \/ lost = TxMax)
=============================================================================
