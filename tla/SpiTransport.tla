----------------------------- MODULE SpiTransport -----------------------------
(***************************************************************************)
(* The SPI full-duplex transport. The host is the master: it clocks a      *)
(* transaction when the handshake line is high, which is while the driver  *)
(* has one loaded, and when it has a packet itself or the data-ready line  *)
(* is high. Each transaction carries a packet or a dummy in both           *)
(* directions, and when it is over the next one is loaded.                 *)
(*                                                                         *)
(*   Senders   the tasks in process_tx_pkt (esp_spi_write) and             *)
(*             host_reset_task (generate_startup_event) queue packets,     *)
(*             give spi_tx_sem and raise the data-ready line;              *)
(*   Post      spi_transaction_post_process_task takes what the driver has *)
(*             finished, loads the next transaction, lowering the line     *)
(*             when it finds no packet, and queues what was received;      *)
(*   Recv      recv_task in esp_spi_read.                                  *)
(*                                                                         *)
(* generate_startup_event loads a transaction of its own, so that each     *)
(* startup event adds one to those that circulate.                         *)
(* A packet is the queue it goes through. What recv_task does to read one  *)
(* is a single step here; SdioRx models the same code in detail.           *)
(***************************************************************************)
EXTENDS Integers, Sequences, FiniteSets

CONSTANTS
  Writers,      \* tasks that call process_tx_pkt
  Post, Reset,  \* spi_transaction_post_process_task, host_reset_task
  TxSize,       \* SPI_TX_QUEUE_SIZE
  RxSize,       \* SPI_RX_QUEUE_SIZE
  DriverSize,   \* SPI_QUEUE_SIZE
  TxKinds,      \* bound: the queues that the packets written go through
  RxKinds,      \* bound: the same for the packets of the host
  MaxPkts,      \* bound: packets written
  MaxHostPkts,  \* bound: packets the host sends, those of a wake-up among them
  MaxWakes,     \* bound: times the host says it woke up
  AllocMayFail  \* whether there may be no memory for a dummy

Queues == {"serial", "bt", "others"}   \* PRIO_Q_SERIAL, PRIO_Q_BT, PRIO_Q_OTHERS

Senders == Writers \union {Reset}

Agents == {Post, Reset}   \* the tasks that run queue_next_transaction

ASSUME ConstantsAssumption ==
  /\ Post # Reset /\ Post \notin Writers /\ Reset \notin Writers
  /\ IsFiniteSet(Writers)
  /\ {TxSize, RxSize, DriverSize} \subseteq Nat \ {0}
  /\ TxKinds \subseteq Queues /\ RxKinds \subseteq Queues
  /\ {MaxPkts, MaxHostPkts, MaxWakes} \subseteq Nat
  /\ AllocMayFail \in BOOLEAN

VARIABLES
  pc,               \* where each sender and Post is
  kind,             \* the queue of the packet a sender sends
  tx,               \* the buffer an agent is about to load
  txQueue, txSem,   \* how full spi_tx_queue[] are, and the count of spi_tx_sem
  gpio, flag,       \* the data-ready line and data_ready_flag
  loaded, done,     \* transactions in the driver, and what was received in those it finished
  cs, csSem,        \* chip select is asserted; wait_cs_deassert_sem
  received,         \* what Post found in the transaction it holds
  rxQueue,          \* how full spi_rx_queue[] are
  alerts, resetSem, \* power_save_alert_tasks about to give host_reset_sem, and that semaphore
  pkts, hostPkts, wakes, \* bounds: packets written, packets of the host, wake-ups
  crossed,          \* history: a packet was announced while Post concluded there is none
  starved           \* history: a transaction was not loaded for want of memory

sendVars == <<kind, pkts>>
nextVars == <<tx, starved>>
lineVars == <<gpio, flag>>
txVars   == <<txQueue, txSem>>
busVars  == <<loaded, done, cs, csSem>>
rxVars   == <<received, rxQueue>>
hostVars == <<alerts, resetSem, hostPkts, wakes>>
vars == <<pc, sendVars, nextVars, lineVars, txVars, busVars, rxVars, hostVars, crossed>>

-----------------------------------------------------------------------------
\* What a transaction carries beside packets, in either direction.
Dummy == "none"

\* xQueueReceive in the order of priority.
Following(q) == CASE q = "serial" -> "bt" [] q = "bt" -> "others" [] OTHER -> "none"

\* A sender between its test of data_ready_flag and the moment its packet is
\* both announced and counted by spi_tx_sem.
Announcing == {"gpio", "flag", "give"}

\* An agent that has found no packet and lowers the line.
Lowering == {"lower", "lowerGpio", "lowerFlag"}

Goto(t, l) == pc' = [pc EXCEPT ![t] = l]

\* Where a sender goes on once the line is up, and an agent once the
\* transaction is loaded.
AfterRaise(s) == IF s = Reset THEN "next" ELSE "give"
AfterNext(a)  == IF a = Reset THEN "idle" ELSE "process"

-----------------------------------------------------------------------------
Init ==
  /\ pc = [t \in Senders \union {Post} |-> IF t = Post THEN "wait" ELSE "idle"]
  /\ kind = [s \in Senders |-> "others"] /\ tx = [a \in Agents |-> Dummy]
  /\ txQueue = [q \in Queues |-> 0] /\ txSem = 0
  /\ gpio = FALSE /\ flag = FALSE
  /\ loaded = <<>> /\ done = <<>> /\ cs = FALSE /\ csSem = FALSE
  /\ received = Dummy
  /\ rxQueue = [q \in Queues |-> 0]
  /\ alerts = 0 /\ resetSem = TRUE /\ pkts = 0 /\ hostPkts = 0 /\ wakes = 0
  /\ crossed = FALSE /\ starved = FALSE

(***************************************************************************)
(* The host and the SPI slave driver (not part of this repository)         *)
(***************************************************************************)

\* The host clocks the transaction that is loaded. It has a packet of its own,
\* says that it woke up (FLAG_POWER_SAVE_STOPPED), or the line is high.
HostClock(rx) ==
  /\ ~cs
  /\ loaded # <<>>
  /\ rx = Dummy => gpio
  /\ rx # Dummy => hostPkts < MaxHostPkts
  /\ rx = "awake" => wakes < MaxWakes
  /\ cs' = TRUE
  /\ done' = Append(done, rx)
  /\ loaded' = Tail(loaded)
  /\ hostPkts' = IF rx # Dummy THEN hostPkts + 1 ELSE hostPkts
  /\ wakes' = IF rx = "awake" THEN wakes + 1 ELSE wakes
  /\ UNCHANGED <<pc, sendVars, nextVars, lineVars, txVars, csSem, rxVars, alerts, resetSem, crossed>>

\* It releases chip select: gpio_disable_hs_isr_handler gives the semaphore.
HostRelease ==
  /\ cs
  /\ cs' = FALSE
  /\ csSem' = TRUE
  /\ UNCHANGED <<pc, sendVars, nextVars, lineVars, txVars, loaded, done, rxVars, hostVars, crossed>>

-----------------------------------------------------------------------------
(***************************************************************************)
(* Senders: esp_spi_write and generate_startup_event                       *)
(***************************************************************************)
Write(w, q) ==
  /\ pc[w] = "idle"
  /\ pkts < MaxPkts
  /\ pkts' = pkts + 1
  /\ Goto(w, "queue")
  /\ kind' = [kind EXCEPT ![w] = q]
  /\ UNCHANGED <<nextVars, lineVars, txVars, busVars, rxVars, hostVars, crossed>>

\* host_reset_task takes host_reset_sem.
Startup ==
  /\ pc[Reset] = "idle"
  /\ resetSem
  /\ resetSem' = FALSE
  /\ Goto(Reset, "queue")
  /\ UNCHANGED <<sendVars, nextVars, lineVars, txVars, busVars, rxVars,
                 alerts, hostPkts, wakes, crossed>>

\* Mutant: no room is waited for.
QueuePacketUnchecked(s) ==
  /\ pc[s] = "queue"
  /\ txQueue' = [txQueue EXCEPT ![kind[s]] = @ + 1]
  /\ kind' = [kind EXCEPT ![s] = "others"]
  /\ Goto(s, IF s = Reset THEN "give" ELSE "raise")
  /\ UNCHANGED <<pkts, nextVars, lineVars, txSem, busVars, rxVars, hostVars, crossed>>

\* xQueueSend(spi_tx_queue[...], portMAX_DELAY).
QueuePacket(s) ==
  /\ pc[s] = "queue"
  /\ txQueue[kind[s]] < TxSize
  /\ txQueue' = [txQueue EXCEPT ![kind[s]] = @ + 1]
  /\ kind' = [kind EXCEPT ![s] = "others"]
  /\ Goto(s, IF s = Reset THEN "give" ELSE "raise")
  /\ UNCHANGED <<pkts, nextVars, lineVars, txSem, busVars, rxVars, hostVars, crossed>>

\* set_dataready_gpio: the test of data_ready_flag, ...
Raise(s) ==
  /\ pc[s] = "raise"
  /\ Goto(s, IF flag THEN AfterRaise(s) ELSE "gpio")
  /\ crossed' = (crossed \/ \E a \in Agents : pc[a] \in Lowering)
  /\ UNCHANGED <<sendVars, nextVars, lineVars, txVars, busVars, rxVars, hostVars>>

\* ... the line, ...
RaiseGpio(s) ==
  /\ pc[s] = "gpio"
  /\ gpio' = TRUE
  /\ Goto(s, "flag")
  /\ UNCHANGED <<sendVars, nextVars, flag, txVars, busVars, rxVars, hostVars, crossed>>

\* ... and the flag.
RaiseFlag(s) ==
  /\ pc[s] = "flag"
  /\ flag' = TRUE
  /\ Goto(s, AfterRaise(s))
  /\ UNCHANGED <<sendVars, nextVars, gpio, txVars, busVars, rxVars, hostVars, crossed>>

\* xSemaphoreGive(spi_tx_sem), which has no effect at the semaphore's maximum.
GiveTxSem(s) ==
  /\ pc[s] = "give"
  /\ txSem' = IF txSem < TxSize * 3 THEN txSem + 1 ELSE txSem
  /\ Goto(s, IF s = Reset THEN "raise" ELSE "idle")
  /\ UNCHANGED <<sendVars, nextVars, lineVars, txQueue, busVars, rxVars, hostVars, crossed>>

Send(s) == QueuePacket(s) \/ Raise(s) \/ RaiseGpio(s) \/ RaiseFlag(s) \/ GiveTxSem(s)

-----------------------------------------------------------------------------
(***************************************************************************)
(* queue_next_transaction and get_next_tx_buffer, in Post and in           *)
(* host_reset_task                                                         *)
(***************************************************************************)

\* Mutant: the queues are looked into whatever the semaphore says.
TakeTxSemAnyway(a) ==
  /\ pc[a] = "next"
  /\ txSem' = IF txSem > 0 THEN txSem - 1 ELSE txSem
  /\ Goto(a, "serial")
  /\ UNCHANGED <<sendVars, nextVars, lineVars, txQueue, busVars, rxVars, hostVars, crossed>>

\* xSemaphoreTake(spi_tx_sem, 0): no packet is pending, it seems, if it fails.
TakeTxSem(a) ==
  /\ pc[a] = "next"
  /\ IF txSem > 0
     THEN txSem' = txSem - 1 /\ Goto(a, "serial") /\ UNCHANGED crossed
     ELSE /\ Goto(a, "lower")
          /\ crossed' = (crossed \/ \E s \in Senders : pc[s] \in Announcing)
          /\ UNCHANGED txSem
  /\ UNCHANGED <<sendVars, nextVars, lineVars, txQueue, busVars, rxVars, hostVars>>

\* One xQueueReceive without waiting.
LookInto(a, q) ==
  /\ pc[a] = q
  /\ IF txQueue[q] > 0
     THEN /\ tx' = [tx EXCEPT ![a] = q]
          /\ txQueue' = [txQueue EXCEPT ![q] = @ - 1]
          /\ Goto(a, "load")
     ELSE /\ Goto(a, IF q = "others" THEN "lower" ELSE Following(q))
          /\ UNCHANGED <<tx, txQueue>>
  /\ UNCHANGED <<sendVars, starved, lineVars, txSem, busVars, rxVars, hostVars, crossed>>

\* reset_dataready_gpio: the test of data_ready_flag, ...
Lower(a) ==
  /\ pc[a] = "lower"
  /\ Goto(a, IF flag THEN "lowerGpio" ELSE "dummy")
  /\ UNCHANGED <<sendVars, nextVars, lineVars, txVars, busVars, rxVars, hostVars, crossed>>

\* ... the line, ...
LowerGpio(a) ==
  /\ pc[a] = "lowerGpio"
  /\ gpio' = FALSE
  /\ Goto(a, "lowerFlag")
  /\ UNCHANGED <<sendVars, nextVars, flag, txVars, busVars, rxVars, hostVars, crossed>>

\* Mutant: the flag is not cleared.
LowerFlagForgets(a) ==
  /\ pc[a] = "lowerFlag"
  /\ Goto(a, "dummy")
  /\ UNCHANGED <<sendVars, nextVars, lineVars, txVars, busVars, rxVars, hostVars, crossed>>

\* ... and the flag.
LowerFlag(a) ==
  /\ pc[a] = "lowerFlag"
  /\ flag' = FALSE
  /\ Goto(a, "dummy")
  /\ UNCHANGED <<sendVars, nextVars, gpio, txVars, busVars, rxVars, hostVars, crossed>>

MakeDummy(a) ==
  /\ pc[a] = "dummy"
  /\ Goto(a, "load")
  /\ UNCHANGED <<sendVars, nextVars, lineVars, txVars, busVars, rxVars, hostVars, crossed>>

\* "Failed to queue new transaction": no transaction replaces the one before.
NoMemoryForDummy(a) ==
  /\ pc[a] = "dummy"
  /\ AllocMayFail
  /\ starved' = TRUE
  /\ Goto(a, AfterNext(a))
  /\ UNCHANGED <<sendVars, tx, lineVars, txVars, busVars, rxVars, hostVars, crossed>>

\* Mutant: a dummy is not loaded.
LoadSkipsDummy(a) ==
  /\ pc[a] = "load"
  /\ loaded' = IF tx[a] = Dummy THEN loaded ELSE Append(loaded, tx[a])
  /\ tx' = [tx EXCEPT ![a] = Dummy]
  /\ Goto(a, AfterNext(a))
  /\ UNCHANGED <<sendVars, starved, lineVars, txVars, done, cs, csSem, rxVars, hostVars, crossed>>

\* spi_slave_queue_trans: the driver's queue beside the transaction that is
\* already in the hardware.
Load(a) ==
  /\ pc[a] = "load"
  /\ Len(loaded) <= DriverSize
  /\ loaded' = Append(loaded, tx[a])
  /\ tx' = [tx EXCEPT ![a] = Dummy]
  /\ Goto(a, AfterNext(a))
  /\ UNCHANGED <<sendVars, starved, lineVars, txVars, done, cs, csSem, rxVars, hostVars, crossed>>

NextTransaction(a) ==
  \/ TakeTxSem(a) \/ \E q \in Queues : LookInto(a, q)
  \/ Lower(a) \/ LowerGpio(a) \/ LowerFlag(a)
  \/ MakeDummy(a) \/ NoMemoryForDummy(a) \/ Load(a)

-----------------------------------------------------------------------------
(***************************************************************************)
(* spi_transaction_post_process_task                                       *)
(***************************************************************************)
GetResult ==
  /\ pc[Post] = "wait"
  /\ done # <<>>
  /\ received' = Head(done)
  /\ done' = Tail(done)
  /\ Goto(Post, "cs")
  /\ UNCHANGED <<sendVars, nextVars, lineVars, txVars, loaded, cs, csSem, rxQueue, hostVars, crossed>>

TakeCsSem ==
  /\ pc[Post] = "cs"
  /\ csSem
  /\ csSem' = FALSE
  /\ Goto(Post, "next")
  /\ UNCHANGED <<sendVars, nextVars, lineVars, txVars, loaded, done, cs, rxVars, hostVars, crossed>>

\* process_spi_rx: a dummy is dropped, and so is the packet of a host that woke
\* up, once event_handler has created the alert task.
Process ==
  /\ pc[Post] = "process"
  /\ alerts' = IF received = "awake" THEN alerts + 1 ELSE alerts
  /\ IF received \in Queues
     THEN Goto(Post, "rxQueue") /\ UNCHANGED received
     ELSE Goto(Post, "wait") /\ received' = Dummy
  /\ UNCHANGED <<sendVars, nextVars, lineVars, txVars, busVars, rxQueue,
                 resetSem, hostPkts, wakes, crossed>>

\* xQueueSend(spi_rx_queue[...], portMAX_DELAY) and xSemaphoreGive(spi_rx_sem).
RxQueue ==
  /\ pc[Post] = "rxQueue"
  /\ rxQueue[received] < RxSize
  /\ rxQueue' = [rxQueue EXCEPT ![received] = @ + 1]
  /\ received' = Dummy
  /\ Goto(Post, "wait")
  /\ UNCHANGED <<sendVars, nextVars, lineVars, txVars, busVars, hostVars, crossed>>

PostTask == GetResult \/ TakeCsSem \/ Process \/ RxQueue

\* power_save_alert_task, two seconds after the alert of a host that woke up.
AlertGive ==
  /\ alerts > 0
  /\ alerts' = alerts - 1
  /\ resetSem' = TRUE
  /\ UNCHANGED <<pc, sendVars, nextVars, lineVars, txVars, busVars, rxVars,
                 hostPkts, wakes, crossed>>

-----------------------------------------------------------------------------
\* recv_task: esp_spi_read takes spi_rx_sem and the packet of highest priority.
Recv(q) ==
  /\ rxQueue[q] > 0
  /\ \A p \in Queues : Following(p) = q \/ Following(Following(p)) = q => rxQueue[p] = 0
  /\ rxQueue' = [rxQueue EXCEPT ![q] = @ - 1]
  /\ UNCHANGED <<pc, sendVars, nextVars, lineVars, txVars, busVars, received, hostVars, crossed>>

-----------------------------------------------------------------------------
Next ==
  \/ \E rx \in RxKinds \union {Dummy, "awake"} : HostClock(rx)
  \/ HostRelease
  \/ \E w \in Writers, q \in TxKinds : Write(w, q)
  \/ Startup
  \/ \E s \in Senders : Send(s)
  \/ \E a \in Agents : NextTransaction(a)
  \/ PostTask \/ AlertGive \/ \E q \in Queues : Recv(q)

Spec == Init /\ [][Next]_vars

\* The tasks have one priority and are time sliced; an alert task is over after
\* a while. The host clocks while the data-ready line is high, and releases
\* chip select; to send, to wake up or to write a packet nobody is obliged.
FairSpec ==
  /\ Spec
  /\ \A w \in Writers : WF_vars(Send(w))
  /\ WF_vars(Startup \/ Send(Reset) \/ NextTransaction(Reset))
  /\ WF_vars(PostTask \/ NextTransaction(Post))
  /\ WF_vars(AlertGive)
  /\ WF_vars(\E q \in Queues : Recv(q))
  /\ WF_vars(gpio /\ \E rx \in RxKinds \union {Dummy, "awake"} : HostClock(rx))
  /\ WF_vars(HostRelease)

-----------------------------------------------------------------------------
(***************************************************************************)
(* Properties.                                                             *)
(***************************************************************************)
Sending == {"idle", "queue", "raise"} \union Announcing

Loading == {"next", "dummy", "load"} \union Queues \union Lowering

TypeOK ==
  /\ pc \in [Senders \union {Post} ->
               Sending \union Loading \union {"wait", "cs", "process", "rxQueue"}]
  /\ \A w \in Writers : pc[w] \in Sending
  /\ pc[Reset] \in Sending \union Loading
  /\ pc[Post] \in Loading \union {"wait", "cs", "process", "rxQueue"}
  /\ kind \in [Senders -> Queues] /\ kind[Reset] = "others"
  /\ tx \in [Agents -> Queues \union {Dummy}]
  /\ txQueue \in [Queues -> 0..TxSize] /\ txSem \in 0..(TxSize * 3)
  /\ gpio \in BOOLEAN /\ flag \in BOOLEAN
  /\ loaded \in Seq(Queues \union {Dummy}) /\ Len(loaded) <= DriverSize + 1
  /\ done \in Seq(Queues \union {Dummy, "awake"})
  /\ cs \in BOOLEAN /\ csSem \in BOOLEAN
  /\ received \in Queues \union {Dummy, "awake"}
  /\ pc[Post] = "rxQueue" => received \in Queues
  /\ rxQueue \in [Queues -> 0..RxSize]
  /\ alerts \in Nat /\ resetSem \in BOOLEAN
  /\ pkts \in 0..MaxPkts /\ hostPkts \in 0..MaxHostPkts /\ wakes \in 0..MaxWakes
  /\ crossed \in BOOLEAN /\ starved \in BOOLEAN

\* The packets an agent or a sender accounts for: taken from the semaphore and
\* not yet from a queue, or queued and not yet given to the semaphore.
Looking == {a \in Agents : pc[a] \in Queues}
Giving  == {s \in Senders : \/ pc[s] = "give"
                            \/ s \in Writers /\ pc[s] \in {"raise", "gpio", "flag"}}

Queued == txQueue["serial"] + txQueue["bt"] + txQueue["others"]

\* spi_tx_sem counts the packets in the three queues, and having taken it two
\* tasks that look into the queues one after the other, while others add to
\* them, both find a packet: get_next_tx_buffer never takes a count in vain.
TakeFindsPacket ==
  /\ txSem + Cardinality(Looking) + Cardinality(Giving) = Queued
  /\ Cardinality({a \in Agents : pc[a] = "others"}) <= txQueue["others"]

\* Packets that the host has not got yet.
Waiting ==
  \/ \E q \in Queues : txQueue[q] > 0
  \/ \E i \in 1..Len(loaded) : loaded[i] # Dummy
  \/ \E a \in Agents : pc[a] = "load" /\ tx[a] # Dummy

\* "indicate waiting data on ready pin" (esp_spi_write): while no task is about
\* to raise or lower it, the data-ready line is high if a packet waits, and
\* data_ready_flag says whether it is. This holds for the transaction of the
\* first startup event, and as long as no packet was announced while Post
\* concluded that there is none.
PacketsAnnounced ==
  /\ ~crossed /\ wakes = 0
  /\ \A s \in Senders : pc[s] \in {"idle", "queue"}
  /\ \A a \in Agents : pc[a] \notin Lowering
  => /\ Waiting => gpio
     /\ gpio = flag

\* The first startup event waits for room in a queue that only the transaction
\* it is about to load would empty.
StartupHeldUp == pc[Reset] = "queue" /\ txQueue["others"] = TxSize /\ pc[Post] = "wait"

\* Under the same conditions, while there is memory for dummies, and if other
\* tasks have not filled the queue before the first startup event, the host gets
\* all the packets that are queued (their number is bounded).
PacketsReachHost == Waiting ~> (~Waiting \/ crossed \/ wakes > 0 \/ starved \/ StartupHeldUp)
=============================================================================
