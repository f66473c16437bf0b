------------------------------- MODULE SdioRx -------------------------------
(***************************************************************************)
(* The receive half of the SDIO transport: what the host writes travels in *)
(* one of a fixed set of receive buffers from the SDIO slave driver        *)
(* through sdio_rx_task, one of three priority queues and recv_task        *)
(* (sdio_read), which gives the buffer back to the driver.                 *)
(*                                                                         *)
(*   sdio_rx_task   checks what the driver received, asks the host to      *)
(*                  throttle when the queue of data packets fills up,      *)
(*                  queues the packet and gives sdio_rx_sem;               *)
(*   recv_task      takes sdio_rx_sem, looks into the queues in order of   *)
(*                  priority, ends the throttling when the queue has been  *)
(*                  drained, processes the packet and frees its buffer.    *)
(*                                                                         *)
(* The two tasks share current_throttling without a lock, so reading the   *)
(* load, storing the flag and interrupting the host are separate steps.    *)
(* A packet is the buffer it is in and its kind.                           *)
(***************************************************************************)
EXTENDS Integers, Sequences, FiniteSets

CONSTANTS
  Bufs,       \* sdio_slave_rx_buffer: SDIO_NUM_RX_BUFFERS buffers
  Configs,    \* the thresholds <<high, low>> a host may configure, bytes: 0 or
              \* more than 100 per cent are taken too
  MaxPkts,    \* bound: packets the host sends
  MaxCloses   \* bound: times the host closes the data path

ASSUME ConstantsAssumption ==
  /\ IsFiniteSet(Bufs) /\ Bufs # {}
  /\ Configs \subseteq (0..255) \X (0..255)
  /\ MaxPkts \in Nat /\ MaxCloses \in Nat

VARIABLES
  sent, closes,      \* bounds: packets sent, data path closings
  hostThrottled,     \* the host has been told to hold its data packets back
  datapath,          \* the data path is open
  loaded,            \* buffers loaded into the driver, waiting for the host
  arrived,           \* packets the driver has received, in order
  rxQueue, rxSem,    \* sdio_rx_queue[] and the count of sdio_rx_sem
  throttling,        \* slv_state_g.current_throttling
  high, low,         \* slv_cfg_g
  xpc, xpkt,         \* where sdio_rx_task is, and the packet it holds
  xload,             \* the load it found (0: not in use)
  rpc, rpkt,         \* where recv_task is, and the packet it holds
  tlvs,              \* TLVs of a configuration packet recv_task has to read
  lowZero,           \* history: the low threshold with which recv_task last
                     \* compared the load was 0
  crossed            \* history: when the flag was last stored, the other task was
                     \* between its store of the flag and its interrupt

hostVars == <<sent, closes, hostThrottled, crossed>>
cfgVars  == <<high, low, tlvs, lowZero>>
rxVars   == <<xpc, xpkt, xload>>
rdVars   == <<rpc, rpkt>>
queueVars == <<rxQueue, rxSem>>
vars == <<hostVars, datapath, loaded, arrived, queueVars, throttling, cfgVars, rxVars, rdVars>>

-----------------------------------------------------------------------------
Queues == {"serial", "bt", "others"}   \* PRIO_Q_SERIAL, PRIO_Q_BT, PRIO_Q_OTHERS

Kinds == {"serial", "bt", "data", "config", "bad"}

Packet == [buf : Bufs, kind : Kinds]

QueueOf(kind) == IF kind \in {"serial", "bt"} THEN kind ELSE "others"

NumBufs == Cardinality(Bufs)

LoadPercent == (Len(rxQueue["others"]) * 100) \div NumBufs

-----------------------------------------------------------------------------
Init ==
  /\ sent = 0 /\ closes = 0 /\ hostThrottled = FALSE
  /\ datapath = FALSE
  /\ loaded = Bufs /\ arrived = <<>>
  /\ rxQueue = [c \in Queues |-> <<>>] /\ rxSem = 0
  /\ throttling = FALSE /\ high = 0 /\ low = 0 /\ tlvs = {}
  /\ xpc = "recv" /\ xpkt \in [buf : Bufs, kind : {"bad"}] /\ xload = 0
  /\ rpc = "idle" /\ rpkt = xpkt
  /\ lowZero = FALSE /\ crossed = FALSE

(***************************************************************************)
(* The host (not part of this repository) writes a packet when the driver  *)
(* has a buffer for it, and no data packet while it is throttled.          *)
(***************************************************************************)
HostSend(kind, b) ==
  /\ sent < MaxPkts
  /\ kind = "data" => ~hostThrottled
  /\ kind = "config" => Configs # {}
  /\ b \in loaded
  /\ sent' = sent + 1
  /\ loaded' = loaded \ {b}
  /\ arrived' = Append(arrived, [buf |-> b, kind |-> kind])
  /\ UNCHANGED <<closes, hostThrottled, crossed, datapath, queueVars, throttling, cfgVars,
                 rxVars, rdVars>>

\* event_cb: ESP_OPEN_DATA_PATH and ESP_CLOSE_DATA_PATH.
HostOpen ==
  /\ ~datapath
  /\ datapath' = TRUE
  /\ UNCHANGED <<hostVars, loaded, arrived, queueVars, throttling, cfgVars, rxVars, rdVars>>

HostClose ==
  /\ datapath
  /\ closes < MaxCloses
  /\ closes' = closes + 1
  /\ datapath' = FALSE
  /\ UNCHANGED <<sent, hostThrottled, crossed, loaded, arrived, queueVars, throttling, cfgVars,
                 rxVars, rdVars>>

-----------------------------------------------------------------------------
(***************************************************************************)
(* sdio_rx_task                                                            *)
(***************************************************************************)

\* Mutant: a bad packet is given back to the driver and queued as well.
RxTakeQueuesBad ==
  /\ xpc = "recv"
  /\ arrived # <<>>
  /\ xpkt' = Head(arrived)
  /\ arrived' = Tail(arrived)
  /\ loaded' = IF Head(arrived).kind = "bad" THEN loaded \union {Head(arrived).buf} ELSE loaded
  /\ xpc' = "check"
  /\ UNCHANGED <<hostVars, datapath, queueVars, throttling, cfgVars, xload, rdVars>>

\* sdio_slave_recv; an empty, short or corrupt packet is dropped at once.
RxTake ==
  /\ xpc = "recv"
  /\ arrived # <<>>
  /\ xpkt' = Head(arrived)
  /\ arrived' = Tail(arrived)
  /\ IF Head(arrived).kind = "bad"
     THEN loaded' = loaded \union {Head(arrived).buf} /\ UNCHANGED xpc
     ELSE xpc' = "check" /\ UNCHANGED loaded
  /\ UNCHANGED <<hostVars, datapath, queueVars, throttling, cfgVars, xload, rdVars>>

\* start_rx_data_throttling_if_needed: the first tests and the load, ...
RxCheckLoad ==
  /\ xpc = "check"
  /\ IF high > 0 /\ ~throttling
     THEN xload' = LoadPercent /\ xpc' = "compare"
     ELSE xpc' = "queue" /\ UNCHANGED xload
  /\ UNCHANGED <<hostVars, datapath, loaded, arrived, queueVars, throttling, cfgVars, xpkt, rdVars>>

\* ... the threshold, which recv_task may have changed meanwhile, ...
RxCompare ==
  /\ xpc = "compare"
  /\ xpc' = IF xload > high THEN "set" ELSE "queue"
  /\ xload' = 0
  /\ UNCHANGED <<hostVars, datapath, loaded, arrived, queueVars, throttling, cfgVars, xpkt, rdVars>>

\* ... the flag, ...
RxStartThrottling ==
  /\ xpc = "set"
  /\ throttling' = TRUE
  /\ crossed' = (rpc = "interrupt")
  /\ xpc' = "interrupt"
  /\ UNCHANGED <<sent, closes, hostThrottled, datapath, loaded, arrived, queueVars, cfgVars,
                 xpkt, xload, rdVars>>

\* ... and the interrupt, which the host sees at once.
RxInterruptHost ==
  /\ xpc = "interrupt"
  /\ hostThrottled' = TRUE
  /\ xpc' = "queue"
  /\ UNCHANGED <<sent, closes, crossed, datapath, loaded, arrived, queueVars, throttling, cfgVars,
                 xpkt, xload, rdVars>>

\* xQueueSend(..., portMAX_DELAY) to the queue of the packet's interface.
RxQueue ==
  /\ xpc = "queue"
  /\ Len(rxQueue[QueueOf(xpkt.kind)]) < NumBufs
  /\ rxQueue' = [rxQueue EXCEPT ![QueueOf(xpkt.kind)] = Append(@, xpkt)]
  /\ xpc' = "give"
  /\ UNCHANGED <<hostVars, datapath, loaded, arrived, rxSem, throttling, cfgVars, xpkt, xload, rdVars>>

\* Mutant: sdio_rx_sem is a binary semaphore.
RxGiveBinary ==
  /\ xpc = "give"
  /\ rxSem' = 1
  /\ xpc' = "recv"
  /\ UNCHANGED <<hostVars, datapath, loaded, arrived, rxQueue, throttling, cfgVars, xpkt, xload, rdVars>>

\* xSemaphoreGive(sdio_rx_sem) has no effect at the semaphore's maximum.
RxGive ==
  /\ xpc = "give"
  /\ rxSem' = IF rxSem < NumBufs * Cardinality(Queues) THEN rxSem + 1 ELSE rxSem
  /\ xpc' = "recv"
  /\ UNCHANGED <<hostVars, datapath, loaded, arrived, rxQueue, throttling, cfgVars, xpkt, xload, rdVars>>

RxTask ==
  \/ RxTake \/ RxCheckLoad \/ RxCompare \/ RxStartThrottling
  \/ RxInterruptHost \/ RxQueue \/ RxGive

-----------------------------------------------------------------------------
(***************************************************************************)
(* recv_task and its call of sdio_read                                     *)
(***************************************************************************)
ReadBegin ==
  /\ rpc = "idle"
  /\ datapath
  /\ rpc' = "sem"
  /\ UNCHANGED <<hostVars, datapath, loaded, arrived, queueVars, throttling, cfgVars, rxVars, rpkt>>

\* Mutant: sdio_rx_sem is not waited for.
ReadTakeSemAtOnce ==
  /\ rpc = "sem"
  /\ rxSem' = rxSem - 1
  /\ rpc' = "serial"
  /\ UNCHANGED <<hostVars, datapath, loaded, arrived, rxQueue, throttling, cfgVars, rxVars, rpkt>>

ReadTakeSem ==
  /\ rpc = "sem"
  /\ rxSem > 0
  /\ rxSem' = rxSem - 1
  /\ rpc' = "serial"
  /\ UNCHANGED <<hostVars, datapath, loaded, arrived, rxQueue, throttling, cfgVars, rxVars, rpkt>>

\* Mutant: the queue of the Bluetooth packets is not looked at.
ReadQueueSkipsBt(c) ==
  /\ rpc = c
  /\ IF rxQueue[c] # <<>>
     THEN /\ rpkt' = Head(rxQueue[c])
          /\ rxQueue' = [rxQueue EXCEPT ![c] = Tail(@)]
          /\ rpc' = "load"
     ELSE /\ rpc' = IF c = "serial" THEN "others" ELSE "idle"
          /\ UNCHANGED <<rpkt, rxQueue>>
  /\ UNCHANGED <<hostVars, datapath, loaded, arrived, rxSem, throttling, cfgVars, rxVars>>

\* One xQueueReceive without waiting. After the last queue, "No element in rx
\* queue": sdio_read fails and recv_task tries again.
ReadQueue(c) ==
  /\ rpc = c
  /\ IF rxQueue[c] # <<>>
     THEN /\ rpkt' = Head(rxQueue[c])
          /\ rxQueue' = [rxQueue EXCEPT ![c] = Tail(@)]
          /\ rpc' = "load"
     ELSE /\ rpc' = CASE c = "serial" -> "bt" [] c = "bt" -> "others" [] OTHER -> "idle"
          /\ UNCHANGED <<rpkt, rxQueue>>
  /\ UNCHANGED <<hostVars, datapath, loaded, arrived, rxSem, throttling, cfgVars, rxVars>>

\* Mutant: the packet just read still counts.
ReadCheckLoadBefore ==
  /\ rpc = "load"
  /\ LET load == ((Len(rxQueue["others"]) + 1) * 100) \div NumBufs
     IN  rpc' = IF throttling /\ load < low THEN "clear" ELSE "process"
  /\ lowZero' = IF throttling THEN low = 0 ELSE lowZero
  /\ UNCHANGED <<hostVars, datapath, loaded, arrived, queueVars, throttling, high, low, tlvs,
                 rxVars, rpkt>>

\* stop_rx_data_throttling_if_needed: the tests, ...
ReadCheckLoad ==
  /\ rpc = "load"
  /\ rpc' = IF throttling /\ LoadPercent < low THEN "clear" ELSE "process"
  /\ lowZero' = IF throttling THEN low = 0 ELSE lowZero
  /\ UNCHANGED <<hostVars, datapath, loaded, arrived, queueVars, throttling, high, low, tlvs,
                 rxVars, rpkt>>

\* ... the flag, ...
ReadStopThrottling ==
  /\ rpc = "clear"
  /\ throttling' = FALSE
  /\ crossed' = (xpc = "interrupt")
  /\ rpc' = "interrupt"
  /\ UNCHANGED <<sent, closes, hostThrottled, datapath, loaded, arrived, queueVars, cfgVars,
                 rxVars, rpkt>>

\* ... and the interrupt.
ReadInterruptHost ==
  /\ rpc = "interrupt"
  /\ hostThrottled' = FALSE
  /\ rpc' = "process"
  /\ UNCHANGED <<sent, closes, crossed, datapath, loaded, arrived, queueVars, throttling, cfgVars,
                 rxVars, rpkt>>

\* Mutant: the branch of the configuration packets returns without the free.
ReadProcessKeepsConfig ==
  /\ rpc = "process"
  /\ rpc' = IF rpkt.kind = "config" THEN "idle" ELSE "free"
  /\ UNCHANGED <<hostVars, datapath, loaded, arrived, queueVars, throttling, cfgVars, rxVars, rpkt>>

\* process_rx_pkt: host_to_slave_reconfig for a configuration of the host, which
\* may hold both thresholds, one or none (it may be of something else); what it
\* does with other packets does not touch this module's state.
ReadProcess ==
  /\ rpc = "process"
  /\ IF rpkt.kind = "config"
     THEN /\ tlvs' \in SUBSET {"high", "low"}
          /\ rpc' = IF tlvs' = {} THEN "free" ELSE "config"
     ELSE rpc' = "free" /\ UNCHANGED tlvs
  /\ UNCHANGED <<hostVars, datapath, loaded, arrived, queueVars, throttling, high, low, lowZero,
                 rxVars, rpkt>>

\* One TLV of the configuration: SLV_CONFIG_THROTTLE_HIGH/LOW_THRESHOLD. The
\* host chooses the values, and the order in which it writes them.
ReadConfig(t) ==
  /\ rpc = "config"
  /\ t \in tlvs
  /\ tlvs' = tlvs \ {t}
  /\ \E c \in Configs :
       /\ high' = IF t = "high" THEN c[1] ELSE high
       /\ low'  = IF t = "low" THEN c[2] ELSE low
  /\ rpc' = IF tlvs = {t} THEN "free" ELSE "config"
  /\ UNCHANGED <<hostVars, datapath, loaded, arrived, queueVars, throttling, lowZero, rxVars, rpkt>>

\* free_buf_handle is sdio_read_done: the buffer is loaded again.
ReadFree ==
  /\ rpc = "free"
  /\ loaded' = loaded \union {rpkt.buf}
  /\ rpc' = "idle"
  /\ UNCHANGED <<hostVars, datapath, arrived, queueVars, throttling, cfgVars, rxVars, rpkt>>

RecvTask ==
  \/ ReadBegin \/ ReadTakeSem \/ \E c \in Queues : ReadQueue(c)
  \/ ReadCheckLoad \/ ReadStopThrottling \/ ReadInterruptHost
  \/ ReadProcess \/ (\E t \in {"high", "low"} : ReadConfig(t)) \/ ReadFree

-----------------------------------------------------------------------------
Next ==
  \/ \E kind \in Kinds, b \in Bufs : HostSend(kind, b)
  \/ HostOpen \/ HostClose
  \/ RxTask \/ RecvTask

Spec == Init /\ [][Next]_vars

\* The two tasks have the same priority and are time sliced: neither keeps the
\* other from a step it can take. The host is free to send, open and close.
FairSpec == Spec /\ WF_vars(RxTask) /\ WF_vars(RecvTask)

-----------------------------------------------------------------------------
(***************************************************************************)
(* Properties.                                                             *)
(***************************************************************************)
\* The variables keep their types.
TypeOK ==
  /\ sent \in 0..MaxPkts /\ closes \in 0..MaxCloses
  /\ hostThrottled \in BOOLEAN /\ datapath \in BOOLEAN /\ throttling \in BOOLEAN
  /\ crossed \in BOOLEAN
  /\ loaded \subseteq Bufs /\ arrived \in Seq(Packet)
  /\ rxQueue \in [Queues -> Seq(Packet)] /\ rxSem \in Nat
  /\ high \in 0..255 /\ low \in 0..255 /\ lowZero \in BOOLEAN /\ tlvs \subseteq {"high", "low"}
  /\ xpc \in {"recv", "check", "compare", "set", "interrupt", "queue", "give"}
  /\ xpkt \in Packet /\ xload \in 0..100
  /\ rpc \in {"idle", "sem", "load", "clear", "interrupt", "process", "config", "free"} \union Queues
  /\ rpkt \in Packet

BufsIn(s) == {s[i].buf : i \in 1..Len(s)}

NoDuplicates(s) == \A i, j \in 1..Len(s) : s[i].buf = s[j].buf => i = j

\* The packet a task works on.
RxHolds   == IF xpc \in {"check", "compare", "set", "interrupt", "queue"} THEN {xpkt.buf} ELSE {}
ReadHolds == IF rpc \in {"load", "clear", "interrupt", "process", "config", "free"}
             THEN {rpkt.buf} ELSE {}

\* The places a buffer can be in.
Places == {"driver", "arrived", "rx_task", "recv_task"} \union Queues

BufsAt(p) ==
  CASE p = "driver"    -> loaded
    [] p = "arrived"   -> BufsIn(arrived)
    [] p = "rx_task"   -> RxHolds
    [] p = "recv_task" -> ReadHolds
    [] OTHER           -> BufsIn(rxQueue[p])

\* No receive buffer is lost, and none is loaded into the driver while its
\* packet is still queued or processed: every buffer is in one place, once.
BuffersConserved ==
  /\ \A b \in Bufs : \E p \in Places : b \in BufsAt(p)
  /\ \A p1, p2 \in Places : p1 # p2 => BufsAt(p1) \intersect BufsAt(p2) = {}
  /\ NoDuplicates(arrived)
  /\ \A c \in Queues : NoDuplicates(rxQueue[c])

Queued == Len(rxQueue["serial"]) + Len(rxQueue["bt"]) + Len(rxQueue["others"])

\* sdio_rx_sem counts the packets in the three queues, one less while
\* sdio_rx_task has queued and not yet given, or recv_task has taken and not
\* yet read; it never reaches its maximum, where a give would be lost.
SemCountsQueued ==
  /\ rxSem + (IF xpc = "give" THEN 1 ELSE 0) + (IF rpc \in Queues THEN 1 ELSE 0) = Queued
  /\ xpc = "give" => rxSem < NumBufs * Cardinality(Queues)

\* sdio_read looks into the queues one after the other while sdio_rx_task goes
\* on queuing, yet having taken sdio_rx_sem it never ends with "No element in
\* rx queue"; and a queue has room for every packet there can be, so that
\* sdio_rx_task never waits for one.
ReadFindsPacket ==
  /\ rpc = "others" => rxQueue["others"] # <<>>
  /\ xpc = "queue" => Len(rxQueue[QueueOf(xpkt.kind)]) < NumBufs

\* "Already throttling, nothing to be done" (start_rx_data_throttling_if_needed):
\* while no task is between its store of the flag and its interrupt, the flag
\* tells whether the host has been asked to throttle.
FlagTellsHost ==
  xpc # "interrupt" /\ rpc # "interrupt" => (throttling <=> hostThrottled)

\* Once the host's packets are processed throttling has ended, and the host knows
\* it, but in three cases: the data path is closed; the low threshold was 0 when
\* recv_task last compared the load with it; or the two tasks' stores of the flag
\* and their interrupts crossed when the flag was last stored.
ThrottlingEnds ==
  throttling \/ hostThrottled ~>
    \/ ~throttling /\ ~hostThrottled
    \/ ~datapath \/ lowZero \/ crossed

\* Every buffer the host has filled is given back to the driver.
BuffersReturn ==
  \A b \in Bufs : (b \notin loaded) ~> (b \in loaded \/ ~datapath)
=============================================================================
