# Formal model of the ESP-Hosted co-processor firmware

The firmware under `src/main/` turns an ESP chip (by default an ESP32-C6 on an SDIO bus) into a
Wi-Fi co-processor: a host sends RPC requests and network packets over a bus, the co-processor
executes the requests with ESP-IDF's Wi-Fi driver and sends answers, events and packets back.
This directory holds TLA+ models of its core, the TLC runs that check them on small instances,
and TLAPS proofs of the most important invariants for every size.

All paths below are relative to `src/main/`.

## 1. Inventory

### Tasks of the default build

| task | code | works on |
|---|---|---|
| `sdio_rx_task` | `sdio_slave_api.c` 597 | SDIO driver -> three priority queues, throttling |
| `recv_task` | `esp_hosted_coprocessor.c` 704 | `sdio_read` -> `process_rx_pkt` -> reassembly of requests, Wi-Fi transmit |
| `pserial_task` | `protocomm_pserial.c` 270 | request queue -> handlers and events -> `serial_write_data` -> `sdio_write` |
| `sdio_tx_done_task` | `sdio_slave_api.c` 443 | takes transmitted buffers back from the driver |
| `host_reset_task` | `esp_hosted_coprocessor.c` 432 | startup event after the host opened the data path |
| `sys_evt`, the task of the default event loop | `slave_control.c` 843-1050 | Wi-Fi events -> station state, deferred configuration, events to the host |
| FreeRTOS timer task | `slave_control.c` 255, 681 | heartbeat events, the restart after an update |
| `power_save_alert_task`, `sdio_deinit_task`, `sdio_reset_task` | `esp_hosted_coprocessor.c` 816, `sdio_slave_api.c` 778-889 | created for one job each: a notice of the host, unloading and resetting the bus |
| `spi_transaction_post_process_task` | `spi_slave_api.c` 541 | builds for SPI, instead of the two SDIO tasks: takes a finished transaction, loads the next, queues what was received |
| Wi-Fi task | callbacks | packets of the air |
| `event_cb` (interrupt) | `sdio_slave_api.c` 181 | open, close, reset by the host |

The hosted tasks have one priority and are time sliced (`CONFIG_ESP_HOSTED_DEFAULT_TASK_PRIORITY`,
above that of `sys_evt` and of the timer task); `sdio_deinit_task` and `sdio_reset_task` are created
with it too. Only the alert tasks are below all others (`tskIDLE_PRIORITY` + 5).

### Components

| component | state | operations | interacts with | hard behaviour | correct when |
|---|---|---|---|---|---|
| serial RPC path (`esp_hosted_coprocessor.c`, `protocomm_pserial.c`) | `r`, `req_queue`, local `rem_buff_size` | take a fragment, reassemble, post, read and release, handle, answer, post events | transport, handlers, event producers | `r` has no lock; queue full; failed `malloc`; host restart inside a request | requests whole, in order, once, answered; no task held up for ever |
| SDIO receive (`sdio_slave_api.c`) | buffers, three queues, `sdio_rx_sem`, throttling flag and thresholds | receive, drop, queue, read by priority, configure, free | driver, `recv_task`, host interrupts | two tasks share the flag; semaphore against queues | buffers conserved, no packet stranded, flow control ends |
| SDIO transmit (`sdio_slave_api.c`) | `sdio_send_queue_sem`, driver queue, transmit buffers, `state`, `datapath`, `host_reset_sem` | write, startup event, take back, open, close, reset | all senders, host | errors half way, host that comes and goes, queue full | places and buffers conserved, host greeted, writers return |
| RPC dispatch (`slave_control.c` 4000-4152) | none of its own | look up, run handler, pack | `pserial_task` | handlers that post into the queue of their own task | every request that unpacks is answered |
| Wi-Fi control (`slave_control.c`) | `wifi_initialized`, cached configurations, `station_connected`, `station_connecting`, `new_config_recvd`, last connected event | init wrap, set config, connect, disconnect, start, stop; event callbacks | Wi-Fi driver, event loop, `process_rx_pkt` | handlers and callbacks in two tasks share flags | flags agree with the driver, host gets the events it waits for |
| OTA (`slave_control.c` 375-572) | `handle`, `ota_status`, partition, timer | begin, write, end, activate | flash, timer task | repeated and misordered calls, failures half way | boots only a complete image; answers tell what happened |
| heartbeat (`slave_control.c` 681-760) | timer handle, `hb_num` | configure, timer callback | timer task, `req_queue` | timer task blocked on a full queue while a handler waits for it | at most one timer; no deadlock |
| host power saving (`host_power_save.c`, `sdio_slave_api.c` 829-906) | `power_save_on`, `wakeup_sem`, interface state | alert, wake up, de-/re-initialise the bus | transmit path, `event_handler`, temporary tasks | alerts overtaking each other; tasks created twice; buffers of a stopped driver | host woken, bus usable afterwards |
| packet filter (`lwip_filter.c`) | port lists, two caches | parse lists, decide where a packet goes | Wi-Fi receive callback | numeric edges, stale cache | decision as configured |
| memory pool (`mempool*.c`) | free list, counters | create, get, put, clear | transports | alignment, concurrent clear | every block free or handed out once |
| SPI, SPI half-duplex, UART transports | queues, semaphores, GPIO lines | as SDIO | drivers | data-ready line against semaphore | no packet stranded |
| Bluetooth, statistics, CLI, MQTT, HTTP | little | forwarding, counters, console | | | |
| protobuf-c and generated messages | none | pack, unpack | | vendored and generated | |

`PROJECT.json` lists every component with its status, and under "hazards" what is hard to test,
each at its line; hazards no property covers yet say why.

## 2. Modules

| module | models | checked by | proofs |
|---|---|---|---|
| `SerialRpc` | the serial RPC path | `MCSerialRpc` | `SerialRpcProofs`, `SerialRpcServiceProofs` |
| `RpcService` | abstract: what that path promises to a host that waits for its answers | refinement in `SerialRpc`, run by `MCSerialRpc` | `SerialRpcServiceProofs` |
| `SdioRx` | receive half of the SDIO transport | `MCSdioRx` | `SdioRxProofs` |
| `SdioTx` | transmit half, startup event, host events | itself | `SdioTxProofs` |
| `WifiControl` | Wi-Fi control: the handlers of station requests against the handler of Wi-Fi events | `MCWifiControl` | `WifiControlProofs` |
| `TimerServices` | OTA update and heartbeat, with the timer task they share | itself | `TimerServicesProofs` |
| `HostPowerSave` | a host that sleeps and wakes, the alerts, the bus unloaded and loaded again | itself | `HostPowerSaveProofs` |
| `SpiTransport` | the SPI full-duplex transport | itself | `SpiTransportProofs` |

### How the modules are made

* A task is a program counter and one action for each piece of code that other tasks can observe
  only as a whole: up to the next access to something shared, or the next call that may block.
  Blocking calls (`xQueueSend`, `xSemaphoreTake` with `portMAX_DELAY`) are guards.
* `r`, `current_throttling` and the like are plain variables without a lock, so reading one,
  writing it and acting on it are separate actions. The three stores with which
  `serial_read_data` releases `r` may happen in any order: they are not volatile, and the code
  gives the compiler no reason to keep their order. For the same reason `r.len += ...` may use
  the value of `r.len` that was loaded for the copy before it, or load it again.
* Errors the code handles (a failed `malloc`, a refused `sdio_slave_send_queue`, a short packet)
  are actions or disjuncts of their own, switched by constants such as `AllocMayFail`.
* Fragments, packets and events carry only what the properties tell apart. One fragment is one
  unit of `r.data`; the TLV bytes around a request are not modelled: what is not a whole request
  does not unpack.
* The host and the SDIO driver are not in this repository. They are the actions that begin with
  `Host`, and the driver's queues; they do what the code expects of them and are marked external.
* Definitions that begin with "Mutant:" in their comment are deliberate faults. They are never
  part of a specification; the checks use them to see that each property can fail.

### `SerialRpc`

`hostMsg, hostLeft, hostSeq, closed, restarts, bus` are the host and the fragments under way.
`valid, curSeq, len, data` are `r`. `rpc, hdr, rem, base, out` are `recv_task` inside
`process_serial_rx_pkt`; `q` is `req_queue`; `ppc, arg, got, clearing, posts` are `pserial_task`
in `serial_read_data`, `rpc_req_handler` and the handler; `epc, events` are the tasks in
`send_event_to_host`. `executed`, `answered` and `allocFailed` are history.

`RecvTake` computes `rem_buff_size` *before* the wait for `r.valid`, as the code does, and
`RecvCopy` uses it afterwards. The copy and the increment of `r.len` (`RecvCount`) are two steps:
`pserial_task` may still be resetting `r.len`, and its reset may fall between them or be
overwritten by the increment. `RecvMismatch` hands over what `r` holds and drops the fragment.
`PserialHandle` runs a handler; `SelfPosts` says how many events it posts itself
(`req_wifi_start`: two in APSTA mode; `req_wifi_connect`: one when it is connected already).

`HostRestart` drops any part of what is under way, and lets the host count its requests from
any earlier value again.

`RpcService` is the promise: requests are executed in order and whole, each is answered after
its execution, and a restart of the host costs at most one request. The last request of the
host's former life may be executed again at the cost of the first of the new (`Repeat`): when the
new request has the sequence number of the one that is being released, `recv_task` can append it
to a buffer that still counts the old one. The refinement (`ImplementsRpcService`, at the end of
`SerialRpc`) takes `executed`, `answered`, `closed` and `restarts` as they are, `sent` for `hostMsg`,
and for `slack` the restarts that have not cost a request: `restarts` less the requests `Missed`
before the last that was executed.

### `SdioRx`

A packet is its buffer and its kind. `arrived` is what the driver has received, `rxQueue` and
`rxSem` the three queues with `sdio_rx_sem`, `xpc` and `rpc` the two tasks. `hostThrottled` is
what the last interrupt told the host; `throttling` is the flag. The host sends data packets
only while it is not throttled, others always. The load `sdio_rx_task` has found and its
comparison with the threshold are two steps, since `recv_task` may change the threshold between
them; on the other side one step is enough, as nobody but `recv_task` itself changes what
`stop_rx_data_throttling_if_needed` tests after it has read it. A configuration packet sets both
thresholds, one or none, one TLV at a time and in either order; a threshold is any byte, as
`host_to_slave_reconfig` takes it, 0 and more than 100 included.

Two history variables name how throttling may last. `lowZero`: the low threshold was 0 when
`recv_task` last compared the load with it (no load is less, line 151). `crossed`: when the flag was
last stored, the other task was between its own store and its interrupt, so that the host may hear
the two in the opposite order; this is what `SdioRxThrottle` shows.

Opening the data path may happen at any time it is closed. That includes what a packet with
`FLAG_POWER_SAVE_STOPPED` does to `datapath`; the rest of host power saving is left out.

### `SdioTx`

`txSem` is `sdio_send_queue_sem`; `sending` and `finished` are the driver's queue and what it has
transmitted; `heap` counts transmit buffers; `wpc`, `spc`, `dpc` are the writers,
`host_reset_task` and `sdio_tx_done_task`. A writer is any task that calls `process_tx_pkt`
(with `BYPASS_TX_PRIORITY_Q` = 1 senders do so themselves). `StartupAssert` is the `assert` in
`generate_startup_event`: the co-processor restarts.

### `WifiControl`

`rpc` is `pserial_task` in the handler of a request, `evt` is `sys_evt` in
`event_handler_wifi`, each a program counter (and the locals that matter); `drv` is the state of
the Wi-Fi library, `evq` the events it has posted. The library is not in the repository: each of
its functions is a set of outcomes (what it returns, the state it leaves, the events it posts),
with the refusals that the code tests for. Of a station configuration the model keeps what
`is_wifi_config_equal` compares, `net` (SSID, password, BSSID if set) and `channel`, and `rest` for
all that it does not compare: a configuration that differs from the driver's only in `rest`, or in a
channel of which one is 0, is taken as unchanged, answered with success, and dropped. The other
variables have the names of the code's statics. The C6 has one core, and `pserial_task` has the higher priority. So a step of a handler
runs from one call into the driver to the next, while the event handler loses the processor
between any two accesses to what is shared. It holds the mutex of the event loop all the while,
which `Register` therefore waits for.

`told` is what the last station event to the host says, `wanted` the configuration last
accepted. `raced` says that it was lost to the event handler in one of two ways: it was recorded
after the handler had applied the one before and before it cleared `new_config_recvd` (`Clears`), so
that the flag is cleared for a configuration nobody applied; or it was taken as unchanged while the
handler was about to apply another (`Applies`). The next configuration accepted outside these
windows ends it. `AcceptedConfigKept` promises nothing while it holds, and otherwise promises a
configuration that the code takes for the accepted one, not one that is equal to it in every field.

### `TimerServices`

Both services use FreeRTOS timers, so that their requests send commands to the timer task
(`cmds`), whose callbacks in turn wait for `pserial_task` (`req_queue`). `part` is what the update
partition holds: how much of an image has been written in order, or garbage. `esp_ota_end` and
`esp_ota_set_boot_partition` fail for anything but a whole image. The host may send every request
at any time. `spoiled` says that an update was begun since the last one was completed: its
partition is erased while it may already be the one to boot. `abandoned` says that the restart timer could
not be created or started; the answer then is a failure, but `ota_status` stays ACTIVATED and a
repeated request does not try again. `unstopped` holds the timers that `stop_heartbeat` found
inactive because the timer task had not executed their start yet: they beat on beside the new
one, and the handle to them is lost.

### `HostPowerSave`

The host is `host`; `noted` is what it told last. Each notice creates an alert task, and these run
at one low priority, so `alerts` counts how many are at each of their steps. Any of them may take the
next step, because FreeRTOS does not promise an order. `unloads` and `resets` count the tasks that
unload and reset the bus, `driver` is the SDIO driver below them. `wpc` and `timer` are the senders
in `process_tx_pkt`, `wakeup_host` and `wakeup_host_mandate` with the timer each pulse starts.

A sender is idle again when `wakeup_host` has returned; `sdio_write`, which it calls then, is in
`SdioTx`. `Pulse` raises the GPIO and starts the timer that lowers it in one step: what another
sender's timer could do between the two, lower the GPIO, it can as well do right after.

Four history variables name what the design relies on. `hasty`: when the host last told something,
an alert of the opposite was not over. The two may take effect in either order, so that the
co-processor may take the host for asleep although it is awake. Several alerts of one kind at once,
or alerts of both kinds that do not meet, are not hasty. `clash`: an unloading of the bus met another
task that initialises, resets or unloads it, or a sender initialised a bus that another had just
initialised, or the host spoke during the unloading. The driver's functions are then called in an
order nobody can rely on, or `if_handle` has become NULL; behaviours end there. `cut`: the bus was
unloaded while a sender that had found it up was waking the host, and nobody has initialised it since;
the host then cannot answer. `stuck`: no timer could be created to lower the GPIO. The properties say
what holds without these, and under which of them each fails: `hasty`, `clash` and `cut` are what the
code does, not what it is shown to avoid.

The unit of time in `wakeup_host_mandate` is a tenth of a millisecond and its argument 50 days, so
the wait of a sender never times out in the model. `sdio_init` also creates `sdio_rx_task` and
`sdio_tx_done_task` anew at each initialisation, while the old ones still exist: this is left out
and listed as a hazard.

### `SpiTransport`

In a build for SPI the host is the master of the bus. `pc` says where the senders and
`spi_transaction_post_process_task` (`Post`) are; `txQueue` and `txSem` are the three
`spi_tx_queue` and `spi_tx_sem`, of which only the lengths matter. `gpio` and `flag` are the
data-ready line and `data_ready_flag`; `set_dataready_gpio` and `reset_dataready_gpio` test the
flag, change the line and change the flag without a lock, so these are three steps each. `loaded`
and `done` are the transactions in the driver and those it has finished, `cs` and `csSem` chip
select and `wait_cs_deassert_sem`: the module is about builds with
`CONFIG_ESP_SPI_DEASSERT_HS_ON_CS`, the default, and the handshake line is high exactly while a
transaction is loaded and chip select released. `queue_next_transaction` runs in `Post` and, for the
startup event, in `host_reset_task` (`Reset`); both are *agents*. Reading a packet (`Recv`) is one
step: `SdioRx` models the same code in detail.

Two history variables name what the code relies on. `crossed`: a packet was announced while an
agent was between finding `spi_tx_sem` at zero and having lowered the line. The line may then be
low although a packet waits, or line and flag may disagree for good (lines 380, 400 against 862,
864). `wakes`: each wake-up of the host sends another startup event, which loads another
transaction (line 347), so that two circulate; the packets in a transaction that is already loaded
then have no line of their own. `starved`: there was no memory for a dummy, and no transaction
takes the place of the last. The properties say what holds without these. `StartupHeldUp` is a
deadlock without a race: tasks that were up before `host_reset_task` may fill the queue of the
startup event, which waits for room that only its own transaction would make. Failures of the
other allocations are assertions in the code, so that the co-processor restarts.

## 3. Runs

TLC, two workers; each takes between a few seconds and three minutes. `CHECK_DEADLOCK FALSE` in
all of them: the traffic is bounded, so that every behaviour ends in a state where nothing is left
to do, and `TimerServices` ends with the restart. That the tasks do not stop *early* is the
business of `OnlyTwoWaysToHang` and the liveness properties.

| run | shows | bounds | states |
|---|---|---|---|
| `SerialRpc` | refinement of `RpcService`, `EveryRequestAnswered`, `ProducersReturn` | 3 requests of 1, 1, 2 fragments, window 1, 1 restart, queue of 2, 2 producers, 3 events | 109k |
| `SerialRpcFaults` | the safety invariants, with pipelining, failing allocations and handlers that post | 3 requests of 2, 2, 1 fragments, window 2, 1 restart, queue of 2, 1 producer, 2 events | 807k |
| `SerialRpcPipelined` | violation of `ReceivedCompleteBuffer` | window 2 | |
| `SerialRpcSelfPost` | violation of `HandlerEventsAreSent` | 1 producer, 2 events, handler posts 2 | |
| `SdioRx` | buffers, semaphore, `sdio_read`; throttling ends, buffers return | 2 buffers, 4 packets, 1 close, thresholds of 40 and a low one of 0 | 385k |
| `SdioRxThrottle` | violation of `FlagTellsHost` | 3 buffers, 5 packets | |
| `SdioTx` | places and buffers; the host is greeted, writers return | 2 writers, queue of 2, 4 packets, 4 events, driver and heap fail | 246k |
| `WifiControl` | what host, data path and driver hold of the station agree; accepted configurations kept; requests return, losses reported | 3 station configurations (channels 1 and 6, and any with other `rest`), 2 init configurations, 2 modes, queue of 1, 2 requests, 3 happenings on the air | 725k |
| `WifiReinit` | violation of `ReinitTakesEffect` | 1 station and 2 init configurations, 3 requests | |
| `TimerServices` | only whole images boot, heartbeats as asked; requests return, an activated update restarts | image of 1 write, queue of 1, 3 commands, 6 requests, 3 timers, 2 events | 451k |
| `HostPowerSave` | both sides agree who sleeps, bus up when its driver is, GPIO lowered; a sender that wakes the host returns | 2 senders, both builds, 2 events besides wake-ups, timers fail | 396k |
| `SpiTransport` | semaphore and queues, the data-ready line; packets reach the host | 2 writers, all queues of 1, 2 packets each way, 1 wake-up, no memory for dummies | 636k |

Why the bounds are enough: `r.data` holds two fragments, which is what the largest requests
have: a request of two fragments fills it, so that the room of the next fragment is zero while
the request is not released, and requests of one fragment leave room for a second to be appended
(the two runs take different shapes so that both are met before and after a restart); a queue of two is filled by two producers
beside a request; three requests give a request before, at and after each fault; one restart can
fall at every point of a request, and with three requests there is one before and one after it.
In `SdioRx` two buffers give loads of 0, 50 and 100 per cent around the thresholds, and four
packets use each buffer again: a configuration, two packets that start and end throttling and one
more, or a second configuration that sets the low threshold to 0 or back. `SdioRxThrottle` has three
buffers. In `SdioTx` two writers and the startup event compete
for two places, so a task can wait at each of them. In `WifiControl` a queue of one is full as
soon as there is one event; two requests are enough to store a configuration and to race or
connect it, and the flash may hold a configuration before; of the three configurations the third
counts as the same as either of the others, which differ; three happenings on the air connect
the station, drop it and forward another event. In `TimerServices` six requests are what a
complete update with a repeated step needs, or three configurations of the heartbeat beside an
activation; the queue of commands has 3 places instead of 10. A heartbeat is
stopped and deleted only when its start has been executed, after which at most the start of a
restart is pending: 3 places are enough for these, as 10 are, and a heartbeat configured anew
fills them, so that the start of the next timer fails. In `HostPowerSave` two senders pulse the GPIO
at once and initialise the bus at once; the host sleeps twice (or sleeps and resets, or closes)
while wake-ups are not bounded, so that every alert can meet every later one. In `SpiTransport` two writers and the startup event
meet at queues with one place, so that each can wait there; two packets, one of them announced
while the other is taken, are what a race at the line needs, and one wake-up makes two transactions
circulate. The properties that are proved hold for
every value of these constants.

### What the violations show

* **Reassembly with a host that pipelines.** `rem_buff_size` is taken from `r.len` before the
  wait, and `serial_read_data` releases `r.valid` before `r.len` and `r.cur_seq_no`. A request
  whose first fragment arrives before the previous request is consumed may be cut short, or
  appended to it, or taken to be of another sequence number. A host that waits for each answer
  and does not restart does not meet this (run `SerialRpc`). What is executed is in order, and
  none is executed twice, with one exception: after a restart of the host in which sequence
  numbers collide, the last request of its former life can be executed again (`HandledInOrder`,
  `Repeat` of `RpcService`).
* **A handler waits for itself.** `req_wifi_start` posts events from within the only task that
  empties the queue. If event producers have filled it, the control path stops for ever.
* **Throttling flag and interrupt.** The store of the flag and the interrupt of two tasks can be
  ordered oppositely; the host then stays throttled while the flag says it is not.
* **Second re-initialisation of Wi-Fi.** `__wrap_esp_wifi_init` sets `wifi_initialized` only when it
  did not re-initialise. After one re-initialisation the flag is false while the driver runs, and
  the next configuration is answered with success and goes nowhere.

More things the models show are part of what the properties of passing runs say:

* A startup event that the driver refuses never gives its place of the semaphore back (`lost` in
  `SlotsConserved`).
* A request can hang in the ways `RequestsReturn` of `WifiControl` names (`PostsToItself`,
  `WaitsForLoop`).
* A station configuration that differs from the driver's only in what `is_wifi_config_equal` does not
  compare (the threshold of authentication, PMF, SAE), or in a channel of which one is 0, is answered
  with success and dropped (`slave_control.c` 1599-1602), as is one that races with the event handler
  (`raced`).
* A low threshold of 0 is accepted and never ends throttling (`lowZero`). Nor does raising it help
  until one more packet is read: a host that holds back its data packets has to send another.
* Opposite alerts that overlap may leave the co-processor of another mind than the host (`hasty`); the
  bus may be unloaded under a sender that is waking the host, which then waits (`cut`), or while
  somebody else works on it (`clash`).
* In builds for SPI the data-ready line may miss a packet (`crossed`).

## 4. Fairness

`recv_task`, `pserial_task`, `sdio_rx_task`, `sdio_tx_done_task` and `host_reset_task` are created
with the same priority, and FreeRTOS slices time between them: a task that can run does.
Each has weak fairness for its steps as a whole. A task blocked on a queue or a semaphore is
enabled only while there is room; FreeRTOS wakes the longest-waiting task of the highest priority,
and the bounded traffic of the runs means that it is not overtaken for ever, so weak fairness is
enough. The host is assumed to finish a request it has begun (`HostFragment`) and to read what is
sent while it is up (`HostRead`); opening, closing, restarting, beginning a request and
raising an event are never obligatory. `ThrottlingEnds` is about the flag and about what the host was
told. It excepts a low threshold of 0 at the last comparison (`load_percent < 0` is never true),
interrupts that crossed, and a data path that is closed, since `recv_task` does not read then. `BuffersReturn` and `ThrottlingEnds` take it that `process_rx_pkt` returns: for
serial packets that is what `SerialRpc` shows, but for the two cases of `OnlyTwoWaysToHang`, in
which `recv_task` stops and with it the receive path.

In run `SdioTx` a place of the semaphore may be lost for ever (`lost`): `WritersReturn` and `HostIsGreeted` then promise nothing once all places, or any, are lost.

`WifiControl`: `pserial_task` and `sys_evt` are fair; what is above them (the hosted tasks, the
Wi-Fi task) waits for the host or the air. Requests and happenings on the air are not obligatory.
`TimerServices`: so are `pserial_task` and the timer task; the callback of the restart timer runs
when the timer has expired. A heartbeat is not obligatory, but once its callback runs it posts
(`BeatPost`). `HostPowerSave`: tasks are fair, and so are the timers that lower the GPIO (one condition for the
alert and bus tasks, of which there are only so many, and one for each sender with its timer, which
take turns). A host
that sleeps and sees the GPIO raised again and again wakes up: strong fairness of `Woken`, because
each pulse is over after a while, and that is why the code repeats it. Awake, it says so as soon
as the bus lets it (`OpenOrPsOff`). It need not wake up, sleep, reset or close by itself.
`RequestsReturn` of `WifiControl` excepts two hangs, both of which the code can reach: `pserial_task`
posts to the full queue that it alone empties (`PostsToItself`), or it waits for the mutex of the
event loop, whose task waits for room in that queue (`WaitsForLoop`). `SpiTransport`: the tasks are
fair and an alert task is over after a while; the host clocks a transaction while the data-ready
line is high and one is loaded, and it releases chip select. It need not send, nor wake up.

## 5. Proofs

The proofs hold for every value of the constants under the `ConstantsAssumption` of the module,
which only says that sizes are natural numbers (positive where an array or a queue has that size),
that the sets of buffers, writers and senders that get counted are finite, and that the values the
constants give names to are different. Few of the invariants are inductive as they stand; what
strengthens them is given below.

`SerialRpcProofs`
* `TypeCorrect`: `TypeOK`, inductive together with `CopyStaysInBuffer`, without which a copy
  could change the type of `r.data`. Besides types it holds the bound of the queue, and that all
  that lies below `r.len` is a payload the host sent.
* `CopyInBounds`: `CopyStaysInBuffer`. While `recv_task` waits, `r.len` can only be reset to 0 by
  `pserial_task`, so the remembered room never exceeds the real one. Between the copy and the
  increment the invariant also bounds the value of `r.len` the copy started from, since the
  increment may start from it again.
* `TransitCorrect`: `OneRequestInTransit`. Not inductive: a step from "match" or "count" sets `r.valid` and
  must know that it was clear. The strengthening `TransitInv` adds that it is clear in both,
  which holds because only `recv_task` sets `r.valid`.
* `HangsCorrect`: `OnlyTwoWaysToHang`, a consequence of `TypeOK` and `OneRequestInTransit`: if
  nothing can move and `recv_task` waits for `r.valid`, the request must be in a place from which
  some task would move it on, unless an allocation has failed.

`SerialRpcServiceProofs`
* `OrderCorrect` (`OrderInv`): `HandledInOrder`. The fragments lie in one line: those `r.data` still remembers,
  the one in `recv_task`'s hands, those on the bus. `BusInOrder`, `HdrBeforeBus` and `DataBefore`
  order the line by request and index, `FragmentsSent` says how far the host has got with it, and
  `DoneBehind` puts every request that was read behind it: a whole request in `r` has its last
  fragment there. That leaves the request `r.data` still begins with, which would be read again if
  `recv_task` completed `r` before `len` is cleared. `CountedOnce` says that it is not counted
  again: a fragment that finds `len` still set has a greater number than `cur_seq_no`
  (`NumbersGrow`, `BufferNumber`) and is a mismatch. The numbers only grow within one life of the
  host, which is where the exception for its former life comes from.
* `ServiceCorrect` (`ServiceInv`): `ImplementsRpcService` for `Window = 1`, with any number of
  restarts, failed allocations and handlers that post. `ServiceInv` says that every request of this
  life of the host but the last was executed (the host saw its answer before it began the next),
  and that the requests lost before the last restart are fewer than the restarts (`LostBefore`). A
  request that is executed then skips at most what restarts have paid for, and the step is `Execute`
  or `Repeat` of `RpcService`; that it is not an older one is `OrderCorrect`.
* `ReceivedCorrect` (`PhaseInv`): `ReceivedCompleteBuffer` under `PatientHost`: the host waits for its
  answers, does not restart, and sends nothing larger than `r.data`. The run with a host that
  pipelines finds the property violated; the theorem says that a patient host never meets it.
  `r` is between two requests, collecting one, or has one complete until it is answered; in
  `Collecting` fragments in `r`, in `recv_task`'s hands, on the bus and still to be sent are the
  request, in order, each once.
* `AnsweredCorrect` (`Unlost`): for a patient host, while memory lasts, `AnsweredAtRest`: where all
  tasks have stopped, the last request has its answer, but where its handler waits for room in the
  full queue. `Carried` follows the request, with its length, from `r` through the queue entry
  (`protocomm_pserial_data_ready` posts a copy, of which `serial_read_data` uses the length only) to
  what the handler gets.

Five modules hold a theorem of the kind of `AnsweredCorrect`, called `RestCorrect`: where no task
can move, nothing is left to do. It is the safety part of the liveness properties the runs check.
What it leaves to TLC is that the tasks do come to rest under the fairness of section 4; what it
adds is that no size, number of tasks or order of steps makes them rest too early, which is where
a lost wake-up, a leaked place or a deadlock would show.
`Stopped` and `AtRest` write out the negated guards of the tasks' actions, because the prover cannot
expand ENABLED.

`SdioTxProofs`
* `TypeCorrect`, `SlotsCorrect`, `BuffersCorrect`: `Inv`, the conjunction of `TypeOK`,
  `SlotsConserved` and `BuffersAccounted`, is inductive. `TypeOK` needs `SlotsConserved`: that
  giving the semaphore stays within its maximum follows from the place the giver holds. The
  counting lemmas say how the number of writers at a place changes when one of them moves.
* `RoomCorrect`: `DriverHasRoom` follows from `Inv`: a task that holds a place counts in
  `SlotsHeld`, so the driver holds fewer than `TxMax` buffers.
* `RestCorrect` (`GreetingUnderWay`): a host that is up and not greeted has its startup event due, in
  `host_reset_task`'s hands or in the driver, or one was refused. Where nothing moves the driver's
  queue is empty, so that by `SlotsConserved` all places but the lost ones are free, and no task
  waits for one.

`SdioRxProofs` (`IInv`: `TypeOK`, `BuffersConserved`, `SemIsQueued`, `Found`)
* `BuffersCorrect`, `TypeCorrect`: buffers are conserved, and because each is in one place only,
  the lengths of the queues are bounded by the number of buffers (pigeonhole).
* `SemCorrect`: `SemIsQueued` says exactly by how much `sdio_rx_sem` and the queues differ at each
  place of the two tasks; `SemCountsQueued` is what remains of it for a reader.
* `ReadCorrect`: `Found` says that after the semaphore was taken a packet is in the queues still
  to be looked into: the queues already found empty can only have been filled since, and nobody
  else takes packets out.
* `RestCorrect` (`TlvsLeft`, `EndIsDue`, `HostKnows`): while throttling is on, a packet is on its way
  to the place where `recv_task` tests whether to end it, or it is past that test and ends it, since
  the last packet finds a load of less than any positive threshold; or the last test was with a
  threshold of 0. `HostKnows` says that the host was told what the flag says, or is about to be, unless
  the last store of the flag crossed an interrupt. `TlvsLeft`: `recv_task` reads a configuration only
  while TLVs are left. At rest, then, the flag is off but for `lowZero`, and a host that is throttled
  with the flag off is one whose interrupts `crossed`: the theorem does not say that throttling always
  ends, but that it lasts in no other case.

`WifiControlProofs` (`IInv`: `TypeOK`, `RpcArgs`, `RegInv`, `FlagInv`, `ViewInv`, `KeptInv`)
* `HostViewHolds`: `ViewInv` relates what the driver's link is, which of its events are still
  pending, how far the event handler has got with the one it handles, and what the host was told.
  `RegInv` (no station event comes before the handler is registered) excludes an event nobody sees.
* `DataPathHolds`: `FlagInv` says the same of `station_connected` and the receive callback.
* `AcceptedConfigHolds`: `KeptInv` follows an accepted configuration through `new_wifi_config` and
  `new_config_recvd` to the driver at every step of the event handler, unless it `raced`. One that was
  taken as unchanged is followed as the driver's, up to `is_wifi_config_equal`; no more is true of it.
* `RestCorrect` (`AckInv`): where neither task can move, every request and event is handled and host,
  data path and driver agree on the station, or the co-processor is `Hung` in one of the two ways of
  `RequestsReturn`. `HangsForGood`: nothing gets it out of either (an action property): with the
  queue full nobody adds to it, and only `pserial_task`, which is held up, would take from it.

`TimerServicesProofs`
* `TypeCorrect`: needs that the handles in use are those of timers created (`HandleKept`).
* `UpdateCorrect`: `OtaInv` says that while the handle is open, or about to be opened, an update
  was begun since the last completion (`spoiled`), that otherwise a completed update, or a partition
  set to boot, holds a whole image, and that the restart timer exists only once that partition was
  set.
* `HeartbeatCorrect`: `HbInv` speaks of the heartbeats that will run once the commands now queued
  are executed, which is the only thing a request can be sure of: they are the one last asked for
  and those in `unstopped`.
* `RestCorrect` (`CmdsInv`, `RestartDue`): `pserial_task` waits for room among the commands of the
  timer task, and the timer task, inside a heartbeat, for room in the queue `pserial_task` empties.
  They come to rest with a request unfinished, or with an update that was activated and neither
  restarts nor was `abandoned`, in one case only, `HeldByHeartbeat`: starts of restart timers
  fill the commands but for one place. `CmdsInv` says which commands can be queued behind one another.
  `HeldForGood`: that case is a deadlock. It takes `CmdqSize` - 1 activations in the time of one
  heartbeat (nine in the firmware), each of an update written and completed before, so it is a
  limit of the design rather than something that a host meets; with the 6 requests of the run it
  cannot be reached, and there `RequestsReturn` holds without exception.

`HostPowerSaveProofs`
* `SleepCorrect`: `SleepInv` says that, unless the host was `hasty`, only alerts of what it told last
  are under way, however many, and that one of them has still to take `wakeup_sem` or set
  `power_save_on`, or all have (`Sleeping`, `Awake`). Steps of one kind commute in this; those of
  opposite kinds do not, which is why `hasty` has to be excepted and is no detail of the proof.
* `BusCorrect`: `BusInv` says that the bus is loaded, or unloaded, or in one stage of being unloaded by
  one task, as long as there was no `clash`. It needs `SleepInv`: the bus is unloaded for a host that
  has said it sleeps. What happens after a clash is not known, and not claimed.
* `AnswerHeard` (`UpInv`, `ToldInv`): while a sender pulses the GPIO or waits with `wakeup_sem` taken
  and no alert under way, the host has still to wake up and say so, and what it says finds the bus
  loaded, unless `hasty`, `clash` or `cut`. That is the safety part of `SenderReturns`: nobody waits
  for an answer that was given before, or that cannot arrive, but in these cases.
* `GpioCorrect` is inductive with the types.

`SpiTransportProofs` (`IInv`: `TypeOK`, `TakeInv`, `OneInv`, `HoldInv`, `LineInv`)
* `TakeCorrect`: `TakeFindsPacket` also needs the sum over the two last queues: an agent goes on
  to the last only when the one before is empty, so that those who look into either stay at most
  as many as the packets in both.
* `AnnouncedCorrect`: `OneInv` (one transaction circulates until a wake-up, hence one agent works at a
  time) and `LineInv`: while an agent lowers the line nothing is held for the host and nobody
  announces anything, or a packet has crossed; a held packet has the flag set for it, or
  `host_reset_task` is about to raise the line.
* `RestCorrect` (`RoundInv`): the one transaction is loaded, finished or in `Post`'s hands, and chip
  select is released, or is to be, for what `Post` has to finish. With `AnnouncedCorrect` the host
  clocks as long as a packet waits.

Only model-checked: the liveness properties (that the tasks, given the fairness of section 4, do get
to where `AnsweredCorrect`, the `RestCorrect` theorems and `AnswerHeard` speak of), because the
prover has no rule for fairness and ENABLED. `LossReported` of `WifiControl` follows at rest from
`RestCorrect` of that module.

## 6. Not modelled

* **Generated and vendored code**: `common/proto/esp_hosted_rpc.pb-c.*` and protobuf-c, which with
  its tests is most of the lines in the repository. In the models a request unpacks as a whole or
  not at all. The share of lines covered is small for that reason.
* **Code that the default build leaves out**: the packet filter (`lwip_filter.c`, only with
  `CONFIG_ESP_HOSTED_NETWORK_SPLIT_ENABLED`), the memory pool (`mempool*.c`, unused while
  `CONFIG_ESP_CACHE_MALLOC` is off, as on the C6), the transmit priority queues
  (`BYPASS_TX_PRIORITY_Q`), Bluetooth.
* **Other transports**: SPI half-duplex and UART. Of SPI the buffers and checksums, the throttling
  bit of dummies and the interface's states are left out.
* **Requests that hand one call to the driver** and keep no state: scans, power, protocol, country,
  the soft-AP's configuration, enterprise certificates, DPP, TWT.
* **Startup order**: `recv_task` runs before `pc_pserial` exists (listed as a hazard), and so do
  senders before the first startup event; only the effect of the latter is modelled
  (`StartupHeldUp`).
* **Re-initialisation of SDIO**: tasks created anew, and places of the semaphore lost when the
  bus is unloaded under a sender (listed as hazards): the driver's behaviour then is not known.
* **The bytes of a configuration TLV** (`host_to_slave_reconfig`): listed as a hazard.
* Statistics, raw-throughput test, console, MQTT and HTTP examples: no state other parts depend on.
  `protocomm_pserial_stop` and `host_power_save_deinit` are never called.

## 7. Plan

1. The rest of `SpiTransport` (the throttling bit, de-initialisation), then SPI half-duplex, whose
   registers replace the data-ready line.
2. Startup: `pc_pserial`, `recv_task` and the first requests; the tasks that `sdio_init` creates anew.
3. The packet filter: the parser of port lists against a reference definition, the caches over
   time; the memory pool against an abstract set of blocks; the configuration TLV loop with
   byte-wide lengths.
4. Proofs: `AnsweredCorrect` for a host that restarts (a request begun after the last restart is
   answered, but for the one a restart may cost); `SemCountsQueued` and the bounds of the queues for
   SPI half-duplex once it is modelled.
