# A TLA+ verification of WXDispatch

WXDispatch listens to weather alerts (the NWS REST feed, the NWWS-OI wire, the
NOAA radio's SAME headers, FEMA's IPAWS feed), routes them by county and event
to destinations, and broadcasts them through Meshtastic and MeshCore radios.
One Python process does all of it with asyncio tasks over one SQLite file.
What can go wrong is not in any one function: several sources report the same
hazard, the radio is slow and fails, products supersede each other, and the
process can stop between any two commits.

## 1. Inventory

| Component | State it keeps | Operations | Correct when |
|---|---|---|---|
| Weather arbitration (`arbitration.py`, tables in `db.py`) | candidates, destination rows, follow-up outbox; fallback tasks and recoverable keys in memory | `ingest`, `_ingest_same`, `prepare_followup`, `release_due`, `deliver_prepared_followup`, result callbacks, recovery in `__init__` | one source at a time per destination, no claim forgotten, no rebroadcast, every told destination hears the end, products never go back in time |
| Delivery of one alert (`poller.py` `_process`, `_delivery_targets`, `_on_result`) | `_pending_deliveries`, `_conditional_chains`; `delivery_attempts`, `alert_delivery_state` | `deliver_arbitrated`, `ingest_feature`, results | one attempt per alert, text and endpoint at a time; the chain state records what was accepted |
| Transmit queue and worker (`transmit.py`) | three bounded lanes, `_chain_results`, the worker task | `enqueue_*`, `cancel_queued_correlation`, `_worker` | every entry is answered once, warnings go first, the worker lives |
| Radio links (`transmit.py`) | per transport: link, error, backoff; the companion's flood scope and channels | `_ensure`, `_reconnect`, `_try_send`, MeshCore channel edits and inspections, `load_channels`, `reconfigure` | one link at a time, of the settings in force; nothing outside a required scope; a command is never repeated; the lock is released |
| Routing, filters, dedupe (`routing.py`, `filters.py`, `dedupe.py`) | none (rows of `db.py`) | `route_alert`, `decide` | exactly the enabled rules that match |
| Details and MeshWX (`poller.py`, `detail_formatter.py`, `meshwx_v4.py`) | `detail_state` per chain row, `meshwx_delivery_state`, a 16-bit sequence | `_queue_detail_if_needed`, `_queue_meshwx_if_needed` | after an accepted card only, once per content, superseded by updates |
| REST poll loop (`poller.py` `start`, `stop`, `poke`, `_run`) | the task, the wake event | poll, wait, poke, hard timeout | saved settings are polled with; no poll hangs the loop |
| NWWS-OI (`nwws_runtime.py`, `nwws.py`) | inbox, two tasks, sequence tracker | connect, receive, consume, stop | no product passed on twice, bounded memory, reconnects |
| NOAA receiver (`noaa_sdr.py`, `noaa_same.py`) | two processes, thermal latch, backoff | spawn, watch, terminate, hold | a cycle starts only when the last one's processes are gone or have got SIGKILL; no start while hot |
| IPAWS (`ipaws.py`) | poll window, `ipaws_log` rows | `poll_once`, results | every message of the feed is decided about, none goes out twice |
| Retention and history (`db.py`) | history, logs, chain state | purges and prunes | nothing still needed is deleted |
| Service lifecycle (`main.py`, `watchdog.py`) | the tasks, the watchdog thread | start, stop, heartbeat, stall exit | the parts stop in order, before the database; a stalled process is ended |
| Web administration (`web/`) | sessions, settings | route, destination, radio edits | edits do not disturb deliveries under way |
| Alert map, formatting, configuration, serial discovery | caches, none | read only | left out: pure I/O and layout |

The sources call `WeatherArbiter.ingest` or `prepare_followup`; what it does not
handle goes to `WxPoller.ingest_feature`. Both end in `WxPoller._process`, which
appends to the lanes of `TransmitManager` with a callback; the worker sends
under the radio lock and calls back with the result, and the callback writes
the database, starts fallback tasks and queues details. The IPAWS poller uses
the low lane only. The web pages change routes, destinations and radios at any
time. The database's commits survive a crash; lanes, tasks, pending attempts,
links and recoverable keys do not.

Hard behaviour, found reading the code (the `hazards` of PROJECT.json give the
lines): the race of the two sources for a destination, delivery outside the
arbiter's lock, late results, the crash between a broadcast and its record,
products out of order, fallbacks after a close, conditional cancellations, a
worker that sleeps between reading a queue and taking from it, links that hang
while they are closed under the lock, commands whose answer is lost, processes
that ignore signals, replays after a failover, windows that overlap, and a
shutdown at any of these moments.

## 2. Plan

1. **Arbitration** with the abstract **OneShot**: one hazard end to end. Done.
2. **TransmitQueue**: lanes, worker, eviction, cancellation, conditional
   predecessors. Done.
3. **Delivery**: `_process`, `_delivery_targets` and `_on_result` for a chain of
   unarbitrated alerts, with details and MeshWX. Done.
4. **RadioLink**: links, sends, edits and reconfiguration under the lock. Done.
5. **NwwsRuntime** with **SequenceTracker**, **NoaaSdr**, **PollLoop**, composed
   in **Service** with the boot, the watchdog and the shutdown. Done.
6. **Ipaws**: the window, the rows, failures and restarts. Done.
7. Theorems: types and the ledger refinement, the evidence invariant behind "no
   claim is forgotten", exactly-once answers of the queue, the invariants of a
   radio under its lock, the windows and rows of IPAWS, the chain an arbitrated
   destination hears, what a cycle, a shutdown and a failover leave behind, and
   what a destination hears of a chain of unarbitrated alerts, details included:
   done. Every invariant and action property that a passing run checks is stated
   by a theorem; what is left is liveness.
8. Not planned: several candidates with ambiguous matches, whose matching is a
   similarity of strings, and routing as a filter over strings.

## 3. The modules

| Module | What it is |
|---|---|
| `Arbitration` | one hazard from its first observation to its last follow-up, crashes included |
| `OneShot` | the abstract ledger Arbitration implements |
| `MCArbitration` and four `.cfg` | product tables and instances for TLC |
| `ArbitrationProofs`, `LedgerProofs`, `ChainProofs` | theorems about Arbitration |
| `TransmitQueue` | the lanes and the worker of `TransmitManager` |
| `MCTransmitQueue` and two `.cfg` | entries and instances for TLC |
| `QueueProofs` | theorems about TransmitQueue |
| `Delivery` | one hazard outside the arbitration: products, rows, cards, details, frames |
| `MCDelivery` and three `.cfg` | products of a hazard and instances for TLC |
| `DeliveryProofs` | theorems about Delivery, with one feed and with both |
| `RadioLink` | one radio under the lock of `TransmitManager` |
| `MCRadioLink` and its `.cfg` | saved settings |
| `RadioProofs` | theorems about RadioLink |
| `SequenceTracker` | which products of the NWWS-OI stream are replays |
| `NwwsRuntime`, `NoaaSdr`, `PollLoop` | the two receivers and the poll loop, each without a specification of its own |
| `Service` | the process: these three with the other tasks, the boot, the watchdog and the shutdown |
| `MCService` and its `.cfg` | NWWS processes and receivers |
| `ServiceProofs` | theorems about Service and its parts |
| `Ipaws` | the IPAWS poller and its log |
| `MCIpaws` and its `.cfg` | messages and settings |
| `IpawsProofs` | theorems about Ipaws |

Definitions whose comment begins with "Mutant of" are alternatives with a
plausible bug. Nothing in the specification uses them: PROJECT.json names, for
every property of a passing run, one that makes the run fail.

### Arbitration

The module follows one hazard: one row of `weather_arbitration_candidates`
(`phase`, `canonical`, `restFeature`, `due`), its rows in
`weather_arbitration_destinations` (`dests`) and
`weather_arbitration_followups` (`outbox`), the part of `alert_delivery_state`
that names who was told under which root id (`told`), the VTEC alias (`alias`)
and the attempts whose broadcast is logged but not yet accepted (`unsettled`).
These survive a crash. The attempts in a lane or on the air (`live`), the
fallback tasks (`tasks`), a coroutine between `prepare_followup` and
`deliver_prepared_followup` (`prepared`) and `_recoverable_followups`
(`recoverable`) do not. `airings` and `heard` are history, for the properties:
how often the warning was broadcast to a destination, and which destinations a
broadcast of each chain reached. `ConditionalNeedsSuccess` asks for any broadcast
of the chain, not for a warning: the forced all-clear of `poller.py:584` (see the
findings) may itself be what a cancellation waits for.

| Action | Code |
|---|---|
| `SameIngest` | `WeatherArbiter._ingest_same` with the claim and delivery that follow |
| `RestCreate`, `RestBind`, `RestReplay` | the three outcomes of `ingest` for a REST product |
| `DeadlinePasses`, `ReleaseDue` | the deadline of a candidate, `release_due` (each second) |
| `RunFallback` | the task `_release_failed_same` |
| `PrepareFollowup`, `DeliverFollowup`, `NothingPrepared` | `prepare_followup`; `deliver_prepared_followup` and the 1 s release, with `_process` |
| `StartSend`, `SendSucceeds`, `SendFails`, `AcceptRaises` | the worker takes an attempt; its result, with `_on_result` and the arbiter's callback |
| `Crash`, `CrashAfterLog` | the process stops, also between the log and the callback; the next `__init__` |
| `Reroute`, `ToggleDestination` | an administrator's edits |

`Handoff` is `_deliver_claimed` with the part of `_process` it reaches; it has
no await inside, so it is one step. The two halves of a follow-up are two steps,
though the awaits between them (`poller.py:504-511`) never suspend and the
handler that prepares it also delivers it first: the model allows more than the
code, and a crash in between is the one case it needs.

Abstractions: the hazard's observations always match the one candidate and no
text repeats (a repeated text is Delivery's subject); the 48 hours of retention
never end; a broadcast counts from its transmit log row on, so a crash after the
radio took a text and before the log is a failed send.

`OneShot` sees per destination only whether the warning is unknown, waiting,
with a source, delivered or closed. `View` maps a ledger row to that: `pending`
is waiting, `queued` is with its source, `accepted` delivered, `superseded` and
`no_fallback` closed; `open` is `phase \in {none, initial}`.

### TransmitQueue

An entry is one call of an `enqueue_*` function with its callback. A lane is the
set of its entries with a stamp each, the order in which they joined: the code's
deques are appended to, popped on the left and filtered, so the order never
changes otherwise. `hand` is the entry inside `_transmit_item`, `answers` the
results every callback got, `airs` what a radio took. The worker is one
coroutine, cut at its awaits:

| `worker` | The worker is |
|---|---|
| `look` | between two entries (no await there; callbacks may have enqueued) |
| `wait` | in `_queue_event.wait()` |
| `gap` | in the `BURST_GAP_SECONDS` sleep before an entry |
| `send` | in `_transmit_item` |
| `backoff` | in the sleep after a failure |
| `dead` | ended by an exception nobody catches |

`Submit`, `Refuse` and `Cancel` are `_enqueue`/`enqueue_meshwx` and
`cancel_queued_correlation`; they run between two awaits of the worker, in any
order. `Finish("failed")` covers the radio's failure and an exception of the
transmit log, with or without a broadcast. The module does not say which
results a destination's link gives: any may come at any time.

### Delivery

The path of every alert when the NOAA receiver is off, and of the alerts the
arbiter finds ineligible. One VTEC alias, the rows of `alert_delivery_state`
(`rows`) and of `meshwx_delivery_state` (`mesh`) survive a crash; the lanes, the
entry on the air, `_conditional_chains` (`conditional`) and `_chain_results`
(`result`) do not. `_pending_deliveries` is no variable: it holds exactly the
cards in their lane or on the air (`Pending`), for a card enters it as it is
enqueued and leaves it in its callback, and the callback comes with the
withdrawal. `log` and `seen` are history, for the properties.

| Action | Code |
|---|---|
| `Poll`, `Receive` | a feature of `poll_once`, or of the NWWS callback through `ingest_feature`: `_process` from end to end, which awaits nothing |
| `TakeCard`, `TakeRest` | the worker takes an entry or skips a conditional card |
| `CardSent`, `CardFailed` | `_on_result` of a card, with the row, the detail and the frame it leads to |
| `DetailDone`, `FrameDone` | the callbacks of details and frames |
| `Publish`, `Edit` | the office issues the next product; the operator edits a rule or a destination |
| `Crash` | the process stops and `WxPoller.__init__` runs again |

`alias` starts as "unknown" (the first product sets it) or "no VTEC" (every
product keeps its own id and refers to the others). Abstractions: a lane is
never full and its worker lives, which TransmitQueue is about; no time passes,
so nothing expires, and no detail is out of date; the sender is not in dry run;
an endpoint is not edited; the chain is one of fewer than 512 aliases.

`_delivery_hash` covers what an alert says and the counties it was routed for.
The model keeps the two apart: `Text` and `Detail` are constants of the alert,
equal exactly when the alert's part of the hash is, and the counties are those of
the destination's rules that the alert names (`Areas`), so they change with an
edit. `rules` holds a destination's counties, as one rule per destination would;
`Edit` takes one from it or gives it one, or flips the destination. Rows and
cards carry the counties they were made for, as `matched_areas` does, and an
all-clear or a cancellation repeats those of the row or of the pending card
(`Snapshot`). An edit of the counties is therefore a reason to hear the product
again, as an update, and `HeardOnce` is about one product and one set of counties.
Two consequences of edits are in the model as in the code, and no property
denies them: a cancellation queued for the row's counties, while a card for
others is on the air and is then accepted, has another key than the one the next
poll computes, so a second cancellation can join the lane; and two conditional
cards of one chain can wait at once, of which the second is skipped, because
`_conditional_chains` is a set, and queued again by the next poll. `NoStaleAnswer`
therefore asks that an answer is kept only for a chain in which a conditional
card is pending, not the reverse.

`DetailHeardOnce` is stated for products whose texts and details differ
(`OwnContent`). The columns of `_queue_detail_if_needed` compare a detail's text
with the last one queued in the row, so where products of one VTEC id repeat each
other, TLC finds a detail queued and accepted twice: the third product with the
detail of the first, while that one waits behind the second, or the text of the
second with a detail of its own.

### RadioLink

`asyncio.Lock` is fair and every operation on a radio takes it, so the module has
one operation at a time: `holder` is what it is, `stage` what it awaits, and
whoever waits is not kept. `tx` and `connected` are the fields of `Transport`,
which the code sets apart: a reset clears `connected` first, and an inspection
that gives up leaves `tx` behind. `flood`, `slot` and `cache` are the companion's
flood scope, one of its channel slots and what the settings keep of that slot.

| Action | Code |
|---|---|
| `Begin` | a caller of `_lock`: the worker, a channel edit, the settings page |
| `UseLink`, `FindStale`, `NoTarget`, `Ensure` | `_ensure` and `_ensure_meshcore_channel_transport` |
| `Reclose`, `Reopen` | `_reconnect`: the close with its timeout, four tries to open |
| `Scope`, `Sent`, `Unsent`, `Broken` | `_try_send`, `_try_send_binary`, `_apply_flood_scope` and what they do about each failure |
| `Query`, `Command`, `Readback`, `Refresh`, `EditBroken` | `set_channel`, `clear_channel` |
| `Inspect`, `InspectBroken` | `inspect_meshcore_channel(s)` |
| `Probe`, `Unprobe` | `load_channels` |
| `Rebuild` | `reconfigure` |
| `Drop`, `Wedge`, `Recover`, `WedgeEnds` | the link drops, its reader hangs, the MeshCore library reconnects (external) |

The link's configuration is kept beside it (`tx.config`), so that a send can be
asked which settings it went through. The radio's own library is external: it is
what makes a link live, down or wedged.

### SequenceTracker, NwwsRuntime, NoaaSdr, PollLoop and Service

`Service` EXTENDS the three parts and adds what `main.py` and `watchdog.py` do.
Each part is a set of variables with its own step and environment operators;
`Service!Next` interleaves them on one event loop (`Turning`), which a call may
block (`Stall`) and which the watchdog thread ends from outside (`Watchdog`).
The receivers share nothing but the loop, so one of them is enabled, or none.
Every other task is alive or not (`tasks`, `cancelled`, `fallbacks`).

| Action | Code |
|---|---|
| `Boot` | `lifespan` up to its `yield` |
| `Shutdown`, `NoaaIsDown` ... `RadiosAreClosed` | `lifespan` after it, one step from await to await |
| `FallbackBegins`, `FallbackEnds` | a task of the arbiter, which `drain` waits for |
| `Receive`, `Consume`, `Discard`, `CallbackEnds` | `_enqueue` and `_consume` |
| `SessionEnds`, `CloseTransport`, `BackoffEnds` | `_connection_loop` |
| `Hold`, `SpawnRtl`, `SpawnDecoder`, `CycleFails`, `TooHot` | the supervisor's cycle with `_wait_until_cool` and `_watch_temperature` |
| `Reaped`, `WaitIsOver`, `AllStopped`, `BackoffOver` | `_stop_processes`: SIGTERM, a timeout (`FirstTimeout`), SIGKILL, a timeout (`SecondTimeout`) |
| `Exits` | a program ends, of itself or by a signal (external) |
| `SdrCancel` | the cancellation, at whichever await it strikes |
| `PollEnds`, `PollAgain`, `Poke`, `Hang` | `WxPoller._run` |

`_stop_processes` gives a process up after the second timeout
(`noaa_sdr.py:517-521`), so one that outlives SIGKILL for as long as that, an
`rtl_fm` in an uninterruptible USB call, stays and holds the device when the next
cycle spawns another. `alive` and `struck` are the programs of which a process
runs that has not, or has, got SIGKILL. `ProcessesReaped` says what the code can
guarantee: between two cycles nothing is alive, that is, what still runs has got
SIGKILL.

The tracker's window of the last 256 ids is left out because it can reject
nothing more: ids join it with the last number seen, and a number that is not
larger is rejected by the comparison before.

### Ipaws

The clock counts in overlaps of the window (thirty seconds); a message is filed
under the step it is issued in and listed up to `Latency` later. A poll handles
its answer without an await (`phase = "handle"`), so everything else waits, but
it may raise between two messages (`HandleRaises`). `handled` and `excused` are
history: what a poll decided about, and what an unreadable answer, a database
error or the end of the look-back lost.
`NothingMissed` rests on a feed that lists a message no later than the overlap of
two windows allows (`Latency`), which the code's thirty seconds assume as well.

| Action | Code |
|---|---|
| `BeginPoll`, `PollFails`, `Answer`, `PollEnds` | `_run`, the request of `poll_once` and its window |
| `Handle` | one turn of the loop in `poll_once`: `ipaws_seen`, the filters, `_cancel_in_area`, `_cancel_text`, `add_ipaws`, the low lane |
| `Send` | the worker and `_make_result_cb` |
| `Save`, `Crash`, `Restart` | the operator's settings; the process stops; `__init__` |
| `Issue`, `Appear`, `Tick` | the feed and its delay (external) |

## 4. The runs

| Run | Instance | Shows |
|---|---|---|
| `arb_chain` | 1 destination, CON, EXT, CAN, 2 mishaps | types; refinement of OneShot; products never go back; only the newest moves; what is filed under the canonical id is cancelled and never rebroadcast |
| `arb_fleet` | 2 destinations (symmetric), CAN, 1 mishap, deliveries that raise half-way | no claim opens after a follow-up and none is forgotten; late results leave no trace; conditional cancellations |
| `arb_live` | 1 destination, EXT, CAN, 1 mishap, fair | waiting deliveries and follow-ups are settled |
| `arb_cancel` | 1 destination, no mishap | violated: see findings |
| `queue` | 2 warnings of one chain, a detail, a message and a frame, lanes of 1, fair | one answer per entry, a true one; conditional entries; warnings first; every entry is answered while the worker lives |
| `queue_worker` | 2 warnings | violated: see findings |
| `delivery_chain` | 2 destinations, a warning for two counties, an update that leaves one, a cancellation, with and without a VTEC, 1 mishap | who hears what, once, in a true order, and in the end all of it |
| `delivery_wire` | 1 destination, the warning and the cancellation with NWWS copies | violated: see findings |
| `delivery_cancel` | 1 destination, no mishap | violated: see findings |
| `radio` | 6 saved settings (TCP and serial, open, scoped and blank scope, no target, disabled), 3 drops or wedges, fair | one link, of the settings in force; the scope is kept; edits are commanded once and reported truly; the lock is released |
| `service` | NWWS with 3 processes and 4 stanzas, NOAA, or neither; 1 stall, 1 fallback, fair | no replay; processes reaped or killed; the thermal latch; a shutdown that ends and leaves nothing behind; settings are seen; receivers return |
| `ipaws` | an alert, its bare cancellation, a drill; 4 clock steps, look-back 2, 1 crash, 2 settings | no gap between windows; nothing handed over twice |

Bounds. One hazard is all an arbitration transaction looks at, and a
destination's row depends on no other row except in a delivery that raises
half-way, so two destinations are enough to show what concurrent rows can do to
each other; three products are the shortest chain with an update behind an
update. A *mishap* is a crash, a database fault or an administrator's edit
(`MaxMishaps`): two of them show a crash after an edit and a crash after a
fault, and everything else is unbounded. `PartialFaults` says whether a
delivery may raise after some of its destinations were enqueued; it needs two
destinations, so only `arb_fleet` sets it. `LegacyIncludes = TRUE`: the include
rules admit the event. The queue's entries are finitely many, so starvation of
the low lane by endless warnings is not ruled out, nor is it meant to be; lanes
of one make every second entry of a lane an eviction or a refusal. Delivery
needs a second destination because the chain of a new recipient comes from those
of the others, and no more than one mishap, a crash, an edit or a broadcast
whose answer was lost, at any point of the chain; failures of the radio that it
reports are not bounded. `Editable` names the counties an edit may change: the
one the update still reaches, of the destination that covers both. Taking it
away narrows what that destination is told of the warning and makes the update one
that no longer reaches it. The proofs have every edit of every county. The run
has some 208,000 distinct states, `service` some 305,000.

A radio's retries are bounded by the code (three attempts, four tries); three
faults (`MaxFaults`) let a reset's link fail and its successor wedge.
`MaxRetired = 1` makes the tracker forget after the second failover, which three
processes reach; `QueueSize = 1` makes the inbox drop; one number per process
(`MaxSeq`) suffices for a replay, and four stanzas (`MaxOffers`) for a replay
after it was forgotten. `MaxStalls` and `MaxFallbacks` of one strike at every
moment of boot, service and shutdown. In `ipaws`, a look-back of two steps and a
clock of four (`MaxClock = 3`) let a message fall out of the look-back of a
restart; `MaxCrashes` of one suffices because a second restart starts from a
state that the first already reaches. The proofs have none of these bounds.

`CHECK_DEADLOCK FALSE` in Arbitration and TransmitQueue: a service with no
alert left to handle, or no mishap left to suffer, stops. In `service` a closed
or killed process stops, and in `ipaws` the clock does. Delivery polls for ever,
and a radio can always be asked for something.

`QuietMeansTold` stands where a liveness property would: a radio that always
fails is retried for ever, and rightly so. It says instead that the polls have
nothing left to send only when everyone has heard what there was to hear.

Symmetry is used in `arb_fleet` only, where no property is temporal beyond an
action property and no constant distinguishes the destinations.

Fairness. `Arbitration!FairSpec` makes weakly fair what the running process
does by itself: the 1 s release loop (`DeadlinePasses`, `ReleaseDue`,
`DeliverFollowup`), started tasks (`RunFallback`), the worker's results
(`Finish`, `FailSkipped`). Two strong assumptions remain per destination, that
an attempt which keeps coming back to the lanes is started (they are FIFO) and
that a destination's radio works again and again; without the second the code
rightly retries for ever. `TransmitQueue!FairSpec` only says that the worker
keeps running: its sleeps end and every send is bounded. `RadioLink!FairSpec`
says that the holder of the lock goes on: driver calls return or raise, except a
close over a wedged reader, which is not a step at all until the wedge ends.
`Service!Fairness` says that the loop runs every task that can run, timers
expire and cancelled tasks end; nothing is assumed of the server, the receiver,
the temperature, the length of a stall or the close of a radio.

## 5. Findings

Four runs violate what a comment, test or document of the repository says.

* `arb_cancel` (code): a destination warned by the REST fallback is filed under
  the REST id, the cancellation looks the canonical (SAME) id up, and the
  destination never hears the end. `CanonicalChainIsCancelled` is what holds.
* `queue_worker` (code): the worker tests the lanes, sleeps through the burst
  gap and pops. If the lanes were emptied meanwhile, `popleft` raises outside
  the `try` and the worker task ends; later entries join lanes nobody empties.
  `OnlyACancelKills` is what holds.
* `delivery_wire` (code): the REST and NWWS copies of a product share an id but
  not the text the row is compared with, so each copy looks like an update of
  the other and is broadcast, for as long as the feeds alternate; a listed
  warning follows the wire's cancellation. `HeardOnce` holds with one feed.
* `delivery_cancel` (code): under a VTEC alias the cancellation carries the id
  of the queued detail, which is therefore kept, and heard after it.

Found while modelling, without a run of its own:

* The stray id of `arb_cancel` also hides a logged broadcast from the
  reconciliation at a restart (`db.py:2085`): the warning goes out again, though
  `README.md:79` says "Never rebroadcasts the same alert".
  `RebroadcastsOnlyStrays` is what holds.
* A terminal product of the arbiter is forced to every recipient
  (`poller.py:584-590`): a destination whose warning was still waiting gets the
  cancellation of a warning it never heard (`dedupe.py:9`), and an update whose
  text the destination's row already has goes out as a forced all-clear.
* A poll of an update whose card is on the air finds no target and queues the
  update's detail against the row of the warning (`poller.py:620`); it is sent
  even if the card fails, while `README.md:88` says "Details go only after the
  alert card is accepted".
* The second link failure of a TCP inspection (`InspectBroken`) leaves `tx` set
  and `connected` false; the next `_ensure` opens over it and the old link is
  never closed. `OneLink` holds until then (`dangling`).
* `reconfigure`, `load_channels` and `stop` close a link without the timeout that
  `_reconnect` gives it because "close can hang" (`transmit.py:1038-1043`): a
  wedged reader holds the lock, or the shutdown, for ever, and in the shutdown
  the watchdog is already stopped. `LockIsReleased` and `ShutdownEnds` exclude
  exactly these waits.
* Clearing the required scope sends no command, so the companion keeps the old
  one; the settings page stores the new radio settings before `reconfigure` takes
  the lock, and an open in between reads them.
* The IPAWS row is stored as queued before the entry joins the lane: after a
  crash the message counts as seen and is never sent. An answer that cannot be
  read, or a database error, loses its window (`excused`). A bare Cancel that an
  answer lists before its Alert is logged as out of area; one with an area and
  event of its own is sent although its alert never was, which `ipaws.py:160-161`
  denies.
* A product is remembered as seen before `on_product` runs (`nwws_runtime.py:357`):
  one that raises is lost, and its replay rejected. A header still in the
  receiver's callback is lost when its cycle ends. A cancellation inside
  `_stop_processes` leaves the processes that ignore SIGTERM (`cut`), one that
  outlives SIGKILL is left beside the next cycle's, and the receiver's backoff
  never shrinks again.
* A poke that comes while a poll runs is cleared after it (`poller.py:429`), which
  costs an interval. If the worker has died, `tx.stop` raises its exception again
  and the database is not closed.

## 6. The proofs

| Module | Theorem | |
|---|---|---|
| `ArbitrationProofs` | `TypeCorrect`, `NewestProductOnly`, `LifecycleForward` | from the invariant `Core` |
| `LedgerProofs` | `NoLateClaim`, `ImplementsOneShot` | from the invariant `Safe` |
| `LedgerProofs` | `EveryClaimCarried` | from `Carried`, assuming `LegacyIncludes` |
| `ChainProofs` | `SentBehindSuccess` | from the invariant `Behind` |
| `ChainProofs` | `ToldByAcceptance` | from `Core` |
| `ChainProofs` | `ToldIsCancelled` | from `Closed` |
| `ChainProofs` | `OnlyStraysRepeat` | from `BroadcastOnce` and `Silent`, assuming `~PartialFaults` |
| `DeliveryProofs` | `DeliveryTypeCorrect`, both feeds | from `Typed` |
| `DeliveryProofs` | `ClearAfterWarning`, both feeds | from `WarnInv` |
| `DeliveryProofs` | `NothingOutdatedWaits` | from `FeedInv` |
| `DeliveryProofs` | `AnswersAreAwaited` | from `Apart` and `AnswerInv` |
| `DeliveryProofs` | `NotHeardAgain` | from `LogInv`, `PendInv` and `HeardInv` |
| `DeliveryProofs` | `QuietIsTold` | from `RootInv` and `LastInv` |
| `DeliveryProofs` | `DetailTakenOnce` | from `DueApart`, `TouchInv` and `DetailInv`, under `OwnContent` |
| `QueueProofs` | `QueueTypeCorrect`, `EachAnsweredOnce`, `NoAiredWithdrawal`, `ConditionalChain`, `NoDeathWithoutCancel`, `WarningsFirst` | from the invariant `QInv` |
| `RadioProofs` | `LinkTypeCorrect` | from `TypeInv` |
| `RadioProofs` | `NoLinkCrosses`, `OneLinkAlways` | from `LinkInv` |
| `RadioProofs` | `ScopeAlwaysKept` | from `AirInv` |
| `RadioProofs` | `EditsOnce`, `ReportsAreTrue` | from `EditInv` |
| `IpawsProofs` | `WindowsLeaveNoGap` | from `TimeInv` and `MissedInv` |
| `IpawsProofs` | `HandedOverOnce` | from `OnceInv` |
| `ServiceProofs` | `NothingOutlivesItsCycle` | from `ReapInv` |
| `ServiceProofs` | `HotStaysOff` | from `HeatInv` |
| `ServiceProofs` | `ShutdownLeavesNothing` | from `StopInv` |
| `ServiceProofs` | `PassedOnOnce` | from `ReplayInv` |

They hold for every set of destinations and products and every order and number
of mishaps (Arbitration), every finite set of destinations and ids, every set of
products, counties and rules and every edit of these (Delivery), every set of entries, lanes, keys and capacity
(TransmitQueue), every set of saved settings and number of faults (RadioLink),
and every feed, settings, look-back and number of crashes (Ipaws).

`Core` adds to the types that a hazard with a follow-up has a stored product
(`Anchored`): without it, an outbox row could move while `restFeature` is unset,
and `OnlyNewestProductMoves` would not be inductive. `Safe` adds that waiting and
claimed rows exist only in the initial phase and that a row has a source exactly
while it is claimed or accepted; from it each action's effect on a row is one of
the moves of `OneShot`, and the steps are composed destination by destination.
`Carried` says of every claim that an attempt or a logged broadcast will settle
it; it needs `Safe` because a restart returns claims only together with their
attempts. Where the include rules reject the event, `_process` returns without a
result and the claim stays behind, hence the assumption.

`Behind` says of every attempt whether what it waited for was broadcast, in the
lane as well as on the air. `Closed` adds that the stored product is a follow-up
once the initial phase is over: the outbox that a cancellation filled is the one
the canonical chain is looked up in. `BroadcastOnce` says, for each destination,
what can still broadcast the warning: one attempt at most carries it, and once
it was broadcast either a logged broadcast is a stray, or nothing carries it and
its row is not waiting, a claim still open being awaited by a logged broadcast.
`Silent` says that nothing is on its way before the candidate exists. An exception between two enqueues of one delivery (`PartialFaults`) gives
back claims whose attempts are in a lane already, and then a second attempt can
follow; the theorem excludes it, as `arb_chain`, which checks the property,
does.

Delivery's theorems use two assumptions. `DeliveryAssumption` types the
constants; `FeedAssumption` says what the REST service lists of a hazard: a
feature per product, and each refers to those before it, which is how
`poll_once` and `_delivery_targets` know a chain. What comes by wire need not, and
the theorems that hold for both feeds do without it. `Typed` adds that a detail
waits only where a row is, the row in which its answer is written (`HasRow`).
`WarnInv` says where a warning must have been heard: behind every row, behind
every answer "sent", and behind every card that ends the hazard, unless that card
is conditional. `FeedInv` says that rows and cards are of products processed,
none newer than the last one. `Apart` says that the lane holds one card for a
destination and the counties it names, and not the product that is on the air for
them. `AnswerInv` adds to `NoStaleAnswer` that a conditional card on the air and a
chain with an answer "sent" have a row, so that nothing of the chain is made
conditional any more. `LogInv` and `PendInv` order what was
heard against what is on its way; `HeardInv` is about the entries of the log that stand
(`Stands`): answered, with neither an all-clear nor a card for other counties
behind them. Such a product is not sent again for its counties, because a newer one
was processed since, or a row of the destination says it with these counties, and
then only an all-clear of it can be on its way with them. `RootInv` says that a
destination has one chain: its row and its pending cards have one root, although
`_delivery_targets` looks for the root each time. With it `LastInv` holds, that
the row says what the radio is known to have taken last.

`DetailInv` says what keeps a detail from being queued again, which is needed
only while it could be: as long as its product is listed or a card of it is on
its way (`Live`), the row of the destination asks for the detail that is on its way,
or has accepted the one that was heard. Later products overwrite these columns,
and `TouchInv` says why they may: no older card is left for that destination. A
poll that finds no target queues a detail only where no older card is on the air
(`RetryFacts`), which takes `LastInv` and `OwnContent`: a row that has the text of
the listed product was written by its card.

The withdrawal of queued entries is a fold over the lane in the code and a
sequence of the kept places in the model (`Kept`); `KeptFacts` proves from that
definition that an entry is kept exactly if its chain is not withdrawn, and that
none is kept twice.

`QInv` adds to the queue's properties that entries in a lane or in hand are
unanswered, that `_chain_results` says "sent" only of chains with an acceptance,
and that a worker in the gap has an entry in front of it unless something was
withdrawn. `stamp` needs that only finitely many entries have joined so far, an
invariant too; the set of entries itself may be infinite.

`TypeInv` adds to the types whose the stages are (`StagesFit`): only an edit
queries and commands, and only an edit or an inspection is retried. `LinkInv`
adds that a link at hand has the settings in force, that it is usable or about
to be closed, and that a reset has nothing at hand when it opens. `AirInv` adds
that a payload is offered only under a confirmed scope, where one is required,
or after a restart of the companion. `EditInv` adds that a command that was sent
leads only to the end of its edit, and that a report comes only there.

`TimeInv` bounds the clocks: what the feed does not list is at most one step
old, and no window starts in the future. With it every answer and restart
re-establishes that what is not decided about is in the next window. `OnceInv`
adds that what was handed to the lane has a row.

Every step of Service is a step of each receiver, or none, so the receivers are
reasoned about alone (`ReceiverSteps`). `ReapInv` says which programs the
supervisor holds at each stage: what runs and got no SIGKILL is held or waited
for, unless the wait was cut short, and the wait after a SIGKILL is for a process
that got it. `HeatInv` adds that the latch remembers the heat. `StopInv` lists,
for each phase of the shutdown, what its waits have found gone and that nothing
starts it again. `ReplayInv` relates what was passed on to what the tracker
remembers: the processes that gave way are remembered in the order in which they
did, and one that was forgotten has as many successors as the memory is long.

Model-checked only: liveness, which is out of the prover's reach.

## 7. Not modelled

PROJECT.json lists every component with what is left out of it. Text layout,
parsing (XML, VTEC, SAME, CAP), audio, the alert map, web pages, configuration
and serial discovery stay out for good: they are functions of their input or
pure I/O, and what the models need of them, a product's identity, its place in
its chain and whether two texts are equal, is a constant. The web pages' manual
sends bypass the queue. Left out of what is modelled:

* several candidates and the ambiguous match of a SAME header
  (`arbitration.py:404`), a similarity of strings; the pruning of candidates after
  48 hours (`db.py:2188`) and every purge, which are beyond the life of a hazard;
* dry run, under which every claim fails and is released again each second
  (`poller.py:650`), edits of an endpoint, expiry, and the limit of 512 aliases;
* include rules that drop an arbitrated follow-up (`poller.py:563`), whose outbox
  rows stay queued;
* the length of delays (the 30 s gap, backoffs, the minute a failed entry makes a
  warning wait, `transmit.py:1360`): they order events but have no length, except
  the windows of Ipaws;
* the entry that a frame leaves in `_chain_results` (`transmit.py:1343`), a leak
  without effect on what is sent;
* the second radio, the health and status records, and `NWWSRuntimeService`'s
  entry for transports with a thread of their own, which the application's
  transport does not use.
