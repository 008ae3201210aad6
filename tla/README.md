# A TLA+ model of UniPE

UniPE watches the packets that reach a network interface, without ever sending
one: an XDP program counts flows and samples payloads in the kernel, an exporter
sends the counters over a Unix socket every 250 ms, a Python engine turns them
into features, runs its detectors, folds what they raise into incidents, and
writes JSON files, and a Tauri/React console polls those files for an analyst.

This directory states what each stage owes the next one, checks it with TLC on
small instances, and proves part of it with TLAPS for all instances. Paths below
are relative to the repository; `ai/` abbreviates `unipe-ai/unipe_ai/`.

    tlc -config FlowWindow.cfg MCFlowWindow.tla      one run; they are listed below
    tlapm FeatureProofs.tla                          one module of proofs; section 5 lists them

## 1. Inventory

| Component | State it keeps | Operations | Hands over to |
|---|---|---|---|
| XDP program, `unipe-ebpf/src/main.rs` | two LRU maps: FLOWS (a record per 5-tuple) and HANDSHAKES (a payload sample) | one run per packet, on any CPU | the exporter reads both maps |
| Exporter, `unipe/src/main.rs` | the vector of connected clients, under a mutex | bind, accept task, publish per tick, Ctrl-C | length-prefixed JSON frames on a Unix socket |
| Flow socket, `ai/ingest/uds.py` | one connection | connect with retry, read frames, reconnect | batches to the engine loop |
| Flow window, `ai/features/window.py` | totals of every flow of the last batches | `deltas`, `_evict` | what arrived since the last batch |
| Engine loop, `ai/engine.py` | throughput counters, tap direction | one iteration per batch; interruption | calls all of the following in order |
| Feature extraction, `ai/features/` | none | pure functions of a flow and of its payload sample, which may be cut anywhere | features to the detectors |
| Detectors, `ai/models/` | configuration only, except the beacon tracker | one pass over a tick's features | alerts to the aggregator |
| Beacon tracker, `ai/models/beaconing.py` | the last 24 windows of each conversation, the time of its last alert | `update`, `_evict` | alerts |
| Incident aggregator, `ai/aggregation.py` | open incidents, two indexes, a counter; `incidents.json` | `process`, `flush`, `load` | the alerts worth a line |
| Entity store, `ai/entities.py` | dossiers by address; `entities.json` | `observe_flows`, `note_alert`, `flush`, `load` | the console |
| Sinks, `ai/alerts.py`, `ai/status.py` | `alerts.jsonl` (append), `status.json` (in place) | `write` | the console |
| Backend, `unipe-ui/src-tauri/src/lib.rs` | none | `read_pipeline`: stamps and reads the files | the answer of a poll |
| Live console, `unipe-ui/src/components/Dashboard.tsx` | the list of rows, what was dismissed, stamps and fingerprint remembered, mode flags | poll, delete, reset, load, resume, pause, open a dossier | the screen |
| File playback, same file, and `ReplayBar.tsx` | rows of a file, how many are revealed, a clock, a sought time | play, pause, seek, skip, restart, speed, delete, load | the screen |
| Views, `unipe-ui/src/lib/` and the same file | suppression rules, filters, the incident that is open | suppress, filter, fold rows into incidents, open one; charts and CSV files | the screen |

How they interact: kernel and exporter share maps; exporter and engine share a
socket; the parts of the engine call each other synchronously, once per batch;
engine and console share four files, written by one and polled by the other,
with no lock; the console's handlers share React state and references, which
differ between a handler and the render that follows it.

What is hard about each, and what makes it right:

* **XDP program.** Two CPUs run side by side on one record; the LRU map takes
  entries away at any instant; the exporter reads two maps one after the other.
  Right: counts never exceed packets, a sample belongs to its record, and a
  smaller count means what the flow window takes it to mean.
* **Flow socket.** Either side dies inside a frame; a client stops reading; the
  socket file is left behind. Right: frames are never misread, no batch is handled
  twice or out of order, and the engine is fed for as long as both sides run.
* **Engine loop.** What is dropped by the cap was marked as seen by the window;
  alerts and status are written at different points of an iteration. Right: no
  alert and no status conceals that flows were dropped, and the verdict on the tap
  rests on conversations counted once.
* **Detectors.** Thresholds on ratios and averages, alternatives that exclude each
  other, filters one after the other, groups named after their first flow. Right:
  more of an attack hides no attack, what is kept back is covered by what is
  reported, the order of a batch does not matter.
* **Flow window.** Cumulative totals are repeated every tick, entries are
  reclaimed, recycled, forgotten, batches are lost, the engine restarts. Right:
  every packet is scored exactly once, and rates are inflated by no gap.
* **Feature extraction.** A sample ends with its segment, so every length points
  beyond it somewhere. Right: a cut hides and never invents, what is missing is
  flagged, whole messages are read as meant, and a client keeps its fingerprint.
* **Beacon tracker.** Forgetting a peer forgets its cooldown as well; swarms and
  implants call alike; traffic time lags behind the wall clock. Right: a steady
  caller is raised in time and not too often, a swarm is not raised.
* **Aggregator.** Deduplication must silence an event without losing it, while
  incidents expire, are pushed out by a cap, and the process dies between
  flushing its state and writing its lines. Right: silence is always accounted
  for by an announcement, ids are unique across restarts, the indexes agree.
* **Entity store.** A bounded store ordered by last-seen, fed by two clocks.
  Right: only the oldest go, an alert reaches both its ends, what is not dirty is
  saved.
* **Console.** Every await lets the analyst and the engine act in between. Right:
  the list comes to show what is read of the file, the label tells the source, what was
  dismissed stays gone, a rate is traffic that was counted.
* **Views.** Incidents are folded anew from whatever rows are in view, on every
  change of them. Right: more rows never close an incident, change its id, or take an
  alert out of it, and what the engine put into one incident is in one.
* **Playback.** A clock that belongs to an effect, and controls that change the
  effect's inputs or do not. Right: nothing is shown ahead of time, a seek is
  honoured, every playback ends.

## 2. Modules

Each component has a module named for it, an `MC` module with the instance TLC
checks, and a `.cfg`. Every module lists at its head what it abstracts from.
Definitions keep the names of the source where they can; an operator introduced
by "A mistake in ..." stands just before the definition it would replace, and
records a way in which the code could plausibly be wrong and the property that
would notice: none of them is used by a specification.

* **`FlowWindow`**: `Packet` and `Reclaim` are the kernel's map; `Deltas` is one
  call of `deltas()` with its `_evict()`; `Restart` is a new engine process. A batch is
  the map when the exporter takes its snapshot, at `now`. The call that gets it comes at
  `received`, then or later, when the socket was read and the engine is done with the
  batches before; elapsed times, idle times and `_last_tick` go by that. One step stands
  for both, as what happens to the map in between is not in the batch, batches keep their
  order, and the kernel reads nothing of the engine; a lost batch is a `Tick` without
  `Deltas`, and so is one that still waits when the engine dies.
  `Delta`, `Fresh`, `Duration`, `Idle` and `Overflow` are the branches of the code.
  `sent`, `scored`, `missed`, `taken`, `current` and `oldest` are history for the
  properties. Of several flows unseen since the same batch, any may be evicted (the code goes by
  dict order). Only packet counts are modelled; bytes and flags are differenced by
  the same expression.
* **`IncidentAggregator`**: a tick is `BeginTick` (`_expire`), then `OpenNew` or
  `Repeat` for each alert (`_handle`), `FlushIncidents`, and one `WriteLine` per line
  in the order of `Detector.score`. `Crash` may come between any two; `Restart` is
  `load()`. The two indexes are variables of their own, because they are what may go
  wrong: `_drop` cleans one list and leaves another. `AnyHost` is 0.0.0.0, which is no
  entity and no partner, while an incident is filed and searched under it when it is the
  source of an alert, as the code looks at `src_ip` itself there. `partners` is a sequence
  of which the last `MaxPartners` (32) are kept. Alerts are records; `Threats` gives the
  alerts of a history.
* **`EntityStore`**: `ObserveFlows`, then `NoteAlert` per alert, then `Flush`. Dicts
  are sequences, as Python's insertion order breaks ties in `sorted()`. A dossier that
  was trimmed in the call that made it is updated where nobody holds it, as in the
  code, and naming a peer then raises the `KeyError` (`NoteFails`). Left out: display
  counters, `land_attack` with equal ends, and the wildcard address 0.0.0.0.
* **`XdpFlowMap`**: one 5-tuple. The atomic steps of a packet are the helper calls
  and the load and store of `packet_count += 1`. An `epoch` names the lives of a
  record, so that a store through a pointer to a reclaimed entry is lost, and a sample
  can be told from its successor's. `steered` are the CPUs that receive the flow.
  Parsing is left out: whether a packet is sampled is an input.
* **`FlowSocket`**: connections are bounded buffers of half frames. `Accept` needs
  the lock that `Publish`..`Published` holds. A kill leaves the socket file, Ctrl-C
  removes it. A stranger may connect, and need not read.
* **`BeaconTracker`**: `Update` is one call: append, evaluate, drop swarms, cooldown,
  evict, in this order. Mean, deviation and median are computed exactly, in integers,
  by cross multiplication. What is abstracted: which end of a flow is local, the
  ports ignored by configuration, and the sizes of packets, of which only "heavy or
  not" is kept.
* **`Detection`** has no state: the detectors of one tick of flows, as sets of alerts,
  and `Score`, which is `Detector.score` without the beacons and the incidents. The
  constant `Cfg` is the configuration. A flow carries what `extract` computes; what a
  DNS name looks like (`shape`) and what a TLS hello shows (`traits`) are inputs, as is
  the flow model's opinion `ml`. Rates are packet rates; the settings that
  `default.toml` turns off are off. Fractions are compared by cross multiplication. Of the
resolvers of a tunnelled parent the code names the least as a string; `Least` is some
one of the set, as no property depends on which.
* **`EngineTick`**: `HandOver` is `FlowWindow.deltas()` seen from outside: any flow, in
  any order, new or seen before. `WriteAlerts` is the first half of an iteration (cap,
  features, score, notes), `Account` the second (totals, tap, status), `Interrupt` the
  `except`/`finally` between them. `Capped` is a stable sort, as `list.sort` is.
  `missed` and `lost` are history for the properties. A flow has at least one packet,
  since the window hands over no other (`ai/features/window.py:62`; `FlowAssumption`). The
  calls of the store and of the aggregator are in the modules that model those.
* **`PayloadWalk`**: `Encode` is what hosts send (a hello in one record, a query, a
  QUIC header), byte by byte, because lengths are what the walk is about; `ReadPayload`
  takes any head of it up to `Cap`; `Extract` and the operators above it are
  `features/payload.py`, with its loops as recursive functions on the position and
  `Nowhere` for its -1. An empty sequence is an empty string. A fingerprint is the tuple
  that is hashed. `MessagesAssumption` says what is taken for granted of the messages: a
  TLS message is one record, in which no extension is sent twice, and what reads as a
  query on port 53 is no QUIC packet. Left out: hexadecimal, MD5, entropies and digit ratios.
* **`Console`**: the writes of the engine; a poll in five steps (asked, stamped,
  read, answered, applied), because the backend takes the stamp before it reads and
  the console awaits all of it; and the handlers of the analyst. The file is a sequence,
  of which the last lines are read (`LastRows`): `TailRows` stands for the 8 MB, and a
  line that the cut goes through is dropped by the code. A click is rendered
  at once; the load of a file, a FileReader's callback, is rendered later (`Render`),
  and everything may happen in between. Rows that are applied are in `next` until their
  transition is committed (`Commit`), while fingerprint and stamp are remembered at once;
  `swept` are rows that a reset threw away in between. Equal lines, which `dedupeAlerts`
  drops, are one row. Selection, pins and exports only view the list and are
  left out; a hidden window polls like a paused one.
* **`Playback`**: `Step` is an animation frame; `EffectStarts` is what the effect does
  when one of its dependencies changes, and the handlers that change none do not
  start it anew. A file's controls are set at once, which starts the effect with the rows
  of before; its rows are `coming` until their transition is committed (`Commit`), which
  starts the effect again.
* **`AlertViews`** extends `Playback`: `Filtered` are the rows that are revealed, not
  suppressed and asked for; `Opener` is the loop of `buildIncidents`, as a function from
  a row to the row that opened the incident it went to (by engine id, then by victim
  within five minutes); the handlers are those that set a filter, add or remove a
  suppression, and open or leave an incident. Incidents are recomputed from the rows
  that are left, as `useMemo` does. A row is its timestamp, so rows of one time are
  left out. The incident that is open is state but takes part in no guard: what keeps
  it open is that its id stays, which `IncidentsOnlyGrow` says of all of them.

Abstract and composed:

* **`PacketAccount`** is what the flow window promises, without map, clock, totals or
  eviction: packets are pending, a batch settles all of them, and hands all of them
  over but for a flow whose life ended under a total the engine knows.
  `FlowWindow!ImplementsAccount` is its specification under the refinement mapping
  that takes pending packets for those of the map that the last batch lacked.
* **`BeaconIncidents`** puts `BeaconTracker` before `IncidentAggregator` (INSTANCE with
  the state of the joined system) as `Detector.score` does, on one clock: what a tick
  raises goes through the aggregator in the same tick. `Die` is the engine's death at
  any point of the tick (the tracker has no file, the aggregator has), `StayDown` lets
  time pass without an engine, `StartAgain` loads. Other detectors raise nothing there.

What the remaining modules assume of each other: `FlowWindow` takes whole batches in
order, which `FlowSocket` promises (`BatchesInOrder`, `NeverMisframed`); `FlowWindow`
treats a smaller total as recycling, which `XdpFlowMap` shows to be right on one CPU
(`DecreaseMeansRecycled`) and not on two; `Console` takes lines that are only ever
appended; `EngineTick` takes flows that are not recycled, and leaves out which alerts
the aggregator folds.

`IncidentAggregatorProofs`, `ConsoleProofs`, `EntityStoreProofs`, `EngineTickProofs`,
`PlaybackProofs` and `BeaconProofs` extend the modules they are named for with theorems
(section 5); that of `EngineTick` is also about `Detection`, that of `Playback` about
`AlertViews`, and `BeaconProofs` about `BeaconTracker` and `BeaconIncidents`. Two are about
modules that share no state: `ExporterProofs` about the two ends of the exporter,
`XdpFlowMap` and `FlowSocket`, and `FeatureProofs` about what the engine makes of a batch,
`FlowWindow` and `PayloadWalk`. For their sake the specifications of `XdpFlowMap` and
`PayloadWalk` have names of their own, `MapSpec` and `PayloadSpec`.

## 3. Runs

A run whose name has no suffix passes; the other two each refute one claim that
the repository makes (section 6). Some modules choose an initial `threat`, `site`,
`steered`, `course` or `analyst` once per behaviour: one run then covers several
settings, and each is constant throughout a behaviour.

| Run | Instance and bounds | What it shows |
|---|---|---|
| `window` | 3 flows, a map of 2, 2 tracked, 3 packets per flow and 7 in all, clock to 2, batches lost or handled late at any time; flows are symmetric | every packet is scored once (`EveryPacketOnce`), thanks to `TrackedWhileMapped` (in `WindowCoherent`, with the types); a rate's packets arrived within its duration and the time that was caught up (`RateWithinBacklog`); the window implements `PacketAccount` (`ImplementsAccount`): packets are missed only by recycling, a stopped flow is silent, a batch settles what was pending |
| `agg` | a growing flood with a scan, three alerts that share hosts, or a flood from three sources, one of them 0.0.0.0, with an alert of that address; 1 partner kept, 2 alerts per tick, 4 incidents, 2 open, clock to 5 | ids are never reissued across crashes, the indexes are coherent, silence is accounted for, links are right, lines keep the quiet period unless the cap pushed the incident out |
| `entities` | 3 addresses, 2 dossiers, caps of 1, 2 flows and 1 alert per tick, clock to 4 | dossiers are of one piece in memory and on disk, only the oldest are evicted, an alert misses an end only in a store full of later ones or to make room for its other end, a clean store is a saved one |
| `xdp` | 2 CPUs, one of them or both steered, 4 packets, 2 reclaims; CPUs are symmetric | packets are never invented, no leftover once settled; on one CPU counts are exact, samples stay, and decreasing means recycled |
| `socket` | 3 connections, buffers of 3 half frames, 2 batches, a stranger, engines with and without access | frames are never misread, streams are owned once, batches keep their order, the engine is fed |
| `engine` | 7 networks of 5 flows (SYN flood, UDP flood, fan-in, scan, leak, tunnels, TTLs), batches of up to 5 in any order, a cap of 4, 2 ticks, thresholds of 2 | who is named for a batch is still named with one more packet of an attack; signs of spoofing are kept back only for a flood that is reported; the order of a batch is irrelevant; alerts and status own up to what was dropped, and the tap counts conversations once |
| `beacon` | 4 peers; an implant alone (light or heavy, up to a tick late; on a web port) or with a swarm of 3 (on its host, or spread over two), and an engine that may die; 7 to 11 ticks, history of 4, cooldown, incident window and quiet period of 4 | a swarm in step is dropped where it is most of its host's callers, alerts keep the cooldown, every metronome is raised in time; behind the aggregator, what is raised is in `alerts.jsonl` by the end of its tick unless an engine before a restart said it within the quiet period, and a beacon continues its incident only on the very second its cooldown ends |
| `payload` | 34 client and 2 server hellos, 6 queries, 18 packets that are or resemble QUIC; cut after any byte, a cap of 100 bytes | what is read in part of a message is what is read in all of it, or less and flagged; whole messages are read as meant; fingerprints ignore placeholders and need the whole record |
| `console` | 4 live rows of which 3 are read, 1 sample, 1 row of a file; histories that write a first row, write rows beyond the part that is read, delete rows and tear the status, open dossiers, or count 3 flows | the list shows the file, or, of a longer one, has the fingerprint of the part that is read; what is shown belongs there (dismissed rows stay gone, the label tells the source: `RowsBelong`), the rate is traffic, the console catches up |
| `playback` | 3 files of 4, 5 and 1 rows; 4 clicks, by an analyst who deletes, restarts while it plays and seeks before a file has come, one who only plays, and one whose first 2 clicks may be on the views | nothing ahead of the clock, seeks are honoured, every playback ends; incidents keep their ids and their alerts as more rows come into view, and no incident of the engine is in two |

Why the bounds are enough. Each cap is reached and exceeded: three flows compete for two
entries, three incidents for two places, three addresses for two dossiers, two half frames
and a third for one buffer, a fourth window for a history of three gaps, a fourth row for
a read of three, a second source for one partner. Three packets per flow let a recycled
flow overtake its old total, and a clock of two with an idle time of one lets a batch be
lost and a flow be forgotten. Four incidents let one be pushed out by the cap and opened
again within its quiet period; five ticks exceed the window of three. Five flows exceed
the cap of four, and every alert but the two rate subtypes of a single ICMP or SYN flow is
raised in some network; a second tick has flows that are no longer new. Four packets on
two CPUs let one CPU count while the other inserts, after a reclaim. In each of these, a
mistake recorded beside the code is found under the very bounds of the run, one mistake
for each property: a property that no mistake could break is not kept.

The files of `playback` have rows of one engine incident about two hosts, rows
without an id that follow such rows inside and outside the window, and rows without a
destination or without either end. The ticks of `beacon` let an implant be raised, wait
out its cooldown and be raised again, and let an engine die between the two.

The type invariants of `IncidentAggregator`, `EntityStore` and `FlowSocket` are the
first conjunct of `IndexCoherent`, `DossierCoherent` and `NeverMisframed`.

Deadlock is checked except where the system stops for a reason: packets and
epochs are bounded in `xdp`, ticks in `engine`, the clock ends in `beacon`, a playback ends.

## 4. Fairness

Safety needs none. Liveness rests on this:

* `FlowSocket`: both programs run their loops (weak fairness of each of their
  steps). `Accept` is strongly fair: it waits for the lock that every tick takes and
  releases, and tokio's `Mutex` serves in order of arrival. Nothing is assumed of a
  stranger, of starts, or of ends: `EngineIsFed` is conditional on both staying up.
* `Console`: the interval timer fires and the backend answers, and a pending render
  happens, and so does a pending transition (weak). `PollApplied` is strongly fair against
  `PollFails` and against being dropped: a command that is tried again and again is not
  rejected for ever.
* `Playback`: frames go on while it plays (weak fairness of `Step`). That the rows of a
  file come is not assumed: without them the old ones are played to their end.

## 5. Proofs

Every theorem holds for all values of the constants that satisfy the named assumptions
of the module; the bounds of section 3 play no part, but for being natural numbers.
Each module names its inductive invariant, shows that the initial states satisfy it and
every action preserves it, mostly one lemma per action, and concludes.

| Module | Theorems | The property of the run |
|---|---|---|
| `FeatureProofs`, the window | `WindowStaysCoherent`, `EveryPacketScoredOnce`, `RatesInflatedByBacklogOnly`, `NothingCountedTwice`, `WindowKeepsAccount` | `WindowCoherent`, `EveryPacketOnce`, `RateWithinBacklog`, `ImplementsAccount` |
| `ExporterProofs`, the map | `NoLeftover`, `NeverInvented`, `SampledOnce`, `DecreaseIsRecycling` | `NoLeftoverWhenSettled`, `CountsPackets`, `SampleKept`, `DecreaseMeansRecycled` |
| `IncidentAggregatorProofs` | `TypeCorrect`, `IdsAreForever`, `IndexesDescribe`, `SilenceIsEarned`, `LinksAreSound`, `QuietIsKept` | `IdsNeverReissued`, `IndexCoherent`, `SilenceIsAccounted`, `LinksAreRight`, `QuietBetweenLines` |
| `ExporterProofs`, the socket | `NothingMisread`, `StreamsOwnedOnce`, `BatchesStayInOrder` | `NeverMisframed`, `EveryStreamOwnedOnce`, `BatchesInOrder` |
| `ConsoleProofs` | `RateIsReal`, `RowsAreWhereTheyBelong`, `NothingIsLeftOut` | `RateIsTraffic`, `RowsBelong`, `ShowsTheFile` |
| `EntityStoreProofs` | `NothingForgotten`, `DossiersStayWhole`, `TheOldestGoFirst`, `AlertsReachTheirEnds` | `CleanMeansSaved`, `DossierCoherent`, `EvictsOnlyOldest`, `LostOnlyWhenOlder` |
| `EngineTickProofs` | `HealthIsKept`, `SpoofingIsReported`, `OrderDoesNotMatter`, `AttackIsNotHidden` | `HealthIsTrue`, `SpoofingNotLost`, `OrderIrrelevant`, `AttackNotHidden` |
| `FeatureProofs`, the payload | `CutsOnlyHide` | `CutOnlyHides` |
| `PlaybackProofs` | `NothingBeforeItsTime`, `PlayGoesOnFromThere`, `LookingChangesNothing`, `IncidentsStay` | `NothingAhead`, `SeekIsHonoured`, `IncidentsOnlyGrow` |
| `BeaconProofs` | `LoneBeaconIsRaised`, `LoneBeaconIsRaisedJoined`, `CooldownIsKeptJoined`, `SwarmIsSilentJoined`, `EveryRaiseIsAnnounced`, `BeaconContinuesOnTheDot` | `EveryBeaconRaised`, `NoRepeatWithinCooldown`, `SwarmInStepDropped`, `RaiseIsAnnounced`, `ContinuesOnlyOnTheDot` |

Some theorems have a hypothesis, because what they say is false without it:

| Theorem | Hypothesis | Why the code meets it, and what happens otherwise |
|---|---|---|
| `QuietIsKept` | `QuietWithinWindow`: `Quiet <= Window` | 60 s and 300 s as shipped (`ai/models/detector.py:33`, `ai/aggregation.py:37`); with a longer quiet period an incident would be forgotten, and its event announced as new, before it may speak again |
| `SpoofingIsReported` | `Cfg.min_confidence <= 50` | "drop anything the pipeline is not at least half sure about" (`unipe-ai/configs/default.toml:6`); the noise is dropped before the gate is applied (`ai/models/detector.py:118`, 131), so a higher gate could take the flood that covered it |
| `OrderDoesNotMatter` | `Cfg.min_confidence <= 50` | as above; of two tunnelled parents of one resolver only the first is kept, with its own confidence, so a gate between the two confidences would let the order decide whether the resolver is named |
| `AttackIsNotHidden` | `Lenient`: that, fractions of at most 100 percent, averages of at least one packet | 50, 70 and 70 percent, 3 and 5 packets as shipped (`unipe-ai/configs/default.toml:7`, 21, 105, 24, 104); with a fraction above 100 percent no flood is ever half-open, with an average below one a single packet would be too much |
| `RowsAreWhereTheyBelong`, `NothingIsLeftOut` | `FilesAreOther`: a file holds other rows than the engine writes | a file is known by its length and its ends only (section 6), so one with the ends of the list it replaces is not put in its place |
| `CooldownIsKeptJoined`, `EveryRaiseIsAnnounced`, `BeaconContinuesOnTheDot` | `LagsAreShort`: traffic time lags by at most `IdleEvict - Cooldown` | 7200 s and 300 s as shipped, and a batch is seconds old; of a capture that is older a peer is forgotten on arrival, its cooldown with it, and raised again at once (section 6) |

**Flow window.** `SizeAssumption`: the set of flows is finite, and the map holds no
more than the window tracks (10240 against 80000 in the code). `EveryPacketOnce` is not
inductive: after `Deltas` it needs the totals of every flow in the map to be in `_seen`.

    IInv == TypeOK /\ TrackedWhileMapped /\ EveryPacketOnce

`TrackedWhileMapped` says that a flow in the map since its last batch is tracked,
with totals not above those of the map, and that nothing in `_seen` is younger than
the last batch. The lemma that carries the argument is `BatchSurvivesEviction`: the
flows of the batch are the youngest of `_seen`, there are at most `MapSize` of them,
and `MapSize <= MaxTracked`, so the cap takes only others. It is an argument about
cardinalities; without the assumption it is false, and so is the theorem. Rates need
`PendingSinceLastBatch` as well: what is pending arrived after the batch before was
taken from the map. A call divides by the time since the call before, so where this batch
waited less than that one, the duration is short by the difference (`CaughtUp`), and
by no more. The refinement needs `TotalsWereSent`: a restarted engine finds no
more in the map than was sent. One lemma per action maps it to an action of
`PacketAccount`, or to a stutter.

**XDP program.** `EntryAssumption`: the CPUs are finitely many and a missing entry is
not a record. `CountInv`: a record is of the present epoch and counts no more than the
hits; a program that holds a pointer of this epoch has loaded less than them, as its
own packet is a hit already. `SampleInv`: no sample is of a coming epoch and, once no
program runs, none is older than its record. On one CPU no packet comes between a lookup
and what follows it (`AloneInv`), and what was exported is of an earlier epoch or at
most what the record counts now (`ExportInv`); the action properties follow from these.

**Incident aggregator.** `IdsInv`: the counter in `incidents.json` covers every id in the
file and in `alerts.jsonl`, as the file is written before the lines of a tick, the one in
memory covers those in memory, and wherever an id is kept it has one key and one birth.
`IndexInv` adds to `IndexCoherent` that ids are not reused (an id left behind in the list
of an address is not taken for a later one), that nothing open is stale once a tick has
begun, and that the file names a key once. An open incident is listed under its entity and
under the source of the alert that opened it, and under nothing else: `opener` is history,
as the code keeps that source among the partners only while no 32 others came after it,
and never when it is 0.0.0.0. `LinksAreRight` names incidents by these two. `SilenceInv`:
the lines of a tick carry its time, which is the last emission of the one open incident
about their key, and the file agrees with the memory while they are written. No limit on
incidents, window or number of alerts is assumed. `CountInv`: the open incidents are
finitely many and the counter tells them apart, which makes the selection by the counter a
choice of the first ones, so that a line leaves out a neighbour only when it is full.
`QuietInv`: of a key, the last line is never later than `lastEmitted` of its incident, and
a key that no open incident carries was written about a window ago, or was pushed out; so
what is announced as new had its quiet period, and what is repeated is measured from the
last line, in the file as in the memory it may be loaded into.

**Flow socket.** `OwnInv`: every stream the exporter may write to waits in the backlog,
or is a client still to be written to in this tick, or one already written to, once.
`StreamInv`: lengths and bodies take turns, from what the reader is to read next to what
the writer is to write next; a connection cut off in the middle has no writer any more.
`OrderInv`: the bodies on their way to a reader follow each other, come after what it
handled last and, for a client that is still to be written to, before the batch of this
tick. A reader that leaves a connection leaves its unread batches behind, never the
reverse.

**Console.** `RateInv`: the flows an engine counted and does not show (because it did not
count them itself, or lost them with a restart) only become more, from the sample to the
answer under way to the file. So the difference of two statuses is at most what was
counted in between. `ListInv`: the rows in the list, once the transitions are committed,
are some of those that were applied last, whose fingerprint is remembered and whose source
is named, and none that the references know as dismissed. `ShowInv` adds who polls and
with which stamps: an override drops the poll under way, a stamp is at most that of the
file, which only grows, so rows read under the file's own stamp are its last; of a file no
longer than what is read, the rows still to be committed are among any that are read
later, so the list only grows; and without deletions the fingerprint remembered is that of
the list itself, so that the rows of a grown file are not taken for those shown.

**Entity store.** `SavedInv`: a tick is dirty from its first flow to its flush, and the
file is never larger than a loading would leave it; the store itself stays opaque. The
other theorems look into it. `StoreInv`: memory and file are dicts within their caps, each
dossier coherent and none seen later than now. `CutTo` is characterised once, by places in
an order (`PlacesAreTaken`, `CutKeeps`: what goes was seen no later than what stays), for
dossiers, partners, ports and domains alike. `MovesOn(s, t)`, reflexive and transitive,
says what may become of a dossier between two stores: it goes on, or the later store is
full of others seen since. A tick's flows are a fold over a sequence, which an induction
would unroll; instead the least prefix at which the claim fails is taken, and its
predecessor contradicts it (`ThroughIsDefined`, `ObserveAllFacts`). `BothEnds` follows an
alert through its two ends, the second of which may push out the first.

**Engine loop.** `TallyInv`: what the status, the notes of an alert and the tap say is
true in every phase of an iteration; the tap has counted each conversation that is known
and whose ports tell the server, but for those of the batch under way and those the
cap dropped. `Capped` is handled as a choice of places in an order. `FlowAssumption` says
which features a flow has, and that its counts are naturals.

**Detectors.** `SpoofingReported` needs no induction over ticks but follows an alert
through the filters. Signs of spoofing are unique for their key and believed by half or
more, so the gate, which drops only what is less sure, and the grouping leave each one; they
are noise only for a flood of their destination, which is unique for its key too, is
believed by half, and which the model's opinion can only raise (`Confirmed`). Sums over
sets of flows are taken apart by showing that the recursive function exists (`SumsExist`).
`CfgAssumption` makes the thresholds integers, of either sign.

The order of a batch: two groups of flows are `Alike` if they differ in the places of their
flows only. Sums over groups are the same in any order (`SumsAgree`, taken apart flow by
flow), so alike groups raise the same alerts but for the flow they are named after
(`RawTwins`); each alert names its key in full, but for the two whose entity is a first
flow (`RawKeyed`), so what deduplication keeps has the same outline (`OneIsKept`,
`OutlinesAgree`). A swap of two flows is a bijection of the places.

One packet more: the groups of the longer batch are those of the shorter one `Grown` by
one flow or not at all. Counts and sums then gain (`GrownFacts`), the half-open share of a
grown group gains because the new flow is half-open and shares are below one
(`SynOnlyGrows`), an average at or below a limit of at least one stays there
(`AverageGrows`); so every flood and scan of before is raised, maybe as the other half of an
alternative, which names the same host (`GrownNames`). The cap ranks flows by packets, and a
single packet comes last in a stable sort: it takes a free place or none (`LastPlace`).

**Playback.** `PlayInv`: for an analyst who neither deletes rows, nor restarts a running
playback, nor seeks before the rows of a loaded file have come, at most one row is
revealed or no more than there are up to the clock; and a position that is sought is where
the rows are revealed up to. The rows of a file have to be finitely many. That the n-th
row exists (`EveryPlace`) is shown with least and greatest elements of sets of naturals,
as induction is out of reach. `SoughtInv`: a time sought and not left since is what the
next effect starts from. Filters and suppressions change no variable of the playback, so
the same holds while someone looks.

**Beacon tracker.** `TrackInv`: what is remembered of a peer is the end of its last calls
(`Remembers`), and where something is missing in front, a gap or the lag spanned more than
`IdleEvict`, which no metronome does (`MetronomeRemembered`). So a whole history of equal
gaps is what the tracker evaluates, its sums are multiples of the period (`TotalConstant`,
by a least counterexample, as the sum is a recursive function) and its deviation is 0
(`EvenIsCandidate`); with few callers no swarm is dropped (`FewAreKept`). In a swarm, the
mean of a majority is the median (`MajorityIsMedian`: two means are compared by cross
multiplication, and neither half of the sorted means can do without the majority), and all
of the majority are near it. `Forgotten`: an alert the tracker has forgotten is a
cooldown old, because the last call of a forgotten peer is `IdleEvict` old by its own
clock.

**Tracker and aggregator.** The invariant is about five things. `FilesOK`: the open
incidents and `by_key` name each other, in memory and in the file, and nothing open is
stale while alerts are handled. `TickOK`: what is queued are the raised peers, once each,
and the lines to come are of this tick and of peers no longer queued. `EmissionOK`: an
incident was last emitted by an engine before this one or no later than its peer was last
raised, a cooldown ago if the peer is queued; so within one life a repeat is never in its
quiet period. `AnnouncedOK`: a raised peer is queued, has its line to come or written, or
was quietened by an emission before the restart. `DotInv` follows the last line: its
incident is the one still indexed, and is open for as long as a repeat would continue it.
That needs the cap never to be reached, since there is at most one incident a peer
(`NoOverflow`). A later line is then either one exact cooldown after it, under its id, or
under an id the counter had not reached.

**Views.** `Opener` places a row by the rows before it alone (`OnlyEarlier`,
`FoldedExists`), so two sets of rows that agree up to a row agree on where it goes:
a counterexample would have a first row, and there is none. Steps that only reveal rows
extend the view at its end (`ViewOpens`, from `PlayInv` and the rows being of one
file), so every incident keeps its opener, and with it its id, and its alerts
(`IncidentsGrow`); and a row with a known id joins the row that opened that id
(`OnePlacePerId`), so no incident of the engine is in two.

**Payloads.** `SampleInv`: a sample is nothing but the head of its message. The rest
compares, for any head `d` of any message `b`, the parse of `d` with that of `b`. The
loops of the code are recursive functions of the position; that they are defined by their
equations is shown once (`WalkExists`: each turn moves on towards the end). What an
induction over positions would show is shown by a last counterexample (`LastOne`), whose
successor, the next turn of the loop, contradicts it. So the extensions found in a part
are the first of those of the whole (`ExtensionsCut`), the labels found in a part begin
those of the whole, and a name that ended is the whole name (`NameCut`), and the printable
part of a beginning begins the printable part (`AsciiFacts`). As no type comes twice, the
first extension of a type is the same in both, or missing (`FirstOnesCut`). A part that
counts as complete is the whole record, so fingerprints agree (`ClientCut`, `ServerCut`).

Only model-checked, and why:

* liveness, `EngineIsFed`, `ConsoleCatchesUp` and `PlaysToTheEnd`: the prover has no rules
  for ENABLED and fairness;
* `ReadAsMeant` of `PayloadWalk`: it compares what is read in a whole message with what the
  encoder was given, which is induction over that data (lists of extensions and labels
  flattened into bytes, and taken apart again).

## 6. Where the code and its documents disagree

Checked by a run of its own, which TLC refutes:

* `entities_failing`: an address pushed out by the flows of its own tick, then named
  by an alert with a peer, raises `KeyError` in `_add_partner` and ends the engine
  (`ai/entities.py:193`; `docs/TEAM_GUIDE.md:220`).
* `payload_sni`: a client hello that is cut before its server name is reported as one
  that "carried no SNI", because the test does not look at `tls_sample_complete`
  (`ai/models/encrypted.py:124`; `unipe-ai/README.md:130`).

Met while modelling, kept in the models, and excluded by an antecedent of a property
or by an instance, without a run of their own:

* One client that stops reading stops every other client, because `write_all` waits
  with the lock held (`unipe/src/main.rs:292`): the antecedent of `EngineIsFed`.
* The exporter may read between the insertion of a record and the removal of the old
  sample, and pair them (`unipe-ebpf/src/main.rs:221`, against
  `docs/TEAM_GUIDE.md:146`): hence "when settled" in `NoLeftoverWhenSettled`.
* A tunnelled parent domain is reported under the name of its resolver only, so of two
  in one tick the second is taken for a repeat of the first and is not reported
  (`ai/models/dnsabuse.py:255`, `ai/models/detector.py:185`; `dnsabuse.py:230`):
  `SpoofingNotLost` speaks of signs of spoofing only.
* A hello split over two TLS records counts as complete, and is fingerprinted from its
  first half; of an extension sent twice the last one counts, and a part may end before it;
  the length prefix of DNS over TCP is not skipped; QUIC v2 is listed among
  the known versions, but its Initial has type 1, and only type 0 is taken for one
  (`ai/features/payload.py:154`, 249, 93, 342). On port 53, a QUIC packet that happens to
  parse as a query is tried as QUIC when it is cut (`ai/features/extract.py:69`). Hence
  `MessagesAssumption`, and `Encode` has queries over UDP and no packet of version 2.
* A `martian_source` names the source, and a scan the protocol, of whichever flow came
  first, so the same traffic may have two ids (`ai/models/spoofing.py:246`,
  `ai/models/scanning.py:69`): hence `Outline` in `OrderIrrelevant`.
* One complete session, or a larger flow, among probes moves the average or the ratio
  under its threshold: `AttackNotHidden` speaks of single packets without an ACK.
* Traffic time is compared with the wall clock: a capture that is older than `idle_evict_s`
  less the cooldown may have a peer raised again within its cooldown, one older than
  `idle_evict_s` has every peer forgotten on arrival (`ai/models/beaconing.py:226`):
  `LagsAreShort`, and `Metronome` in `EveryBeaconRaised`.
* The drops of an interrupted tick are in its alerts and not in the last status
  (`ai/engine.py:136`): `HealthIsTrue` makes no claim once the engine has stopped.
* The cap on incidents is applied when `process()` starts, so a call may end above it
  and save all (`ai/aggregation.py:163`; `docs/TEAM_GUIDE.md:411`). An event pushed out
  by it is announced again as new inside its quiet period: the exception stated in
  `QuietBetweenLines`.
* A repeat that is only surer than before is folded silently, although confidence is
  listed as a reason to announce (`ai/aggregation.py:310`; `docs/TEAM_GUIDE.md:480`).
* An alert about an address that a full store has pushed out in the same tick is not
  recorded (`ai/entities.py:185`): the exception of `LostOnlyWhenOlder`. So is the other
  one: in a full store the dossier of the destination may push out that of the source,
  which was made a moment before, though both were seen at the same time.
* Floods without a destination, or of the wildcard, share one key and so one incident,
  which is filed under the first source; a repeat from another source is correlated under
  that one (`ai/aggregation.py:189`, 208): `LinksAreRight` speaks of the alert's entity.
* 0.0.0.0 is no entity and no partner, but incidents are filed and searched under it when
  it is a source, and an incident goes on being found under its first source after 32
  other partners have pushed that out of the list (`ai/aggregation.py:266`, 303, 354, against
  49, 296): `IndexCoherent` and `LinksAreRight` go by the source an incident was opened for.
* Rates are divided by the time between two calls of `deltas()`, not between the two
  snapshots. An engine that was busy finds several batches in the socket and divides the
  packets of 250 ms by the few milliseconds between two calls, down to the floor of 1 ms
  (`ai/features/window.py:36`, `ai/engine.py:66`): `RateWithinBacklog` bounds by how much.
* Two CPUs on one flow: `packet_count += 1` loses updates and may go back, which the
  window takes for recycling; and one CPU may remove the sample another has just
  taken. Hence `OneCpu` in `CountsPackets`, `SampleKept`, `DecreaseMeansRecycled`.
* The socket is 0600 and the guide starts only the exporter with sudo: `connect()`
  then raises `PermissionError`, which nothing catches (`ai/ingest/uds.py:29`). Hence
  `Running` excludes an engine that failed.
* `status.json` is written in place; half of it counts as zero flows, and the next
  poll shows the whole total as a rate (`Dashboard.tsx:231`). Hence `course.tears`.
* A poll in flight when a dossier opens remembers a stamp for entities it did not
  fetch, and the next poll is told "unchanged" (`Dashboard.tsx:240`).
* An answer between the load of a file and its render puts live rows into the replay
  (`Dashboard.tsx:218`); a file loaded again lacks the rows dismissed before (324).
* A file of the length and the ends of the list it is loaded over has its fingerprint, and
  the list stays, under the name of the file (`Dashboard.tsx:75`, 160): `FilesAreOther`.
* After the deletion of a row, a list of the same length with the same ends has the
  fingerprint remembered, and its new row is never shown (`Dashboard.tsx:161`;
  `docs/TEAM_GUIDE.md:228`). Hence `course.deletes` in `ShowsTheFile`.
* Rows are applied in a transition, and their fingerprint and stamp are remembered before
  it is committed. A reset in between dismisses the rows of before and empties the list of
  the new ones too; these were never shown nor dismissed, and stay away until the file is
  written again (`Dashboard.tsx:166`, 249, 349): hence `swept` in `ShowsTheFile`.
* Of a file over 8 MB only the end is read. A line that goes at its head and one that comes
  in the middle of the sorted list leave count, first and last row as they were, and the new
  row is not shown (`unipe-ui/src-tauri/src/lib.rs:68`, `Dashboard.tsx:75`, 161): beyond
  `TailRows`, `ShowsTheFile` and `ConsoleCatchesUp` ask for the same fingerprint only.
* Paused, then a file loaded and left: the pause remains and its button is gone
  (`StatusBar.tsx:81`). Hence `~paused` in `ConsoleCatchesUp`.
* Restart while playing does not restart (`Dashboard.tsx:677`); a deletion reveals the next
  row ahead of its time (387). A loaded file sets the controls before its rows are there
  (321): the old rows are played from the first, or from a time sought before, and the
  new ones start where they had got to, or do not play when the old had ended (432); a seek in
  between leaves a position in other rows. Hence the analyst without these habits in
  `NothingAhead`.
* Rows with different engine ids about one victim, within five minutes, are folded into
  one incident, because the victim is looked up when the id is not known yet; the CSV
  export then writes the first id for all of them (`unipe-ui/src/lib/incidents.ts:49`,
  153, against 34, "Group alerts into incidents by engine incident_id when present"):
  `IncidentsOnlyGrow` says that an incident of the engine is not split, and not the
  converse.
* A suppression or a filter may take away the row that opened an incident, which then
  has another id: `IncidentsOnlyGrow` speaks of steps that only reveal rows. Loading a
  file drops suppressions and keeps filters (`Dashboard.tsx:318`).
* The timeline leaves out rows stamped exactly at the end of its last bucket
  (`unipe-ui/src/lib/aggregates.ts:46`). In a replay, deleting a row selects its
  successor among all rows of the file, which may not be revealed yet
  (`Dashboard.tsx:552`); with no visible selection the arrow key goes to the second row
  (611). Neither the timeline nor the selected row is modelled.
* A swarm whose peers call in different ticks is never seen as one, and of two swarms
  on a host only the one at the median is dropped, nor is a swarm that is no more than half of the
  callers of its host (`ai/models/beaconing.py:105`, 254): `SwarmInStepDropped` asks for more
  than half.
* With `min_confidence` above one half, a flood below the gate still takes the spoofing
  alerts of its destination with it, as noise (`ai/models/detector.py:118`, 131): the
  hypothesis of `SpoofingIsReported`.
* A heavy window slides out of the history, and the conversation may then be raised
  (`unipe-ai/README.md:400`).

## 7. Not modelled

* **Charts and exports** (`unipe-ui/src/lib/aggregates.ts` and the CSV half of
  `incidents.ts`): pure functions from rows to what is drawn or saved, with no order of
  events. Pins, the selected row, the search box: they change what is marked and not
  which rows there are.
* **Statistical models** and their training (`ai/models/ml.py`, `dns_ml.py`, `train.py`,
  `data/`): floating-point arithmetic without control. `Detection` takes the opinion of
  the flow model as an input.
* **Replay source**: a file read from start to end, for demonstrations.
* **Packet parsing** in the kernel, and its counters: bounds checks that the verifier
  enforces; whether a packet is sampled is an input of `XdpFlowMap`.
* **Names and digests**: entropies, digit ratios, the hashes of fingerprints, message
  texts.
* **Presentation**, build scripts and documentation.
* A **composition of all stages**: the modules are joined where one's promise is the
  other's assumption in a way that could fail (tracker and aggregator, playback and
  views). The window and the socket meet in "a batch may be lost, none is torn or out of
  order", which is stated on both sides and leaves nothing to interleave.
* An abstract channel for `FlowSocket`: what it would say is `BatchesInOrder`,
  `NeverMisframed` and `EngineIsFed`.

Three hazards of `PROJECT.json` have no property, a half-written status, a stale reference
and a dead end of the console: the properties exclude them, section 6 describes them.
