----------------------------- MODULE FlowWindow -----------------------------
(***************************************************************************)
(* unipe_ai/features/window.py between the kernel's flow map and the       *)
(* detectors.  The exporter re-sends the cumulative counters of every flow *)
(* in the map on every tick; FlowWindow turns them into what arrived since *)
(* the tick before.                                                        *)
(*                                                                         *)
(* The map is the environment: packets raise a flow's counter, and the LRU *)
(* map may drop a flow at any moment and start it again from one.  A batch *)
(* may also never reach the engine (no client connected, a snapshot that   *)
(* failed): then time passes without Deltas.  The engine may be restarted. *)
(*                                                                         *)
(* A batch is the map when the exporter takes its snapshot; the engine is  *)
(* handed it later, when it has read it from the socket and is done with   *)
(* the batches before, and goes by the time of that.  One step, Deltas,    *)
(* stands for a snapshot, at now, and for the call that is handed it, at a *)
(* moment received that is not before.  Nothing is lost by taking them     *)
(* together: what happens to the map in between is not in the batch, the   *)
(* batches are handled in the order of the snapshots, the kernel and the   *)
(* exporter read nothing of the engine, and a batch that still waits when  *)
(* the engine dies is one that never reaches it.  So seen, lastTick and    *)
(* report are those of the engine when it has handled what was sent to it. *)
(*                                                                         *)
(* Of the counters only "packets" is modelled: it decides every branch,    *)
(* and the others are differenced the same way.  Times are in units in     *)
(* which the 1 ms floor min_window_ms is nothing.                          *)
(***************************************************************************)
EXTENDS Integers, FiniteSets, FiniteSetsExt

CONSTANTS
    Flow,        \* 5-tuples
    MapSize,     \* FLOW_MAP_SIZE, entries of the kernel map
    MaxTracked,  \* max_tracked, entries of _seen
    IdleEvict,   \* idle_evict_secs
    MaxPackets,  \* bound: packets of one flow in one history
    MaxTraffic,  \* bound: packets of all flows in one history
    MaxNow       \* bound: last reading of the clock, of a call too

(* window.py tracks 80000 flows and the map holds 10240.                   *)
ASSUME SizeAssumption ==
    /\ IsFiniteSet(Flow)
    /\ MapSize \in Nat /\ MaxTracked \in Nat /\ MapSize <= MaxTracked
    /\ IdleEvict \in Nat /\ MaxPackets \in Nat /\ MaxTraffic \in Nat /\ MaxNow \in Nat

VARIABLES
    now,       \* wall clock
    \* kernel map: flow -> its counter and the times of its first and last packet
    map,
    \* engine
    seen,      \* _seen: flow -> totals and time of its last batch
    lastTick,  \* _last_tick: when the last call was made
    report,    \* what the last call handed to the detectors, per flow
    \* history since the engine started, read by properties only
    sent,      \* packets of each flow the engine could have counted
    scored,    \* packets of each flow handed to the detectors
    missed,    \* packets of each flow that no batch can show any more
    taken,     \* when the batch of the last call was taken from the map
    current,   \* flows whose entry of _seen is about their life in the map
    oldest     \* time of a flow's first packet that was not handed over yet

engine == <<seen, lastTick, report>>
vars   == <<now, map, seen, lastTick, report, sent, scored, missed, taken, current,
            oldest>>

Never == -1

Larger(m, n) == IF m >= n THEN m ELSE n

Total(f, k) == IF k \in DOMAIN f THEN f[k].packets ELSE 0

(* Packets counted by the map and not handed to the detectors yet.         *)
Pending(k) == Total(map, k) - IF k \in current THEN Total(seen, k) ELSE 0

-----------------------------------------------------------------------------
Init ==
    /\ now = 0 /\ map = <<>>
    /\ seen = <<>> /\ lastTick = Never /\ report = <<>>
    /\ sent = [k \in Flow |-> 0] /\ scored = [k \in Flow |-> 0]
    /\ missed = [k \in Flow |-> 0] /\ taken = Never
    /\ current = {} /\ oldest = [k \in Flow |-> Never]

Tick ==
    /\ now < MaxNow /\ now' = now + 1
    /\ UNCHANGED <<map, engine, sent, scored, missed, taken, current, oldest>>

(* A packet: the flow's entry is updated, or inserted while there is room. *)
Packet(k) ==
    /\ sent[k] < MaxPackets /\ MapThenSumSet(LAMBDA f : sent[f], Flow) < MaxTraffic
    /\ \/ k \in DOMAIN map
       \/ Cardinality(DOMAIN map) < MapSize
    /\ map' = [f \in DOMAIN map \cup {k} |->
                 IF f # k THEN map[f]
                 ELSE [packets |-> Total(map, k) + 1, last |-> now,
                       first |-> IF k \in DOMAIN map THEN map[k].first ELSE now]]
    /\ sent' = [sent EXCEPT ![k] = @ + 1]
    /\ oldest' = [oldest EXCEPT ![k] = IF @ = Never THEN now ELSE @]
    /\ UNCHANGED <<now, engine, scored, missed, taken, current>>

(* The LRU map reclaims an entry: what was not exported yet is never seen. *)
Reclaim(k) ==
    /\ k \in DOMAIN map
    /\ map' = [f \in DOMAIN map \ {k} |-> map[f]]
    /\ missed' = [missed EXCEPT ![k] = @ + Pending(k)]
    /\ current' = current \ {k}
    /\ oldest' = [oldest EXCEPT ![k] = Never]
    /\ UNCHANGED <<now, engine, sent, scored, taken>>

-----------------------------------------------------------------------------
(* deltas(batch, now=received).  Same totals: nothing.  Totals below the   *)
(* previous ones: the map recycled the 5-tuple, so all of them are new.    *)
Recycled(k) == k \in DOMAIN seen /\ map[k].packets < seen[k].packets

Fresh(k) == k \notin DOMAIN seen \/ Recycled(k)

(* A mistake in Delta: the first sighting is taken as a baseline.          *)
DeltaBaseline(k) ==
    IF Fresh(k) THEN 0 ELSE map[k].packets - seen[k].packets

Delta(k) == IF Fresh(k) THEN map[k].packets ELSE map[k].packets - seen[k].packets

(* Between two calls, whatever lies between their snapshots.               *)
Elapsed(received) == IF lastTick = Never THEN 0 ELSE received - lastTick

(* A mistake in Duration: a new flow's own lifetime is ignored.            *)
DurationOfTick(k, received) == Elapsed(received)

Duration(k, received) ==
    IF k \in DOMAIN seen THEN Elapsed(received)
    ELSE Larger(map[k].last - map[k].first, Elapsed(received))

(* History: how much less this batch has waited than the one before.       *)
CaughtUp(received) ==
    IF lastTick = Never THEN 0
    ELSE Larger((lastTick - taken) - (received - now), 0)

(* A mistake in Observed: the totals of a known flow are kept.             *)
ObservedOnce(received) ==
    [k \in DOMAIN seen \cup DOMAIN map |->
        IF k \in DOMAIN seen THEN [seen[k] EXCEPT !.lastSeen = received]
        ELSE [packets |-> map[k].packets, lastSeen |-> received]]

Observed(received) ==
    [k \in DOMAIN seen \cup DOMAIN map |->
        IF k \in DOMAIN map
        THEN [packets |-> map[k].packets, lastSeen |-> received]
        ELSE seen[k]]

(* _evict: first the idle, then the longest unseen of the rest down to     *)
(* max_tracked; which of several unseen since the same tick is left open.  *)
Idle(received) ==
    {k \in DOMAIN Observed(received) :
        Observed(received)[k].lastSeen < received - IdleEvict}

(* A mistake in Overflow: the newest go first.                             *)
OverflowNewest(D, received) ==
    LET held == Observed(received)
        kept == DOMAIN held \ Idle(received)
    IN  /\ D \subseteq kept
        /\ Cardinality(D) = Larger(Cardinality(kept) - MaxTracked, 0)
        /\ \A k \in D, j \in kept \ D : held[k].lastSeen >= held[j].lastSeen

Overflow(D, received) ==
    LET held == Observed(received)
        kept == DOMAIN held \ Idle(received)
    IN  /\ D \subseteq kept
        /\ Cardinality(D) = Larger(Cardinality(kept) - MaxTracked, 0)
        /\ \A k \in D, j \in kept \ D : held[k].lastSeen <= held[j].lastSeen

(* A batch of the exporter, taken now, and the call that is handed it.     *)
(* The clock has moved on since the call before.                           *)
Deltas(received) ==
    /\ received > lastTick
    /\ \E D \in SUBSET DOMAIN Observed(received) :
        /\ Overflow(D, received)
        /\ seen' = [k \in DOMAIN Observed(received) \ (Idle(received) \cup D) |->
                        Observed(received)[k]]
    /\ lastTick' = received /\ taken' = now
    /\ report' = [k \in {f \in DOMAIN map : Delta(f) > 0} |->
                    [packets |-> Delta(k), isNew |-> Fresh(k),
                     duration |-> Duration(k, received),
                     span |-> map[k].last - oldest[k],
                     caughtUp |-> CaughtUp(received)]]
    /\ scored' = [k \in Flow |->
                    IF k \in DOMAIN map THEN scored[k] + Delta(k) ELSE scored[k]]
    /\ missed' = [k \in Flow |->
                    IF k \in DOMAIN map THEN missed[k] + Pending(k) - Delta(k)
                    ELSE missed[k]]
    /\ current' = DOMAIN map
    /\ oldest' = [k \in Flow |-> Never]
    /\ UNCHANGED <<now, map, sent>>

(* The engine restarts with an empty window; from here on the flows in the *)
(* map are the first thing it will see.                                    *)
Restart ==
    /\ seen' = <<>> /\ lastTick' = Never /\ report' = <<>>
    /\ sent' = [k \in Flow |-> Total(map, k)]
    /\ scored' = [k \in Flow |-> 0] /\ missed' = [k \in Flow |-> 0]
    /\ taken' = Never /\ current' = {}
    /\ oldest' = [k \in Flow |->
                    IF k \in DOMAIN map THEN map[k].first ELSE Never]
    /\ UNCHANGED <<now, map>>

Next ==
    \/ Tick
    \/ \E k \in Flow : Packet(k) \/ Reclaim(k)
    \/ \E received \in now .. MaxNow : Deltas(received)
    \/ Restart

Spec == Init /\ [][Next]_vars

-----------------------------------------------------------------------------
(* Type correctness of every variable.                                     *)
TypeOK ==
    /\ now \in Nat
    /\ DOMAIN map \subseteq Flow /\ Cardinality(DOMAIN map) <= MapSize
    /\ \A k \in DOMAIN map : map[k] \in [packets : Nat \ {0}, first : Nat, last : Nat]
    /\ DOMAIN seen \subseteq Flow
    /\ \A k \in DOMAIN seen : seen[k] \in [packets : Nat \ {0}, lastSeen : Nat]
    /\ lastTick \in Nat \cup {Never}
    /\ DOMAIN report \subseteq Flow
    /\ \A k \in DOMAIN report :
         report[k] \in [packets : Nat \ {0}, isNew : BOOLEAN,
                        duration : Int, span : Int, caughtUp : Nat]
    /\ sent \in [Flow -> Nat] /\ scored \in [Flow -> Nat]
    /\ missed \in [Flow -> Nat] /\ taken \in Nat \cup {Never}
    /\ current \subseteq Flow
    /\ oldest \in [Flow -> Nat \cup {Never}]

(* Every packet is scored once: whatever the map reclaims, the window      *)
(* forgets or the connection drops, the deltas of a flow add up to the     *)
(* packets it had, less those still pending and those that no batch can    *)
(* show any more.  Neither is ever negative: nothing is counted twice.     *)
EveryPacketOnce ==
    \A k \in Flow : sent[k] = scored[k] + missed[k] + Pending(k)

(* What the window must know for that: a flow still in the map since its   *)
(* last batch is tracked, with totals the map has not fallen below; and    *)
(* nothing in _seen is younger than the last call.                         *)
TrackedWhileMapped ==
    /\ current \subseteq DOMAIN map \cap DOMAIN seen
    /\ \A k \in current : seen[k].packets <= map[k].packets
    /\ taken <= now /\ taken <= lastTick /\ (taken = Never <=> lastTick = Never)
    /\ \A k \in DOMAIN seen : seen[k].lastSeen <= lastTick

WindowCoherent == TypeOK /\ TrackedWhileMapped

(* The promise: seen through this mapping, every step of the kernel map,   *)
(* of deltas() and of _evict() is a step of the account or leaves it as it *)
(* is.  A batch hands over exactly what is pending, repeats nothing of a   *)
(* stale flow, calls a flow new once in its life, and loses packets only   *)
(* of a 5-tuple that the map recycled.                                     *)
Account == INSTANCE PacketAccount WITH
    pending <- [k \in Flow |-> Pending(k)],
    known   <- current,
    reborn  <- DOMAIN seen \ current,
    out     <- [k \in DOMAIN report |->
                  [packets |-> report[k].packets, isNew |-> report[k].isNew]]

ImplementsAccount == Account!AccountSpec

(* A rate is inflated by no more than the engine has caught up: the        *)
(* packets of a delta arrived within the duration they are divided by,     *)
(* however many batches were lost, give or take the time by which this     *)
(* batch waited less than the one before.  So an engine that handles every *)
(* batch as promptly as the last inflates nothing, and one that works off  *)
(* a backlog may divide the packets of a long time by a short one.         *)
RateWithinBacklog ==
    \A k \in DOMAIN report :
        report[k].span <= report[k].duration + report[k].caughtUp

=============================================================================
