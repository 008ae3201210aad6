--------------------------- MODULE BeaconTracker ---------------------------
(***************************************************************************)
(* The beacon detector of the engine (unipe_ai/models/beaconing.py) and    *)
(* the early return of Detector.score (models/detector.py) in front of it: *)
(* the times at which each conversation carried traffic, how regular they  *)
(* are, which of the regular ones make a swarm, the cooldown of an alert   *)
(* and the forgetting of conversations that went quiet.                    *)
(*                                                                         *)
(* A peer is a key (local, remote, service, protocol): both halves of a    *)
(* conversation fold onto it before anything is remembered.  Only what the *)
(* peak gate asks of a window's bytes is kept: whether they are heavy.     *)
(* Traffic time lags behind the wall clock.  Ratios are in percent and     *)
(* compared without dividing.                                              *)
(***************************************************************************)
EXTENDS Integers, Sequences, SequencesExt, FiniteSets

CONSTANTS
    Peer,
    Sites,         \* the networks a behaviour may take place in, records of
                   \*   hostOf  the local end of each peer
                   \*   web     peers on 80, 443 or 853, held to stricter thresholds
                   \*   wakes   sets of peers that carry traffic in the same ticks
                   \*   bulk    whether a window may be heavy
                   \*   lags    how far traffic time may be behind the wall clock
                   \*   end     bound: the wall clock stops there
    MinIntervals, WebMinIntervals,
    MaxJitter, WebMaxJitter,              \* percent
    MinGap, MaxGap,
    History,       \* windows remembered
    Cooldown,      \* alert_cooldown_s
    IdleEvict,     \* idle_evict_s
    SwarmMin,      \* swarm_min_peers
    Slack,         \* swarm_interval_slack, percent
    Start          \* the wall clock at first

ASSUME ParameterAssumption ==
    /\ IsFiniteSet(Peer)
    /\ \A s \in Sites :
        /\ s.hostOf \in [Peer -> STRING] /\ s.web \subseteq Peer
        /\ s.wakes \subseteq SUBSET Peer /\ s.bulk \in BOOLEAN
        /\ s.lags \subseteq 0..(Start - 1) /\ s.end \in Nat
    /\ MinIntervals \in Nat /\ WebMinIntervals \in Nat
    /\ MaxJitter \in Nat /\ WebMaxJitter \in Nat
    /\ MinGap \in Nat /\ MaxGap \in Nat /\ History \in Nat /\ IdleEvict \in Nat
    /\ {MinIntervals, WebMinIntervals} \subseteq 2..(History - 1)
    /\ Cooldown \in 1..IdleEvict /\ SwarmMin \in Nat \ {0, 1}
    /\ Slack \in Nat
    /\ Start \in Nat /\ Start >= Cooldown

VARIABLES
    site,        \* the network, chosen once
    now,         \* the wall clock, in ticks
    \* the tracker
    windows,     \* _times and _bytes of each peer
    lastAlert,   \* _last_alert, 0 when there is none
    \* what happened, for the properties
    raised,      \* the peers raised in the last tick
    called,      \* the last History windows of each peer, never forgotten
    heard,       \* the wall clock when each peer last called, 0 for never
    alerted      \* the wall clock when each peer was last raised, 0 for never

tracker == <<windows, lastAlert>>
ghosts  == <<raised, called, heard, alerted>>
vars    == <<site, now, tracker, ghosts>>

Init ==
    /\ site \in Sites /\ now = Start
    /\ windows = [p \in Peer |-> <<>>] /\ lastAlert = [p \in Peer |-> 0]
    /\ raised = {} /\ called = [p \in Peer |-> <<>>] /\ heard = [p \in Peer |-> 0]
    /\ alerted = [p \in Peer |-> 0]

-----------------------------------------------------------------------------
(* The gaps between windows; one that does not move forward is 0, and does *)
(* not count.                                                              *)
Gaps(w) ==
    [i \in 1..(Len(w) - 1) |-> IF w[i + 1].at > w[i].at THEN w[i + 1].at - w[i].at ELSE 0]

Forward(gaps) == Cardinality({i \in DOMAIN gaps : gaps[i] > 0})

Total(s) ==
    LET upto[i \in 0..Len(s)] == IF i = 0 THEN 0 ELSE upto[i - 1] + s[i] IN upto[Len(s)]

(* stdev(gaps) / mean(gaps) <= percent, with the sample deviation squared. *)
Steady(gaps, percent) ==
    LET n == Forward(gaps)
        s == Total(gaps)
        q == Total([i \in DOMAIN gaps |-> gaps[i] * gaps[i]])
    IN  (n * q - s * s) * n * 10000 <= percent * percent * s * s * (n - 1)

(* _thresholds: what periodicity demands of a peer.                        *)
Need(p)  == IF p \in site.web THEN WebMinIntervals ELSE MinIntervals
Limit(p) == IF p \in site.web THEN WebMaxJitter ELSE MaxJitter

Regular(w, need, limit) ==
    LET gaps == Gaps(w)
        n    == Forward(gaps)
    IN  /\ n >= need
        /\ Total(gaps) \in (n * MinGap)..(n * MaxGap)
        /\ Steady(gaps, limit)

NeverHeavy(w) == \A i \in DOMAIN w : ~w[i].heavy

(* A mistake in Candidate: one gap more than min_intervals is demanded.    *)
CandidateOneMore(p, w) == Regular(w, Need(p) + 1, Limit(p)) /\ NeverHeavy(w)

(* _evaluate: regular over everything remembered, and never heavy.         *)
Candidate(p, w) == Regular(w, Need(p), Limit(p)) /\ NeverHeavy(w)

(* Mean gaps of two histories, compared by cross multiplication.           *)
Mean(w) == [sum |-> Total(Gaps(w)), n |-> Forward(Gaps(w))]
Below(a, b) == a.sum * b.n < b.sum * a.n
Near(a, median) ==
    LET x == a.sum * median.n
        m == median.sum * a.n
    IN  100 * (IF x > m THEN x - m ELSE m - x) <= Slack * m

(* The element in the middle of the sorted means: gaps[len(gaps) // 2].    *)
Median(S, mean) ==
    CHOOSE m \in {mean[k] : k \in S} :
        LET middle == Cardinality(S) \div 2 IN
        /\ Cardinality({k \in S : Below(mean[k], m)}) <= middle
        /\ Cardinality({k \in S : ~Below(m, mean[k])}) > middle

(* _drop_swarms, for the candidates of one host: those near the median go, *)
(* if they are enough to make a swarm.                                     *)
KeptOfHost(S, mean) ==
    LET median == Median(S, mean)
        clustered == {k \in S : Near(mean[k], median)}
    IN
    IF Cardinality(S) >= SwarmMin /\ Cardinality(clustered) >= SwarmMin
    THEN S \ clustered ELSE S

(* A mistake in DropSwarms: a swarm must be larger than swarm_min_peers.   *)
DropLargerSwarms(S, mean) ==
    IF Cardinality(S) > SwarmMin THEN KeptOfHost(S, mean) ELSE S

DropSwarms(S, mean) ==
    UNION {KeptOfHost({k \in S : site.hostOf[k] = h}, mean) : h \in {site.hostOf[k] : k \in S}}

(* A mistake in WentQuiet: the first window remembered is compared.            *)
QuietSinceFirst(w, t) == w # <<>> /\ Head(w).at < t - IdleEvict

(* _evict: the last window, in traffic time, is older than the cutoff.     *)
WentQuiet(w, t) == w # <<>> /\ Last(w).at < t - IdleEvict

(* A mistake in Ready: the cooldown is compared with one tick too few.     *)
ReadyEarly(p, t) == t - lastAlert[p] >= Cooldown - 1

(* _alert_from_stats: the cooldown of a peer.                              *)
Ready(p, t) == t - lastAlert[p] >= Cooldown

(* The window of this tick is appended and the oldest beyond the cap go.   *)
Remember(w, window) ==
    LET all == Append(w, window) IN
    SubSeq(all, 1 + (IF Len(all) > History THEN Len(all) - History ELSE 0), Len(all))

(* BeaconTracker.update, in a tick whose features hold those of `active`.  *)
Update(active, heavy, lag) ==
    LET window(p) == [at |-> now' - lag, heavy |-> p \in heavy]
        known == [p \in Peer |-> IF p \in active THEN Remember(windows[p], window(p))
                                 ELSE windows[p]]
        regular == {p \in active : Candidate(p, known[p])}
        kept == DropSwarms(regular, [p \in Peer |-> Mean(known[p])])
        new  == {p \in kept : Ready(p, now')}
        gone == {p \in Peer : WentQuiet(known[p], now')}
    IN  /\ now < site.end /\ now' = now + 1
        /\ windows' = [p \in Peer |-> IF p \in gone THEN <<>> ELSE known[p]]
        /\ lastAlert' = [p \in Peer |-> IF p \in gone THEN 0
                                        ELSE IF p \in new THEN now' ELSE lastAlert[p]]
        /\ raised' = new
        /\ called' = [p \in Peer |-> IF p \in active THEN Remember(called[p], window(p))
                                     ELSE called[p]]
        /\ heard' = [p \in Peer |-> IF p \in active THEN now' ELSE heard[p]]
        /\ alerted' = [p \in Peer |-> IF p \in new THEN now' ELSE alerted[p]]

(* A tick without any feature: Detector.score returns before the tracker.  *)
NoFeatures ==
    /\ now < site.end /\ now' = now + 1
    /\ raised' = {}
    /\ UNCHANGED <<tracker, called, heard, alerted>>

Listen ==
    \E W \in SUBSET site.wakes, lag \in site.lags :
        \E heavy \in IF site.bulk THEN SUBSET UNION W ELSE {{}} :
            Update(UNION W, heavy, lag)

Next == (Listen \/ NoFeatures) /\ UNCHANGED site

Spec == Init /\ [][Next]_vars

-----------------------------------------------------------------------------
(* A peer that called every d ticks of traffic time for as long as the     *)
(* tracker can remember, and was light each time.                          *)
Period(p) == called[p][2].at - called[p][1].at
Metronome(p) ==
    /\ Len(called[p]) = History
    /\ \A i \in 1..(History - 1) : called[p][i + 1].at - called[p][i].at = Period(p)
    /\ \A i \in 1..History : ~called[p][i].heavy
    /\ Period(p) \in MinGap..MaxGap
    /\ Period(p) > 0 /\ \A lag \in site.lags : Period(p) + lag <= IdleEvict

(* What the detector is for: a lone metronome is raised on the call that   *)
(* completes its history, and again once its cooldown is over, whatever    *)
(* was forgotten or was said of it before.  Few peers of its host call.    *)
EveryBeaconRaised ==
    [][\A p \in Peer :
        (/\ now' # now /\ heard'[p] = now' /\ Metronome(p)'
         /\ Cardinality({q \in Peer : site.hostOf[q] = site.hostOf[p] /\ heard'[q] = now'}) < SwarmMin
         /\ (alerted[p] = 0 \/ now' - alerted[p] >= Cooldown))
        => p \in raised']_vars

(* "don't re-raise the same beacon every window": two alerts of a peer are *)
(* a cooldown apart, although forgetting the peer forgets the alert too.   *)
NoRepeatWithinCooldown ==
    [][\A p \in raised' : now' # now => alerted[p] = 0 \/ now' - alerted[p] >= Cooldown]_vars

(* The swarm filter: of SwarmMin or more metronomes of a host that have    *)
(* called in the very same ticks, none is raised, if they are most of the  *)
(* callers of that host in this tick and so have the median among them.    *)
SwarmInStepDropped ==
    \A p \in raised : Metronome(p) =>
        LET callers == {q \in Peer : site.hostOf[q] = site.hostOf[p] /\ heard[q] = now}
            inStep  == {q \in callers : called[q] = called[p]}
        IN  Cardinality(inStep) < SwarmMin \/ 2 * Cardinality(inStep) <= Cardinality(callers)
=============================================================================
