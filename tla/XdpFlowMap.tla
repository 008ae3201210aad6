----------------------------- MODULE XdpFlowMap -----------------------------
(***************************************************************************)
(* The XDP program (unipe-ebpf/src/main.rs) and the exporter's snapshot    *)
(* (unipe/src/main.rs) around one 5-tuple: its record in FLOWS and its     *)
(* sample in HANDSHAKES.                                                   *)
(*                                                                         *)
(* A packet runs to completion on its CPU, but CPUs run side by side: the  *)
(* helper calls and the plain load and store of "packet_count += 1" are    *)
(* the atomic steps.  Receive steering puts a flow on one CPU, or on       *)
(* several (fragments are hashed without ports).  The kernel may reclaim   *)
(* an entry of either LRU map at any time.  The exporter reads the two     *)
(* maps one after the other.                                               *)
(*                                                                         *)
(* Left out: parsing before the key is known, the other counters (they are *)
(* added up like packet_count), and the bytes of a sample.                 *)
(***************************************************************************)
EXTENDS Integers, FiniteSets

CONSTANTS
    Cpu,         \* CPUs the program runs on
    NoEntry,     \* a map has no entry for the flow
    MaxPackets,  \* bound: packets in one history
    MaxEpoch     \* bound: times the kernel reclaims the record

ASSUME BoundAssumption == MaxPackets \in Nat /\ MaxEpoch \in Nat
ASSUME EntryAssumption == IsFiniteSet(Cpu) /\ NoEntry \notin [count : Nat, epoch : Nat]

VARIABLES
    steered,   \* the CPUs that see packets of the flow
    flow,      \* FLOWS: NoEntry, or packet_count and the epoch of its insertion
    sample,    \* HANDSHAKES: NoEntry, or the epoch of the record it joined
    run,       \* per CPU: the program's next step and what it holds
    snap,      \* the exporter: the record it has read and not exported yet
    exported,  \* the flow as it was last exported
    \* history, read by properties only
    epoch,     \* how often the record was reclaimed
    packets,   \* packets so far
    hits       \* packets that found or inserted the present record

mapVars == <<steered, flow, sample, run, snap, exported, epoch, packets, hits>>

Idle == [at |-> "idle", epoch |-> 0, count |-> 0, sampleable |-> FALSE]

MapInit ==
    /\ steered \in (SUBSET Cpu) \ {{}}
    /\ flow = NoEntry /\ sample = NoEntry
    /\ run = [c \in Cpu |-> Idle]
    /\ snap = NoEntry /\ exported = NoEntry
    /\ epoch = 0 /\ packets = 0 /\ hits = 0

Go(c, step) == run' = [run EXCEPT ![c].at = step]

-----------------------------------------------------------------------------
(* A packet of the flow arrives; is_sampleable looks at its ports and its  *)
(* first payload byte.                                                     *)
Arrive(c, s) ==
    /\ run[c].at = "idle" /\ packets < MaxPackets
    /\ run' = [run EXCEPT ![c] = [Idle EXCEPT !.at = "lookup", !.sampleable = s]]
    /\ packets' = packets + 1
    /\ UNCHANGED <<flow, sample, snap, exported, epoch, hits>>

(* FLOWS.get_ptr_mut, and the load of packet_count.                        *)
Lookup(c) ==
    /\ run[c].at = "lookup"
    /\ \/ /\ flow # NoEntry
          /\ run' = [run EXCEPT ![c].at = "count", ![c].epoch = flow.epoch,
                                ![c].count = flow.count]
          /\ hits' = hits + 1
       \/ /\ flow = NoEntry
          /\ Go(c, "insert") /\ UNCHANGED hits
    /\ UNCHANGED <<flow, sample, snap, exported, epoch, packets>>

(* Mistakes in Count: what the lookup loaded is stored as it is; the       *)
(* counter is too narrow and wraps.                                        *)
CountNothing(c) ==
    /\ run[c].at = "count"
    /\ Go(c, "check")
    /\ UNCHANGED <<flow, sample, snap, exported, epoch, packets, hits>>
CountNarrow(c) ==
    /\ run[c].at = "count" /\ flow # NoEntry
    /\ flow' = [flow EXCEPT !.count = (run[c].count + 1) % 3]
    /\ Go(c, "check")
    /\ UNCHANGED <<sample, snap, exported, epoch, packets, hits>>

(* The store of packet_count + 1, through a pointer to the entry: nobody   *)
(* reads it any more when the entry was reclaimed meanwhile.               *)
Count(c) ==
    /\ run[c].at = "count"
    /\ flow' = IF flow # NoEntry /\ flow.epoch = run[c].epoch
               THEN [flow EXCEPT !.count = run[c].count + 1] ELSE flow
    /\ Go(c, "check")
    /\ UNCHANGED <<sample, snap, exported, epoch, packets, hits>>

(* A mistake in Insert: the leftover sample is kept.                       *)
InsertOnly(c) ==
    /\ run[c].at = "insert"
    /\ flow' = [count |-> 1, epoch |-> epoch]
    /\ hits' = IF flow = NoEntry THEN 1 ELSE hits + 1
    /\ Go(c, "check")
    /\ UNCHANGED <<sample, snap, exported, epoch, packets>>

(* FLOWS.insert replaces whatever another CPU inserted since the lookup.   *)
Insert(c) ==
    /\ run[c].at = "insert"
    /\ flow' = [count |-> 1, epoch |-> epoch]
    /\ hits' = IF flow = NoEntry THEN 1 ELSE hits + 1
    /\ Go(c, "forget")
    /\ UNCHANGED <<sample, snap, exported, epoch, packets>>

(* HANDSHAKES.remove: "drop any leftover handshake for this key".          *)
Forget(c) ==
    /\ run[c].at = "forget"
    /\ sample' = NoEntry
    /\ Go(c, "check")
    /\ UNCHANGED <<flow, snap, exported, epoch, packets, hits>>

(* A mistake in Check: the flow is sampled again although it has a sample. *)
CheckAlways(c) ==
    /\ run[c].at = "check"
    /\ Go(c, IF run[c].sampleable THEN "sample" ELSE "idle")
    /\ UNCHANGED <<flow, sample, snap, exported, epoch, packets, hits>>

(* "keep watching until a handshake shows up": HANDSHAKES.get_ptr.         *)
Check(c) ==
    /\ run[c].at = "check"
    /\ Go(c, IF run[c].sampleable /\ sample = NoEntry THEN "sample" ELSE "idle")
    /\ UNCHANGED <<flow, sample, snap, exported, epoch, packets, hits>>

(* The payload is copied to the CPU's scratch slot and inserted, unless it *)
(* turns out to be empty (a port 53 packet without payload).  A sample     *)
(* that comes when the record is gone belongs to the life that just ended. *)
Sample(c) ==
    /\ run[c].at = "sample"
    /\ sample' \in {sample, [by |-> packets, epoch |->
                        IF flow = NoEntry THEN epoch - 1 ELSE flow.epoch]}
    /\ Go(c, "idle")
    /\ UNCHANGED <<flow, snap, exported, epoch, packets, hits>>

-----------------------------------------------------------------------------
(* The kernel makes room.                                                  *)
ReclaimFlow ==
    /\ flow # NoEntry /\ epoch < MaxEpoch
    /\ flow' = NoEntry /\ epoch' = epoch + 1 /\ hits' = 0
    /\ UNCHANGED <<sample, run, snap, exported, packets>>

ReclaimSample ==
    /\ sample # NoEntry
    /\ sample' = NoEntry
    /\ UNCHANGED <<flow, run, snap, exported, epoch, packets, hits>>

(* snapshot_flows: the record, then the sample under the same key.         *)
ReadRecord ==
    /\ snap = NoEntry /\ flow # NoEntry
    /\ snap' = flow
    /\ UNCHANGED <<flow, sample, run, exported, epoch, packets, hits>>

Export ==
    /\ snap # NoEntry
    /\ exported' = [count |-> snap.count, epoch |-> snap.epoch, sample |-> sample]
    /\ snap' = NoEntry
    /\ UNCHANGED <<flow, sample, run, epoch, packets, hits>>

Program(c) ==
    \/ \E s \in BOOLEAN : Arrive(c, s)
    \/ Lookup(c) \/ Count(c) \/ Insert(c) \/ Forget(c) \/ Check(c) \/ Sample(c)

MapNext ==
    /\ UNCHANGED steered
    /\ \/ \E c \in steered : Program(c)
       \/ ReclaimFlow \/ ReclaimSample \/ ReadRecord \/ Export

MapSpec == MapInit /\ [][MapNext]_mapVars

-----------------------------------------------------------------------------
(* Once no packet is between inserting a record and forgetting what an     *)
(* earlier one left, a sample is no older than the record.                 *)
Settled == \A c \in Cpu : run[c].at # "forget"

NoLeftoverWhenSettled ==
    Settled /\ flow # NoEntry /\ sample # NoEntry => sample.epoch >= flow.epoch

(* However CPUs overlap, a record never counts more packets than it met:   *)
(* overlap can lose packets but not invent them.  With the flow on one     *)
(* CPU, it has counted every one of them between two packets.              *)
OneCpu == Cardinality(steered) = 1

CountsPackets ==
    flow # NoEntry =>
      /\ flow.count <= hits
      /\ OneCpu /\ (\A c \in Cpu : run[c].at # "count") => flow.count = hits

(* "... then sample it exactly once", on one CPU: a sample taken since the *)
(* record was inserted stays until the kernel reclaims it or the record.   *)
SampleKept ==
    [][OneCpu /\ sample # NoEntry /\ sample' # sample =>
         \/ flow = NoEntry \/ sample.epoch < flow.epoch
         \/ sample' = NoEntry /\ run' = run]_mapVars

(* "the lru map recycled this 5-tuple": what the flow window concludes     *)
(* from an exported count below the one before, is right on one CPU.       *)
DecreaseMeansRecycled ==
    [][OneCpu /\ exported # NoEntry /\ exported'.count < exported.count
         => exported'.epoch > exported.epoch]_exported

=============================================================================
