--------------------------- MODULE ExporterProofs ---------------------------
(***************************************************************************)
(* The two sides of the exporter.  For any number of CPUs, packets and     *)
(* reclaimed entries: what XdpFlowMap says of the records it reads.  For   *)
(* any number of connections and units in a buffer: the streams it writes  *)
(* in FlowSocket have one owner each and are read whole and in order.      *)
(***************************************************************************)
EXTENDS FlowSocket, XdpFlowMap, FiniteSetTheorems, SequenceTheorems, TLAPS

-----------------------------------------------------------------------------
(* XdpFlowMap.                                                             *)
Record == [count : Nat, epoch : Nat]
Handshake == [by : Nat, epoch : Int]
Steps == {"idle", "lookup", "count", "insert", "forget", "check", "sample"}

MapTypeOK ==
    /\ steered \in SUBSET Cpu
    /\ flow \in {NoEntry} \cup Record
    /\ sample \in {NoEntry} \cup Handshake
    /\ run \in [Cpu -> [at : Steps, epoch : Nat, count : Nat, sampleable : BOOLEAN]]
    /\ snap \in {NoEntry} \cup Record
    /\ exported \in {NoEntry} \cup
         [count : Nat, epoch : Nat, sample : {NoEntry} \cup Handshake]
    /\ epoch \in Nat /\ packets \in Nat /\ hits \in Nat
    /\ \A c \in Cpu \ steered : run[c].at = "idle"

(* The record in the map is of the present epoch, and so is what a program *)
(* that may still store through its pointer has loaded, with one packet    *)
(* that is a hit and not yet counted.                                      *)
CountInv ==
    /\ flow # NoEntry => flow.epoch = epoch /\ flow.count <= hits
    /\ \A c \in Cpu : run[c].at = "count" =>
         /\ run[c].epoch <= epoch
         /\ run[c].epoch = epoch => flow # NoEntry /\ run[c].count < hits

SampleInv ==
    /\ sample # NoEntry => sample.epoch <= epoch
    /\ Settled /\ flow # NoEntry /\ sample # NoEntry => sample.epoch >= flow.epoch

(* On one CPU: no packet comes between a lookup and what follows it.       *)
Alone == \A c, d \in steered : c = d

AloneInv ==
    \A c \in steered :
      /\ flow # NoEntry => flow.count = IF run[c].at = "count" THEN hits - 1 ELSE hits
      /\ run[c].at = "count" /\ flow # NoEntry
           => run[c].epoch = epoch /\ run[c].count = flow.count
      /\ run[c].at = "insert" => flow = NoEntry
      /\ run[c].at = "sample" => sample = NoEntry
      /\ sample # NoEntry /\ (flow = NoEntry \/ run[c].at = "forget")
           => sample.epoch < epoch

(* What the exporter has read or exported is of an earlier epoch, or no    *)
(* more than the record has now.                                           *)
Past(r) ==
    /\ r.epoch <= epoch
    /\ r.epoch = epoch => flow # NoEntry /\ r.count <= flow.count

ExportInv ==
    /\ snap # NoEntry => Past(snap)
    /\ exported # NoEntry => Past(exported)
    /\ snap # NoEntry /\ exported # NoEntry =>
         /\ exported.epoch <= snap.epoch
         /\ exported.epoch = snap.epoch => exported.count <= snap.count

MapInv == MapTypeOK /\ CountInv /\ SampleInv /\ (Alone => AloneInv /\ ExportInv)

LEMMA MapTypeStep ==
    ASSUME MapTypeOK, [MapNext]_mapVars
    PROVE  MapTypeOK'
<1> USE DEF MapTypeOK, Record, Handshake, Steps, Idle, Go
<1>1. ASSUME NEW c \in steered, NEW s \in BOOLEAN, UNCHANGED steered, Arrive(c, s)
      PROVE  MapTypeOK'
  <2> DEFINE arrived == [Idle EXCEPT !.at = "lookup", !.sampleable = s]
  <2>1. run' = [run EXCEPT ![c] = arrived]
    BY <1>1 DEF Arrive
  <2>2. arrived \in [at : Steps, epoch : Nat, count : Nat, sampleable : BOOLEAN]
    OBVIOUS
  <2> HIDE DEF arrived
  <2>3. run' \in [Cpu -> [at : Steps, epoch : Nat, count : Nat, sampleable : BOOLEAN]]
    BY <2>1, <2>2
  <2>4. \A d \in Cpu \ steered : run'[d] = run[d]
    BY <2>1
  <2>5. QED
    BY <1>1, <2>3, <2>4 DEF Arrive
<1>2. ASSUME NEW c \in steered, UNCHANGED steered, Lookup(c)
      PROVE  MapTypeOK'
  BY <1>2 DEF Lookup
<1>3. ASSUME NEW c \in steered, UNCHANGED steered, Count(c)
      PROVE  MapTypeOK'
  BY <1>3 DEF Count
<1>4. ASSUME NEW c \in steered, UNCHANGED steered, Insert(c)
      PROVE  MapTypeOK'
  BY <1>4 DEF Insert
<1>5. ASSUME NEW c \in steered, UNCHANGED steered, Forget(c)
      PROVE  MapTypeOK'
  BY <1>5 DEF Forget
<1>6. ASSUME NEW c \in steered, UNCHANGED steered, Check(c)
      PROVE  MapTypeOK'
  BY <1>6 DEF Check
<1>7. ASSUME NEW c \in steered, UNCHANGED steered, Sample(c)
      PROVE  MapTypeOK'
  BY <1>7 DEF Sample
<1>8. CASE UNCHANGED steered /\ ReclaimFlow
  BY <1>8 DEF ReclaimFlow
<1>9. CASE UNCHANGED steered /\ ReclaimSample
  BY <1>9 DEF ReclaimSample
<1>10. CASE UNCHANGED steered /\ ReadRecord
  BY <1>10 DEF ReadRecord
<1>11. CASE UNCHANGED steered /\ Export
  BY <1>11 DEF Export
<1>12. CASE UNCHANGED mapVars
  BY <1>12 DEF mapVars
<1>13. QED
  BY <1>1, <1>2, <1>3, <1>4, <1>5, <1>6, <1>7, <1>8, <1>9, <1>10, <1>11, <1>12 DEF MapNext, Program

LEMMA CountStep ==
    ASSUME MapTypeOK, CountInv, [MapNext]_mapVars
    PROVE  CountInv'
<1> USE DEF MapTypeOK, CountInv, Record, Handshake, Steps, Idle, Go
<1>1. ASSUME NEW c \in steered, NEW s \in BOOLEAN, UNCHANGED steered, Arrive(c, s)
      PROVE  CountInv'
  BY <1>1 DEF Arrive
<1>2. ASSUME NEW c \in steered, UNCHANGED steered, Lookup(c)
      PROVE  CountInv'
  BY <1>2 DEF Lookup
<1>3. ASSUME NEW c \in steered, UNCHANGED steered, Count(c)
      PROVE  CountInv'
  <2>1. flow' \in {NoEntry} \cup Record /\ (flow # NoEntry => flow' # NoEntry)
    BY <1>3, EntryAssumption DEF Count
  <2>2. \A d \in Cpu : run'[d].at = "count" => run'[d] = run[d] /\ run[d].at = "count"
    BY <1>3 DEF Count
  <2>3. QED
    BY <1>3, <2>1, <2>2 DEF Count
<1>4. ASSUME NEW c \in steered, UNCHANGED steered, Insert(c)
      PROVE  CountInv'
  BY EntryAssumption, <1>4 DEF Insert
<1>5. ASSUME NEW c \in steered, UNCHANGED steered, Forget(c)
      PROVE  CountInv'
  BY <1>5 DEF Forget
<1>6. ASSUME NEW c \in steered, UNCHANGED steered, Check(c)
      PROVE  CountInv'
  BY <1>6 DEF Check
<1>7. ASSUME NEW c \in steered, UNCHANGED steered, Sample(c)
      PROVE  CountInv'
  BY <1>7 DEF Sample
<1>8. CASE UNCHANGED steered /\ ReclaimFlow
  BY <1>8 DEF ReclaimFlow
<1>9. CASE UNCHANGED steered /\ ReclaimSample
  BY <1>9 DEF ReclaimSample
<1>10. CASE UNCHANGED steered /\ ReadRecord
  BY <1>10 DEF ReadRecord
<1>11. CASE UNCHANGED steered /\ Export
  BY <1>11 DEF Export
<1>12. CASE UNCHANGED mapVars
  BY <1>12 DEF mapVars
<1>13. QED
  BY <1>1, <1>2, <1>3, <1>4, <1>5, <1>6, <1>7, <1>8, <1>9, <1>10, <1>11, <1>12 DEF MapNext, Program

LEMMA SampleStep ==
    ASSUME MapTypeOK, CountInv, SampleInv, [MapNext]_mapVars
    PROVE  SampleInv'
<1> USE DEF MapTypeOK, CountInv, SampleInv, Settled, Record, Handshake, Steps, Idle, Go
<1>1. ASSUME NEW c \in steered, NEW s \in BOOLEAN, UNCHANGED steered, Arrive(c, s)
      PROVE  SampleInv'
  BY <1>1 DEF Arrive
<1>2. ASSUME NEW c \in steered, UNCHANGED steered, Lookup(c)
      PROVE  SampleInv'
  BY <1>2 DEF Lookup
<1>3. ASSUME NEW c \in steered, UNCHANGED steered, Count(c)
      PROVE  SampleInv'
  BY <1>3 DEF Count
<1>4. ASSUME NEW c \in steered, UNCHANGED steered, Insert(c)
      PROVE  SampleInv'
  BY <1>4 DEF Insert
<1>5. ASSUME NEW c \in steered, UNCHANGED steered, Forget(c)
      PROVE  SampleInv'
  BY <1>5 DEF Forget
<1>6. ASSUME NEW c \in steered, UNCHANGED steered, Check(c)
      PROVE  SampleInv'
  BY <1>6 DEF Check
<1>7. ASSUME NEW c \in steered, UNCHANGED steered, Sample(c)
      PROVE  SampleInv'
  BY <1>7 DEF Sample
<1>8. CASE UNCHANGED steered /\ ReclaimFlow
  BY <1>8 DEF ReclaimFlow
<1>9. CASE UNCHANGED steered /\ ReclaimSample
  BY <1>9 DEF ReclaimSample
<1>10. CASE UNCHANGED steered /\ ReadRecord
  BY <1>10 DEF ReadRecord
<1>11. CASE UNCHANGED steered /\ Export
  BY <1>11 DEF Export
<1>12. CASE UNCHANGED mapVars
  BY <1>12 DEF mapVars
<1>13. QED
  BY <1>1, <1>2, <1>3, <1>4, <1>5, <1>6, <1>7, <1>8, <1>9, <1>10, <1>11, <1>12 DEF MapNext, Program

LEMMA AloneStep ==
    ASSUME MapTypeOK, CountInv, SampleInv, Alone, AloneInv, [MapNext]_mapVars
    PROVE  AloneInv'
<1> USE DEF MapTypeOK, CountInv, SampleInv, Alone, AloneInv, Record, Handshake, Steps, Idle, Go
<1>1. ASSUME NEW c \in steered, NEW s \in BOOLEAN, UNCHANGED steered, Arrive(c, s)
      PROVE  AloneInv'
  BY <1>1 DEF Arrive
<1>2. ASSUME NEW c \in steered, UNCHANGED steered, Lookup(c)
      PROVE  AloneInv'
  BY <1>2 DEF Lookup
<1>3. ASSUME NEW c \in steered, UNCHANGED steered, Count(c)
      PROVE  AloneInv'
  <2>1. steered = {c} /\ c \in Cpu /\ run'[c].at = "check"
    BY <1>3 DEF Count
  <2>2. CASE flow = NoEntry
    BY <1>3, <2>1, <2>2 DEF Count
  <2>3. CASE flow # NoEntry
    <3>1. flow' = [flow EXCEPT !.count = run[c].count + 1] /\ run[c].count = flow.count
      BY <1>3, <2>3 DEF Count
    <3>2. flow'.count = hits
      BY <3>1, <2>3, <1>3 DEF Count
    <3>3. flow' # NoEntry
      BY <3>1, <2>3, EntryAssumption
    <3>4. QED
      BY <1>3, <2>1, <3>2, <3>3 DEF Count
  <2>4. QED
    BY <2>2, <2>3
<1>4. ASSUME NEW c \in steered, UNCHANGED steered, Insert(c)
      PROVE  AloneInv'
  BY <1>4 DEF Insert
<1>5. ASSUME NEW c \in steered, UNCHANGED steered, Forget(c)
      PROVE  AloneInv'
  BY <1>5 DEF Forget
<1>6. ASSUME NEW c \in steered, UNCHANGED steered, Check(c)
      PROVE  AloneInv'
  BY <1>6 DEF Check
<1>7. ASSUME NEW c \in steered, UNCHANGED steered, Sample(c)
      PROVE  AloneInv'
  BY <1>7 DEF Sample
<1>8. CASE UNCHANGED steered /\ ReclaimFlow
  BY <1>8 DEF ReclaimFlow
<1>9. CASE UNCHANGED steered /\ ReclaimSample
  BY <1>9 DEF ReclaimSample
<1>10. CASE UNCHANGED steered /\ ReadRecord
  BY <1>10 DEF ReadRecord
<1>11. CASE UNCHANGED steered /\ Export
  BY <1>11 DEF Export
<1>12. CASE UNCHANGED mapVars
  BY <1>12 DEF mapVars
<1>13. QED
  BY <1>1, <1>2, <1>3, <1>4, <1>5, <1>6, <1>7, <1>8, <1>9, <1>10, <1>11, <1>12 DEF MapNext, Program

LEMMA ExportStep ==
    ASSUME MapTypeOK, CountInv, Alone, AloneInv, ExportInv, [MapNext]_mapVars
    PROVE  ExportInv'
<1> USE DEF MapTypeOK, CountInv, Alone, AloneInv, ExportInv, Past, Record, Handshake, Steps, Idle, Go
<1>1. ASSUME NEW c \in steered, NEW s \in BOOLEAN, UNCHANGED steered, Arrive(c, s)
      PROVE  ExportInv'
  BY <1>1 DEF Arrive
<1>2. ASSUME NEW c \in steered, UNCHANGED steered, Lookup(c)
      PROVE  ExportInv'
  BY <1>2 DEF Lookup
<1>3. ASSUME NEW c \in steered, UNCHANGED steered, Count(c)
      PROVE  ExportInv'
  <2>1. CASE flow = NoEntry
    BY <1>3, <2>1 DEF Count
  <2>2. CASE flow # NoEntry
    <3>1. flow' = [flow EXCEPT !.count = run[c].count + 1] /\ run[c].count = flow.count
      BY <1>3, <2>2 DEF Count
    <3>2. flow' # NoEntry /\ flow'.count = flow.count + 1 /\ flow.count \in Nat
      BY <3>1, <2>2, EntryAssumption
    <3>3. QED
      BY <1>3, <2>2, <3>2 DEF Count
  <2>3. QED
    BY <2>1, <2>2
<1>4. ASSUME NEW c \in steered, UNCHANGED steered, Insert(c)
      PROVE  ExportInv'
  BY <1>4 DEF Insert
<1>5. ASSUME NEW c \in steered, UNCHANGED steered, Forget(c)
      PROVE  ExportInv'
  BY <1>5 DEF Forget
<1>6. ASSUME NEW c \in steered, UNCHANGED steered, Check(c)
      PROVE  ExportInv'
  BY <1>6 DEF Check
<1>7. ASSUME NEW c \in steered, UNCHANGED steered, Sample(c)
      PROVE  ExportInv'
  BY <1>7 DEF Sample
<1>8. CASE UNCHANGED steered /\ ReclaimFlow
  BY <1>8 DEF ReclaimFlow
<1>9. CASE UNCHANGED steered /\ ReclaimSample
  BY <1>9 DEF ReclaimSample
<1>10. CASE UNCHANGED steered /\ ReadRecord
  BY <1>10 DEF ReadRecord
<1>11. CASE UNCHANGED steered /\ Export
  BY <1>11 DEF Export
<1>12. CASE UNCHANGED mapVars
  BY <1>12 DEF mapVars
<1>13. QED
  BY <1>1, <1>2, <1>3, <1>4, <1>5, <1>6, <1>7, <1>8, <1>9, <1>10, <1>11, <1>12 DEF MapNext, Program

LEMMA MapInitInv == MapInit => MapInv
<1> SUFFICES ASSUME MapInit PROVE MapInv
  OBVIOUS
<1>1. MapTypeOK
  BY DEF MapInit, MapTypeOK, Idle, Steps, Record, Handshake
<1>2. CountInv /\ SampleInv /\ AloneInv /\ ExportInv
  BY DEF MapInit, CountInv, SampleInv, AloneInv, ExportInv, Idle
<1>3. QED
  BY <1>1, <1>2 DEF MapInv

LEMMA SteeredStays == [MapNext]_mapVars => (Alone' <=> Alone)
BY DEF MapNext, mapVars, Alone

LEMMA MapStepInv == MapInv /\ [MapNext]_mapVars => MapInv'
<1> SUFFICES ASSUME MapInv, [MapNext]_mapVars PROVE MapInv'
  OBVIOUS
<1>1. MapTypeOK' /\ CountInv' /\ SampleInv'
  BY MapTypeStep, CountStep, SampleStep DEF MapInv
<1>2. Alone => AloneInv' /\ ExportInv'
  BY AloneStep, ExportStep DEF MapInv
<1>3. QED
  BY <1>1, <1>2, SteeredStays DEF MapInv

(* The inductive invariant; its last two parts hold on one CPU.            *)
THEOREM MapInvariance == MapSpec => []MapInv
<1>1. QED
  BY MapInitInv, MapStepInv, PTL DEF MapSpec

LEMMA OneCpuAlone == ASSUME MapTypeOK, OneCpu PROVE Alone /\ \E c \in Cpu : steered = {c}
<1>1. IsFiniteSet(steered)
  BY EntryAssumption, FS_Subset DEF MapTypeOK
<1>2. \E c : steered = {c}
  BY <1>1, FS_Singleton DEF OneCpu
<1>3. QED
  BY <1>2 DEF Alone, MapTypeOK

(* The program never lets a sample outlive its record into the next one's  *)
(* life, once the program that inserted it is past its HANDSHAKES.remove.  *)
THEOREM NoLeftover == MapSpec => []NoLeftoverWhenSettled
<1>1. MapInv => NoLeftoverWhenSettled
  BY DEF MapInv, SampleInv, NoLeftoverWhenSettled
<1>2. QED
  BY <1>1, MapInvariance, PTL

(* Racing CPUs only ever lose packets of a record, and one CPU none.       *)
THEOREM NeverInvented == MapSpec => []CountsPackets
<1>1. ASSUME MapInv PROVE CountsPackets
  <2>1. flow # NoEntry => flow.count <= hits
    BY <1>1 DEF MapInv, CountInv
  <2>2. ASSUME flow # NoEntry, OneCpu, \A c \in Cpu : run[c].at # "count"
        PROVE  flow.count = hits
    BY <1>1, <2>2, OneCpuAlone DEF MapInv, AloneInv
  <2>3. QED
    BY <2>1, <2>2 DEF CountsPackets
<1>2. QED
  BY <1>1, MapInvariance, PTL

(* On one CPU a sample is taken once: nothing in the program replaces or   *)
(* removes one that belongs to the record in the map.                      *)
THEOREM SampledOnce == MapSpec => SampleKept
<1> DEFINE Kept == OneCpu /\ sample # NoEntry /\ sample' # sample =>
                     \/ flow = NoEntry \/ sample.epoch < flow.epoch
                     \/ sample' = NoEntry /\ run' = run
<1>1. ASSUME MapInv, [MapNext]_mapVars PROVE [Kept]_mapVars
  <2> SUFFICES ASSUME MapNext, OneCpu, sample # NoEntry, sample' # sample, flow # NoEntry
               PROVE  sample.epoch < flow.epoch \/ (sample' = NoEntry /\ run' = run)
    BY <1>1
  <2> USE DEF MapInv
  <2>1. Alone /\ AloneInv
    BY <1>1, OneCpuAlone
  <2>2. ASSUME NEW c \in steered, Forget(c) PROVE sample.epoch < flow.epoch
    BY <1>1, <2>1, <2>2 DEF Forget, AloneInv, CountInv
  <2>3. ASSUME NEW c \in steered, Sample(c) PROVE FALSE
    BY <2>1, <2>3 DEF Sample, AloneInv
  <2>4. CASE ReclaimSample
    BY <2>4 DEF ReclaimSample
  <2>5. QED
    BY <2>2, <2>3, <2>4 DEF MapNext, Program, Arrive, Lookup, Count, Insert, Check,
       ReclaimFlow, ReadRecord, Export
<1>2. QED
  BY <1>1, MapInvariance, PTL DEF MapSpec, SampleKept

(* On one CPU an exported count only goes down when the record was         *)
(* reclaimed in between, which is what the flow window concludes from it.  *)
THEOREM DecreaseIsRecycling == MapSpec => DecreaseMeansRecycled
<1> DEFINE Told == OneCpu /\ exported # NoEntry /\ exported'.count < exported.count
                     => exported'.epoch > exported.epoch
<1>1. ASSUME MapInv, [MapNext]_mapVars PROVE [Told]_exported
  <2> SUFFICES ASSUME MapNext, OneCpu, exported # NoEntry, exported' # exported,
                      exported'.count < exported.count
               PROVE  exported'.epoch > exported.epoch
    BY <1>1 DEF mapVars
  <2>1. ExportInv /\ MapTypeOK
    BY <1>1, OneCpuAlone DEF MapInv
  <2>2. Export
    BY DEF MapNext, Program, Arrive, Lookup, Count, Insert, Forget, Check, Sample,
       ReclaimFlow, ReclaimSample, ReadRecord
  <2>3. exported'.count = snap.count /\ exported'.epoch = snap.epoch /\ snap # NoEntry
    BY <2>2 DEF Export
  <2>4. snap \in Record /\ exported.count \in Nat /\ exported.epoch \in Nat
    BY <2>1, <2>3 DEF MapTypeOK, Record
  <2>5. QED
    BY <2>1, <2>3, <2>4 DEF ExportInv, Record
<1>2. QED
  BY <1>1, MapInvariance, PTL DEF MapSpec, DecreaseMeansRecycled

-----------------------------------------------------------------------------
(* FlowSocket.                                                             *)
In(c, s) == \E i \in 1 .. Len(s) : s[i] = c
Once(s)  == \A i, j \in 1 .. Len(s) : s[i] = s[j] => i = j

(* Every stream the exporter may write to waits in the backlog, is a       *)
(* client it has still to write to in this tick, or one it has written to. *)
OwnInv ==
    /\ Once(clients) /\ Once(live)
    /\ \A c \in Conn :
         /\ ~(In(c, clients) /\ In(c, live))
         /\ c \in backlog => ~In(c, clients) /\ ~In(c, live)
         /\ c \in writes <=> c \in backlog \/ In(c, clients) \/ In(c, live)
    /\ expo # "write" => live = <<>>

(* In a tick, what is left of the frame for the first client.              *)
Body == <<[part |-> "body", batch |-> batch]>>
FrameInv ==
    /\ expo = "write" => frame \in {Frame(batch), Body}
    /\ eng \in {"length", "body", "handle"} => sock \in reads

(* The part that a connection's reader, or its writer, is to come to next. *)
Reading(c) == IF sock = c /\ eng = "body" THEN "body" ELSE "length"
Writing(c) ==
    IF expo = "write" /\ clients # <<>> /\ Head(clients) = c /\ frame = Body
    THEN "body" ELSE "length"

(* Lengths and bodies take turns from the reader to the writer.            *)
Turns(s, from) ==
    /\ s # <<>> => s[1].part = from
    /\ \A i \in 1 .. Len(s) - 1 : s[i].part # s[i + 1].part

InTurn(c) ==
    /\ c \notin reads => buffer[c] = <<>>
    /\ Turns(buffer[c], Reading(c))
    /\ c \in reads \cap writes =>
         IF buffer[c] = <<>> THEN Reading(c) = Writing(c)
         ELSE buffer[c][Len(buffer[c])].part # Writing(c)

StreamInv == \A c \in Conn : InTurn(c)

-----------------------------------------------------------------------------
(* What the steps do to sequences.                                         *)
LEMMA SeqFacts ==
    ASSUME NEW S
    PROVE  /\ <<>> \in Seq(S) /\ Len(<<>>) = 0
           /\ \A s \in Seq(S) : s # <<>> => /\ Head(s) \in S /\ Tail(s) \in Seq(S)
                                            /\ Len(s) \in Nat \ {0} /\ Len(Tail(s)) = Len(s) - 1
           /\ \A s \in Seq(S), e \in S : /\ Append(s, e) \in Seq(S)
                                         /\ Len(Append(s, e)) = Len(s) + 1
  OBVIOUS

LEMMA AppendFacts ==
    ASSUME NEW S, NEW s \in Seq(S), NEW e \in S
    PROVE  /\ Append(s, e) # <<>> /\ Append(s, e)[Len(Append(s, e))] = e
           /\ \A i \in 1 .. Len(s) : Append(s, e)[i] = s[i]
  OBVIOUS

LEMMA TailFacts ==
    ASSUME NEW S, NEW s \in Seq(S), s # <<>>
    PROVE  /\ \A i \in 1 .. Len(s) - 1 : Tail(s)[i] = s[i + 1]
           /\ Tail(s) = <<>> <=> Len(s) = 1
<1>1. Len(s) \in Nat /\ Tail(s) \in Seq(S) /\ Len(Tail(s)) = Len(s) - 1
  BY SeqFacts
<1>2. Tail(s) = <<>> <=> Len(Tail(s)) = 0
  BY <1>1, EmptySeq
<1>3. QED
  BY <1>1, <1>2

LEMMA FrameTypes ==
    ASSUME NEW b \in 0 .. MaxBatch
    PROVE  /\ Frame(b) \in Seq(Unit) /\ Len(Frame(b)) = 2 /\ Frame(b) # <<>>
           /\ Frame(b)[1] = [part |-> "length", batch |-> b]
           /\ Frame(b)[2] = [part |-> "body", batch |-> b]
           /\ Head(Frame(b)) = [part |-> "length", batch |-> b]
           /\ Tail(Frame(b)) = <<[part |-> "body", batch |-> b]>>
           /\ Len(<<[part |-> "body", batch |-> b]>>) = 1
           /\ Head(<<[part |-> "body", batch |-> b]>>) = [part |-> "body", batch |-> b]
BY DEF Frame, Unit

LEMMA TypeStep == ASSUME TypeOK, FrameInv, [Next]_vars PROVE TypeOK'
<1>1. CASE Bind
  BY <1>1 DEF Bind, TypeOK, FrameInv, exporter, conns, engine
<1>2. CASE Accept
  BY <1>2 DEF Accept, TypeOK, FrameInv, exporter, conns, engine
<1>3. CASE Publish
  <2>1. batch' \in 0 .. MaxBatch
    BY <1>3, ParameterAssumption DEF TypeOK, Publish
  <2>2. frame' \in Seq(Unit)
    BY <1>3, <2>1, FrameTypes DEF Publish
  <2>3. live' \in Seq(Conn)
    BY <1>3, SeqFacts DEF Publish
  <2>4. QED
    BY <1>3, <2>1, <2>2, <2>3 DEF Publish, TypeOK, conns, engine
<1>4. CASE Write
  <2>1. /\ Head(clients) \in Conn /\ Tail(clients) \in Seq(Conn)
        /\ Append(live, Head(clients)) \in Seq(Conn)
    BY <1>4, SeqFacts DEF Write, TypeOK
  <2>2. frame \in Seq(Unit) /\ frame # <<>> /\ Frame(batch) \in Seq(Unit)
    BY <1>4, FrameTypes, SeqFacts DEF Write, TypeOK, FrameInv, Body
  <2>3. Head(frame) \in Unit /\ Tail(frame) \in Seq(Unit)
    BY <2>2, SeqFacts
  <2>4. frame' \in Seq(Unit) /\ clients' \in Seq(Conn) /\ live' \in Seq(Conn)
    BY <1>4, <2>1, <2>2, <2>3 DEF Write, TypeOK
  <2>5. buffer' \in [Conn -> Seq(Unit)] /\ \A c \in Conn : Len(buffer'[c]) <= Cap
    <3> DEFINE c == Head(clients)
    <3>1. buffer' = [buffer EXCEPT ![c] = Append(@, Head(frame))] /\ Len(buffer[c]) < Cap
      BY <1>4 DEF Write
    <3>2. Append(buffer[c], Head(frame)) \in Seq(Unit)
          /\ Len(Append(buffer[c], Head(frame))) = Len(buffer[c]) + 1
          /\ Len(buffer[c]) \in Nat
      BY <2>1, <2>3, SeqFacts DEF TypeOK
    <3>3. QED
      BY <2>1, <3>1, <3>2, ParameterAssumption DEF TypeOK
  <2>6. QED
    BY <1>4, <2>4, <2>5 DEF Write, TypeOK, engine
<1>5. CASE WriteFails
  <2>1. Head(clients) \in Conn /\ Tail(clients) \in Seq(Conn) /\ Frame(batch) \in Seq(Unit)
    BY <1>5, FrameTypes, SeqFacts DEF WriteFails, TypeOK
  <2>2. buffer' \in [Conn -> Seq(Unit)] /\ \A c \in Conn : Len(buffer'[c]) <= Cap
    BY <1>5, <2>1, SeqFacts, ParameterAssumption DEF WriteFails, TypeOK
  <2>3. QED
    BY <1>5, <2>1, <2>2 DEF WriteFails, TypeOK, engine
<1>6. CASE Published
  BY <1>6, SeqFacts DEF Published, TypeOK, conns, engine
<1>7. CASE ExporterEnds
  <2>1. buffer' \in [Conn -> Seq(Unit)] /\ \A c \in Conn : Len(buffer'[c]) <= Cap
    BY <1>7, SeqFacts, ParameterAssumption DEF ExporterEnds, TypeOK
  <2>2. /\ backlog' = {} /\ clients' = <<>> /\ live' = <<>> /\ frame' = <<>> /\ writes' = {}
        /\ expo' = "down" /\ path' \in {"absent", "left"}
    BY <1>7 DEF ExporterEnds
  <2>3. QED
    BY <1>7, <2>1, <2>2, SeqFacts DEF ExporterEnds, TypeOK, engine
<1>8. CASE EngineStarts
  BY <1>8, ParameterAssumption DEF EngineStarts, TypeOK, exporter, conns
<1>9. CASE Connect
  <2>1. PICK c \in Free : Open(c) /\ sock' = c
    BY <1>9 DEF Connect
  <2>2. QED
    BY <1>9, <2>1 DEF Connect, TypeOK, Open, Free
<1>10. CASE ConnectRefused
  BY <1>10 DEF ConnectRefused, TypeOK, FrameInv, exporter, conns, engine
<1>11. CASE Receive
  <2>1. sock \in Conn
    BY <1>11 DEF Receive, TypeOK, FrameInv
  <2>2. /\ Head(buffer[sock]) \in Unit /\ Tail(buffer[sock]) \in Seq(Unit)
        /\ Len(Tail(buffer[sock])) = Len(buffer[sock]) - 1 /\ Len(buffer[sock]) \in Nat
    BY <1>11, <2>1, SeqFacts DEF Receive, TypeOK
  <2>3. Head(buffer[sock]).batch \in 0 .. MaxBatch
    BY <2>2 DEF Unit
  <2>4. buffer' \in [Conn -> Seq(Unit)] /\ \A c \in Conn : Len(buffer'[c]) <= Cap
    BY <1>11, <2>1, <2>2, ParameterAssumption DEF Receive, TypeOK
  <2>5. QED
    BY <1>11, <2>3, <2>4 DEF Receive, TypeOK, exporter
<1>12. CASE Disconnected
  BY <1>12 DEF Disconnected, TypeOK, FrameInv, exporter, conns, engine
<1>13. CASE Handled
  BY <1>13 DEF Handled, TypeOK, FrameInv, exporter, conns, engine
<1>14. CASE EngineEnds
  <2>1. buffer' \in [Conn -> Seq(Unit)] /\ \A c \in Conn : Len(buffer'[c]) <= Cap
    BY <1>14, SeqFacts, ParameterAssumption DEF EngineEnds, TypeOK
  <2>2. QED
    BY <1>14, <2>1 DEF EngineEnds, TypeOK, exporter
<1>15. CASE StrangerConnects
  <2>1. PICK c \in Free : Open(c)
    BY <1>15 DEF StrangerConnects
  <2>2. QED
    BY <1>15, <2>1 DEF StrangerConnects, TypeOK, Open, Free, engine
<1>16. CASE StrangerLeaves
  <2>1. buffer' \in [Conn -> Seq(Unit)] /\ \A c \in Conn : Len(buffer'[c]) <= Cap
    BY <1>16, SeqFacts, ParameterAssumption DEF StrangerLeaves, TypeOK
  <2>2. QED
    BY <1>16, <2>1 DEF StrangerLeaves, TypeOK, exporter, engine
<1>17. CASE UNCHANGED vars
  BY <1>17 DEF vars, TypeOK, FrameInv, exporter, conns, engine
<1>18. QED
  BY <1>1, <1>2, <1>3, <1>4, <1>5, <1>6, <1>7, <1>8, <1>9, <1>10, <1>11, <1>12, <1>13, <1>14, <1>15, <1>16, <1>17 DEF Next

-----------------------------------------------------------------------------
(* What a sequence holds, and that it holds it once, as steps change it.   *)
LEMMA EmptyHolds == Once(<<>>) /\ \A c : ~In(c, <<>>)
  BY DEF Once, In

LEMMA AppendHolds ==
    ASSUME NEW S, NEW s \in Seq(S), NEW e \in S
    PROVE  /\ \A c : In(c, Append(s, e)) <=> In(c, s) \/ c = e
           /\ Once(s) /\ ~In(e, s) => Once(Append(s, e))
<1>1. /\ Len(s) \in Nat /\ Len(Append(s, e)) = Len(s) + 1
      /\ Append(s, e)[Len(s) + 1] = e
      /\ \A i \in 1 .. Len(s) : Append(s, e)[i] = s[i]
  OBVIOUS
<1>2. 1 .. Len(s) + 1 = (1 .. Len(s)) \cup {Len(s) + 1}
  BY <1>1
<1>3. ASSUME NEW c PROVE In(c, Append(s, e)) <=> In(c, s) \/ c = e
  BY <1>1, <1>2 DEF In
<1>4. ASSUME Once(s), ~In(e, s) PROVE Once(Append(s, e))
  BY <1>1, <1>2, <1>4 DEF In, Once
<1>5. QED
  BY <1>3, <1>4

LEMMA TailHolds ==
    ASSUME NEW S, NEW s \in Seq(S), s # <<>>, Once(s)
    PROVE  /\ In(Head(s), s) /\ Once(Tail(s))
           /\ \A c : In(c, Tail(s)) <=> In(c, s) /\ c # Head(s)
<1>1. /\ Len(s) \in Nat \ {0} /\ Len(Tail(s)) = Len(s) - 1 /\ Head(s) = s[1]
      /\ \A i \in 1 .. Len(s) - 1 : Tail(s)[i] = s[i + 1]
  OBVIOUS
<1>2. Once(Tail(s))
  BY <1>1 DEF Once
<1>3. ASSUME NEW c, In(c, Tail(s)) PROVE In(c, s) /\ c # Head(s)
  BY <1>1, <1>3 DEF In, Once
<1>4. ASSUME NEW c, In(c, s), c # Head(s) PROVE In(c, Tail(s))
  <2>1. PICK i \in 1 .. Len(s) : s[i] = c
    BY <1>4 DEF In
  <2>2. i # 1 /\ i - 1 \in 1 .. Len(Tail(s)) /\ Tail(s)[i - 1] = c
    BY <1>1, <1>4, <2>1
  <2>3. QED
    BY <2>2 DEF In
<1>5. In(Head(s), s)
  BY <1>1 DEF In
<1>6. QED
  BY <1>2, <1>3, <1>4, <1>5

LEMMA OwnStep == ASSUME TypeOK, OwnInv, FrameInv, [Next]_vars PROVE OwnInv'
<1>1. CASE Bind
  BY <1>1 DEF Bind, OwnInv, conns
<1>2. CASE Accept
  <2>1. PICK c \in backlog : backlog' = backlog \ {c} /\ clients' = Append(clients, c)
    BY <1>2 DEF Accept
  <2>2. c \in Conn /\ ~In(c, clients) /\ ~In(c, live)
    BY <2>1 DEF TypeOK, OwnInv
  <2>3. Once(clients') /\ \A d : In(d, clients') <=> In(d, clients) \/ d = c
    BY <2>1, <2>2, AppendHolds DEF TypeOK, OwnInv
  <2>4. QED
    BY <1>2, <2>1, <2>2, <2>3 DEF Accept, OwnInv, TypeOK, conns
<1>3. CASE Publish
  <2>1. live = <<>> /\ live' = <<>>
    BY <1>3 DEF Publish, OwnInv
  <2>2. QED
    BY <1>3, <2>1 DEF Publish, OwnInv, conns
<1>4. CASE Write
  <2> DEFINE c == Head(clients)
  <2>1. UNCHANGED <<expo, backlog, writes>> /\ expo = "write" /\ clients # <<>>
    BY <1>4 DEF Write
  <2>2. CASE UNCHANGED <<clients, live>>
    BY <2>1, <2>2 DEF OwnInv
  <2>3. CASE clients' = Tail(clients) /\ live' = Append(live, c)
    <3>1. c \in Conn /\ In(c, clients) /\ Once(clients')
          /\ \A d : In(d, clients') <=> In(d, clients) /\ d # c
      BY <2>1, <2>3, SeqFacts, TailHolds DEF TypeOK, OwnInv
    <3>2. Once(live') /\ \A d : In(d, live') <=> In(d, live) \/ d = c
      BY <2>3, <3>1, AppendHolds DEF TypeOK, OwnInv
    <3>3. QED
      BY <2>1, <3>1, <3>2 DEF OwnInv
  <2>4. QED
    BY <1>4, <2>2, <2>3 DEF Write
<1>5. CASE WriteFails
  <2> DEFINE c == Head(clients)
  <2>1. c \in Conn /\ In(c, clients) /\ Once(clients')
        /\ \A d : In(d, clients') <=> In(d, clients) /\ d # c
    BY <1>5, SeqFacts, TailHolds DEF TypeOK, OwnInv, WriteFails
  <2>2. QED
    BY <1>5, <2>1 DEF OwnInv, WriteFails
<1>6. CASE Published
  BY <1>6, EmptyHolds DEF Published, OwnInv, conns
<1>7. CASE ExporterEnds
  <2>1. backlog' = {} /\ clients' = <<>> /\ live' = <<>> /\ writes' = {}
    BY <1>7 DEF ExporterEnds
  <2>2. QED
    BY <2>1, EmptyHolds DEF OwnInv
<1>8. CASE EngineStarts
  BY <1>8 DEF EngineStarts, OwnInv, exporter, conns
<1>9. CASE Connect
  <2>1. PICK c \in Free : Open(c)
    BY <1>9 DEF Connect
  <2>2. c \in Conn /\ c \notin writes
    BY <2>1 DEF Free
  <2>3. QED
    BY <1>9, <2>1, <2>2 DEF Connect, Open, OwnInv
<1>10. CASE ConnectRefused
  BY <1>10 DEF ConnectRefused, OwnInv, exporter, conns
<1>11. CASE Receive
  BY <1>11 DEF Receive, OwnInv, exporter
<1>12. CASE Disconnected
  BY <1>12 DEF Disconnected, OwnInv, exporter
<1>13. CASE Handled
  BY <1>13 DEF Handled, OwnInv, exporter, conns
<1>14. CASE EngineEnds
  BY <1>14 DEF EngineEnds, OwnInv, exporter
<1>15. CASE StrangerConnects
  <2>1. PICK c \in Free : Open(c)
    BY <1>15 DEF StrangerConnects
  <2>2. c \in Conn /\ c \notin writes
    BY <2>1 DEF Free
  <2>3. QED
    BY <1>15, <2>1, <2>2 DEF StrangerConnects, Open, OwnInv
<1>16. CASE StrangerLeaves
  BY <1>16 DEF StrangerLeaves, OwnInv, exporter
<1>17. CASE UNCHANGED vars
  BY <1>17 DEF vars, TypeOK, OwnInv, exporter, conns, engine
<1>18. QED
  BY <1>1, <1>2, <1>3, <1>4, <1>5, <1>6, <1>7, <1>8, <1>9, <1>10, <1>11, <1>12, <1>13, <1>14, <1>15, <1>16, <1>17 DEF Next

-----------------------------------------------------------------------------
LEMMA FrameStep == ASSUME TypeOK, FrameInv, [Next]_vars PROVE FrameInv'
<1>1. CASE Bind
  BY <1>1 DEF Bind, FrameInv, conns, engine
<1>2. CASE Accept
  BY <1>2 DEF Accept, FrameInv, conns, engine
<1>3. CASE Publish
  BY <1>3 DEF Publish, FrameInv, conns, engine
<1>4. CASE Write
  <2>1. UNCHANGED <<expo, batch, reads, eng, sock>> /\ expo = "write"
    BY <1>4 DEF Write, engine
  <2>2. Tail(Frame(batch)) = Body /\ Len(Body) = 1
    BY FrameTypes DEF TypeOK, Body
  <2>3. Frame(batch)' = Frame(batch) /\ Body' = Body
    BY <2>1 DEF Frame, Body
  <2>4. frame' = Frame(batch) \/ (Len(frame) > 1 /\ frame' = Tail(frame))
    BY <1>4 DEF Write
  <2>5. frame = Frame(batch) \/ frame = Body
    BY <2>1 DEF FrameInv
  <2>6. frame' = Frame(batch) \/ frame' = Body
    BY <2>2, <2>4, <2>5
  <2>7. QED
    BY <2>1, <2>3, <2>6 DEF FrameInv
<1>5. CASE WriteFails
  <2>1. Frame(batch)' = Frame(batch)
    BY <1>5 DEF WriteFails, Frame
  <2>2. QED
    BY <1>5, <2>1 DEF WriteFails, FrameInv, engine
<1>6. CASE Published
  BY <1>6 DEF Published, FrameInv, conns, engine
<1>7. CASE ExporterEnds
  BY <1>7 DEF ExporterEnds, FrameInv, engine
<1>8. CASE EngineStarts
  BY <1>8 DEF EngineStarts, FrameInv, exporter, conns, Body, Frame
<1>9. CASE Connect
  BY <1>9 DEF Connect, FrameInv, Open, Body, Frame
<1>10. CASE ConnectRefused
  BY <1>10 DEF ConnectRefused, FrameInv, exporter, conns, Body, Frame
<1>11. CASE Receive
  BY <1>11 DEF Receive, FrameInv, exporter, Body, Frame
<1>12. CASE Disconnected
  BY <1>12 DEF Disconnected, FrameInv, exporter, Body, Frame
<1>13. CASE Handled
  BY <1>13 DEF Handled, FrameInv, exporter, conns, Body, Frame
<1>14. CASE EngineEnds
  BY <1>14 DEF EngineEnds, FrameInv, exporter, Body, Frame
<1>15. CASE StrangerConnects
  BY <1>15 DEF StrangerConnects, FrameInv, Open, engine, Body, Frame
<1>16. CASE StrangerLeaves
  BY <1>16 DEF StrangerLeaves, FrameInv, exporter, engine, Body, Frame
<1>17. CASE UNCHANGED vars
  BY <1>17 DEF vars, FrameInv, exporter, conns, engine, Body, Frame
<1>18. QED
  BY <1>1, <1>2, <1>3, <1>4, <1>5, <1>6, <1>7, <1>8, <1>9, <1>10, <1>11, <1>12, <1>13, <1>14, <1>15, <1>16, <1>17 DEF Next

(* A step that does not touch a connection, or leaves it empty, leaves it  *)
(* in turn.                                                               *)
LEMMA Untouched ==
    ASSUME NEW c \in Conn, InTurn(c), buffer'[c] = buffer[c], Reading(c)' = Reading(c),
           c \in reads => c \in reads',
           c \in reads' \cap writes' => c \in reads \cap writes /\ Writing(c)' = Writing(c)
    PROVE  InTurn(c)'
<1>1. Turns(buffer[c], Reading(c))'
  BY DEF InTurn, Turns
<1>2. QED
  BY <1>1 DEF InTurn

LEMMA Emptied ==
    ASSUME NEW c \in Conn, buffer'[c] = <<>>,
           c \in reads' \cap writes' => Reading(c)' = Writing(c)'
    PROVE  InTurn(c)'
<1>1. Turns(buffer[c], Reading(c))'
  BY DEF Turns
<1>2. QED
  BY <1>1 DEF InTurn

(* While no body is due, a length is.                                      *)
LEMMA FrameIsNotBody == TypeOK => Frame(batch) # Body
<1>1. ASSUME TypeOK PROVE Frame(batch) # Body
  <2>1. batch \in 0 .. MaxBatch
    BY <1>1 DEF TypeOK
  <2>2. Len(Frame(batch)) = 2 /\ Len(Body) = 1
    BY <2>1, FrameTypes DEF Body
  <2>3. QED
    BY <2>2
<1>2. QED
  BY <1>1

LEMMA StreamStep == ASSUME TypeOK, TypeOK', OwnInv, FrameInv, FrameInv', StreamInv, [Next]_vars PROVE StreamInv'
<1>1. CASE Bind
  <2> SUFFICES ASSUME NEW c \in Conn PROVE InTurn(c)'
    BY DEF StreamInv
  <2>1. Reading(c)' = Reading(c)
    BY <1>1 DEF Bind, Reading, engine
  <2>2. Writing(c)' = Writing(c)
    BY <1>1 DEF Bind, Writing
  <2>3. QED
    BY <1>1, <2>1, <2>2, Untouched DEF Bind, StreamInv, conns
<1>2. CASE Accept
  <2> SUFFICES ASSUME NEW c \in Conn PROVE InTurn(c)'
    BY DEF StreamInv
  <2>1. Reading(c)' = Reading(c)
    BY <1>2 DEF Accept, Reading, engine
  <2>2. Writing(c)' = Writing(c)
    BY <1>2 DEF Accept, Writing
  <2>3. QED
    BY <1>2, <2>1, <2>2, Untouched DEF Accept, StreamInv, conns
<1>3. CASE Publish
  <2> SUFFICES ASSUME NEW c \in Conn PROVE InTurn(c)'
    BY DEF StreamInv
  <2>1. Reading(c)' = Reading(c)
    BY <1>3 DEF Publish, Reading, engine
  <2>2. (Frame(batch) # Body)'
    BY FrameIsNotBody, PTL
  <2>3. Writing(c)' = Writing(c)
    BY <1>3, <2>2 DEF Publish, Writing, Frame
  <2>4. QED
    BY <1>3, <2>1, <2>3, Untouched DEF Publish, StreamInv, conns
<1>4. CASE Write
  <2> SUFFICES ASSUME NEW c \in Conn PROVE InTurn(c)'
    BY DEF StreamInv
  <2> DEFINE h == Head(clients)
             b == buffer[h]
             u == Head(frame)
  <2>1. h \in Conn /\ In(h, clients) /\ h \in reads \cap writes
        /\ \A d \in Conn : In(d, Tail(clients)) => d # h
    BY <1>4, SeqFacts, TailHolds DEF Write, TypeOK, OwnInv
  <2>2. /\ Reading(c)' = Reading(c) /\ UNCHANGED <<reads, writes, batch, expo>>
        /\ expo = "write" /\ clients # <<>>
    BY <1>4 DEF Write, Reading, engine
  <2>3. b \in Seq(Unit) /\ Len(b) \in Nat /\ buffer' = [buffer EXCEPT ![h] = Append(b, u)]
    BY <1>4, <2>1 DEF Write, TypeOK
  <2>4. /\ Frame(batch) # Body /\ Tail(Frame(batch)) = Body /\ Len(Frame(batch)) = 2
        /\ Len(Body) = 1 /\ Head(Frame(batch)).part = "length" /\ Head(Body).part = "body"
        /\ Head(Frame(batch)) \in Unit /\ Head(Body) \in Unit
    <3>1. batch \in 0 .. MaxBatch
      BY DEF TypeOK
    <3>2. /\ Tail(Frame(batch)) = Body /\ Len(Frame(batch)) = 2 /\ Len(Body) = 1
          /\ Head(Frame(batch)) = [part |-> "length", batch |-> batch]
          /\ Head(Body) = [part |-> "body", batch |-> batch]
      BY <3>1, FrameTypes DEF Body
    <3>3. QED
      BY <3>1, <3>2, FrameIsNotBody DEF Unit
  <2>5. Frame(batch)' = Frame(batch) /\ Body' = Body
    BY <2>2 DEF Frame, Body
  <2>6. u.part = Writing(h) /\ u \in Unit /\ Writing(h) \in {"length", "body"}
    BY <2>2, <2>4 DEF FrameInv, Writing
  <2>7. ASSUME c = h PROVE Writing(c)' # u.part
    <3>1. CASE frame = Body
      <4>1. frame' = Frame(batch)
        BY <1>4, <2>4, <3>1 DEF Write
      <4>2. Writing(c)' = "length"
        BY <2>4, <2>5, <4>1 DEF Writing
      <4>3. QED
        BY <2>4, <3>1, <4>2
    <3>2. CASE frame = Frame(batch)
      <4>1. Len(frame) = 2 /\ Tail(frame) = Body
        BY <2>4, <3>2
      <4>2. frame' = Body /\ clients' = clients
        <5>1. \/ Len(frame) > 1 /\ frame' = Tail(frame) /\ clients' = clients
              \/ Len(frame) = 1
          BY <1>4 DEF Write
        <5>2. QED
          BY <4>1, <5>1
      <4>3. Writing(c)' = "body"
        BY <2>2, <2>5, <2>7, <4>2 DEF Writing
      <4>4. QED
        BY <2>4, <3>2, <4>3
    <3>3. QED
      BY <2>2, <3>1, <3>2 DEF FrameInv
  <2>8. CASE c # h
    <3>1. Writing(c) = "length" /\ Writing(c)' = "length"
      BY <1>4, <2>2, <2>4, <2>5, <2>8 DEF Write, FrameInv, Writing
    <3>2. QED
      BY <2>2, <2>3, <2>8, <3>1, Untouched DEF StreamInv, TypeOK
  <2>9. CASE c = h
    <3> DEFINE a == Append(b, u)
    <3>1. /\ a # <<>> /\ Len(a) = Len(b) + 1 /\ a[Len(a)] = u
          /\ \A i \in 1 .. Len(b) : a[i] = b[i]
      BY <2>3, <2>6, SeqFacts, AppendFacts
    <3>2. buffer'[c] = a
      BY <2>1, <2>3, <2>9 DEF TypeOK
    <3>3. Turns(b, Reading(h))
          /\ IF b = <<>> THEN Reading(h) = Writing(h) ELSE b[Len(b)].part # Writing(h)
      BY <2>1 DEF StreamInv, InTurn
    <3>4. Reading(c)' = Reading(h)
      BY <2>2, <2>9
    <3>5. CASE b = <<>>
      <4>1. Turns(a, Reading(h))
        BY <2>6, <3>1, <3>3, <3>5 DEF Turns
      <4>2. Turns(buffer[c], Reading(c))'
        BY <3>2, <3>4, <4>1 DEF Turns
      <4>3. QED
        BY <2>1, <2>2, <2>7, <2>9, <3>1, <3>2, <4>2 DEF InTurn
    <3>6. CASE b # <<>>
      <4>1. a[1].part = Reading(h)
        BY <2>3, <3>1, <3>3, <3>6 DEF Turns
      <4>2. ASSUME NEW i \in 1 .. Len(a) - 1 PROVE a[i].part # a[i + 1].part
        <5>1. CASE i = Len(b)
          BY <2>3, <2>6, <3>1, <3>3, <3>6, <5>1
        <5>2. CASE i # Len(b)
          <6>1. i \in 1 .. Len(b) - 1 /\ i + 1 \in 1 .. Len(b)
            BY <2>3, <3>1, <5>2
          <6>2. QED
            BY <3>1, <3>3, <6>1 DEF Turns
        <5>3. QED
          BY <5>1, <5>2
      <4>3. Turns(a, Reading(h))
        BY <4>1, <4>2 DEF Turns
      <4>4. Turns(buffer[c], Reading(c))'
        BY <3>2, <3>4, <4>3 DEF Turns
      <4>5. QED
        BY <2>1, <2>2, <2>7, <2>9, <3>1, <3>2, <4>4 DEF InTurn
    <3>7. QED
      BY <3>5, <3>6
  <2>10. QED
    BY <2>8, <2>9
<1>5. CASE WriteFails
  <2> SUFFICES ASSUME NEW c \in Conn PROVE InTurn(c)'
    BY DEF StreamInv
  <2>1. Reading(c)' = Reading(c)
    BY <1>5 DEF WriteFails, Reading, engine
  <2>2. Frame(batch) # Body /\ Frame(batch)' = Frame(batch) /\ Body' = Body
    BY <1>5, FrameIsNotBody DEF WriteFails, Frame, Body
  <2>3. CASE c = Head(clients)
    BY <1>5, <2>3, Emptied DEF WriteFails, TypeOK
  <2>4. CASE c # Head(clients)
    <3>1. Writing(c)' = Writing(c)
      BY <1>5, <2>2, <2>4 DEF WriteFails, Writing
    <3>2. buffer'[c] = buffer[c]
      BY <1>5, <2>4 DEF WriteFails, TypeOK
    <3>3. QED
      BY <1>5, <2>1, <3>1, <3>2, Untouched DEF WriteFails, StreamInv
  <2>5. QED
    BY <2>3, <2>4
<1>6. CASE Published
  <2> SUFFICES ASSUME NEW c \in Conn PROVE InTurn(c)'
    BY DEF StreamInv
  <2>1. Reading(c)' = Reading(c)
    BY <1>6 DEF Published, Reading, engine
  <2>2. Writing(c)' = Writing(c)
    BY <1>6 DEF Published, Writing
  <2>3. QED
    BY <1>6, <2>1, <2>2, Untouched DEF Published, StreamInv, conns
<1>7. CASE ExporterEnds
  <2> SUFFICES ASSUME NEW c \in Conn PROVE InTurn(c)'
    BY DEF StreamInv
  <2>1. Reading(c)' = Reading(c)
    BY <1>7 DEF ExporterEnds, Reading, engine
  <2>2. buffer'[c] = buffer[c] /\ UNCHANGED reads /\ writes' = {}
    BY <1>7 DEF ExporterEnds, StreamInv, InTurn
  <2>3. QED
    BY <2>1, <2>2, Untouched DEF StreamInv
<1>8. CASE EngineStarts
  <2> SUFFICES ASSUME NEW c \in Conn PROVE InTurn(c)'
    BY DEF StreamInv
  <2>1. Reading(c)' = Reading(c)
    BY <1>8 DEF EngineStarts, Reading
  <2>2. Writing(c)' = Writing(c)
    BY <1>8 DEF EngineStarts, exporter, Writing, Body
  <2>3. QED
    BY <1>8, <2>1, <2>2, Untouched DEF EngineStarts, StreamInv, conns
<1>9. CASE Connect
  <2> SUFFICES ASSUME NEW c \in Conn PROVE InTurn(c)'
    BY DEF StreamInv
  <2>1. PICK d \in Free : Open(d) /\ sock' = d
    BY <1>9 DEF Connect
  <2>2. d \in Conn /\ d \notin reads /\ d \notin writes /\ UNCHANGED buffer
        /\ reads' = reads \cup {d} /\ writes' = writes \cup {d}
    BY <1>9, <2>1 DEF Free, Open, Connect
  <2>3. Reading(c)' = "length" /\ Reading(c) = "length"
    BY <1>9 DEF Connect, Reading
  <2>4. Writing(c)' = Writing(c)
    BY <1>9 DEF Connect, Writing, Body
  <2>5. CASE c = d
    <3>1. ~In(d, clients)
      BY <2>2 DEF OwnInv
    <3>2. Writing(c) = "length"
      BY <2>5, <3>1, SeqFacts, TailHolds DEF Writing, OwnInv, TypeOK
    <3>3. QED
      BY <2>2, <2>3, <2>4, <2>5, <3>2, Emptied DEF StreamInv, InTurn
  <2>6. CASE c # d
    BY <2>2, <2>3, <2>4, <2>6, Untouched DEF StreamInv
  <2>7. QED
    BY <2>5, <2>6
<1>10. CASE ConnectRefused
  <2> SUFFICES ASSUME NEW c \in Conn PROVE InTurn(c)'
    BY DEF StreamInv
  <2>1. Reading(c)' = Reading(c)
    BY <1>10 DEF ConnectRefused, Reading
  <2>2. Writing(c)' = Writing(c)
    BY <1>10 DEF ConnectRefused, exporter, Writing, Body
  <2>3. QED
    BY <1>10, <2>1, <2>2, Untouched DEF ConnectRefused, StreamInv, conns
<1>11. CASE Receive
  <2> SUFFICES ASSUME NEW c \in Conn PROVE InTurn(c)'
    BY DEF StreamInv
  <2> DEFINE b == buffer[sock]
  <2>1. sock \in Conn /\ sock \in reads /\ b # <<>> /\ b \in Seq(Unit)
    BY <1>11 DEF Receive, FrameInv, TypeOK
  <2>2. /\ Writing(c)' = Writing(c) /\ UNCHANGED <<reads, writes, sock>>
        /\ buffer' = [buffer EXCEPT ![sock] = Tail(b)]
    BY <1>11 DEF Receive, exporter, Writing, Body
  <2>3. CASE c # sock
    <3>1. Reading(c)' = Reading(c)
      BY <2>2, <2>3 DEF Reading
    <3>2. QED
      BY <2>2, <2>3, <3>1, Untouched DEF StreamInv, TypeOK
  <2>4. CASE c = sock
    <3>1. buffer'[c] = Tail(b)
      BY <2>1, <2>2, <2>4 DEF TypeOK
    <3>2. /\ Len(b) \in Nat \ {0} /\ Len(Tail(b)) = Len(b) - 1
          /\ \A i \in 1 .. Len(b) - 1 : Tail(b)[i] = b[i + 1]
          /\ Tail(b) = <<>> <=> Len(b) = 1
          /\ \A i \in 1 .. Len(b) : b[i].part \in {"length", "body"}
      <4>1. \A i \in 1 .. Len(b) : b[i] \in Unit
        BY <2>1
      <4>2. QED
        BY <2>1, <4>1, SeqFacts, TailFacts DEF Unit
    <3>3. /\ b[1].part = Reading(c) /\ \A i \in 1 .. Len(b) - 1 : b[i].part # b[i + 1].part
          /\ c \in writes => b[Len(b)].part # Writing(c)
      BY <2>1, <2>4 DEF StreamInv, InTurn, Turns
    <3>4. /\ Reading(c) = eng /\ Reading(c)' # eng /\ eng \in {"length", "body"}
          /\ Reading(c)' \in {"length", "body"} /\ Writing(c) \in {"length", "body"}
      BY <1>11, <2>2, <2>4 DEF Receive, Reading, Writing
    <3>5. CASE Len(b) = 1
      BY <2>2, <3>1, <3>2, <3>3, <3>4, <3>5, Emptied
    <3>6. CASE Len(b) # 1
      <4>1. Tail(b)[1].part = Reading(c)'
        <5>1. 1 \in 1 .. Len(b) - 1 /\ 2 \in 1 .. Len(b)
          BY <3>2, <3>6
        <5> HIDE DEF b
        <5>2. Tail(b)[1] = b[1 + 1] /\ b[1].part # b[1 + 1].part
          BY <3>2, <3>3, <5>1
        <5>3. b[2].part \in {"length", "body"}
          BY <3>2, <5>1
        <5>4. Tail(b)[1] = b[2] /\ b[1].part # b[2].part
          <6>1. 1 + 1 = 2
            OBVIOUS
          <6>2. QED
            BY <5>2, <6>1
        <5>5. QED
          BY <3>3, <3>4, <5>3, <5>4
      <4>2. \A i \in 1 .. Len(Tail(b)) - 1 : Tail(b)[i].part # Tail(b)[i + 1].part
        BY <3>2, <3>3
      <4>3. Tail(b)[Len(Tail(b))] = b[Len(b)] /\ Tail(b) # <<>>
        BY <3>2, <3>6
      <4>4. Turns(Tail(b), Reading(c)')
        BY <4>1, <4>2 DEF Turns
      <4>5. QED
        BY <2>1, <2>2, <2>4, <3>1, <3>3, <4>3, <4>4 DEF InTurn, Turns
    <3>7. QED
      BY <3>5, <3>6
  <2>5. QED
    BY <2>3, <2>4
<1>12. CASE Disconnected
  <2> SUFFICES ASSUME NEW c \in Conn PROVE InTurn(c)'
    BY DEF StreamInv
  <2>1. UNCHANGED <<buffer, writes>> /\ reads' = reads \ {sock} /\ buffer[sock] = <<>>
        /\ sock' = NoConn
    BY <1>12 DEF Disconnected
  <2>2. CASE c = sock
    BY <2>1, <2>2, Emptied
  <2>3. CASE c # sock
    <3>1. Reading(c)' = Reading(c)
      BY <2>1, <2>3, ParameterAssumption DEF Reading
    <3>2. Writing(c)' = Writing(c)
      BY <1>12 DEF Disconnected, exporter, Writing, Body
    <3>3. QED
      BY <2>1, <2>3, <3>1, <3>2, Untouched DEF StreamInv
  <2>4. QED
    BY <2>2, <2>3
<1>13. CASE Handled
  <2> SUFFICES ASSUME NEW c \in Conn PROVE InTurn(c)'
    BY DEF StreamInv
  <2>1. Reading(c)' = Reading(c)
    BY <1>13 DEF Handled, Reading
  <2>2. Writing(c)' = Writing(c)
    BY <1>13 DEF Handled, exporter, Writing, Body
  <2>3. QED
    BY <1>13, <2>1, <2>2, Untouched DEF Handled, StreamInv, conns
<1>14. CASE EngineEnds
  <2> SUFFICES ASSUME NEW c \in Conn PROVE InTurn(c)'
    BY DEF StreamInv
  <2>1. /\ writes' = writes /\ reads' = reads \ {sock} /\ sock' = NoConn
        /\ buffer' = IF sock = NoConn THEN buffer ELSE [buffer EXCEPT ![sock] = <<>>]
    BY <1>14 DEF EngineEnds
  <2>2. CASE c = sock
    <3>1. buffer'[c] = <<>>
      BY <2>1, <2>2, ParameterAssumption DEF TypeOK
    <3>2. QED
      BY <2>1, <2>2, <3>1, Emptied
  <2>3. CASE c # sock
    <3>1. Reading(c)' = Reading(c)
      BY <2>1, <2>3, ParameterAssumption DEF Reading
    <3>2. Writing(c)' = Writing(c)
      BY <1>14 DEF EngineEnds, exporter, Writing, Body
    <3>3. buffer'[c] = buffer[c]
      BY <2>1, <2>3 DEF TypeOK
    <3>4. QED
      BY <2>1, <2>3, <3>1, <3>2, <3>3, Untouched DEF StreamInv
  <2>4. QED
    BY <2>2, <2>3
<1>15. CASE StrangerConnects
  <2> SUFFICES ASSUME NEW c \in Conn PROVE InTurn(c)'
    BY DEF StreamInv
  <2>1. PICK d \in Free : Open(d)
    BY <1>15 DEF StrangerConnects
  <2>2. d \in Conn /\ d \notin reads /\ d \notin writes /\ UNCHANGED buffer
        /\ reads' = reads \cup {d} /\ writes' = writes \cup {d}
    BY <1>15, <2>1 DEF Free, Open, StrangerConnects
  <2>3. Reading(c)' = Reading(c)
    BY <1>15 DEF StrangerConnects, Reading, engine
  <2>4. Writing(c)' = Writing(c)
    BY <1>15 DEF StrangerConnects, Writing, Body
  <2>5. CASE c = d
    <3>1. ~In(d, clients)
      BY <2>2 DEF OwnInv
    <3>2. Writing(c) = "length"
      BY <2>5, <3>1, SeqFacts, TailHolds DEF Writing, OwnInv, TypeOK
    <3>3. Reading(c) = "length"
      BY <2>2, <2>5 DEF FrameInv, Reading
    <3>4. QED
      BY <2>2, <2>3, <2>4, <2>5, <3>2, <3>3, Emptied DEF StreamInv, InTurn
  <2>6. CASE c # d
    BY <2>2, <2>3, <2>4, <2>6, Untouched DEF StreamInv
  <2>7. QED
    BY <2>5, <2>6
<1>16. CASE StrangerLeaves
  <2> SUFFICES ASSUME NEW c \in Conn PROVE InTurn(c)'
    BY DEF StreamInv
  <2>1. PICK d \in reads \ {sock} : /\ reads' = reads \ {d}
                                    /\ buffer' = [buffer EXCEPT ![d] = <<>>]
    BY <1>16 DEF StrangerLeaves
  <2>2. UNCHANGED writes /\ Reading(c)' = Reading(c)
    BY <1>16 DEF StrangerLeaves, Reading, engine
  <2>3. Writing(c)' = Writing(c)
    BY <1>16 DEF StrangerLeaves, exporter, Writing, Body
  <2>4. CASE c = d
    BY <2>1, <2>4, Emptied DEF TypeOK
  <2>5. CASE c # d
    <3>1. buffer'[c] = buffer[c]
      BY <2>1, <2>5 DEF TypeOK
    <3>2. QED
      BY <2>1, <2>2, <2>3, <2>5, <3>1, Untouched DEF StreamInv
  <2>6. QED
    BY <2>4, <2>5
<1>17. CASE UNCHANGED vars
  BY <1>17 DEF vars, exporter, conns, engine, StreamInv, InTurn, Turns, Reading, Writing, Body
<1>18. QED
  BY <1>1, <1>2, <1>3, <1>4, <1>5, <1>6, <1>7, <1>8, <1>9, <1>10, <1>11, <1>12, <1>13, <1>14, <1>15, <1>16, <1>17 DEF Next

-----------------------------------------------------------------------------
Inv == TypeOK /\ OwnInv /\ FrameInv /\ StreamInv

LEMMA InitInv == Init => Inv
<1> SUFFICES ASSUME Init PROVE Inv
  OBVIOUS
<1>1. TypeOK
  <2>1. batch = 0 /\ got = 0 /\ 0 \in 0 .. MaxBatch /\ 0 <= Cap
    BY ParameterAssumption DEF Init
  <2>2. buffer \in [Conn -> Seq(Unit)] /\ \A c \in Conn : Len(buffer[c]) <= Cap
    BY <2>1, SeqFacts DEF Init
  <2>3. clients \in Seq(Conn) /\ live \in Seq(Conn) /\ frame \in Seq(Unit)
    BY SeqFacts DEF Init
  <2>4. QED
    BY <2>1, <2>2, <2>3 DEF Init, TypeOK
<1>2. OwnInv
  BY EmptyHolds DEF Init, OwnInv
<1>3. FrameInv
  BY DEF Init, FrameInv
<1>4. StreamInv
  BY DEF Init, StreamInv, InTurn, Turns
<1>5. QED
  BY <1>1, <1>2, <1>3, <1>4 DEF Inv

LEMMA NextInv == Inv /\ [Next]_vars => Inv'
<1> SUFFICES ASSUME Inv, [Next]_vars PROVE Inv'
  OBVIOUS
<1>1. TypeOK' /\ OwnInv' /\ FrameInv'
  BY TypeStep, OwnStep, FrameStep DEF Inv
<1>2. StreamInv'
  BY <1>1, StreamStep DEF Inv
<1>3. QED
  BY <1>1, <1>2 DEF Inv

LEMMA Invariance == Spec => []Inv
  BY InitInv, NextInv, PTL DEF Spec

(* For any connections, buffers and batches, whatever was refused, cut off *)
(* or killed: the engine reads a length where a length was written and a   *)
(* body where a body was.                                                  *)
THEOREM NothingMisread == Spec => []NeverMisframed
<1>1. Inv => NeverMisframed
  <2> SUFFICES ASSUME Inv PROVE NeverMisframed
    OBVIOUS
  <2>1. TypeOK
    BY DEF Inv
  <2>2. CASE eng \in {"length", "body"} /\ buffer[sock] # <<>>
    <3>1. sock \in Conn
      BY <2>2 DEF Inv, FrameInv, TypeOK
    <3>2. Turns(buffer[sock], eng)
      BY <2>2, <3>1 DEF Inv, StreamInv, InTurn, Reading
    <3>3. Head(buffer[sock]) = buffer[sock][1]
      BY <2>1, <2>2, <3>1 DEF TypeOK
    <3>4. QED
      BY <2>1, <2>2, <3>2, <3>3 DEF NeverMisframed, Turns
  <2>3. QED
    BY <2>1, <2>2 DEF NeverMisframed
<1>2. QED
  BY <1>1, Invariance, PTL

(* And no stream the exporter can write to is lost or served twice in a    *)
(* tick, whichever clients fail while it writes.                           *)
THEOREM StreamsOwnedOnce == Spec => []EveryStreamOwnedOnce
<1>1. Inv => EveryStreamOwnedOnce
  <2> SUFFICES ASSUME Inv PROVE EveryStreamOwnedOnce
    OBVIOUS
  <2> DEFINE held == clients \o live
  <2>1. /\ Len(clients) \in Nat /\ Len(live) \in Nat /\ DOMAIN held = 1 .. Len(clients) + Len(live)
        /\ \A i \in 1 .. Len(clients) : held[i] = clients[i] /\ clients[i] \in Conn
        /\ \A i \in 1 .. Len(live) : live[i] \in Conn
        /\ \A i \in Len(clients) + 1 .. Len(clients) + Len(live) :
              held[i] = live[i - Len(clients)] /\ i - Len(clients) \in 1 .. Len(live)
        /\ \A i \in 1 .. Len(live) : held[Len(clients) + i] = live[i]
    BY DEF Inv, TypeOK
  <2>2. ASSUME NEW i \in DOMAIN held
        PROVE  \/ i \in 1 .. Len(clients) /\ held[i] = clients[i]
               \/ /\ i - Len(clients) \in 1 .. Len(live)
                  /\ held[i] = live[i - Len(clients)]
    BY <2>1
  <2>3. ASSUME NEW i \in DOMAIN held PROVE held[i] \in Conn
    BY <2>1, <2>2
  <2>4. ASSUME NEW c \in Conn
        PROVE  (\E i \in DOMAIN held : held[i] = c) <=> In(c, clients) \/ In(c, live)
    <3>1. ASSUME In(c, clients) PROVE \E i \in DOMAIN held : held[i] = c
      BY <2>1, <3>1 DEF In
    <3>2. ASSUME In(c, live) PROVE \E i \in DOMAIN held : held[i] = c
      <4>1. PICK i \in 1 .. Len(live) : live[i] = c
        BY <3>2 DEF In
      <4>2. Len(clients) + i \in DOMAIN held /\ held[Len(clients) + i] = c
        BY <2>1, <4>1
      <4>3. QED
        BY <4>2
    <3>3. ASSUME NEW i \in DOMAIN held, held[i] = c PROVE In(c, clients) \/ In(c, live)
      BY <2>2, <3>3 DEF In
    <3>4. QED
      BY <3>1, <3>2, <3>3
  <2>5. ASSUME NEW i \in DOMAIN held, NEW j \in DOMAIN held, held[i] = held[j] PROVE i = j
    <3> DEFINE n == Len(clients)
    <3>1. CASE i \in 1 .. n /\ j \in 1 .. n
      BY <2>1, <2>5, <3>1 DEF Inv, OwnInv, Once
    <3>2. CASE i \notin 1 .. n /\ j \notin 1 .. n
      <4>1. i - n \in 1 .. Len(live) /\ j - n \in 1 .. Len(live)
            /\ live[i - n] = live[j - n]
        BY <2>2, <2>5, <3>2
      <4>2. i - n = j - n
        BY <4>1 DEF Inv, OwnInv, Once
      <4>3. QED
        BY <2>1, <4>2
    <3>3. CASE i \in 1 .. n /\ j \notin 1 .. n
      <4>1. In(held[i], clients)
        BY <2>1, <3>3 DEF In
      <4>2. In(held[j], live)
        BY <2>2, <3>3 DEF In
      <4>3. QED
        BY <2>3, <2>5, <4>1, <4>2 DEF Inv, OwnInv
    <3>4. CASE i \notin 1 .. n /\ j \in 1 .. n
      <4>1. In(held[j], clients)
        BY <2>1, <3>4 DEF In
      <4>2. In(held[i], live)
        BY <2>2, <3>4 DEF In
      <4>3. QED
        BY <2>3, <2>5, <4>1, <4>2 DEF Inv, OwnInv
    <3>5. QED
      BY <3>1, <3>2, <3>3, <3>4
  <2>6. ToSet(held) = {held[i] : i \in DOMAIN held}
    BY DEF ToSet
  <2>7. \A c \in Conn : c \in ToSet(held) <=> In(c, clients) \/ In(c, live)
    BY <2>4, <2>6
  <2>8. ToSet(held) \subseteq Conn
    BY <2>3, <2>6
  <2>9. writes = backlog \cup ToSet(held) /\ backlog \cap ToSet(held) = {}
    <3>1. writes \subseteq Conn /\ backlog \subseteq Conn
      BY DEF Inv, TypeOK
    <3>2. \A c \in Conn : c \in writes <=> c \in backlog \/ c \in ToSet(held)
      BY <2>7 DEF Inv, OwnInv
    <3>3. \A c \in Conn : ~(c \in backlog /\ c \in ToSet(held))
      BY <2>7 DEF Inv, OwnInv
    <3>4. QED
      BY <2>8, <3>1, <3>2, <3>3
  <2>10. QED
    BY <2>5, <2>9 DEF EveryStreamOwnedOnce
<1>2. QED
  BY <1>1, Invariance, PTL

-----------------------------------------------------------------------------
(* Why batches come in order: on their way to a reader they follow each    *)
(* other and what it handled last, and the batch of a tick is later than   *)
(* all that went, or is, to a client this tick has still to write to.      *)
Bodies(s)   == {i \in 1 .. Len(s) : s[i].part = "body"}
Later(a, b) == b > a \/ b = MaxBatch
Due(c)      == expo = "write" /\ In(c, clients)

Ordered(c) ==
    /\ \A i \in Bodies(buffer[c]) : buffer[c][i].batch <= batch
    /\ \A i, j \in Bodies(buffer[c]) : i < j => Later(buffer[c][i].batch, buffer[c][j].batch)
    /\ sock = c => \A i \in Bodies(buffer[c]) : Later(got, buffer[c][i].batch)
    /\ Due(c) => /\ \A i \in Bodies(buffer[c]) : Later(buffer[c][i].batch, batch)
                 /\ sock = c => Later(got, batch)

OrderInv ==
    /\ got <= batch
    /\ eng \in {"down", "connect", "failed"} => sock = NoConn
    /\ \A c \in Conn : Ordered(c)

(* A connection no step reads or writes; one that is emptied.              *)
LEMMA OrderKept ==
    ASSUME NEW c \in Conn, Ordered(c), buffer'[c] = buffer[c], batch' = batch,
           Due(c)' => Due(c), sock' = c => sock = c /\ got' = got
    PROVE  Ordered(c)'
BY DEF Ordered, Later, Bodies

LEMMA OrderEmptied ==
    ASSUME NEW c \in Conn, buffer'[c] = <<>>, Due(c)' => sock' # c
    PROVE  Ordered(c)'
<1>1. Bodies(buffer'[c]) = {}
  BY DEF Bodies
<1>2. QED
  BY <1>1 DEF Ordered

(* A reader that has taken a body: what follows is later than that body.   *)
LEMMA OrderTaken ==
    ASSUME TypeOK, NEW c \in Conn, Ordered(c), sock = c, buffer[c] # <<>>,
           buffer'[c] = Tail(buffer[c]), UNCHANGED <<batch, clients, expo>>,
           got' = got \/ (1 \in Bodies(buffer[c]) /\ got' = buffer[c][1].batch)
    PROVE  Ordered(c)' /\ (got <= batch => got' <= batch')
<1> DEFINE b == buffer[c]  t == buffer'[c]
<1>1. /\ b \in Seq(Unit) /\ Len(b) \in Nat \ {0} /\ Len(t) = Len(b) - 1
      /\ \A i \in 1 .. Len(b) - 1 : t[i] = b[i + 1]
  BY SeqFacts, TailFacts DEF TypeOK
<1>2. ASSUME NEW i \in Bodies(t)
      PROVE  i \in Nat \ {0} /\ i + 1 \in Bodies(b) /\ t[i] = b[i + 1]
  BY <1>1 DEF Bodies
<1>3. Due(c)' <=> Due(c)
  BY DEF Due
<1>4. \A i \in Bodies(t) : t[i].batch <= batch'
  BY <1>2 DEF Ordered
<1>5. \A i, j \in Bodies(t) : i < j => Later(t[i].batch, t[j].batch)
  <2> SUFFICES ASSUME NEW i \in Bodies(t), NEW j \in Bodies(t), i < j
               PROVE  Later(t[i].batch, t[j].batch)
    OBVIOUS
  <2>1. i + 1 < j + 1 /\ i + 1 \in Bodies(b) /\ j + 1 \in Bodies(b)
    BY <1>2
  <2>2. QED
    BY <1>2, <2>1 DEF Ordered
<1>6. \A i \in Bodies(t) : Later(got', t[i].batch)
  <2> SUFFICES ASSUME NEW i \in Bodies(t) PROVE Later(got', t[i].batch)
    OBVIOUS
  <2>1. CASE got' = got
    BY <1>2, <2>1 DEF Ordered
  <2>2. CASE 1 \in Bodies(b) /\ got' = b[1].batch
    <3>1. 1 < i + 1 /\ i + 1 \in Bodies(b)
      BY <1>2
    <3>2. Later(b[1].batch, b[i + 1].batch)
      BY <2>2, <3>1 DEF Ordered
    <3>3. QED
      BY <1>2, <2>2, <3>2
  <2>3. QED
    BY <2>1, <2>2
<1>7. ASSUME Due(c) PROVE (\A i \in Bodies(t) : Later(t[i].batch, batch)) /\ Later(got', batch)
  BY <1>2, <1>7 DEF Ordered
<1>8. Ordered(c)'
  <2>1. Ordered(c)' <=>
          /\ \A i \in Bodies(t) : t[i].batch <= batch'
          /\ \A i, j \in Bodies(t) : i < j => Later(t[i].batch, t[j].batch)
          /\ sock' = c => \A i \in Bodies(t) : Later(got', t[i].batch)
          /\ Due(c)' => /\ \A i \in Bodies(t) : Later(t[i].batch, batch')
                        /\ sock' = c => Later(got', batch')
    BY DEF Ordered, Later, Bodies
  <2>2. QED
    BY <1>3, <1>4, <1>5, <1>6, <1>7, <2>1
<1>9. QED
  BY <1>8 DEF Ordered

(* A unit of this tick's frame written to a client it was due to.          *)
LEMMA OrderWritten ==
    ASSUME TypeOK, NEW c \in Conn, Ordered(c), Due(c), NEW u \in Unit, u.batch = batch,
           buffer'[c] = Append(buffer[c], u), UNCHANGED <<batch, sock, got>>,
           u.part = "body" => ~Due(c)'
    PROVE  Ordered(c)'
<1> DEFINE b == buffer[c]  t == buffer'[c]
<1>1. /\ b \in Seq(Unit) /\ Len(b) \in Nat /\ Len(t) = Len(b) + 1 /\ t[Len(t)] = u
      /\ \A i \in 1 .. Len(b) : t[i] = b[i]
  BY SeqFacts, AppendFacts DEF TypeOK
<1>2. ASSUME NEW i \in Bodies(t)
      PROVE  \/ i \in Bodies(b) /\ t[i] = b[i] /\ i < Len(t)
             \/ i = Len(t) /\ t[i] = u /\ u.part = "body"
  BY <1>1 DEF Bodies
<1>3. batch \in Nat /\ got \in Nat
  BY ParameterAssumption DEF TypeOK
<1>4. ASSUME NEW i \in Bodies(t) PROVE t[i].batch <= batch
  <2>1. CASE t[i] = u
    BY <1>3, <2>1
  <2>2. CASE i \in Bodies(b) /\ t[i] = b[i]
    BY <2>2 DEF Ordered
  <2>3. QED
    BY <1>2, <2>1, <2>2
<1>5. \A i, j \in Bodies(t) : i < j => Later(t[i].batch, t[j].batch)
  <2> SUFFICES ASSUME NEW i \in Bodies(t), NEW j \in Bodies(t), i < j
               PROVE  Later(t[i].batch, t[j].batch)
    OBVIOUS
  <2>1. i \in 1 .. Len(t) /\ j \in 1 .. Len(t) /\ i # Len(t)
    BY <1>1 DEF Bodies
  <2>2. i \in Bodies(b) /\ t[i] = b[i]
    BY <1>2, <2>1
  <2>3. CASE j \in Bodies(b) /\ t[j] = b[j]
    BY <2>2, <2>3 DEF Ordered
  <2>4. CASE t[j] = u
    BY <2>2, <2>4 DEF Ordered
  <2>5. QED
    BY <1>2, <2>3, <2>4
<1>6. ASSUME sock = c, NEW i \in Bodies(t) PROVE Later(got, t[i].batch)
  BY <1>2, <1>6 DEF Ordered
<1>7. ASSUME Due(c)' PROVE /\ \A i \in Bodies(t) : Later(t[i].batch, batch)
                           /\ sock = c => Later(got, batch)
  BY <1>2, <1>7 DEF Ordered
<1>8. QED
  BY <1>4, <1>5, <1>6, <1>7 DEF Ordered, Later, Bodies

LEMMA OrderStep == ASSUME Inv, OrderInv, [Next]_vars PROVE OrderInv'
<1> USE DEF Inv
<1>1. CASE Bind
  <2> SUFFICES ASSUME NEW c \in Conn PROVE Ordered(c)'
    BY <1>1 DEF Bind, engine, OrderInv
  <2>1. QED
    BY <1>1, OrderKept DEF Bind, conns, engine, OrderInv, Due
<1>2. CASE Accept
  <2> SUFFICES ASSUME NEW c \in Conn PROVE Ordered(c)'
    BY <1>2 DEF Accept, engine, OrderInv
  <2>1. QED
    BY <1>2, OrderKept DEF Accept, conns, engine, OrderInv, Due
<1>3. CASE Publish
  <2>1. batch' \in Nat /\ batch <= batch' /\ UNCHANGED <<buffer, sock, got, eng>>
        /\ \A b \in 0 .. MaxBatch : b <= batch => Later(b, batch')
    BY <1>3, ParameterAssumption DEF Publish, TypeOK, conns, engine, Later
  <2>2. got <= batch /\ got \in 0 .. MaxBatch /\ batch \in Nat
    BY ParameterAssumption DEF OrderInv, TypeOK
  <2>3. ASSUME NEW c \in Conn PROVE Ordered(c)'
    <3>1. ASSUME NEW i \in Bodies(buffer[c])
          PROVE  buffer[c][i].batch <= batch /\ buffer[c][i].batch \in 0 .. MaxBatch
      <4>1. buffer[c][i].batch <= batch
        BY DEF OrderInv, Ordered
      <4>2. buffer[c][i] \in Unit
        BY DEF Bodies, TypeOK
      <4>3. QED
        BY <4>1, <4>2 DEF Unit
    <3>2. \A i \in Bodies(buffer[c]) :
            buffer[c][i].batch <= batch' /\ Later(buffer[c][i].batch, batch')
      BY <2>1, <2>2, <3>1, ParameterAssumption
    <3>3. Later(got, batch')
      BY <2>1, <2>2
    <3>4. Ordered(c)
      BY DEF OrderInv
    <3>5. QED
      BY <2>1, <3>2, <3>3, <3>4 DEF Ordered, Later, Bodies
  <2>4. got' <= batch'
    BY <2>1, <2>2
  <2>5. QED
    BY <2>1, <2>3, <2>4 DEF OrderInv
<1>4. CASE Write
  <2> SUFFICES ASSUME NEW c \in Conn PROVE Ordered(c)'
    BY <1>4 DEF Write, engine, OrderInv
  <2> DEFINE h == Head(clients)  u == Head(frame)
  <2>1. /\ h \in Conn /\ In(h, clients)
        /\ \A d \in Conn : In(d, Tail(clients)) => In(d, clients) /\ d # h
    BY <1>4, SeqFacts, TailHolds DEF Write, OwnInv, TypeOK
  <2>2. /\ u.batch = batch /\ u \in Unit /\ Len(frame) \in {1, 2}
        /\ u.part = "body" => Len(frame) = 1
    <3>1. batch \in 0 .. MaxBatch /\ frame \in {Frame(batch), Body}
      BY <1>4 DEF Write, FrameInv, TypeOK
    <3>2. CASE frame = Frame(batch)
      <4>1. u = [part |-> "length", batch |-> batch] /\ Len(frame) = 2
        BY <3>1, <3>2, FrameTypes
      <4>2. QED
        BY <3>1, <4>1 DEF Unit
    <3>3. CASE frame = Body
      BY <3>1, <3>3, FrameTypes DEF Unit, Body
    <3>4. QED
      BY <3>1, <3>2, <3>3
  <2>3. /\ buffer' = [buffer EXCEPT ![h] = Append(@, u)] /\ UNCHANGED <<batch, sock, got, expo>>
        /\ clients' = clients \/ clients' = Tail(clients)
        /\ Len(frame) = 1 => clients' = Tail(clients)
    <3>1. buffer' = [buffer EXCEPT ![h] = Append(@, u)] /\ UNCHANGED <<batch, sock, got, expo>>
      BY <1>4 DEF Write, engine
    <3>2. CASE Len(frame) > 1 /\ UNCHANGED clients
      <4>1. Len(frame) # 1
        <5>1. Len(frame) > 1
          BY <3>2
        <5>2. Len(frame) \in {1, 2}
          BY <2>2
        <5>3. QED
          BY <5>1, <5>2
      <4>2. QED
        BY <3>1, <3>2, <4>1
    <3>3. CASE clients' = Tail(clients)
      BY <3>1, <3>3
    <3>4. QED
      BY <1>4, <3>2, <3>3 DEF Write
  <2>4. CASE c = h
    <3>1. buffer'[c] = Append(buffer[c], u) /\ Ordered(c)
      BY <2>3, <2>4 DEF TypeOK, OrderInv
    <3>2. Due(c) /\ (u.part = "body" => ~Due(c)')
      BY <1>4, <2>1, <2>2, <2>3, <2>4 DEF Due, Write
    <3>3. QED
      BY <2>2, <2>3, <3>1, <3>2, OrderWritten
  <2>5. CASE c # h
    BY <2>1, <2>3, <2>5, OrderKept DEF OrderInv, Due, TypeOK
  <2>6. QED
    BY <2>4, <2>5
<1>5. CASE WriteFails
  <2> SUFFICES ASSUME NEW c \in Conn PROVE Ordered(c)'
    BY <1>5 DEF WriteFails, engine, OrderInv
  <2> DEFINE h == Head(clients)
  <2>1. /\ h \in Conn
        /\ \A d \in Conn : In(d, Tail(clients)) => In(d, clients) /\ d # h
    BY <1>5, SeqFacts, TailHolds DEF WriteFails, OwnInv, TypeOK
  <2>2. /\ buffer' = [buffer EXCEPT ![h] = <<>>] /\ UNCHANGED <<batch, sock, got, expo>>
        /\ clients' = Tail(clients)
    BY <1>5 DEF WriteFails, engine
  <2>3. CASE c = h
    BY <2>1, <2>2, <2>3, OrderEmptied DEF Due, TypeOK
  <2>4. CASE c # h
    BY <2>1, <2>2, <2>4, OrderKept DEF OrderInv, Due, TypeOK
  <2>5. QED
    BY <2>3, <2>4
<1>6. CASE Published
  <2> SUFFICES ASSUME NEW c \in Conn PROVE Ordered(c)'
    BY <1>6 DEF Published, engine, OrderInv
  <2>1. QED
    BY <1>6, OrderKept DEF Published, conns, engine, OrderInv, Due
<1>7. CASE ExporterEnds
  <2> SUFFICES ASSUME NEW c \in Conn PROVE Ordered(c)'
    BY <1>7 DEF ExporterEnds, engine, OrderInv
  <2>1. ~Due(c)' /\ UNCHANGED <<batch, sock, got>> /\ buffer'[c] \in {buffer[c], <<>>}
    BY <1>7 DEF ExporterEnds, engine, Due
  <2>2. QED
    BY <2>1, OrderKept, OrderEmptied DEF OrderInv
<1>8. CASE EngineStarts
  <2>1. sock = NoConn /\ sock' = NoConn /\ got' <= batch' /\ eng' = "connect"
    BY <1>8, ParameterAssumption DEF EngineStarts, exporter, OrderInv, TypeOK
  <2>2. ASSUME NEW c \in Conn PROVE Ordered(c)'
    BY <1>8, <2>1, OrderKept, ParameterAssumption DEF EngineStarts, exporter, conns, OrderInv, Due
  <2>3. QED
    BY <2>1, <2>2 DEF OrderInv
<1>9. CASE Connect
  <2> SUFFICES ASSUME NEW c \in Conn PROVE Ordered(c)'
    BY <1>9 DEF Connect, OrderInv
  <2>1. PICK d \in Free : Open(d) /\ sock' = d
    BY <1>9 DEF Connect
  <2>2. d \in Conn /\ d \notin reads /\ d \notin writes
    BY <2>1 DEF Free
  <2>3. buffer[d] = <<>> /\ ~In(d, clients)
    BY <2>2 DEF StreamInv, InTurn, OwnInv
  <2>4. CASE c = d
    BY <1>9, <2>2, <2>3, <2>4, OrderEmptied DEF Connect, Due
  <2>5. CASE c # d
    BY <1>9, <2>1, <2>5, OrderKept DEF Connect, Due, OrderInv
  <2>6. QED
    BY <2>4, <2>5
<1>10. CASE ConnectRefused
  <2> SUFFICES ASSUME NEW c \in Conn PROVE Ordered(c)'
    BY <1>10 DEF ConnectRefused, exporter, OrderInv
  <2>1. QED
    BY <1>10, OrderKept DEF ConnectRefused, exporter, conns, OrderInv, Due
<1>11. CASE Receive
  <2>1. sock \in Conn /\ buffer[sock] # <<>> /\ sock' = sock /\ eng' \in {"body", "handle"}
        /\ buffer' = [buffer EXCEPT ![sock] = Tail(@)] /\ UNCHANGED <<expo, clients, batch>>
    BY <1>11 DEF Receive, FrameInv, TypeOK, exporter
  <2>2. got' = got \/ (1 \in Bodies(buffer[sock]) /\ got' = buffer[sock][1].batch)
    <3>1. CASE eng = "length"
      BY <1>11, <3>1 DEF Receive
    <3>2. CASE eng = "body"
      <4>1. Head(buffer[sock]) = buffer[sock][1] /\ Len(buffer[sock]) \in Nat \ {0}
        BY <2>1, SeqFacts DEF TypeOK
      <4>2. buffer[sock][1].part = "body"
        BY <2>1, <3>2 DEF StreamInv, InTurn, Turns, Reading
      <4>3. QED
        BY <1>11, <3>2, <4>1, <4>2 DEF Receive, Bodies
    <3>3. QED
      BY <1>11, <3>1, <3>2 DEF Receive
  <2>3. buffer'[sock] = Tail(buffer[sock])
    BY <2>1 DEF TypeOK
  <2>4. Ordered(sock)' /\ got' <= batch'
    <3>1. Ordered(sock) /\ got <= batch
      BY <2>1 DEF OrderInv
    <3>2. \A c \in Conn : c = sock => Ordered(c)' /\ got' <= batch'
      BY <2>1, <2>2, <2>3, <3>1, OrderTaken
    <3>3. PICK c \in Conn : c = sock
      BY <2>1
    <3>4. Ordered(c)' <=> Ordered(sock)'
      BY <2>1, <3>3 DEF Ordered, Due
    <3>5. QED
      BY <3>2, <3>3, <3>4
  <2>5. ASSUME NEW c \in Conn, c # sock PROVE Ordered(c)'
    BY <2>1, <2>5, OrderKept DEF OrderInv, Due, TypeOK
  <2>6. ASSUME NEW c \in Conn, c = sock PROVE Ordered(c)'
    BY <2>1, <2>4, <2>6 DEF Ordered, Due
  <2>7. QED
    BY <2>1, <2>4, <2>5, <2>6 DEF OrderInv
<1>12. CASE Disconnected
  <2> SUFFICES ASSUME NEW c \in Conn PROVE Ordered(c)'
    BY <1>12 DEF Disconnected, exporter, OrderInv
  <2>1. QED
    BY <1>12, OrderKept, ParameterAssumption DEF Disconnected, exporter, OrderInv, Due
<1>13. CASE Handled
  <2> SUFFICES ASSUME NEW c \in Conn PROVE Ordered(c)'
    BY <1>13 DEF Handled, exporter, OrderInv
  <2>1. QED
    BY <1>13, OrderKept DEF Handled, exporter, conns, OrderInv, Due
<1>14. CASE EngineEnds
  <2> SUFFICES ASSUME NEW c \in Conn PROVE Ordered(c)'
    BY <1>14 DEF EngineEnds, exporter, OrderInv
  <2>1. buffer'[c] \in {buffer[c], <<>>} /\ sock' # c
    BY <1>14, ParameterAssumption DEF EngineEnds, TypeOK
  <2>2. QED
    BY <1>14, <2>1, OrderKept, OrderEmptied DEF EngineEnds, exporter, OrderInv, Due
<1>15. CASE StrangerConnects
  <2> SUFFICES ASSUME NEW c \in Conn PROVE Ordered(c)'
    BY <1>15 DEF StrangerConnects, engine, OrderInv
  <2>1. QED
    BY <1>15, OrderKept DEF StrangerConnects, engine, OrderInv, Due
<1>16. CASE StrangerLeaves
  <2> SUFFICES ASSUME NEW c \in Conn PROVE Ordered(c)'
    BY <1>16 DEF StrangerLeaves, engine, exporter, OrderInv
  <2>1. PICK d \in reads \ {sock} : buffer' = [buffer EXCEPT ![d] = <<>>]
    BY <1>16 DEF StrangerLeaves
  <2>2. CASE c = d
    BY <1>16, <2>1, <2>2, OrderEmptied DEF StrangerLeaves, engine, TypeOK
  <2>3. CASE c # d
    BY <1>16, <2>1, <2>3, OrderKept DEF StrangerLeaves, engine, exporter, OrderInv, Due, TypeOK
  <2>4. QED
    BY <2>2, <2>3
<1>17. CASE UNCHANGED vars
  <2> SUFFICES ASSUME NEW c \in Conn PROVE Ordered(c)'
    BY <1>17 DEF vars, engine, exporter, OrderInv
  <2>1. QED
    BY <1>17, OrderKept DEF vars, conns, engine, exporter, OrderInv, Due
<1>18. QED
  BY <1>1, <1>2, <1>3, <1>4, <1>5, <1>6, <1>7, <1>8, <1>9, <1>10, <1>11, <1>12, <1>13, <1>14, <1>15, <1>16, <1>17 DEF Next

(* For any connections and buffers: an engine handles every batch later    *)
(* than the one before it, whatever either side's ends cut off and over    *)
(* all its reconnections.                                                  *)
THEOREM BatchesStayInOrder == Spec => BatchesInOrder
<1>1. Init => OrderInv
  BY ParameterAssumption DEF Init, OrderInv, Ordered, Bodies, Due
<1>2. Inv /\ OrderInv /\ [Next]_vars => (eng' = "handle" /\ eng # "handle" /\ got < MaxBatch => got' > got)
  <2> SUFFICES ASSUME Inv, OrderInv, [Next]_vars, eng' = "handle", eng # "handle", got < MaxBatch
               PROVE  got' > got
    OBVIOUS
  <2>1. Receive /\ eng = "body"
    BY DEF Next, vars, engine, Bind, Accept, Publish, Write, WriteFails, Published, ExporterEnds,
           EngineStarts, Connect, ConnectRefused, Receive, Disconnected, Handled, EngineEnds,
           StrangerConnects, StrangerLeaves
  <2>2. sock \in Conn /\ buffer[sock] # <<>>
    BY <2>1 DEF Receive, Inv, FrameInv, TypeOK
  <2>3. Head(buffer[sock]) = buffer[sock][1] /\ Len(buffer[sock]) \in Nat \ {0}
    BY <2>2, SeqFacts DEF Inv, TypeOK
  <2>4. buffer[sock][1].part = "body"
    BY <2>1, <2>2 DEF Inv, StreamInv, InTurn, Turns, Reading
  <2>5. 1 \in Bodies(buffer[sock]) /\ got' = buffer[sock][1].batch
    BY <2>1, <2>3, <2>4 DEF Receive, Bodies
  <2>6. Later(got, got')
    BY <2>2, <2>5 DEF OrderInv, Ordered
  <2>7. QED
    BY <2>6, ParameterAssumption DEF Later, Inv, TypeOK
<1>3. QED
  BY <1>1, <1>2, Invariance, OrderStep, PTL DEF Spec, BatchesInOrder

=============================================================================
