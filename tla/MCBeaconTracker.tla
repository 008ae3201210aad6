-------------------------- MODULE MCBeaconTracker --------------------------
(* Instances of BeaconTracker for TLC: an implant that calls alone, late   *)
(* or on a web port, and one that calls beside three sources which wake in *)
(* the same ticks, on one host or spread over two.                         *)
EXTENDS BeaconIncidents

Callers == {"s1", "s2", "s3", "c2"}

Lone == [hostOf |-> [p \in Callers |-> "h"], wakes |-> {{"c2"}},
         web |-> {}, bulk |-> TRUE, lags |-> {0, 1}, end |-> 18, mortal |-> FALSE]
Browsing == [Lone EXCEPT !.web = {"c2"}, !.lags = {0}, !.end = 20]
Swarm == [hostOf |-> [p \in Callers |-> "h"], wakes |-> {{"s1", "s2", "s3"}, {"c2"}},
          web |-> {}, bulk |-> FALSE, lags |-> {0}, end |-> 17, mortal |-> FALSE]
Spread == [Swarm EXCEPT !.hostOf = [p \in Callers |-> IF p \in {"s1", "s2"} THEN "h" ELSE "i"]]
Mortal == [Lone EXCEPT !.bulk = FALSE, !.lags = {0}, !.end = 21, !.mortal = TRUE]

Networks == {Lone, Browsing, Swarm, Spread, Mortal}
=============================================================================
