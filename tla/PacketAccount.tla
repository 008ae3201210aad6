--------------------------- MODULE PacketAccount ---------------------------
(***************************************************************************)
(* What the flow window promises (unipe_ai/features/window.py), with no    *)
(* kernel map, no clock, no totals and no eviction: an account of every    *)
(* flow's packets.  A packet is pending until a batch settles it; a batch  *)
(* settles everything pending, and hands all of it to the detectors        *)
(* unless the flow was started over under a total the engine remembers.    *)
(* FlowWindow implements it.                                               *)
(***************************************************************************)
EXTENDS Integers

CONSTANT Flow

VARIABLES
    pending,  \* packets of each flow that no batch has shown
    scored,   \* packets of each flow handed to the detectors
    missed,   \* packets of each flow that never will be
    known,    \* flows that were shown in their present life
    reborn,   \* flows that may be taken for their earlier life
    out       \* what the last batch handed over

account == <<pending, scored, missed, known, reborn, out>>

Present(k) == k \in known \/ pending[k] > 0

AccountInit ==
    /\ pending = [k \in Flow |-> 0] /\ scored = [k \in Flow |-> 0]
    /\ missed = [k \in Flow |-> 0]
    /\ known = {} /\ reborn = {} /\ out = <<>>

Arrive(k) ==
    /\ pending' = [pending EXCEPT ![k] = @ + 1]
    /\ UNCHANGED <<scored, missed, known, reborn, out>>

(* A flow's life ends: what was pending is lost, and its next life is at   *)
(* risk if the engine knew this one.                                       *)
Lose(k) ==
    /\ Present(k)
    /\ pending' = [pending EXCEPT ![k] = 0]
    /\ missed' = [missed EXCEPT ![k] = @ + pending[k]]
    /\ known' = known \ {k}
    /\ reborn' = reborn \cup ({k} \cap known)
    /\ UNCHANGED <<scored, out>>

(* One batch.  A flow is handed over only if it had packets pending, and   *)
(* called new only if it was not known and none of its packets is missing. *)
Batch ==
    LET handed(k) == scored'[k] - scored[k]
    IN  /\ scored' \in [Flow -> Nat]
        /\ \A k \in Flow :
             /\ handed(k) \in 0 .. pending[k]
             /\ k \notin reborn => handed(k) = pending[k]
        /\ missed' = [k \in Flow |-> missed[k] + pending[k] - handed(k)]
        /\ out' = [k \in {f \in Flow : handed(f) > 0} |->
                     [packets |-> handed(k),
                      isNew |-> k \notin known /\ handed(k) = pending[k]]]
        /\ pending' = [k \in Flow |-> 0]
        /\ known' = {k \in Flow : Present(k)}
        /\ reborn' \subseteq reborn \ known'

(* The account is lost; of what a flow still in the map ever sent, an      *)
(* unknown part is pending again, at least what was pending before.        *)
StartOver ==
    /\ pending' \in [Flow -> Nat]
    /\ \A k \in Flow :
         IF Present(k)
         THEN pending'[k] \in pending[k] .. (pending[k] + scored[k] + missed[k])
         ELSE pending'[k] = 0
    /\ scored' = [k \in Flow |-> 0] /\ missed' = [k \in Flow |-> 0]
    /\ known' = {} /\ reborn' = {} /\ out' = <<>>

AccountNext ==
    \/ \E k \in Flow : Arrive(k) \/ Lose(k)
    \/ Batch
    \/ StartOver

AccountSpec == AccountInit /\ [][AccountNext]_account

=============================================================================
