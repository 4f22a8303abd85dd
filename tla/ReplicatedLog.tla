--------------------------- MODULE ReplicatedLog ---------------------------
(***************************************************************************)
(* What replication promises, without connections, offsets or threads: the *)
(* master's writes are numbered 1 .. written, and a replica starts from a  *)
(* snapshot of the first of them.  It takes the later ones one by one, in  *)
(* order and each once, and all of them in the end, unless its connection  *)
(* is lost.                                                                *)
(*                                                                         *)
(* Module Replication implements this specification.                       *)
(***************************************************************************)
EXTENDS Naturals, Sequences

CONSTANTS Replicas

VARIABLES
    written,   \* number of writes of the master
    synced,    \* which replicas have loaded a snapshot
    held,      \* the writes each replica executed, those of its snapshot first
    lost       \* whose connections are lost

vars == <<written, synced, held, lost>>

TypeOK ==
    /\ written \in Nat
    /\ synced \in [Replicas -> BOOLEAN]
    /\ held \in [Replicas -> Seq(1 .. written)]
    /\ lost \in [Replicas -> BOOLEAN]

Init ==
    /\ written = 0
    /\ synced = [r \in Replicas |-> FALSE]
    /\ held = [r \in Replicas |-> <<>>]
    /\ lost = [r \in Replicas |-> FALSE]

Write == written' = written + 1 /\ UNCHANGED <<synced, held>>

\* The replica loads a snapshot; writes may have happened since it was taken.
Sync(r) ==
    /\ ~synced[r]
    /\ synced' = [synced EXCEPT ![r] = TRUE]
    /\ \E n \in 0 .. written : held' = [held EXCEPT ![r] = [i \in 1 .. n |-> i]]
    /\ UNCHANGED <<written, lost>>

Apply(r) ==
    /\ synced[r] /\ Len(held[r]) < written
    /\ held' = [held EXCEPT ![r] = Append(@, Len(@) + 1)]
    /\ UNCHANGED <<written, synced, lost>>

\* Connections are lost, of several replicas at once when a write to them
\* fails, and never come back.
Lose ==
    /\ lost' \in [Replicas -> BOOLEAN]
    /\ \A r \in Replicas : lost[r] => lost'[r]

Next ==
    \/ (Write \/ UNCHANGED <<written, synced, held>>) /\ Lose
    \/ \E r \in Replicas : Sync(r) \/ Apply(r)

Spec == Init /\ [][Next]_vars

FairSpec == Spec /\ \A r \in Replicas : WF_vars(~lost[r] /\ Apply(r))

=============================================================================
