-------------------------- MODULE BackfillConsumer --------------------------
(***************************************************************************)
(* A consumer of growing logs that commits how far it has come.  Messages  *)
(* are consumed at least once: what is committed has been consumed, and a  *)
(* commit is never taken back.                                             *)
(***************************************************************************)
EXTENDS Integers

CONSTANTS Groups, Keys

VARIABLES log, consumed, committed

vars == <<log, consumed, committed>>

Init ==
    /\ log = [g \in Groups |-> {}]
    /\ consumed = [g \in Groups |-> {}]
    /\ committed = [g \in Groups |-> 0]

\* A message is appended beyond what is committed.
Grow(g, k) ==
    /\ k > committed[g]
    /\ log' = [log EXCEPT ![g] = @ \cup {k}]
    /\ UNCHANGED <<consumed, committed>>

\* Messages are consumed, for the first time or again.
Consume(g, S) ==
    /\ consumed' = [consumed EXCEPT ![g] = @ \cup S]
    /\ UNCHANGED <<log, committed>>

\* Commits of several groups become durable together: they share a file.
Commit(new) ==
    /\ \A g \in Groups : /\ new[g] >= committed[g]
                         /\ \A k \in log[g] : k <= new[g] => k \in consumed[g]
    /\ committed' = new
    /\ UNCHANGED <<log, consumed>>

Next ==
    \/ \E g \in Groups, k \in Keys : Grow(g, k)
    \/ \E g \in Groups, S \in SUBSET Keys : S \subseteq log[g] /\ Consume(g, S)
    \/ \E new \in [Groups -> Keys \cup {0}] : Commit(new)

Spec == Init /\ [][Next]_vars
=============================================================================
