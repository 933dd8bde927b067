------------------------------ MODULE RequestLog ------------------------------
(***************************************************************************)
(* What executeActions promises to those who wait for receipts, whatever   *)
(* fails: the k-th request of a handler is written after its earlier ones  *)
(* and never twice, a receipt is expected for a request once, and only     *)
(* after the request was written, and it is forgotten when the process     *)
(* dies.  Module Outbound keeps this promise with the queue of pending     *)
(* requests, module GroupMessage with the frames on one connection.        *)
(***************************************************************************)
EXTENDS Naturals

VARIABLES sent,     \* requests that were written, <<handler, number>> each
          noting,   \* those written whose receipt is about to be expected
          expected  \* those whose receipt this process expects, or has had

vars == <<sent, noting, expected>>

Init == sent = {} /\ noting = {} /\ expected = {}

\* A handler writes its next request, when the last one is dealt with.  The
\* receipt of a message is to be expected, that of a reaction never is.
Write(r) ==
    /\ \A q \in sent : q[1] = r[1] => q[2] < r[2] /\ q \notin noting
    /\ sent' = sent \cup {r}
    /\ noting' \in {noting, noting \cup {r}}
    /\ UNCHANGED expected

\* RecordPending.
Record(r) ==
    /\ noting' = noting \ {r}
    /\ expected' = expected \cup {r}
    /\ UNCHANGED sent

\* The process dies with what it expected.
Crash ==
    /\ noting' = {} /\ expected' = {}
    /\ UNCHANGED sent

Next ==
    \/ \E r \in sent' \ sent : Write(r)
    \/ \E r \in noting : Record(r)
    \/ Crash

Spec == Init /\ [][Next]_vars
=============================================================================
