---------------------------- MODULE ReplyArchive ----------------------------
(***************************************************************************)
(* What the bot promises about its own messages in the message table, in   *)
(* any environment: a row is keyed by an id NapCat really issued, holds a  *)
(* text the bot really asked to send and to save, is written once and      *)
(* never changed, and no text is stored under two ids.  It does not        *)
(* promise that the text is the one NapCat delivered under that id.        *)
(***************************************************************************)
CONSTANTS Texts, None

VARIABLES requested,  \* texts sent with ShouldSave
          issued,     \* messages NapCat has confirmed
          rows        \* the table: message id -> text, or None

vars == <<requested, issued, rows>>

Init ==
    /\ requested = {}
    /\ issued = {}
    /\ rows = [m \in Texts |-> None]

\* A text is sent.
Request(t) ==
    /\ requested' = requested \cup {t}
    /\ UNCHANGED <<issued, rows>>

\* NapCat confirms a message.
Issue(m) ==
    /\ issued' = issued \cup {m}
    /\ UNCHANGED <<requested, rows>>

\* A text nobody has stored yet is stored under a confirmed, unused id.
File(m, t) ==
    /\ m \in issued
    /\ rows[m] = None
    /\ t \in requested
    /\ \A n \in Texts : rows[n] # t
    /\ rows' = [rows EXCEPT ![m] = t]
    /\ UNCHANGED <<requested, issued>>

Next ==
    \/ \E t \in Texts : Request(t) \/ Issue(t)
    \/ \E m, t \in Texts : File(m, t)

Spec == Init /\ [][Next]_vars
=============================================================================
