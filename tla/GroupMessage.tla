---------------------------- MODULE GroupMessage ----------------------------
(***************************************************************************)
(* The handlers of napcathandler on one connection: every text payload is  *)
(* parsed and given to a goroutine, which decides by the sender, the       *)
(* command and the mention what to store and what to answer, and sends the *)
(* answer as requests, one frame each.  What a receipt does is module      *)
(* Outbound, what storing does is module Intake, and what the commands     *)
(* answer is in the modules of the commands.                               *)
(***************************************************************************)
EXTENDS WsConn

CONSTANTS
    MaxDuplicates, \* bound: replies about repeated pictures in one message
    Answers        \* the requests one command's action may come to, in order

\* What ParseInboundMessage makes of a text; a part of a JSON value is an error.
Kinds == {"message", "poke", "notice", "receipt", "unknown", "error"}
Matches == {"none", "njk", "send", "command"}
\* A message, whether text, segments, raw JSON or pictures, or a reaction to one.
Requests == {"message", "emoji"}

ASSUME GroupMessageAssumption ==
    /\ Payloads \cup {Part} \subseteq
           [kind : Kinds, banned : BOOLEAN, match : Matches, mentions : BOOLEAN]
    /\ Part.kind = "error"
    /\ MaxDuplicates \in Nat
    /\ Answers \subseteq Seq(Requests)

VARIABLES
    handlers,  \* the goroutines of the texts
    faces,     \* goroutines that have saved the faces of their message
    stored,    \* goroutines that have stored their message
    recorded   \* what RecordPending has been called for: <<goroutine, request>>

handlerVars == <<handlers, faces, stored, recorded>>
vars == <<connVars, handlerVars>>

\* next is the request of the plan that is to be sent.
Handlers == [at : {"none", "store", "execute", "send", "sleep", "write", "done"},
             match : Matches, plan : Seq(Requests), next : Nat]

TypeOK ==
    /\ ConnTypeOK
    /\ handlers \in [Tasks -> Handlers]
    /\ faces \subseteq Tasks
    /\ stored \subseteq Tasks
    /\ recorded \in Seq(Tasks \X Nat)

Init ==
    /\ ConnInit
    /\ handlers = [t \in Tasks |-> [at |-> "none", match |-> "none", plan |-> <<>>, next |-> 1]]
    /\ faces = {}
    /\ stored = {}
    /\ recorded = <<>>

Becomes(t, h) == handlers' = [handlers EXCEPT ![t] = h]
At(t, place) == Becomes(t, [handlers[t] EXCEPT !.at = place])

------------------------------------------------------------------------------
(* What to do. *)

\* A mention that is no command is one of njk.
Meant(p) == IF p.match = "none" /\ p.mentions THEN "njk" ELSE p.match
Storing(match) == match \in {"none", "njk"}

\* HandleGroupMessage up to the first thing it stores.
StartMessage(t) ==
    LET p == delivered[t]
    IN  /\ p.kind = "message"
        /\ IF p.banned
           THEN At(t, "done") /\ UNCHANGED faces
           ELSE /\ faces' = IF p.match = "send" THEN faces ELSE faces \cup {t}
                /\ Becomes(t, [handlers[t] EXCEPT
                                  !.at = IF Storing(Meant(p)) THEN "store" ELSE "execute",
                                  !.match = Meant(p)])

\* HandleNotice: a poke at the bot is answered; the rest of the notices and the
\* receipts send nothing.
StartOther(t) ==
    /\ delivered[t].kind # "message"
    /\ IF delivered[t].kind = "poke"
       THEN Becomes(t, [handlers[t] EXCEPT !.at = "send", !.plan = <<"message">>])
       ELSE At(t, "done")
    /\ UNCHANGED faces

Start(t) ==
    /\ t \in DOMAIN delivered /\ handlers[t].at = "none"
    /\ StartMessage(t) \/ StartOther(t)
    /\ UNCHANGED <<connVars, stored, recorded>>

\* SaveIncomingMessageAndCheckImages: every repeated picture is answered; an error is
\* logged.
Store(t) ==
    /\ handlers[t].at = "store"
    /\ stored' \in {stored, stored \cup {t}}
    /\ \E n \in 0..MaxDuplicates :
           Becomes(t, [handlers[t] EXCEPT !.at = "execute", !.plan = [k \in 1..n |-> "message"]])
    /\ UNCHANGED <<connVars, faces, recorded>>

\* The command, or the reply that is made now and then; either may fail.
Execute(t) ==
    /\ handlers[t].at = "execute"
    /\ \E answer \in {<<>>} \cup (IF handlers[t].match \in {"none", "njk"}
                                  THEN {<<"message">>} ELSE Answers) :
           Becomes(t, [handlers[t] EXCEPT !.at = "send", !.plan = @ \o answer])
    /\ UNCHANGED <<connVars, faces, stored, recorded>>

------------------------------------------------------------------------------
(* executeActions. *)

This(t) == handlers[t].plan[handlers[t].next]
Passed(t) == [handlers[t] EXCEPT !.at = "send", !.next = @ + 1]

\* setMsgEmojiLike waits first, a second or more; everything else is written at once.
Send(t) ==
    /\ handlers[t].at = "send"
    /\ IF handlers[t].next > Len(handlers[t].plan) THEN At(t, "done") /\ UNCHANGED calls
       ELSE IF This(t) = "emoji"
       THEN Becomes(t, IF cancelled THEN Passed(t) ELSE [handlers[t] EXCEPT !.at = "sleep"])
            /\ UNCHANGED calls
       ELSE At(t, "write") /\ Called(t, handlers[t].next, FALSE)
    /\ UNCHANGED <<socket, reading, lock, wire, faces, stored, recorded>>

\* SleepMillis: the timer, or the end of the context.
Awake(t) ==
    /\ handlers[t].at = "sleep"
    /\ At(t, "write") /\ Called(t, handlers[t].next, FALSE)
    /\ UNCHANGED <<socket, reading, lock, wire, faces, stored, recorded>>

Aborted(t) ==
    /\ handlers[t].at = "sleep" /\ cancelled
    /\ Becomes(t, Passed(t))
    /\ UNCHANGED <<connVars, faces, stored, recorded>>

\* Mutant of Returned: a failed request is recorded as well.
ReturnedRecorded(t) ==
    /\ handlers[t].at = "write" /\ Finished(t)
    /\ recorded' = IF This(t) # "emoji" THEN Append(recorded, <<t, handlers[t].next>>) ELSE recorded
    /\ Becomes(t, Passed(t))
    /\ Moved(t, "none")
    /\ UNCHANGED <<socket, reading, lock, wire, faces, stored>>

\* WriteText returns: what is written and asks for a receipt is recorded; an error is
\* logged.  The next request follows in either case.
Returned(t) ==
    /\ handlers[t].at = "write" /\ Finished(t)
    /\ recorded' = IF calls[t].at = "ok" /\ This(t) # "emoji"
                   THEN Append(recorded, <<t, handlers[t].next>>) ELSE recorded
    /\ Becomes(t, Passed(t))
    /\ Moved(t, "none")
    /\ UNCHANGED <<socket, reading, lock, wire, faces, stored>>

Step(t) ==
    \/ Start(t) \/ Store(t) \/ Execute(t) \/ Send(t) \/ Awake(t) \/ Aborted(t) \/ Returned(t)

Next ==
    \/ ConnNext /\ UNCHANGED handlerVars
    \/ \E t \in Tasks : Step(t)

\* The runtime runs every goroutine, requests to the models and sites return (their
\* clients have timeouts), and so do statements of the database and writes, which have
\* none: the database answers, and the peer reads or the connection fails.  The peer
\* need not send anything.
Fairness ==
    /\ \A w \in Writers : WF_vars(WriteFrame(w) /\ UNCHANGED handlerVars)
    /\ WF_vars(ReaderStep /\ UNCHANGED handlerVars)
    /\ \A t \in Tasks : WF_vars(Step(t))

Spec == Init /\ [][Next]_vars
FairSpec == Spec /\ Fairness

------------------------------------------------------------------------------
(* Properties. *)

\* The n-th request of a goroutine is on the wire to its end; the pieces that end one.
Whole(t, n) == \E i \in DOMAIN wire : wire[i] = [frame |-> [from |-> t, no |-> n, bare |-> FALSE],
                                                 part |-> "payload"]
Ends(t) == {i \in DOMAIN wire : wire[i].frame.from = t /\ wire[i].part = "payload"}

\* A reaction is given up when the connection ends.
GivenUp(t, n) == cancelled /\ handlers[t].plan[n] = "emoji"

\* A goroutine sends what it planned, in that order and nothing twice.  Nothing is left
\* out before a request that is sent, and nothing at all as long as writes succeed, but
\* a reaction when the connection ends.  (executeActions goes on after an error.)
PlansKept ==
    \A t \in Tasks :
        LET h == handlers[t] IN
        /\ \A i, k \in Ends(t) : i < k => wire[i].frame.no < wire[k].frame.no
        /\ \A i \in Ends(t) : /\ wire[i].frame.no \in DOMAIN h.plan
                              /\ \A n \in 1..(wire[i].frame.no - 1) : Whole(t, n) \/ GivenUp(t, n)
        /\ h.at = "done" /\ socket = "open" => \A n \in DOMAIN h.plan : Whole(t, n) \/ GivenUp(t, n)

\* A receipt is expected exactly for the messages on the wire, and once: not for a
\* reaction, and not for a request that failed.  (RecordPending follows WriteText.)
RecordsMatch ==
    /\ \A t \in Tasks : \A n \in DOMAIN handlers[t].plan :
           n < handlers[t].next =>
               ((\E k \in DOMAIN recorded : recorded[k] = <<t, n>>)
                   <=> Whole(t, n) /\ handlers[t].plan[n] # "emoji")
    /\ \A i, k \in DOMAIN recorded : recorded[i] = recorded[k] => i = k

\* Nothing of a banned user and no command but njk is stored, and a part of a message
\* that came in fragments is answered by nobody.
OnlyWhatMayBe ==
    \A t \in DOMAIN delivered :
        LET p == delivered[t] IN
        /\ t \in stored => p # Part /\ ~p.banned /\ Storing(Meant(p))
        /\ p = Part => handlers[t].plan = <<>> /\ t \notin faces

\* All of these together.
RepliesSound == FramesWhole /\ PlansKept /\ RecordsMatch /\ OnlyWhatMayBe

\* What the handlers of a connection promise about their requests: see RequestLog.
Sent == {<<wire[i].frame.from, wire[i].frame.no>> :
            i \in {i \in DOMAIN wire : wire[i].frame.from \in Tasks /\ wire[i].part = "payload"}}
BeingNoted ==
    {<<t, handlers[t].next>> :
        t \in {t \in Tasks : handlers[t].at = "write" /\ calls[t].at = "ok" /\ This(t) # "emoji"}}
Expected == {recorded[k] : k \in DOMAIN recorded}

Log == INSTANCE RequestLog WITH sent <- Sent, noting <- BeingNoted, expected <- Expected
LogSpec == Log!Spec

\* Every text is dealt with to its end and every ping is answered or the connection
\* ended, even with a writer that failed holding the mutex just before.
Finishes ==
    /\ \A t \in Tasks : t \in DOMAIN delivered ~> handlers[t].at = "done"
    /\ reader \in {"pong", "close"} ~> reader \in {"read", "ended"}
=============================================================================
