------------------------------ MODULE Outbound ------------------------------
(***************************************************************************)
(* The outbound pipeline of the bot: handler goroutines write NapCat       *)
(* requests, remember each one in one global FIFO (service.pendingQueue),  *)
(* and receipt goroutines pop that FIFO to learn which text belongs to the *)
(* message id NapCat has just issued, and store it as the bot's own        *)
(* message.  Requests carry no echo field, so the FIFO order is the only   *)
(* link between a request and its receipt.                                 *)
(*                                                                         *)
(* A send <<h, k>> is the k-th request handler h wants to write.  NapCat's *)
(* message id for a delivered send is represented by the send itself, so   *)
(* archive[m] = s reads: the row with the id of message m holds the text   *)
(* of message s.  The bot is right exactly when archive[m] = m.            *)
(***************************************************************************)
EXTENDS Integers, Sequences, FiniteSets

CONSTANTS Handlers,    \* handler goroutines (one per dispatched event)
          Conns,       \* connections NapCat opens, one after the other or at once
          Scripts,     \* the request sequences a handler may have to write
          MaxActions,  \* bound: the longest script
          Env,         \* what the environment may do, a subset of EnvEvents
          None         \* no value

\* "reply"  a text with ShouldSave = true
\* "plain"  a text, segments or images with ShouldSave = false
\* "emoji"  set_msg_emoji_like, which is never recorded as pending
Kinds == {"reply", "plain", "emoji"}

\* fail     NapCat answers with an error, or without a message id
\* loss     a connection breaks
\* early    a receipt is handled before its request was recorded
\* overlap  several handlers write requests at the same time
\* reorder  receipts are handled in another order than the requests' order
\* store    the database refuses a write
\* crash    the process dies and is started again
EnvEvents == {"fail", "loss", "early", "overlap", "reorder", "store", "crash"}

Slots == 1..MaxActions
Sends == Handlers \X Slots

ASSUME OutboundAssumption ==
    /\ MaxActions \in Nat
    /\ \A sc \in Scripts : sc \in Seq(Kinds) /\ Len(sc) \in Slots
    /\ None \notin Sends
    /\ Env \subseteq EnvEvents

VARIABLES
    conn,     \* state of each connection
    job,      \* what each handler goroutine is doing
    written,  \* requests in the order they were written to a socket
    pending,  \* pendingQueue.items
    receipt,  \* NapCat's answer to each send, and the goroutine handling it
    archive   \* the bot's own messages in the message table, by message id

vars == <<conn, job, written, pending, receipt, archive>>

ConnStates == {"new", "up", "lost", "closed"}
JobStates == {"idle", "write", "record", "done", "dead"}
ReceiptStates == {"none", "arrived", "saving", "done", "dropped"}
Outcomes == {"ok", "failed", "noid"}

Jobs == [st : JobStates, conn : Conns \cup {None},
         script : Scripts \cup {<<>>}, at : Nat]
Entries == [send : Sends, save : BOOLEAN]
Receipts == [pc : ReceiptStates, out : Outcomes, got : Sends \cup {None}]

Kind(s) == job[s[1]].script[s[2]]
Written == {written[i] : i \in 1..Len(written)}
Writing(h) == job[h].st \in {"write", "record"}
Recording(s) == job[s[1]].st = "record" /\ job[s[1]].at = s[2]
ConnOf(s) == job[s[1]].conn

TypeOK ==
    /\ conn \in [Conns -> ConnStates]
    /\ job \in [Handlers -> Jobs]
    /\ \A h \in Handlers : Writing(h) => /\ job[h].conn \in Conns
                                         /\ job[h].script \in Scripts
                                         /\ job[h].at \in 1..Len(job[h].script)
    /\ written \in Seq(Sends)
    /\ pending \in Seq(Entries)
    /\ receipt \in [Sends -> Receipts]
    /\ archive \in [Sends -> Sends \cup {None}]

Init ==
    /\ conn = [c \in Conns |-> "new"]
    /\ job = [h \in Handlers |->
                [st |-> "idle", conn |-> None, script |-> <<>>, at |-> 1]]
    /\ written = <<>>
    /\ pending = <<>>
    /\ receipt = [s \in Sends |-> [pc |-> "none", out |-> "ok", got |-> None]]
    /\ archive = [s \in Sends |-> None]

-----------------------------------------------------------------------------
(* Connections. *)

\* NapCat opens a reverse WebSocket and the server enters its read loop.
Connect(c) ==
    /\ conn[c] = "new"
    /\ conn' = [conn EXCEPT ![c] = "up"]
    /\ UNCHANGED <<job, written, pending, receipt, archive>>

\* The peer is gone; the read loop has not noticed yet.
Lose(c) ==
    /\ "loss" \in Env
    /\ conn[c] = "up"
    /\ conn' = [conn EXCEPT ![c] = "lost"]
    /\ UNCHANGED <<job, written, pending, receipt, archive>>

\* ReadText fails: the deferred cancel and Close run, connCtx is cancelled.
\* The pending queue is not touched.
Disconnect(c) ==
    /\ conn[c] = "lost"
    /\ conn' = [conn EXCEPT ![c] = "closed"]
    /\ UNCHANGED <<job, written, pending, receipt, archive>>

-----------------------------------------------------------------------------
(* Handler goroutines: executeActions. *)

\* An event was read from c and its handler has decided which requests to write.
Dispatch(h, c, sc) ==
    /\ job[h].st = "idle"
    /\ conn[c] = "up"
    /\ "overlap" \in Env \/ \A g \in Handlers : ~Writing(g)
    /\ job' = [job EXCEPT ![h] =
                 [st |-> "write", conn |-> c, script |-> sc, at |-> 1]]
    /\ UNCHANGED <<conn, written, pending, receipt, archive>>

AdvanceOffByOne(j) ==
    IF j.at > Len(j.script) THEN [j EXCEPT !.st = "done"]
                            ELSE [j EXCEPT !.st = "write", !.at = @ + 1]

\* The next iteration of executeActions' loops, or its end.
Advance(j) ==
    IF j.at = Len(j.script) THEN [j EXCEPT !.st = "done"]
                            ELSE [j EXCEPT !.st = "write", !.at = @ + 1]

\* conn.WriteText succeeds.  After it a message is still to be recorded; an
\* emoji reaction is not.  A write to a peer that is gone may succeed too.
WriteOk(h) ==
    LET j == job[h] IN
    /\ j.st = "write"
    /\ conn[j.conn] \in {"up", "lost"}
    /\ written' = Append(written, <<h, j.at>>)
    /\ job' = [job EXCEPT ![h] = IF j.script[j.at] = "emoji"
                                 THEN Advance(j)
                                 ELSE [j EXCEPT !.st = "record"]]
    /\ UNCHANGED <<conn, pending, receipt, archive>>

WriteErrRecorded(h) ==
    LET j == job[h] IN
    /\ j.st = "write"
    /\ conn[j.conn] # "up"
    /\ job' = [job EXCEPT ![h] = [j EXCEPT !.st = "record"]]
    /\ UNCHANGED <<conn, written, pending, receipt, archive>>

\* conn.WriteText fails, or the sleep before an emoji reaction is cancelled:
\* the error is logged, nothing is recorded and the loop goes on.
WriteErr(h) ==
    LET j == job[h] IN
    /\ j.st = "write"
    /\ conn[j.conn] # "up"
    /\ job' = [job EXCEPT ![h] = Advance(j)]
    /\ UNCHANGED <<conn, written, pending, receipt, archive>>

\* RecordPending: Push under the queue's mutex, whatever became of the connection.
Record(h) ==
    LET j == job[h] IN
    /\ j.st = "record"
    /\ pending' = Append(pending, [send |-> <<h, j.at>>,
                                   save |-> j.script[j.at] = "reply"])
    /\ job' = [job EXCEPT ![h] = Advance(j)]
    /\ UNCHANGED <<conn, written, receipt, archive>>

-----------------------------------------------------------------------------
(* Receipts. *)

\* The sends written before s.
Predecessors(s) ==
    {written[i] : i \in {i \in 1..Len(written) :
        \E k \in (i + 1)..Len(written) : written[k] = s}}

\* NapCat (external) answers s and the read loop starts a goroutine for it.
\* The answer to an emoji reaction never has a message id.
Answer(s, out) ==
    /\ s \in Written
    /\ receipt[s].pc = "none"
    /\ conn[ConnOf(s)] \in {"up", "lost"}
    /\ out = "noid" <=> (Kind(s) = "emoji")
    /\ out = "failed" => "fail" \in Env
    /\ "early" \in Env \/ ~Recording(s)
    /\ receipt' = [receipt EXCEPT ![s] = [pc |-> "arrived", out |-> out, got |-> None]]
    /\ UNCHANGED <<conn, job, written, pending, archive>>

\* Its receipt is on its way, or waits for its goroutine to run.
Awaited(s) ==
    \/ receipt[s].pc = "arrived"
    \/ receipt[s].pc = "none" /\ conn[ConnOf(s)] # "closed"

\* The environment's promise about the order in which receipts are handled.
InTurn(s) == "reorder" \in Env \/ \A e \in Predecessors(s) : ~Awaited(e)

DeliveredUnlessFailed(out) == out # "failed"

\* status = "ok", retcode = 0 and a message id.
Delivered(out) == out = "ok"

IgnoreReceiptPops(s) ==
    /\ receipt[s].pc = "arrived"
    /\ InTurn(s)
    /\ ~Delivered(receipt[s].out)
    /\ receipt' = [receipt EXCEPT ![s].pc = "done"]
    /\ pending' = IF pending = <<>> THEN <<>> ELSE Tail(pending)
    /\ UNCHANGED <<conn, job, written, archive>>

\* CompleteActionResult returns at its first test, and nothing is popped.
IgnoreReceipt(s) ==
    /\ receipt[s].pc = "arrived"
    /\ InTurn(s)
    /\ ~Delivered(receipt[s].out)
    /\ receipt' = [receipt EXCEPT ![s].pc = "done"]
    /\ UNCHANGED <<conn, job, written, pending, archive>>

\* Pop finds the queue empty.
PopNothing(s) ==
    /\ receipt[s].pc = "arrived"
    /\ InTurn(s)
    /\ Delivered(receipt[s].out)
    /\ pending = <<>>
    /\ receipt' = [receipt EXCEPT ![s].pc = "done"]
    /\ UNCHANGED <<conn, job, written, pending, archive>>

PopPeek(s) ==
    /\ receipt[s].pc = "arrived"
    /\ InTurn(s)
    /\ Delivered(receipt[s].out)
    /\ pending # <<>>
    /\ receipt' = [receipt EXCEPT
                     ![s].pc = IF Head(pending).save THEN "saving" ELSE "done",
                     ![s].got = Head(pending).send]
    /\ pending' = IF Head(pending).save THEN pending ELSE Tail(pending)
    /\ UNCHANGED <<conn, job, written, archive>>

PopSavesAll(s) ==
    /\ receipt[s].pc = "arrived"
    /\ InTurn(s)
    /\ Delivered(receipt[s].out)
    /\ pending # <<>>
    /\ receipt' = [receipt EXCEPT ![s].pc = "saving", ![s].got = Head(pending).send]
    /\ pending' = Tail(pending)
    /\ UNCHANGED <<conn, job, written, archive>>

PopOnlySaved(s) ==
    /\ receipt[s].pc = "arrived"
    /\ InTurn(s)
    /\ Delivered(receipt[s].out)
    /\ pending # <<>>
    /\ receipt' = [receipt EXCEPT
                     ![s].pc = IF Head(pending).save THEN "saving" ELSE "done",
                     ![s].got = Head(pending).send]
    /\ pending' = IF Head(pending).save THEN Tail(pending) ELSE pending
    /\ UNCHANGED <<conn, job, written, archive>>

\* Pop takes the oldest entry, whichever send it belongs to; the entry is
\* dropped unless it is marked ShouldSave.
Pop(s) ==
    /\ receipt[s].pc = "arrived"
    /\ InTurn(s)
    /\ Delivered(receipt[s].out)
    /\ pending # <<>>
    /\ receipt' = [receipt EXCEPT
                     ![s].pc = IF Head(pending).save THEN "saving" ELSE "done",
                     ![s].got = Head(pending).send]
    /\ pending' = Tail(pending)
    /\ UNCHANGED <<conn, job, written, archive>>

\* saveSelfMessage: the text popped goes under the id of the receipt.
SaveSelf(s) ==
    /\ receipt[s].pc = "saving"
    /\ conn[ConnOf(s)] \in {"up", "lost"}
    /\ archive' = [archive EXCEPT ![s] = receipt[s].got]
    /\ receipt' = [receipt EXCEPT ![s].pc = "done"]
    /\ UNCHANGED <<conn, job, written, pending>>

\* saveSelfMessage fails: the connection's context is cancelled or the
\* database refuses.  The error is logged; the popped text is lost.
SaveSelfErr(s) ==
    /\ receipt[s].pc = "saving"
    /\ "store" \in Env \/ conn[ConnOf(s)] = "closed"
    /\ receipt' = [receipt EXCEPT ![s].pc = "done"]
    /\ UNCHANGED <<conn, job, written, pending, archive>>

-----------------------------------------------------------------------------
\* The process dies and starts again: only the database survives.
Crash ==
    /\ "crash" \in Env
    /\ \E c \in Conns : conn[c] \in {"up", "lost"}
    /\ conn' = [c \in Conns |-> IF conn[c] \in {"up", "lost"} THEN "closed" ELSE conn[c]]
    /\ job' = [h \in Handlers |-> IF job[h].st = "idle" THEN job[h]
                                  ELSE [job[h] EXCEPT !.st = "dead"]]
    /\ pending' = <<>>
    /\ receipt' = [s \in Sends |-> IF receipt[s].pc \in {"arrived", "saving"}
                                   THEN [receipt[s] EXCEPT !.pc = "dropped"]
                                   ELSE receipt[s]]
    /\ UNCHANGED <<written, archive>>

HandlerStep(h) == WriteOk(h) \/ WriteErr(h) \/ Record(h)

ReceiptStep(s) ==
    IgnoreReceipt(s) \/ PopNothing(s) \/ Pop(s) \/ SaveSelf(s) \/ SaveSelfErr(s)

Next ==
    \/ \E c \in Conns : Connect(c) \/ Lose(c) \/ Disconnect(c)
    \/ \E h \in Handlers, c \in Conns, sc \in Scripts : Dispatch(h, c, sc)
    \/ \E h \in Handlers : HandlerStep(h)
    \/ \E s \in Sends, out \in Outcomes : Answer(s, out)
    \/ \E s \in Sends : ReceiptStep(s)
    \/ Crash

Spec == Init /\ [][Next]_vars

\* Goroutines are scheduled, a broken connection is noticed, and NapCat
\* answers every request it still has a connection for.
Fairness ==
    /\ \A c \in Conns : WF_vars(Disconnect(c))
    /\ \A h \in Handlers : WF_vars(HandlerStep(h))
    /\ \A s \in Sends : /\ WF_vars(\E out \in Outcomes : Answer(s, out))
                        /\ WF_vars(ReceiptStep(s))

FairSpec == Spec /\ Fairness

-----------------------------------------------------------------------------
(* Properties. *)

PendingSends == {pending[i].send : i \in 1..Len(pending)}
InHand == {s \in Sends : receipt[s].pc = "saving"}

\* A recorded text is owned once, whatever NapCat, the network and the
\* scheduler do: it never sits twice in the queue, is never held by two receipt
\* goroutines, and is never both queued and held or stored (outbound.go Push
\* and Pop against concurrent CompleteActionResult calls).
OwnedOnce ==
    /\ \A i, k \in 1..Len(pending) : pending[i].send = pending[k].send => i = k
    /\ \A s, t \in Sends : receipt[s].got = receipt[t].got /\ s # t => receipt[s].got = None
    /\ \A s \in Sends : receipt[s].got \notin PendingSends
    /\ \A s \in Sends : archive[s] # None => receipt[s].pc = "done" /\ archive[s] = receipt[s].got

\* Every queued entry is the trace of a request that was really written: a
\* failed write leaves nothing behind in the queue (send.go, handler.go:179).
PendingWasWritten == PendingSends \subseteq Written

LiveSends == {s \in Written : job[s[1]].st # "dead"}
Quiescent ==
    /\ \A h \in Handlers : ~Writing(h)
    /\ \A s \in Sends : receipt[s].pc \notin {"arrived", "saving"}
Unacknowledged ==
    {s \in LiveSends : Kind(s) # "emoji" /\ ~(receipt[s].pc = "done" /\ Delivered(receipt[s].out))}
PoppedTooEarly ==
    {s \in LiveSends : receipt[s].pc = "done" /\ Delivered(receipt[s].out) /\ receipt[s].got = None}

\* The law of the backlog: whenever nothing is running, the queue is exactly as
\* long as the number of messages never acknowledged plus the number of receipts
\* that came before their request was recorded.  Those entries stay for ever and
\* shift every later receipt (service.go:103-107).
BacklogLaw ==
    Quiescent => Len(pending) = Cardinality(Unacknowledged) + Cardinality(PoppedTooEarly)

\* The archive holds each text under the id of its own message
\* (FACEID_COMMAND_PLAN.md:203, GO_MIGRATION_PLAN.md:28: receipts are associated
\* with the requests they answer).
ReceiptMatchesSend == \A m \in Sends : archive[m] \in {None, m}

\* In a quiet environment every reply that asks for it ends up in the archive, and the
\* queue keeps no backlog: it empties for good.
RepliesArchived ==
    /\ \A s \in Sends : s \in Written /\ Kind(s) = "reply" ~> archive[s] = s
    /\ <>[](pending = <<>>)

-----------------------------------------------------------------------------
(* What the pipeline promises in every environment: see ReplyArchive. *)
Requested == {s \in Written : Kind(s) = "reply"}
Issued == {s \in Sends : receipt[s].pc # "none" /\ Delivered(receipt[s].out)}

Archive == INSTANCE ReplyArchive
             WITH Texts <- Sends, requested <- Requested, issued <- Issued, rows <- archive
ArchiveSpec == Archive!Spec

\* What a handler promises about its requests: see RequestLog.  A request whose text was
\* popped from the queue counts as expected, as long as the process that wrote it lives.
BeingNoted == {s \in Written : Recording(s)}
Expected ==
    {s \in Sends : /\ job[s[1]].st # "dead"
                   /\ s \in PendingSends \/ \E t \in Sends : receipt[t].got = s}

Log == INSTANCE RequestLog WITH sent <- Written, noting <- BeingNoted, expected <- Expected
LogSpec == Log!Spec
=============================================================================
