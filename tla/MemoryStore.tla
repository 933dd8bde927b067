----------------------------- MODULE MemoryStore -----------------------------
(***************************************************************************)
(* The long-term memory: messages wait in a queue, one bucket per group,   *)
(* until a bucket has MaxItems or has been idle; the whole bucket is then  *)
(* processed as one batch, by the goroutine whose message filled it or by  *)
(* the ticker.  A model extracts candidates, facts and impressions, which  *)
(* are compared with what the tables hold and stored, every statement on   *)
(* its own.  Batches of one group may overlap.                             *)
(*                                                                         *)
(* The repository switches all of it off (memoryEnabled is false until an  *)
(* embedding model is available again); the module says what it does on.   *)
(***************************************************************************)
EXTENDS Integers, Sequences

CONSTANTS
    Groups,
    Sources,      \* the messages, each with a goroutine of its own
    GroupOf, UserOf, \* the group and the sender of each source
    Users,
    Texts,        \* contents of memories, which stand for their hashes
    Answers,      \* what may be left of an extraction after the filter
    Alike,        \* pairs of texts whose similarity reaches the limit, for each type
    MaxItems,     \* memoryBatchSize
    Faults,       \* may a call fail?
    MaxCrashes,   \* bound: how often the process restarts
    Ticker,       \* the goroutine of runMemoryBatchLoop
    NoUser        \* an empty or missing user id

Workers == Sources \cup {Ticker}
People == Users \cup {NoUser}
Types == {"fact", "impression"}
Candidates == [type : Types, user : People, text : Texts]

ASSUME MemoryAssumption ==
    /\ Groups # {} /\ GroupOf \in [Sources -> Groups] /\ UserOf \in [Sources -> Users]
    /\ Answers \subseteq Seq(Candidates)
    /\ Alike \in [Types -> SUBSET (Texts \X Texts)]
    /\ MaxItems \in Nat \ {0} /\ Faults \in BOOLEAN /\ MaxCrashes \in Nat
    /\ Ticker \notin Sources /\ NoUser \notin Users

VARIABLES
    queued,      \* the bucket of each group
    arrived,     \* sources that have been enqueued
    worker,      \* what each goroutine is doing
    facts,       \* table memory_fact, in the order of its ids
    impressions, \* table memory_impression, in the order of its ids
    taken,       \* how often each source has been handed to a worker (history)
    lost,        \* sources that were in the queue when the process died (history)
    forgotten,   \* <<group, user>> left without an impression by a failure (history)
    raced,       \* <<group, user>> whose impressions were saved by two at once (history)
    crashes

tables == <<facts, impressions>>
queue == <<queued, arrived, taken, lost>>
vars == <<queue, worker, tables, forgotten, raced, crashes>>

\* batches  handed to the worker and not begun
\* todo     candidates of the batch begun, the first of them being saved
\* version  what LatestImpressionVersion answered
\* near     the id of the impression to be replaced, 0 if there is none
Batches == [group : Groups, items : Seq(Sources) \ {<<>>}]
Places == {"idle", "extract", "embed", "exists", "factNearest", "factInsert",
           "version", "nearest", "deactivate", "insert"}
Jobs == [at : Places, batches : SUBSET Batches, group : Groups, user : People,
         todo : Seq(Candidates), version : Nat, near : Nat]
FactRows == [group : Groups, user : People, text : Texts, active : BOOLEAN]
ImpressionRows == [group : Groups, user : Users, text : Texts, version : Nat, active : BOOLEAN]

TypeOK ==
    /\ queued \in [Groups -> Seq(Sources)]
    /\ arrived \subseteq Sources
    /\ worker \in [Workers -> Jobs]
    /\ facts \in Seq(FactRows)
    /\ impressions \in Seq(ImpressionRows)
    /\ taken \in [Sources -> Nat]
    /\ lost \subseteq Sources
    /\ forgotten \subseteq Groups \X People
    /\ raced \subseteq Groups \X People
    /\ crashes \in 0..MaxCrashes

Idle == [at |-> "idle", batches |-> {}, group |-> CHOOSE g \in Groups : TRUE,
         user |-> NoUser, todo |-> <<>>, version |-> 0, near |-> 0]

Init ==
    /\ queued = [g \in Groups |-> <<>>]
    /\ arrived = {}
    /\ worker = [w \in Workers |-> Idle]
    /\ facts = <<>>
    /\ impressions = <<>>
    /\ taken = [s \in Sources |-> 0]
    /\ lost = {}
    /\ forgotten = {}
    /\ raced = {}
    /\ crashes = 0

Waiting(s) == \E k \in DOMAIN queued[GroupOf[s]] : queued[GroupOf[s]][k] = s

------------------------------------------------------------------------------
(* The queue. *)

\* Mutant of Enqueue: the batch is taken and the bucket is kept.
EnqueueKept(s) ==
    LET g == GroupOf[s]
        items == Append(queued[g], s)
    IN  /\ s \notin arrived
        /\ arrived' = arrived \cup {s}
        /\ queued' = [queued EXCEPT ![g] = items]
        /\ IF Len(items) < MaxItems
           THEN UNCHANGED <<taken, worker>>
           ELSE /\ taken' = [o \in Sources |-> IF o = s \/ (GroupOf[o] = g /\ Waiting(o))
                                               THEN taken[o] + 1 ELSE taken[o]]
                /\ worker' = [worker EXCEPT ![s] =
                                 [@ EXCEPT !.batches = {[group |-> g, items |-> items]}]]
        /\ UNCHANGED <<lost, tables, forgotten, raced, crashes>>

\* Enqueue: the item that fills the bucket takes it away, in the same critical
\* section; its goroutine processes the batch.
Enqueue(s) ==
    LET g == GroupOf[s]
        items == Append(queued[g], s)
    IN  /\ s \notin arrived
        /\ arrived' = arrived \cup {s}
        /\ IF Len(items) < MaxItems
           THEN /\ queued' = [queued EXCEPT ![g] = items]
                /\ UNCHANGED <<taken, worker>>
           ELSE /\ queued' = [queued EXCEPT ![g] = <<>>]
                /\ taken' = [o \in Sources |-> IF o = s \/ (GroupOf[o] = g /\ Waiting(o))
                                               THEN taken[o] + 1 ELSE taken[o]]
                /\ worker' = [worker EXCEPT ![s] =
                                 [@ EXCEPT !.batches = {[group |-> g, items |-> items]}]]
        /\ UNCHANGED <<lost, tables, forgotten, raced, crashes>>

\* Mutant of FlushExpired: a bucket with a single message is left alone.
FlushExpiredSeveral(G) ==
    /\ worker[Ticker].at = "idle" /\ worker[Ticker].batches = {}
    /\ \A g \in G : Len(queued[g]) > 1
    /\ queued' = [g \in Groups |-> IF g \in G THEN <<>> ELSE queued[g]]
    /\ taken' = [o \in Sources |-> IF GroupOf[o] \in G /\ Waiting(o) THEN taken[o] + 1 ELSE taken[o]]
    /\ worker' = [worker EXCEPT ![Ticker] =
                     [@ EXCEPT !.batches = {[group |-> g, items |-> queued[g]] : g \in G}]]
    /\ UNCHANGED <<arrived, lost, tables, forgotten, raced, crashes>>

\* FlushExpired: the ticker takes the buckets that nothing has been added to for a
\* while, all in one critical section; any bucket may have waited long enough.
FlushExpired(G) ==
    /\ worker[Ticker].at = "idle" /\ worker[Ticker].batches = {}
    /\ \A g \in G : queued[g] # <<>>
    /\ queued' = [g \in Groups |-> IF g \in G THEN <<>> ELSE queued[g]]
    /\ taken' = [o \in Sources |-> IF GroupOf[o] \in G /\ Waiting(o) THEN taken[o] + 1 ELSE taken[o]]
    /\ worker' = [worker EXCEPT ![Ticker] =
                     [@ EXCEPT !.batches = {[group |-> g, items |-> queued[g]] : g \in G}]]
    /\ UNCHANGED <<arrived, lost, tables, forgotten, raced, crashes>>

------------------------------------------------------------------------------
(* A batch: processMemoryBatch. *)

\* The user of a batch is its sender if it has only one (aggregateMemorySources).
SenderOf(items) ==
    IF \A k \in DOMAIN items : UserOf[items[k]] = UserOf[items[1]] THEN UserOf[items[1]] ELSE NoUser

\* A worker takes the next of its batches, in any order (a Go map).
BeginBatch(w) ==
    /\ worker[w].at = "idle"
    /\ \E b \in worker[w].batches :
           worker' = [worker EXCEPT ![w] =
               [@ EXCEPT !.at = "extract", !.batches = worker[w].batches \ {b},
                         !.group = b.group, !.user = SenderOf(b.items)]]
    /\ UNCHANGED <<queue, tables, forgotten, raced, crashes>>

\* An impression without a user is one of the sender.
Attributed(c, user) == IF c.type = "impression" /\ c.user = NoUser THEN [c EXCEPT !.user = user] ELSE c

\* The extraction; one that fails, is skipped or holds nothing of use leaves <<>>.
Extract(w) ==
    /\ worker[w].at = "extract"
    /\ \E answer \in Answers \cup {<<>>} :
           worker' = [worker EXCEPT ![w] =
               [@ EXCEPT !.at = IF answer = <<>> THEN "idle" ELSE "embed",
                         !.todo = [k \in 1..Len(answer) |-> Attributed(answer[k], worker[w].user)]]]
    /\ UNCHANGED <<queue, tables, forgotten, raced, crashes>>

\* EmbedBatch: a vector for every candidate, or the batch is given up.
Embed(w) ==
    /\ worker[w].at = "embed"
    /\ worker' = [worker EXCEPT ![w] = [@ EXCEPT !.at = "exists"]]
    /\ UNCHANGED <<queue, tables, forgotten, raced, crashes>>

EmbedErr(w) ==
    /\ Faults
    /\ worker[w].at = "embed"
    /\ worker' = [worker EXCEPT ![w] = [@ EXCEPT !.at = "idle", !.todo = <<>>]]
    /\ UNCHANGED <<queue, tables, forgotten, raced, crashes>>

This(w) == worker[w].todo[1]
Person(w) == <<worker[w].group, This(w).user>>

\* The candidate is done with, saved or not; the next one follows.
Passed(job) ==
    [job EXCEPT !.at = IF Len(job.todo) > 1 THEN "exists" ELSE "idle",
                !.todo = Tail(@), !.version = 0, !.near = 0]
Pass(w) == worker' = [worker EXCEPT ![w] = Passed(@)]
Goto(w, place) == worker' = [worker EXCEPT ![w] = [@ EXCEPT !.at = place]]

\* Mutant of Of: the query does not ask for the user.
OfAnyone(w, r) == r.active /\ r.group = worker[w].group

\* Whether row r is an active one of the person the candidate is about.
Of(w, r) == r.active /\ r.group = worker[w].group /\ r.user = This(w).user

\* saveFactMemory.
MemoryFactExistsByHash(w) ==
    /\ worker[w].at = "exists" /\ This(w).type = "fact"
    /\ IF \E k \in DOMAIN facts : Of(w, facts[k]) /\ facts[k].text = This(w).text
       THEN Pass(w) ELSE Goto(w, "factNearest")
    /\ UNCHANGED <<queue, tables, forgotten, raced, crashes>>

FindNearestFactMemory(w) ==
    /\ worker[w].at = "factNearest"
    /\ IF \E k \in DOMAIN facts : Of(w, facts[k]) /\ <<facts[k].text, This(w).text>> \in Alike["fact"]
       THEN Pass(w) ELSE Goto(w, "factInsert")
    /\ UNCHANGED <<queue, tables, forgotten, raced, crashes>>

\* Mutant of Refused: the unique index was not created.
RefusedNever(w) == FALSE

\* uq_memory_fact_active_hash: one active row of a group, a user (or none) and a hash.
Refused(w) == \E k \in DOMAIN facts : Of(w, facts[k]) /\ facts[k].text = This(w).text

SaveMemoryFact(w) ==
    /\ worker[w].at = "factInsert"
    /\ IF Refused(w) THEN UNCHANGED facts
       ELSE facts' = Append(facts, [group |-> worker[w].group, user |-> This(w).user,
                                    text |-> This(w).text, active |-> TRUE])
    /\ Pass(w)
    /\ UNCHANGED <<queue, impressions, forgotten, raced, crashes>>

\* Mutant of MemoryImpressionExistsByHash: a missing user is not noticed.
MemoryImpressionExistsByHashOfNobody(w) ==
    /\ worker[w].at = "exists" /\ This(w).type = "impression"
    /\ IF \E k \in DOMAIN impressions : Of(w, impressions[k]) /\ impressions[k].text = This(w).text
       THEN Pass(w) ELSE Goto(w, "version")
    /\ UNCHANGED <<queue, tables, forgotten, raced, crashes>>

\* saveImpressionMemory: without a user there is nothing to save.
MemoryImpressionExistsByHash(w) ==
    /\ worker[w].at = "exists" /\ This(w).type = "impression"
    /\ IF \/ This(w).user = NoUser
          \/ \E k \in DOMAIN impressions : Of(w, impressions[k]) /\ impressions[k].text = This(w).text
       THEN Pass(w) ELSE Goto(w, "version")
    /\ UNCHANGED <<queue, tables, forgotten, raced, crashes>>

\* Mutant of Versions: impressions that have been replaced are not counted.
VersionsActive(p) == {impressions[k].version : k \in {i \in DOMAIN impressions :
    impressions[i].active /\ <<impressions[i].group, impressions[i].user>> = p}}

Versions(p) == {impressions[k].version : k \in {i \in DOMAIN impressions :
                    <<impressions[i].group, impressions[i].user>> = p}}

LatestImpressionVersion(w) ==
    /\ worker[w].at = "version"
    /\ \E v \in Versions(Person(w)) \cup {0} :
           /\ \A o \in Versions(Person(w)) : o <= v
           /\ worker' = [worker EXCEPT ![w] = [@ EXCEPT !.at = "nearest", !.version = v]]
    /\ UNCHANGED <<queue, tables, forgotten, raced, crashes>>

\* The nearest of the active impressions, if it is alike enough.
FindNearestImpression(w) ==
    LET alike == {k \in DOMAIN impressions :
                    /\ Of(w, impressions[k])
                    /\ <<impressions[k].text, This(w).text>> \in Alike["impression"]}
    IN  /\ worker[w].at = "nearest"
        /\ \/ alike = {} /\ Goto(w, "insert")
           \/ \E k \in alike :
                worker' = [worker EXCEPT ![w] = [@ EXCEPT !.at = "deactivate", !.near = k]]
        /\ UNCHANGED <<queue, tables, forgotten, raced, crashes>>

DeactivateMemoryImpression(w) ==
    /\ worker[w].at = "deactivate"
    /\ impressions' = [impressions EXCEPT ![worker[w].near] = [@ EXCEPT !.active = FALSE]]
    /\ Goto(w, "insert")
    /\ UNCHANGED <<queue, facts, forgotten, raced, crashes>>

\* Between its look at the table and its insert.
Saving(w) == worker[w].at \in {"version", "nearest", "deactivate", "insert"}

SaveMemoryImpression(w) ==
    /\ worker[w].at = "insert"
    /\ impressions' = Append(impressions,
           [group |-> worker[w].group, user |-> This(w).user, text |-> This(w).text,
            version |-> worker[w].version + 1, active |-> TRUE])
    /\ raced' = IF \E o \in Workers \ {w} : Saving(o) /\ Person(o) = Person(w)
                THEN raced \cup {Person(w)} ELSE raced
    /\ Pass(w)
    /\ UNCHANGED <<queue, facts, forgotten, crashes>>

\* A statement fails: the candidate is given up, and an impression that has been
\* deactivated for it stays so.
Emptied(w) == IF worker[w].at = "insert" /\ worker[w].near # 0 THEN {Person(w)} ELSE {}

StatementErr(w) ==
    /\ Faults
    /\ worker[w].at \in Places \ {"idle", "extract", "embed"}
    /\ Pass(w)
    /\ forgotten' = forgotten \cup Emptied(w)
    /\ UNCHANGED <<queue, tables, raced, crashes>>

\* The process dies: the queue and the batches at work are gone.
Crash ==
    /\ crashes < MaxCrashes
    /\ crashes' = crashes + 1
    /\ queued' = [g \in Groups |-> <<>>]
    /\ lost' = lost \cup {s \in Sources : Waiting(s)}
    /\ worker' = [w \in Workers |-> Idle]
    /\ forgotten' = forgotten \cup UNION {Emptied(w) : w \in Workers}
    /\ UNCHANGED <<arrived, taken, tables, raced>>

Step(w) ==
    \/ BeginBatch(w) \/ Extract(w) \/ Embed(w) \/ EmbedErr(w)
    \/ MemoryFactExistsByHash(w) \/ FindNearestFactMemory(w) \/ SaveMemoryFact(w)
    \/ MemoryImpressionExistsByHash(w) \/ LatestImpressionVersion(w) \/ FindNearestImpression(w)
    \/ DeactivateMemoryImpression(w) \/ SaveMemoryImpression(w)
    \/ StatementErr(w)

Next ==
    \/ \E s \in Sources : Enqueue(s)
    \/ \E G \in SUBSET Groups : FlushExpired(G)
    \/ \E w \in Workers : Step(w)
    \/ Crash

Spec == Init /\ [][Next]_vars

\* The ticker never stops, so a bucket that gets no more items is taken, and calls
\* return; messages need not come.
Fairness ==
    /\ \A g \in Groups : WF_vars(\E G \in SUBSET Groups : g \in G /\ FlushExpired(G))
    /\ \A w \in Workers : WF_vars(Step(w))

------------------------------------------------------------------------------
(* Properties. *)

\* A message that was enqueued is in its bucket, or has been handed out, once, or was
\* in the queue of a process that died; and no bucket ever holds a full batch.
\* (pendingMemoryQueue: the copy is taken and the bucket deleted under one lock.)
ItemsKept ==
    /\ \A g \in Groups : Len(queued[g]) < MaxItems
    /\ \A s \in Sources :
           /\ taken[s] <= 1
           /\ s \in arrived <=> Waiting(s) \/ taken[s] = 1 \/ s \in lost
           /\ ~(Waiting(s) /\ taken[s] = 1) /\ ~(Waiting(s) /\ s \in lost)
           /\ ~(taken[s] = 1 /\ s \in lost)

\* A fact is remembered once, however many batches look for it before one of them
\* stores it.  (saveFactMemory asks first; only the unique index closes the gap.)
OneActiveFact ==
    \A i, j \in DOMAIN facts :
        /\ facts[i].active /\ facts[j].active
        /\ facts[i].group = facts[j].group /\ facts[i].user = facts[j].user
        /\ facts[i].text = facts[j].text
        => i = j

\* Somebody the bot has had an impression of is somebody it has one of, unless the
\* old one is just being replaced or a failure came between the two statements.
\* (saveImpressionMemory has no transaction.)
ImpressionsKept ==
    \A k \in DOMAIN impressions :
        LET p == <<impressions[k].group, impressions[k].user>> IN
        \/ \E i \in DOMAIN impressions :
               impressions[i].active /\ <<impressions[i].group, impressions[i].user>> = p
        \/ \E w \in Workers : worker[w].at = "insert" /\ Person(w) = p
        \/ p \in forgotten

\* The versions of a person's impressions count up and no text is active twice, as
\* long as no two batches saved an impression of that person at once.
\* (saveImpressionMemory reads the hashes and the version long before its insert, and
\* no index stands behind it as one does for the facts.)
VersionsGrow ==
    \A i, j \in DOMAIN impressions :
        LET p == <<impressions[i].group, impressions[i].user>> IN
        i < j /\ p = <<impressions[j].group, impressions[j].user>> /\ p \notin raced =>
            /\ impressions[i].version < impressions[j].version
            /\ impressions[i].active /\ impressions[j].active =>
                   impressions[i].text # impressions[j].text

\* No message waits for ever: every bucket is taken in the end.
ItemsLeave == \A s \in Sources : Waiting(s) ~> ~Waiting(s)
=============================================================================
