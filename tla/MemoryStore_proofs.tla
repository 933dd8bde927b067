------------------------- MODULE MemoryStore_proofs -------------------------
(* Machine-checked facts about MemoryStore, for all constants. *)
EXTENDS MemoryStore, TLAPS

-----------------------------------------------------------------------------
(* Where a goroutine is and what it holds there. *)

Busy == Places \ {"idle", "extract"}

\* A job past the extraction has a candidate of the kind its place is for, an
\* impression has a user, and the row to be replaced is one of that user's.
GoodJob(job, rows) ==
    /\ job.at \in Busy => job.todo # <<>>
    /\ job.at \in {"factNearest", "factInsert"} => job.todo[1].type = "fact"
    /\ job.at \in {"version", "nearest", "deactivate", "insert"} =>
           job.todo[1].type = "impression" /\ job.todo[1].user \in Users
    /\ job.at = "deactivate" =>
           /\ job.near \in DOMAIN rows
           /\ rows[job.near].group = job.group /\ rows[job.near].user = job.todo[1].user
JobsOK == \A w \in Workers : GoodJob(worker[w], impressions)

\* Rows are only added, and those there are keep their owners.
RowsStay ==
    /\ DOMAIN impressions \subseteq DOMAIN impressions'
    /\ \A k \in DOMAIN impressions :
           /\ impressions'[k].group = impressions[k].group
           /\ impressions'[k].user = impressions[k].user

LEMMA Constants ==
    /\ Groups # {} /\ GroupOf \in [Sources -> Groups] /\ UserOf \in [Sources -> Users]
    /\ Answers \subseteq Seq(Candidates) /\ MaxItems \in Nat \ {0} /\ MaxCrashes \in Nat
    /\ Sources \subseteq Workers /\ Ticker \in Workers /\ Ticker \notin Sources
    /\ NoUser \notin Users
BY MemoryAssumption DEF MemoryAssumption, Workers

LEMMA IdleOK == Idle \in Jobs /\ Idle.at = "idle"
<1>1. (CHOOSE g \in Groups : TRUE) \in Groups
  BY Constants
<1>2. <<>> \in Seq(Candidates)
  OBVIOUS
<1> QED  BY <1>1, <1>2 DEF Idle, Jobs, Places, People

\* Passing a candidate leaves a job, and one with a candidate left unless it is idle.
LEMMA PassedOK ==
    ASSUME NEW job \in Jobs, job.todo # <<>>
    PROVE  /\ Passed(job) \in Jobs
           /\ Passed(job).at \in {"exists", "idle"} /\ Passed(job).near = 0
           /\ Passed(job).at = "exists" => Passed(job).todo # <<>>
           /\ Passed(job).batches = job.batches
<1>1. job.todo \in Seq(Candidates) /\ Tail(job.todo) \in Seq(Candidates)
  BY DEF Jobs
<1>2. Len(job.todo) > 1 => Tail(job.todo) # <<>>
  BY <1>1
<1> QED  BY <1>1, <1>2 DEF Passed, Jobs, Places

\* A job that goes to another place is a job.
LEMMA MovedOK ==
    ASSUME NEW job \in Jobs, NEW place \in Places
    PROVE  [job EXCEPT !.at = place] \in Jobs
BY DEF Jobs

LEMMA TodoOK ==
    ASSUME TypeOK, JobsOK, NEW w \in Workers, worker[w].at \in Busy
    PROVE  /\ worker[w] \in Jobs /\ worker[w].todo # <<>>
           /\ worker[w].todo \in Seq(Candidates) /\ This(w) \in Candidates
<1>1. worker[w] \in Jobs /\ worker[w].todo # <<>>
  BY DEF TypeOK, JobsOK, GoodJob
<1>2. worker[w].todo \in Seq(Candidates)
  BY <1>1 DEF Jobs
<1> QED  BY <1>1, <1>2 DEF This

LEMMA AppendOK ==
    ASSUME NEW S, NEW q \in Seq(S), NEW e \in S
    PROVE  /\ Append(q, e) \in Seq(S) /\ Append(q, e) # <<>>
           /\ Len(Append(q, e)) = Len(q) + 1 /\ Append(q, e)[Len(q) + 1] = e
           /\ \A k \in 1..Len(q) : Append(q, e)[k] = q[k]
<1>1. /\ Append(q, e) \in Seq(S) /\ Len(Append(q, e)) = Len(q) + 1
      /\ Append(q, e)[Len(q) + 1] = e /\ \A k \in 1..Len(q) : Append(q, e)[k] = q[k]
  OBVIOUS
<1>2. Len(q) + 1 # 0
  <2>1. Len(q) \in Nat
    OBVIOUS
  <2> QED  BY <2>1
<1> QED  BY <1>1, <1>2

LEMMA SenderOK ==
    ASSUME NEW items \in Seq(Sources), items # <<>>
    PROVE  SenderOf(items) \in People
BY Constants DEF SenderOf, People

LEMMA AttributedOK ==
    ASSUME NEW c \in Candidates, NEW user \in People
    PROVE  Attributed(c, user) \in Candidates
BY DEF Attributed, Candidates

-----------------------------------------------------------------------------
(* Every step keeps the types and the jobs. *)

\* One worker's job changes to a good one, and the rows stay.
LEMMA WorkerStep ==
    ASSUME TypeOK, JobsOK, RowsStay, NEW w \in Workers, NEW job \in Jobs,
           worker' = [worker EXCEPT ![w] = job], GoodJob(job, impressions')
    PROVE  worker' \in [Workers -> Jobs] /\ JobsOK'
<1>1. worker \in [Workers -> Jobs]
  BY DEF TypeOK
<1>2. worker' \in [Workers -> Jobs]
  BY <1>1
<1>3. ASSUME NEW o \in Workers PROVE GoodJob(worker'[o], impressions')
  <2>1. CASE o = w
    BY <1>1, <2>1
  <2>2. CASE o # w
    <3>1. worker'[o] = worker[o]
      BY <1>1, <2>2
    <3>2. GoodJob(worker[o], impressions)
      BY DEF JobsOK
    <3> QED  BY <3>1, <3>2 DEF GoodJob, RowsStay
  <2> QED  BY <2>1, <2>2
<1> QED  BY <1>2, <1>3 DEF JobsOK

\* Passing the candidate.
LEMMA PassStep ==
    ASSUME TypeOK, JobsOK, RowsStay, NEW w \in Workers, worker[w].at \in Busy, Pass(w)
    PROVE  worker' \in [Workers -> Jobs] /\ JobsOK'
<1>1. worker[w] \in Jobs /\ worker[w].todo # <<>>
  BY TodoOK
<1> DEFINE job == Passed(worker[w])
<1>2. job \in Jobs /\ job.at \in {"exists", "idle"} /\ (job.at = "exists" => job.todo # <<>>)
  BY <1>1, PassedOK
<1>3. GoodJob(job, impressions')
  BY <1>2 DEF GoodJob, Busy
<1>4. worker' = [worker EXCEPT ![w] = job]
  BY DEF Pass
<1> HIDE DEF job
<1> QED  BY <1>2, <1>3, <1>4, WorkerStep

\* Going to a place that asks no more of the job than what is known.
LEMMA GotoStep ==
    ASSUME TypeOK, JobsOK, RowsStay, NEW w \in Workers, NEW place \in Places,
           GoodJob([worker[w] EXCEPT !.at = place], impressions'), Goto(w, place)
    PROVE  worker' \in [Workers -> Jobs] /\ JobsOK'
<1>1. worker[w] \in Jobs
  BY DEF TypeOK
<1> DEFINE job == [worker[w] EXCEPT !.at = place]
<1>2. job \in Jobs
  BY <1>1, MovedOK
<1>3. worker' = [worker EXCEPT ![w] = job]
  BY DEF Goto
<1>4. GoodJob(job, impressions')
  OBVIOUS
<1> HIDE DEF job
<1> QED  BY <1>2, <1>3, <1>4, WorkerStep

LEMMA RowsStayUnchanged ==
    ASSUME UNCHANGED impressions PROVE RowsStay
BY DEF RowsStay

LEMMA EnqueueType ==
    ASSUME TypeOK, JobsOK, NEW s \in Sources, Enqueue(s)
    PROVE  TypeOK' /\ JobsOK'
<1> DEFINE g == GroupOf[s]
           items == Append(queued[g], s)
<1>1. g \in Groups /\ s \in Workers
  BY Constants
<1>2. items \in Seq(Sources) /\ items # <<>>
  <2>1. queued[g] \in Seq(Sources)
    BY <1>1 DEF TypeOK
  <2> QED  BY <2>1, AppendOK
<1>3. worker[s] \in Jobs /\ GoodJob(worker[s], impressions)
  BY <1>1 DEF TypeOK, JobsOK
<1>4. RowsStay
  BY RowsStayUnchanged DEF Enqueue, tables
<1>5. CASE Len(items) < MaxItems
  <2>1. UNCHANGED <<taken, worker>> /\ queued' = [queued EXCEPT ![g] = items]
    BY <1>5 DEF Enqueue
  <2> QED  BY <2>1, <1>1, <1>2, <1>4 DEF Enqueue, TypeOK, tables, JobsOK
<1>6. CASE ~(Len(items) < MaxItems)
  <2> DEFINE job == [worker[s] EXCEPT !.batches = {[group |-> g, items |-> items]}]
  <2>1. {[group |-> g, items |-> items]} \in SUBSET Batches
    BY <1>1, <1>2 DEF Batches
  <2>2. job \in Jobs
    BY <1>3, <2>1 DEF Jobs
  <2>3. GoodJob(job, impressions')
    BY <1>3 DEF GoodJob, Enqueue, tables, Jobs
  <2>4. worker' = [worker EXCEPT ![s] = job]
    BY <1>6 DEF Enqueue
  <2>5. worker' \in [Workers -> Jobs] /\ JobsOK'
    <3> HIDE DEF job
    <3> QED  BY <1>1, <1>4, <2>2, <2>3, <2>4, WorkerStep
  <2>6. queued' \in [Groups -> Seq(Sources)]
    <3>1. queued' = [queued EXCEPT ![g] = <<>>]
      BY <1>6 DEF Enqueue
    <3> QED  BY <3>1, <1>1 DEF TypeOK
  <2>7. taken' \in [Sources -> Nat]
    <3>1. \A o \in Sources : taken[o] \in Nat
      BY DEF TypeOK
    <3>2. taken' = [o \in Sources |-> IF o = s \/ (GroupOf[o] = g /\ Waiting(o))
                                      THEN taken[o] + 1 ELSE taken[o]]
      BY <1>6 DEF Enqueue
    <3> QED  BY <3>1, <3>2
  <2> QED  BY <2>5, <2>6, <2>7 DEF Enqueue, TypeOK, tables
<1> QED  BY <1>5, <1>6

LEMMA FlushExpiredType ==
    ASSUME TypeOK, JobsOK, NEW G \in SUBSET Groups, FlushExpired(G)
    PROVE  TypeOK' /\ JobsOK'
<1> DEFINE handed == {[group |-> g, items |-> queued[g]] : g \in G}
           job == [worker[Ticker] EXCEPT !.batches = handed]
<1>1. handed \in SUBSET Batches
  BY DEF FlushExpired, TypeOK, Batches
<1>2. worker[Ticker] \in Jobs /\ GoodJob(worker[Ticker], impressions) /\ Ticker \in Workers
  BY Constants DEF TypeOK, JobsOK
<1>3. job \in Jobs
  BY <1>1, <1>2 DEF Jobs
<1>4. RowsStay
  BY RowsStayUnchanged DEF FlushExpired, tables
<1>5. GoodJob(job, impressions')
  BY <1>2 DEF GoodJob, FlushExpired, tables, Jobs
<1>6. worker' = [worker EXCEPT ![Ticker] = job]
  BY DEF FlushExpired
<1>7. worker' \in [Workers -> Jobs] /\ JobsOK'
  <2> HIDE DEF job
  <2> QED  BY <1>2, <1>3, <1>4, <1>5, <1>6, WorkerStep
<1>8. queued' \in [Groups -> Seq(Sources)]
  BY DEF FlushExpired, TypeOK
<1>9. taken' \in [Sources -> Nat]
  BY DEF FlushExpired, TypeOK
<1> QED  BY <1>7, <1>8, <1>9 DEF FlushExpired, TypeOK, tables

LEMMA BeginBatchType ==
    ASSUME TypeOK, JobsOK, NEW w \in Workers, BeginBatch(w)
    PROVE  TypeOK' /\ JobsOK'
<1>1. worker[w] \in Jobs /\ worker[w].batches \subseteq Batches
  BY DEF TypeOK, Jobs
<1>2. PICK b \in worker[w].batches :
          worker' = [worker EXCEPT ![w] =
              [@ EXCEPT !.at = "extract", !.batches = worker[w].batches \ {b},
                        !.group = b.group, !.user = SenderOf(b.items)]]
  BY DEF BeginBatch
<1>3. b.group \in Groups /\ SenderOf(b.items) \in People
  BY <1>1, SenderOK DEF Batches
<1> DEFINE job == [worker[w] EXCEPT !.at = "extract", !.batches = worker[w].batches \ {b},
                                    !.group = b.group, !.user = SenderOf(b.items)]
<1>4. job \in Jobs
  BY <1>1, <1>3 DEF Jobs, Places
<1>5. GoodJob(job, impressions')
  BY <1>1 DEF GoodJob, Busy, Jobs
<1>6. RowsStay
  BY RowsStayUnchanged DEF BeginBatch, tables
<1>7. worker' = [worker EXCEPT ![w] = job]
  BY <1>2
<1>8. worker' \in [Workers -> Jobs] /\ JobsOK'
  <2> HIDE DEF job
  <2> QED  BY <1>4, <1>5, <1>6, <1>7, WorkerStep
<1> QED  BY <1>8 DEF BeginBatch, TypeOK, queue, tables

LEMMA ExtractType ==
    ASSUME TypeOK, JobsOK, NEW w \in Workers, Extract(w)
    PROVE  TypeOK' /\ JobsOK'
<1>1. PICK answer \in Answers \cup {<<>>} :
          worker' = [worker EXCEPT ![w] =
              [@ EXCEPT !.at = IF answer = <<>> THEN "idle" ELSE "embed",
                        !.todo = [k \in 1..Len(answer) |-> Attributed(answer[k], worker[w].user)]]]
  BY DEF Extract
<1> DEFINE todo == [k \in 1..Len(answer) |-> Attributed(answer[k], worker[w].user)]
           place == IF answer = <<>> THEN "idle" ELSE "embed"
           job == [worker[w] EXCEPT !.at = place, !.todo = todo]
<1>2. worker[w] \in Jobs /\ worker[w].user \in People
  BY DEF TypeOK, Jobs
<1>3. answer \in Seq(Candidates)
  <2>1. CASE answer = <<>>
    <3>1. <<>> \in Seq(Candidates)
      OBVIOUS
    <3> QED  BY <2>1, <3>1
  <2>2. CASE answer \in Answers
    BY <2>2, Constants
  <2> QED  BY <2>1, <2>2
<1>4. todo \in Seq(Candidates)
  <2>1. \A k \in 1..Len(answer) : Attributed(answer[k], worker[w].user) \in Candidates
    BY <1>2, <1>3, AttributedOK
  <2> QED  BY <1>3, <2>1
<1>5. answer # <<>> => todo # <<>>
  BY <1>3
<1>6. job \in Jobs
  <2>1. place \in Places
    BY DEF Places
  <2> HIDE DEF place, todo
  <2> QED  BY <1>2, <1>4, <2>1 DEF Jobs
<1>7. GoodJob(job, impressions')
  <2>1. job.at = place /\ job.todo = todo
    BY <1>2 DEF Jobs
  <2> HIDE DEF job, todo
  <2> QED  BY <1>5, <2>1 DEF GoodJob, Busy
<1>8. RowsStay
  BY RowsStayUnchanged DEF Extract, tables
<1>9. worker' = [worker EXCEPT ![w] = job]
  BY <1>1
<1>10. worker' \in [Workers -> Jobs] /\ JobsOK'
  <2> HIDE DEF job
  <2> QED  BY <1>6, <1>7, <1>8, <1>9, WorkerStep
<1> QED  BY <1>10 DEF Extract, TypeOK, queue, tables

LEMMA EmbedType ==
    ASSUME TypeOK, JobsOK, NEW w \in Workers, Embed(w)
    PROVE  TypeOK' /\ JobsOK'
<1>1. worker[w].todo # <<>> /\ worker[w] \in Jobs
  BY TodoOK DEF Embed, Busy, Places
<1>2. GoodJob([worker[w] EXCEPT !.at = "exists"], impressions')
  BY <1>1 DEF GoodJob, Jobs
<1>3. RowsStay
  BY RowsStayUnchanged DEF Embed, tables
<1>4. Goto(w, "exists") /\ "exists" \in Places
  BY DEF Embed, Goto, Places
<1>5. worker' \in [Workers -> Jobs] /\ JobsOK'
  BY <1>2, <1>3, <1>4, GotoStep
<1> QED  BY <1>5 DEF Embed, TypeOK, queue, tables

LEMMA EmbedErrType ==
    ASSUME TypeOK, JobsOK, NEW w \in Workers, EmbedErr(w)
    PROVE  TypeOK' /\ JobsOK'
<1> DEFINE job == [worker[w] EXCEPT !.at = "idle", !.todo = <<>>]
<1>1. worker[w] \in Jobs /\ <<>> \in Seq(Candidates)
  BY DEF TypeOK
<1>2. job \in Jobs
  BY <1>1 DEF Jobs, Places
<1>3. GoodJob(job, impressions')
  BY <1>1 DEF GoodJob, Busy, Jobs
<1>4. RowsStay
  BY RowsStayUnchanged DEF EmbedErr, tables
<1>5. worker' = [worker EXCEPT ![w] = job]
  BY DEF EmbedErr
<1>6. worker' \in [Workers -> Jobs] /\ JobsOK'
  <2> HIDE DEF job
  <2> QED  BY <1>2, <1>3, <1>4, <1>5, WorkerStep
<1> QED  BY <1>6 DEF EmbedErr, TypeOK, queue, tables

\* A statement at which the candidate goes on or is passed, and nothing is written.
LEMMA LookType ==
    ASSUME TypeOK, JobsOK, NEW w \in Workers, worker[w].at \in Busy,
           NEW place \in Places, GoodJob([worker[w] EXCEPT !.at = place], impressions),
           Pass(w) \/ Goto(w, place), UNCHANGED <<queue, tables, forgotten, raced, crashes>>
    PROVE  TypeOK' /\ JobsOK'
<1>1. RowsStay /\ UNCHANGED impressions
  BY RowsStayUnchanged DEF tables
<1>2. worker' \in [Workers -> Jobs] /\ JobsOK'
  <2>1. GoodJob([worker[w] EXCEPT !.at = place], impressions')
    BY <1>1
  <2> QED  BY <1>1, <2>1, PassStep, GotoStep
<1> QED  BY <1>2 DEF TypeOK, queue, tables

LEMMA MemoryFactExistsByHashType ==
    ASSUME TypeOK, JobsOK, NEW w \in Workers, MemoryFactExistsByHash(w)
    PROVE  TypeOK' /\ JobsOK'
<1>1. worker[w].at \in Busy /\ "factNearest" \in Places
  BY DEF MemoryFactExistsByHash, Busy, Places
<1>2. worker[w] \in Jobs /\ worker[w].todo # <<>> /\ worker[w].todo[1].type = "fact"
  BY <1>1, TodoOK DEF MemoryFactExistsByHash, This
<1>3. GoodJob([worker[w] EXCEPT !.at = "factNearest"], impressions)
  BY <1>2 DEF GoodJob, Jobs
<1>4. Pass(w) \/ Goto(w, "factNearest")
  BY DEF MemoryFactExistsByHash
<1>5. UNCHANGED <<queue, tables, forgotten, raced, crashes>>
  BY DEF MemoryFactExistsByHash
<1> QED  BY <1>1, <1>3, <1>4, <1>5, LookType

LEMMA FindNearestFactMemoryType ==
    ASSUME TypeOK, JobsOK, NEW w \in Workers, FindNearestFactMemory(w)
    PROVE  TypeOK' /\ JobsOK'
<1>1. worker[w].at = "factNearest" /\ worker[w].at \in Busy /\ "factInsert" \in Places
  BY DEF FindNearestFactMemory, Busy, Places
<1>2. worker[w] \in Jobs /\ worker[w].todo # <<>> /\ worker[w].todo[1].type = "fact"
  BY <1>1, TodoOK DEF JobsOK, GoodJob
<1>3. GoodJob([worker[w] EXCEPT !.at = "factInsert"], impressions)
  BY <1>2 DEF GoodJob, Jobs
<1>4. Pass(w) \/ Goto(w, "factInsert")
  BY DEF FindNearestFactMemory
<1>5. UNCHANGED <<queue, tables, forgotten, raced, crashes>>
  BY DEF FindNearestFactMemory
<1> QED  BY <1>1, <1>3, <1>4, <1>5, LookType

LEMMA SaveMemoryFactType ==
    ASSUME TypeOK, JobsOK, NEW w \in Workers, SaveMemoryFact(w)
    PROVE  TypeOK' /\ JobsOK'
<1>1. worker[w].at \in Busy /\ Pass(w) /\ RowsStay
  BY RowsStayUnchanged DEF SaveMemoryFact, Busy, Places
<1>2. worker' \in [Workers -> Jobs] /\ JobsOK'
  BY <1>1, PassStep
<1>3. facts' \in Seq(FactRows)
  <2> DEFINE row == [group |-> worker[w].group, user |-> This(w).user,
                     text |-> This(w).text, active |-> TRUE]
  <2>1. row \in FactRows
    BY <1>1, TodoOK DEF Jobs, Candidates, FactRows
  <2>2. facts \in Seq(FactRows) /\ (facts' = facts \/ facts' = Append(facts, row))
    BY DEF TypeOK, SaveMemoryFact
  <2> HIDE DEF row
  <2> QED  BY <2>1, <2>2, AppendOK
<1> QED  BY <1>2, <1>3 DEF SaveMemoryFact, TypeOK, queue

LEMMA MemoryImpressionExistsByHashType ==
    ASSUME TypeOK, JobsOK, NEW w \in Workers, MemoryImpressionExistsByHash(w)
    PROVE  TypeOK' /\ JobsOK'
<1>1. worker[w].at \in Busy /\ "version" \in Places
  BY DEF MemoryImpressionExistsByHash, Busy, Places
<1>2. worker[w] \in Jobs /\ worker[w].todo # <<>> /\ This(w) \in Candidates
  BY <1>1, TodoOK
<1>3. UNCHANGED <<queue, tables, forgotten, raced, crashes>>
  BY DEF MemoryImpressionExistsByHash
<1>4. CASE This(w).user = NoUser
  <2>1. RowsStay /\ Pass(w)
    BY <1>4, RowsStayUnchanged DEF MemoryImpressionExistsByHash, tables
  <2>2. worker' \in [Workers -> Jobs] /\ JobsOK'
    BY <1>1, <2>1, PassStep
  <2> QED  BY <1>3, <2>2 DEF TypeOK, queue, tables
<1>5. CASE This(w).user # NoUser
  <2>1. This(w).user \in Users /\ This(w).type = "impression"
    BY <1>2, <1>5 DEF MemoryImpressionExistsByHash, Candidates, People
  <2>2. GoodJob([worker[w] EXCEPT !.at = "version"], impressions)
    BY <1>2, <2>1 DEF GoodJob, Jobs, This
  <2>3. Pass(w) \/ Goto(w, "version")
    BY DEF MemoryImpressionExistsByHash
  <2> QED  BY <1>1, <1>3, <2>2, <2>3, LookType
<1> QED  BY <1>4, <1>5

LEMMA LatestImpressionVersionType ==
    ASSUME TypeOK, JobsOK, NEW w \in Workers, LatestImpressionVersion(w)
    PROVE  TypeOK' /\ JobsOK'
<1>1. PICK v \in Versions(Person(w)) \cup {0} :
          worker' = [worker EXCEPT ![w] = [@ EXCEPT !.at = "nearest", !.version = v]]
  BY DEF LatestImpressionVersion
<1> DEFINE job == [worker[w] EXCEPT !.at = "nearest", !.version = v]
<1>2. v \in Nat
  <2>1. CASE v = 0
    BY <2>1
  <2>2. CASE v # 0
    <3>1. PICK k \in DOMAIN impressions : v = impressions[k].version
      BY <2>2 DEF Versions
    <3>2. impressions[k] \in ImpressionRows
      BY <3>1 DEF TypeOK
    <3> QED  BY <3>1, <3>2 DEF ImpressionRows
  <2> QED  BY <2>1, <2>2
<1>3. /\ worker[w] \in Jobs /\ worker[w].todo # <<>>
      /\ worker[w].todo[1].type = "impression" /\ worker[w].todo[1].user \in Users
  BY TodoOK DEF LatestImpressionVersion, Busy, Places, JobsOK, GoodJob
<1>4. job \in Jobs
  BY <1>2, <1>3 DEF Jobs, Places
<1>5. GoodJob(job, impressions')
  BY <1>3 DEF GoodJob, Jobs
<1>6. RowsStay
  BY RowsStayUnchanged DEF LatestImpressionVersion, tables
<1>7. worker' = [worker EXCEPT ![w] = job]
  BY <1>1
<1>8. worker' \in [Workers -> Jobs] /\ JobsOK'
  <2> HIDE DEF job
  <2> QED  BY <1>4, <1>5, <1>6, <1>7, WorkerStep
<1> QED  BY <1>8 DEF LatestImpressionVersion, TypeOK, queue, tables

LEMMA FindNearestImpressionType ==
    ASSUME TypeOK, JobsOK, NEW w \in Workers, FindNearestImpression(w)
    PROVE  TypeOK' /\ JobsOK'
<1>1. worker[w].at \in Busy /\ worker[w].at = "nearest" /\ "insert" \in Places
  BY DEF FindNearestImpression, Busy, Places
<1>2. /\ worker[w] \in Jobs /\ worker[w].todo # <<>>
      /\ worker[w].todo[1].type = "impression" /\ worker[w].todo[1].user \in Users
  BY <1>1, TodoOK DEF JobsOK, GoodJob
<1>3. UNCHANGED <<queue, tables, forgotten, raced, crashes>>
  BY DEF FindNearestImpression
<1>4. CASE Goto(w, "insert")
  <2>1. GoodJob([worker[w] EXCEPT !.at = "insert"], impressions)
    BY <1>2 DEF GoodJob, Jobs
  <2> QED  BY <1>1, <1>3, <1>4, <2>1, LookType
<1>5. ASSUME NEW k \in DOMAIN impressions, Of(w, impressions[k]),
             worker' = [worker EXCEPT ![w] = [@ EXCEPT !.at = "deactivate", !.near = k]]
      PROVE  TypeOK' /\ JobsOK'
  <2> DEFINE job == [worker[w] EXCEPT !.at = "deactivate", !.near = k]
  <2>1. k \in Nat
    BY DEF TypeOK
  <2>2. job \in Jobs
    BY <1>2, <2>1 DEF Jobs, Places
  <2>3. GoodJob(job, impressions')
    BY <1>2, <1>3, <1>5 DEF GoodJob, Jobs, Of, This, tables
  <2>4. RowsStay
    BY <1>3, RowsStayUnchanged DEF tables
  <2>5. worker' = [worker EXCEPT ![w] = job]
    BY <1>5
  <2>6. worker' \in [Workers -> Jobs] /\ JobsOK'
    <3> HIDE DEF job
    <3> QED  BY <2>2, <2>3, <2>4, <2>5, WorkerStep
  <2> QED  BY <1>3, <2>6 DEF TypeOK, queue, tables
<1> QED  BY <1>4, <1>5 DEF FindNearestImpression

LEMMA DeactivateRows ==
    ASSUME TypeOK, JobsOK, NEW w \in Workers, DeactivateMemoryImpression(w)
    PROVE  /\ worker[w].near \in DOMAIN impressions
           /\ impressions' \in Seq(ImpressionRows) /\ DOMAIN impressions' = DOMAIN impressions
           /\ \A k \in DOMAIN impressions : k # worker[w].near => impressions'[k] = impressions[k]
           /\ \A k \in DOMAIN impressions :
                  /\ impressions'[k].group = impressions[k].group
                  /\ impressions'[k].user = impressions[k].user
                  /\ impressions'[k].text = impressions[k].text
                  /\ impressions'[k].version = impressions[k].version
           /\ impressions'[worker[w].near].active = FALSE
<1> DEFINE n == worker[w].near
           row == [impressions[n] EXCEPT !.active = FALSE]
<1>1. n \in DOMAIN impressions
  BY DEF DeactivateMemoryImpression, JobsOK, GoodJob
<1>2. impressions \in Seq(ImpressionRows) /\ impressions[n] \in ImpressionRows
  BY <1>1 DEF TypeOK
<1>3. /\ row \in ImpressionRows /\ row.active = FALSE /\ row.group = impressions[n].group
      /\ row.user = impressions[n].user /\ row.text = impressions[n].text
      /\ row.version = impressions[n].version
  BY <1>2 DEF ImpressionRows
<1>4. impressions' = [impressions EXCEPT ![n] = row]
  BY DEF DeactivateMemoryImpression
<1>5. DOMAIN impressions' = DOMAIN impressions /\ impressions'[n] = row
  BY <1>1, <1>2, <1>4
<1>6. \A k \in DOMAIN impressions : k # n => impressions'[k] = impressions[k]
  BY <1>2, <1>4
<1> HIDE DEF row
<1>7. impressions' \in Seq(ImpressionRows)
  BY <1>1, <1>2, <1>3, <1>4
<1> QED  BY <1>1, <1>3, <1>5, <1>6, <1>7

LEMMA DeactivateMemoryImpressionType ==
    ASSUME TypeOK, JobsOK, NEW w \in Workers, DeactivateMemoryImpression(w)
    PROVE  TypeOK' /\ JobsOK'
<1>1. impressions' \in Seq(ImpressionRows) /\ RowsStay
  BY DeactivateRows DEF RowsStay
<1>2. /\ worker[w] \in Jobs /\ worker[w].todo # <<>>
      /\ worker[w].todo[1].type = "impression" /\ worker[w].todo[1].user \in Users
  BY TodoOK DEF DeactivateMemoryImpression, Busy, Places, JobsOK, GoodJob
<1>3. GoodJob([worker[w] EXCEPT !.at = "insert"], impressions')
  BY <1>2 DEF GoodJob, Jobs
<1>4. Goto(w, "insert") /\ "insert" \in Places
  BY DEF DeactivateMemoryImpression, Places
<1>5. worker' \in [Workers -> Jobs] /\ JobsOK'
  BY <1>1, <1>3, <1>4, GotoStep
<1> QED  BY <1>1, <1>5 DEF DeactivateMemoryImpression, TypeOK, queue

\* The row an insert adds, after all the others.
LEMMA InsertRow ==
    ASSUME TypeOK, JobsOK, NEW w \in Workers, SaveMemoryImpression(w)
    PROVE  \E row \in ImpressionRows :
               /\ row.group = worker[w].group /\ row.user = This(w).user
               /\ row.text = This(w).text /\ row.version = worker[w].version + 1
               /\ row.active = TRUE
               /\ impressions' \in Seq(ImpressionRows)
               /\ DOMAIN impressions' = 1..(Len(impressions) + 1)
               /\ impressions'[Len(impressions) + 1] = row
               /\ \A k \in DOMAIN impressions : impressions'[k] = impressions[k]
<1> DEFINE row == [group |-> worker[w].group, user |-> This(w).user, text |-> This(w).text,
                   version |-> worker[w].version + 1, active |-> TRUE]
<1>1. worker[w] \in Jobs /\ This(w) \in Candidates /\ This(w).user \in Users
  BY TodoOK DEF SaveMemoryImpression, Busy, Places, JobsOK, GoodJob, This
<1>2. row \in ImpressionRows
  BY <1>1 DEF Jobs, Candidates, ImpressionRows
<1>3. impressions \in Seq(ImpressionRows) /\ impressions' = Append(impressions, row)
  BY DEF TypeOK, SaveMemoryImpression
<1>4. /\ row.group = worker[w].group /\ row.user = This(w).user
      /\ row.text = This(w).text /\ row.version = worker[w].version + 1
      /\ row.active = TRUE
  OBVIOUS
<1> HIDE DEF row
<1>5. /\ impressions' \in Seq(ImpressionRows) /\ Len(impressions') = Len(impressions) + 1
      /\ impressions'[Len(impressions) + 1] = row
      /\ \A k \in 1..Len(impressions) : impressions'[k] = impressions[k]
  BY <1>2, <1>3, AppendOK
<1>6. DOMAIN impressions' = 1..(Len(impressions) + 1) /\ DOMAIN impressions = 1..Len(impressions)
  BY <1>3, <1>5
<1> QED  BY <1>2, <1>4, <1>5, <1>6

LEMMA SaveMemoryImpressionType ==
    ASSUME TypeOK, JobsOK, NEW w \in Workers, SaveMemoryImpression(w)
    PROVE  TypeOK' /\ JobsOK'
<1>1. PICK row \in ImpressionRows :
               /\ impressions' \in Seq(ImpressionRows)
               /\ DOMAIN impressions' = 1..(Len(impressions) + 1)
               /\ \A k \in DOMAIN impressions : impressions'[k] = impressions[k]
  BY InsertRow
<1>2. DOMAIN impressions \subseteq DOMAIN impressions'
  <2>1. DOMAIN impressions = 1..Len(impressions) /\ Len(impressions) \in Nat
    BY DEF TypeOK
  <2> QED  BY <1>1, <2>1
<1>3. RowsStay
  BY <1>1, <1>2 DEF RowsStay
<1>4. worker[w].at \in Busy /\ Pass(w)
  BY DEF SaveMemoryImpression, Busy, Places
<1>5. worker' \in [Workers -> Jobs] /\ JobsOK'
  BY <1>3, <1>4, PassStep
<1>6. raced' \subseteq Groups \X People
  <2>1. Person(w) \in Groups \X People
    BY <1>4, TodoOK DEF Person, Jobs, Candidates
  <2> QED  BY <2>1 DEF SaveMemoryImpression, TypeOK
<1> QED  BY <1>1, <1>5, <1>6 DEF SaveMemoryImpression, TypeOK, queue

\* Who loses an impression is somebody.
LEMMA EmptiedOK ==
    ASSUME TypeOK, JobsOK, NEW w \in Workers
    PROVE  Emptied(w) \subseteq Groups \X People
<1>1. CASE worker[w].at = "insert"
  <2>1. Person(w) \in Groups \X People
    BY <1>1, TodoOK DEF Busy, Places, Person, Jobs, Candidates
  <2> QED  BY <2>1 DEF Emptied
<1> QED  BY <1>1 DEF Emptied

LEMMA StatementErrType ==
    ASSUME TypeOK, JobsOK, NEW w \in Workers, StatementErr(w)
    PROVE  TypeOK' /\ JobsOK'
<1>1. worker[w].at \in Busy /\ Pass(w) /\ RowsStay
  BY RowsStayUnchanged DEF StatementErr, Busy, tables
<1>2. worker' \in [Workers -> Jobs] /\ JobsOK'
  BY <1>1, PassStep
<1>3. forgotten' \subseteq Groups \X People
  BY EmptiedOK DEF StatementErr, TypeOK
<1> QED  BY <1>2, <1>3 DEF StatementErr, TypeOK, queue, tables

LEMMA CrashType ==
    ASSUME TypeOK, JobsOK, Crash
    PROVE  TypeOK' /\ JobsOK'
<1>1. worker' \in [Workers -> Jobs] /\ JobsOK'
  BY IdleOK DEF Crash, JobsOK, GoodJob, Busy
<1>2. forgotten' \subseteq Groups \X People
  BY EmptiedOK DEF Crash, TypeOK
<1>3. crashes' \in 0..MaxCrashes
  BY Constants DEF Crash, TypeOK
<1>4. queued' \in [Groups -> Seq(Sources)]
  BY DEF Crash
<1> QED  BY <1>1, <1>2, <1>3, <1>4 DEF Crash, TypeOK, tables

LEMMA TypeStep ==
    ASSUME TypeOK, JobsOK, [Next]_vars
    PROVE  TypeOK' /\ JobsOK'
<1>1. CASE UNCHANGED vars
  <2>1. UNCHANGED <<worker, impressions>>
    BY <1>1 DEF vars, tables
  <2>2. JobsOK'
    BY <2>1 DEF JobsOK
  <2> QED  BY <1>1, <2>2 DEF vars, TypeOK, queue, tables
<1>2. CASE \E s \in Sources : Enqueue(s)
  BY <1>2, EnqueueType
<1>3. CASE \E G \in SUBSET Groups : FlushExpired(G)
  BY <1>3, FlushExpiredType
<1>4. ASSUME NEW w \in Workers, Step(w) PROVE TypeOK' /\ JobsOK'
  BY <1>4, BeginBatchType, ExtractType, EmbedType, EmbedErrType, MemoryFactExistsByHashType,
     FindNearestFactMemoryType, SaveMemoryFactType, MemoryImpressionExistsByHashType,
     LatestImpressionVersionType, FindNearestImpressionType, DeactivateMemoryImpressionType,
     SaveMemoryImpressionType, StatementErrType DEF Step
<1>5. CASE Crash
  BY <1>5, CrashType
<1> QED  BY <1>1, <1>2, <1>3, <1>4, <1>5 DEF Next

\* The inductive form of the type invariant.
LEMMA WellFormed == Spec => [](TypeOK /\ JobsOK)
<1>1. Init => TypeOK /\ JobsOK
  <2> SUFFICES ASSUME Init PROVE TypeOK /\ JobsOK
    OBVIOUS
  <2>1. worker \in [Workers -> Jobs] /\ JobsOK
    BY IdleOK DEF Init, JobsOK, GoodJob, Busy
  <2>2. queued \in [Groups -> Seq(Sources)] /\ facts \in Seq(FactRows)
        /\ impressions \in Seq(ImpressionRows)
    BY DEF Init
  <2> QED  BY <2>1, <2>2, Constants DEF Init, TypeOK
<1>2. TypeOK /\ JobsOK /\ [Next]_vars => (TypeOK /\ JobsOK)'
  BY TypeStep
<1> QED  BY <1>1, <1>2, PTL DEF Spec

\* The state is always of its type: rows, jobs, candidates, buckets.
THEOREM TypeCorrect == Spec => []TypeOK
BY WellFormed, PTL

-----------------------------------------------------------------------------
(* The queue: every message is in one place. *)

\* What a worker does once it has its batches leaves the queue alone.
LEMMA StepKeepsQueue ==
    ASSUME NEW w \in Workers, Step(w)
    PROVE  UNCHANGED queue
BY DEF Step, BeginBatch, Extract, Embed, EmbedErr, MemoryFactExistsByHash,
       FindNearestFactMemory, SaveMemoryFact, MemoryImpressionExistsByHash,
       LatestImpressionVersion, FindNearestImpression, DeactivateMemoryImpression,
       SaveMemoryImpression, StatementErr, queue

LEMMA WaitingAfter ==
    ASSUME TypeOK, NEW g \in Groups, NEW s \in Sources, GroupOf[s] = g,
           queued' = [queued EXCEPT ![g] = Append(queued[g], s)], NEW o \in Sources
    PROVE  Waiting(o)' <=> Waiting(o) \/ o = s
<1> DEFINE q == queued[g]
<1>1. q \in Seq(Sources) /\ queued'[g] = Append(q, s)
  BY DEF TypeOK
<1>2. /\ Len(queued'[g]) = Len(q) + 1 /\ queued'[g][Len(q) + 1] = s
      /\ \A k \in 1..Len(q) : queued'[g][k] = q[k] /\ Append(q, s) \in Seq(Sources)
  BY <1>1, AppendOK
<1>3. /\ DOMAIN q = 1..Len(q) /\ Len(q) \in Nat
      /\ DOMAIN queued'[g] = 1..(Len(q) + 1)
  <2>1. Append(q, s) \in Seq(Sources)
    BY <1>1, AppendOK
  <2> QED  BY <1>1, <1>2, <2>1
<1>4. CASE GroupOf[o] = g
  <2>1. Waiting(o)' <=> \E k \in 1..(Len(q) + 1) : queued'[g][k] = o
    BY <1>3, <1>4 DEF Waiting
  <2>2. Waiting(o) <=> \E k \in 1..Len(q) : q[k] = o
    BY <1>3, <1>4 DEF Waiting
  <2> HIDE DEF q
  <2>3. \A k \in 1..(Len(q) + 1) : k \in 1..Len(q) \/ k = Len(q) + 1
    BY <1>3
  <2>4. \A k \in 1..Len(q) : k \in 1..(Len(q) + 1)
    BY <1>3
  <2>5. Len(q) + 1 \in 1..(Len(q) + 1)
    BY <1>3
  <2>6. ASSUME Waiting(o)' PROVE Waiting(o) \/ o = s
    <3>1. PICK k \in 1..(Len(q) + 1) : queued'[g][k] = o
      BY <2>1, <2>6
    <3>2. CASE k \in 1..Len(q)
      BY <1>2, <2>2, <3>1, <3>2
    <3>3. CASE k = Len(q) + 1
      BY <1>2, <3>1, <3>3
    <3> QED  BY <2>3, <3>2, <3>3
  <2>7. ASSUME Waiting(o) PROVE Waiting(o)'
    <3>1. PICK k \in 1..Len(q) : q[k] = o
      BY <2>2, <2>7
    <3>2. queued'[g][k] = o
      BY <1>2, <3>1
    <3> QED  BY <2>1, <2>4, <3>2
  <2>8. ASSUME o = s PROVE Waiting(o)'
    BY <1>2, <2>1, <2>5, <2>8
  <2> QED  BY <2>6, <2>7, <2>8
<1>5. CASE GroupOf[o] # g
  <2>1. GroupOf[o] \in Groups /\ o # s
    BY <1>5, Constants
  <2>2. queued'[GroupOf[o]] = queued[GroupOf[o]]
    BY <1>5, <2>1 DEF TypeOK
  <2> QED  BY <2>1, <2>2 DEF Waiting
<1> QED  BY <1>4, <1>5

LEMMA WaitingEmptied ==
    ASSUME TypeOK, NEW G \in SUBSET Groups,
           queued' = [g \in Groups |-> IF g \in G THEN <<>> ELSE queued[g]], NEW o \in Sources
    PROVE  Waiting(o)' <=> Waiting(o) /\ GroupOf[o] \notin G
<1>1. GroupOf[o] \in Groups
  BY Constants
<1>2. CASE GroupOf[o] \in G
  <2>1. queued'[GroupOf[o]] = <<>>
    BY <1>1, <1>2
  <2>2. ~ Waiting(o)'
    BY <2>1 DEF Waiting
  <2> QED  BY <1>2, <2>2
<1>3. CASE GroupOf[o] \notin G
  <2>1. queued'[GroupOf[o]] = queued[GroupOf[o]]
    BY <1>1, <1>3
  <2> QED  BY <1>3, <2>1 DEF Waiting
<1> QED  BY <1>2, <1>3

\* ItemsKept, source by source.
Accounted(s) ==
    /\ taken[s] <= 1
    /\ s \in arrived <=> Waiting(s) \/ taken[s] = 1 \/ s \in lost
    /\ ~(Waiting(s) /\ taken[s] = 1) /\ ~(Waiting(s) /\ s \in lost)
    /\ ~(taken[s] = 1 /\ s \in lost)

LEMMA KeptParts ==
    ItemsKept <=> /\ \A g \in Groups : Len(queued[g]) < MaxItems
                  /\ \A s \in Sources : Accounted(s)
BY DEF ItemsKept, Accounted

LEMMA EnqueueKeepsItems ==
    ASSUME TypeOK, ItemsKept, NEW s \in Sources, Enqueue(s)
    PROVE  ItemsKept'
<1> DEFINE g == GroupOf[s]
           items == Append(queued[g], s)
<1>1. g \in Groups /\ queued[g] \in Seq(Sources) /\ MaxItems \in Nat \ {0}
  BY Constants DEF TypeOK
<1>2. s \notin arrived /\ arrived' = arrived \cup {s} /\ UNCHANGED lost
  BY DEF Enqueue
<1>3. taken[s] = 0 /\ ~ Waiting(s) /\ s \notin lost
  <2>1. taken[s] \in Nat /\ Accounted(s)
    BY KeptParts DEF TypeOK
  <2> QED  BY <1>2, <2>1 DEF Accounted
<1>4. CASE Len(items) < MaxItems
  <2>1. queued' = [queued EXCEPT ![g] = items] /\ UNCHANGED taken
    BY <1>4 DEF Enqueue
  <2>2. \A o \in Sources : Waiting(o)' <=> Waiting(o) \/ o = s
    BY <1>1, <2>1, WaitingAfter
  <2>3. \A h \in Groups : Len(queued'[h]) < MaxItems
    BY <1>1, <1>4, <2>1, KeptParts DEF TypeOK
  <2>4. ASSUME NEW o \in Sources PROVE Accounted(o)'
    <3>1. Accounted(o)
      BY KeptParts
    <3>2. CASE o = s
      BY <1>2, <1>3, <2>1, <2>2, <3>1, <3>2 DEF Accounted
    <3>3. CASE o # s
      BY <1>2, <2>1, <2>2, <3>1, <3>3 DEF Accounted
    <3> QED  BY <3>2, <3>3
  <2> QED  BY <2>3, <2>4 DEF ItemsKept, Accounted
<1>5. CASE ~(Len(items) < MaxItems)
  <2>1. /\ queued' = [queued EXCEPT ![g] = <<>>]
        /\ taken' = [o \in Sources |-> IF o = s \/ (GroupOf[o] = g /\ Waiting(o))
                                        THEN taken[o] + 1 ELSE taken[o]]
    BY <1>5 DEF Enqueue
  <2>2. queued' = [h \in Groups |-> IF h \in {g} THEN <<>> ELSE queued[h]]
    BY <1>1, <2>1 DEF TypeOK
  <2>3. \A o \in Sources : Waiting(o)' <=> Waiting(o) /\ GroupOf[o] \notin {g}
    BY <1>1, <2>2, WaitingEmptied
  <2>4. \A h \in Groups : Len(queued'[h]) < MaxItems
    BY <1>1, <2>2, KeptParts
  <2>5. ASSUME NEW o \in Sources PROVE Accounted(o)'
    <3>1. Accounted(o) /\ taken[o] \in Nat
      BY KeptParts DEF TypeOK
    <3>2. CASE o = s
      <4>1. taken'[o] = 1 /\ ~ Waiting(o)'
        BY <1>3, <2>1, <2>3, <3>2
      <4> QED  BY <1>2, <1>3, <3>2, <4>1 DEF Accounted
    <3>3. CASE o # s /\ GroupOf[o] = g /\ Waiting(o)
      <4>1. taken'[o] = 1 /\ ~ Waiting(o)' /\ o \notin lost /\ o \in arrived
        BY <2>1, <2>3, <3>1, <3>3 DEF Accounted
      <4> QED  BY <1>2, <4>1 DEF Accounted
    <3>4. CASE o # s /\ ~(GroupOf[o] = g /\ Waiting(o))
      <4>1. taken'[o] = taken[o] /\ (Waiting(o)' <=> Waiting(o))
        BY <2>1, <2>3, <3>4
      <4> QED  BY <1>2, <3>1, <3>4, <4>1 DEF Accounted
    <3> QED  BY <3>2, <3>3, <3>4
  <2> QED  BY <2>4, <2>5 DEF ItemsKept, Accounted
<1> QED  BY <1>4, <1>5

LEMMA FlushExpiredKeepsItems ==
    ASSUME TypeOK, ItemsKept, NEW G \in SUBSET Groups, FlushExpired(G)
    PROVE  ItemsKept'
<1>1. /\ queued' = [g \in Groups |-> IF g \in G THEN <<>> ELSE queued[g]]
      /\ taken' = [o \in Sources |-> IF GroupOf[o] \in G /\ Waiting(o) THEN taken[o] + 1 ELSE taken[o]]
      /\ UNCHANGED <<arrived, lost>>
  BY DEF FlushExpired
<1>2. \A o \in Sources : Waiting(o)' <=> Waiting(o) /\ GroupOf[o] \notin G
  BY <1>1, WaitingEmptied
<1>3. \A h \in Groups : Len(queued'[h]) < MaxItems
  BY <1>1, Constants, KeptParts
<1>4. ASSUME NEW o \in Sources PROVE Accounted(o)'
  <2>1. Accounted(o) /\ taken[o] \in Nat
    BY KeptParts DEF TypeOK
  <2>2. CASE GroupOf[o] \in G /\ Waiting(o)
    <3>1. taken'[o] = 1 /\ ~ Waiting(o)' /\ o \notin lost /\ o \in arrived
      BY <1>1, <1>2, <2>1, <2>2 DEF Accounted
    <3> QED  BY <1>1, <3>1 DEF Accounted
  <2>3. CASE ~(GroupOf[o] \in G /\ Waiting(o))
    <3>1. taken'[o] = taken[o] /\ (Waiting(o)' <=> Waiting(o))
      BY <1>1, <1>2, <2>3
    <3> QED  BY <1>1, <2>1, <3>1 DEF Accounted
  <2> QED  BY <2>2, <2>3
<1> QED  BY <1>3, <1>4 DEF ItemsKept, Accounted

LEMMA CrashKeepsItems ==
    ASSUME TypeOK, ItemsKept, Crash
    PROVE  ItemsKept'
<1>1. /\ queued' = [g \in Groups |-> <<>>] /\ lost' = lost \cup {s \in Sources : Waiting(s)}
      /\ UNCHANGED <<arrived, taken>>
  BY DEF Crash
<1>2. \A h \in Groups : Len(queued'[h]) < MaxItems
  BY <1>1, Constants
<1>3. ASSUME NEW o \in Sources PROVE Accounted(o)'
  <2>1. Accounted(o) /\ taken[o] \in Nat
    BY KeptParts DEF TypeOK
  <2>2. ~ Waiting(o)'
    BY <1>1, Constants DEF Waiting
  <2>3. o \in lost' <=> o \in lost \/ Waiting(o)
    BY <1>1
  <2> QED  BY <1>1, <2>1, <2>2, <2>3 DEF Accounted
<1> QED  BY <1>2, <1>3 DEF ItemsKept, Accounted

\* No message is lost, forgotten or handed out twice, but by the death of the process.
THEOREM ItemsAreKept == Spec => []ItemsKept
<1>1. Init => ItemsKept
  <2> SUFFICES ASSUME Init PROVE ItemsKept
    OBVIOUS
  <2>1. \A g \in Groups : queued[g] = <<>> /\ Len(queued[g]) < MaxItems
    <3>1. \A g \in Groups : queued[g] = <<>>
      BY DEF Init
    <3>2. 0 < MaxItems
      BY Constants
    <3> QED  BY <3>1, <3>2
  <2>2. ASSUME NEW s \in Sources PROVE Accounted(s)
    <3>1. queued[GroupOf[s]] = <<>>
      BY <2>1, Constants
    <3>2. ~ Waiting(s)
      BY <3>1 DEF Waiting
    <3> QED  BY <3>2 DEF Init, Accounted
  <2> QED  BY <2>1, <2>2, KeptParts
<1>2. TypeOK /\ ItemsKept /\ [Next]_vars => ItemsKept'
  <2> SUFFICES ASSUME TypeOK, ItemsKept, [Next]_vars PROVE ItemsKept'
    OBVIOUS
  <2>1. ASSUME UNCHANGED queue PROVE ItemsKept'
    BY <2>1 DEF queue, ItemsKept, Waiting
  <2>2. CASE UNCHANGED vars
    BY <2>1, <2>2 DEF vars, queue
  <2>3. CASE \E s \in Sources : Enqueue(s)
    BY <2>3, EnqueueKeepsItems
  <2>4. CASE \E G \in SUBSET Groups : FlushExpired(G)
    BY <2>4, FlushExpiredKeepsItems
  <2>5. CASE \E w \in Workers : Step(w)
    BY <2>1, <2>5, StepKeepsQueue
  <2>6. CASE Crash
    BY <2>6, CrashKeepsItems
  <2> QED  BY <2>2, <2>3, <2>4, <2>5, <2>6 DEF Next
<1> QED  BY <1>1, <1>2, TypeCorrect, PTL DEF Spec

-----------------------------------------------------------------------------
(* The facts. *)

\* Only SaveMemoryFact writes the table, and the index stands before it.
LEMMA FactsStep ==
    ASSUME TypeOK, JobsOK, OneActiveFact, [Next]_vars
    PROVE  OneActiveFact'
<1>1. ASSUME UNCHANGED facts PROVE OneActiveFact'
  BY <1>1 DEF OneActiveFact
<1>2. ASSUME NEW w \in Workers, SaveMemoryFact(w) PROVE OneActiveFact'
  <2>1. CASE Refused(w)
    BY <1>1, <1>2, <2>1 DEF SaveMemoryFact
  <2>2. CASE ~Refused(w)
    <3> DEFINE row == [group |-> worker[w].group, user |-> This(w).user,
                       text |-> This(w).text, active |-> TRUE]
               n == Len(facts)
    <3>1. worker[w] \in Jobs /\ This(w) \in Candidates
      BY <1>2, TodoOK DEF SaveMemoryFact, Busy, Places
    <3>2. row \in FactRows
      BY <3>1 DEF Jobs, Candidates, FactRows
    <3>3. facts \in Seq(FactRows) /\ facts' = Append(facts, row)
      BY <1>2, <2>2 DEF SaveMemoryFact, TypeOK
    <3>4. \A k \in DOMAIN facts : ~(/\ facts[k].active /\ facts[k].group = row.group
                                    /\ facts[k].user = row.user /\ facts[k].text = row.text)
      BY <2>2 DEF Refused, Of
    <3> HIDE DEF row
    <3>5. /\ Append(facts, row) \in Seq(FactRows) /\ Len(facts') = n + 1 /\ facts'[n + 1] = row
          /\ \A k \in 1..n : facts'[k] = facts[k]
      BY <3>2, <3>3, AppendOK
    <3>6. DOMAIN facts = 1..n /\ n \in Nat /\ DOMAIN facts' = 1..(n + 1)
      BY <3>3, <3>5
    <3>7. \A k \in DOMAIN facts' : k \in DOMAIN facts \/ k = n + 1
      BY <3>6
    <3> SUFFICES ASSUME NEW i \in DOMAIN facts', NEW j \in DOMAIN facts',
                        facts'[i].active, facts'[j].active,
                        facts'[i].group = facts'[j].group, facts'[i].user = facts'[j].user,
                        facts'[i].text = facts'[j].text
                 PROVE  i = j
      BY DEF OneActiveFact
    <3>8. CASE i \in DOMAIN facts /\ j \in DOMAIN facts
      <4>1. facts'[i] = facts[i] /\ facts'[j] = facts[j]
        BY <3>5, <3>6, <3>8
      <4> QED  BY <3>8, <4>1 DEF OneActiveFact
    <3>9. CASE i \in DOMAIN facts /\ j = n + 1
      <4>1. facts'[i] = facts[i] /\ facts'[j] = row
        BY <3>5, <3>6, <3>9
      <4> QED  BY <3>4, <3>9, <4>1
    <3>10. CASE i = n + 1 /\ j \in DOMAIN facts
      <4>1. facts'[j] = facts[j] /\ facts'[i] = row
        BY <3>5, <3>6, <3>10
      <4> QED  BY <3>4, <3>10, <4>1
    <3> QED  BY <3>7, <3>8, <3>9, <3>10
  <2> QED  BY <2>1, <2>2
<1>3. ASSUME NEW w \in Workers, Step(w), ~SaveMemoryFact(w) PROVE UNCHANGED facts
  BY <1>3 DEF Step, BeginBatch, Extract, Embed, EmbedErr, MemoryFactExistsByHash,
       FindNearestFactMemory, MemoryImpressionExistsByHash, LatestImpressionVersion,
       FindNearestImpression, DeactivateMemoryImpression, SaveMemoryImpression,
       StatementErr, tables
<1>4. ASSUME NEW s \in Sources, Enqueue(s) PROVE UNCHANGED facts
  BY <1>4 DEF Enqueue, tables
<1>5. ASSUME NEW G \in SUBSET Groups, FlushExpired(G) PROVE UNCHANGED facts
  BY <1>5 DEF FlushExpired, tables
<1>6. Crash => UNCHANGED facts
  BY DEF Crash, tables
<1>7. UNCHANGED vars => UNCHANGED facts
  BY DEF vars, tables
<1> QED  BY <1>1, <1>2, <1>3, <1>4, <1>5, <1>6, <1>7 DEF Next

\* A fact is remembered at most once, whatever the batches interleave to.
THEOREM FactsAreUnique == Spec => []OneActiveFact
<1>1. Init => OneActiveFact
  BY DEF Init, OneActiveFact
<1>2. TypeOK /\ JobsOK /\ OneActiveFact /\ [Next]_vars => OneActiveFact'
  BY FactsStep
<1> QED  BY <1>1, <1>2, WellFormed, PTL DEF Spec

-----------------------------------------------------------------------------
(* The impressions of a person do not vanish. *)

Owner(row) == <<row.group, row.user>>
PersonOf(job) == <<job.group, job.todo[1].user>>
Replaces(job, p) == job.at = "insert" /\ job.near # 0 /\ PersonOf(job) = p

\* ImpressionsKept with the reason: whoever is at the insert has deactivated a row.
Held(p) ==
    \/ \E i \in DOMAIN impressions : impressions[i].active /\ Owner(impressions[i]) = p
    \/ \E w \in Workers : Replaces(worker[w], p)
    \/ p \in forgotten
AllHeld == \A k \in DOMAIN impressions : Held(Owner(impressions[k]))

LEMMA AllHeldSuffices == AllHeld => ImpressionsKept
BY DEF AllHeld, Held, Owner, Replaces, PersonOf, ImpressionsKept, Person, This

LEMMA EmptiedIs ==
    ASSUME NEW w, NEW p, Replaces(worker[w], p)
    PROVE  p \in Emptied(w)
BY DEF Replaces, PersonOf, Emptied, Person, This

\* A step that leaves the rows alone, and each replacing worker where it is or accounted for.
LEMMA HeldStays ==
    ASSUME AllHeld, UNCHANGED impressions, forgotten \subseteq forgotten',
           \A w \in Workers, p \in Groups \X People :
               Replaces(worker[w], p) => Replaces(worker'[w], p) \/ p \in forgotten',
           TypeOK
    PROVE  AllHeld'
<1>1. SUFFICES ASSUME NEW k \in DOMAIN impressions PROVE Held(Owner(impressions[k]))'
  BY DEF AllHeld
<1> DEFINE p == Owner(impressions[k])
<1>2. p \in Groups \X People
  <2>1. impressions[k] \in ImpressionRows
    BY DEF TypeOK
  <2> QED  BY <2>1 DEF ImpressionRows, Owner, People
<1>3. Held(p)
  BY DEF AllHeld
<1>4. p' = p
  OBVIOUS
<1> HIDE DEF p
<1>5. CASE \E i \in DOMAIN impressions : impressions[i].active /\ Owner(impressions[i]) = p
  BY <1>4, <1>5 DEF Held, Owner, p
<1>6. CASE \E w \in Workers : Replaces(worker[w], p)
  <2>1. \/ \E w \in Workers : Replaces(worker'[w], p)
        \/ p \in forgotten'
    BY <1>2, <1>6
  <2>2. \/ \E w \in Workers : Replaces(worker'[w], p')
        \/ p' \in forgotten'
    BY <1>4, <2>1
  <2> QED  BY <2>2 DEF Held, p, Replaces, PersonOf
<1>7. CASE p \in forgotten
  BY <1>4, <1>7 DEF Held, p
<1> QED  BY <1>3, <1>5, <1>6, <1>7 DEF Held

\* The steps of a worker that is not at the insert and does not write the rows.
LEMMA QuietStepHeld ==
    ASSUME TypeOK, AllHeld, NEW w \in Workers, worker[w].at # "insert",
           UNCHANGED <<impressions, forgotten>>,
           \A o \in Workers : o # w => worker'[o] = worker[o]
    PROVE  AllHeld'
<1>1. \A o \in Workers, p \in Groups \X People :
          Replaces(worker[o], p) => Replaces(worker'[o], p)
  BY DEF Replaces
<1> QED  BY <1>1, HeldStays

LEMMA DeactivateHeld ==
    ASSUME TypeOK, JobsOK, AllHeld, NEW w \in Workers, DeactivateMemoryImpression(w)
    PROVE  AllHeld'
<1> DEFINE n == worker[w].near
           q == Owner(impressions[n])
<1>1. /\ n \in DOMAIN impressions /\ n # 0 /\ worker[w].at = "deactivate"
      /\ impressions[n].group = worker[w].group /\ impressions[n].user = worker[w].todo[1].user
  BY DEF DeactivateMemoryImpression, JobsOK, GoodJob, TypeOK
<1>2. /\ worker'[w] = [worker[w] EXCEPT !.at = "insert"]
      /\ \A o \in Workers : o # w => worker'[o] = worker[o]
  BY DEF DeactivateMemoryImpression, Goto, TypeOK
<1>3. Replaces(worker'[w], q)
  <2>1. worker[w] \in Jobs
    BY DEF TypeOK
  <2>2. /\ worker'[w].at = "insert" /\ worker'[w].near = n
        /\ worker'[w].group = worker[w].group /\ worker'[w].todo = worker[w].todo
    BY <1>2, <2>1 DEF Jobs
  <2> QED  BY <1>1, <2>2 DEF Replaces, PersonOf, Owner
<1>4. /\ DOMAIN impressions' = DOMAIN impressions
      /\ \A k \in DOMAIN impressions : k # n => impressions'[k] = impressions[k]
      /\ \A k \in DOMAIN impressions : Owner(impressions'[k]) = Owner(impressions[k])
  BY DeactivateRows DEF Owner
<1>5. SUFFICES ASSUME NEW k \in DOMAIN impressions
               PROVE  \/ \E i \in DOMAIN impressions' :
                             impressions'[i].active /\ Owner(impressions'[i]) = Owner(impressions[k])
                      \/ \E o \in Workers : Replaces(worker'[o], Owner(impressions[k]))
                      \/ Owner(impressions[k]) \in forgotten'
  <2>1. \A k \in DOMAIN impressions' : Owner(impressions'[k]) = Owner(impressions[k])
    BY <1>4
  <2> QED  BY <1>4, <2>1 DEF AllHeld, Held, Owner, Replaces, PersonOf
<1>6. CASE Owner(impressions[k]) = q
  BY <1>3, <1>6
<1>7. CASE Owner(impressions[k]) # q
  <2>1. Held(Owner(impressions[k]))
    BY DEF AllHeld
  <2>2. CASE \E i \in DOMAIN impressions :
                 impressions[i].active /\ Owner(impressions[i]) = Owner(impressions[k])
    <3>1. PICK i \in DOMAIN impressions :
                 impressions[i].active /\ Owner(impressions[i]) = Owner(impressions[k])
      BY <2>2
    <3>2. i # n
      BY <1>7, <3>1
    <3>3. impressions'[i] = impressions[i]
      BY <1>4, <3>2
    <3> QED  BY <1>4, <3>1, <3>3
  <2>3. CASE \E o \in Workers : Replaces(worker[o], Owner(impressions[k]))
    <3>1. PICK o \in Workers : Replaces(worker[o], Owner(impressions[k]))
      BY <2>3
    <3>2. o # w
      BY <1>1, <3>1 DEF Replaces
    <3> QED  BY <1>2, <3>1, <3>2
  <2>4. CASE Owner(impressions[k]) \in forgotten
    BY <2>4 DEF DeactivateMemoryImpression
  <2> QED  BY <2>1, <2>2, <2>3, <2>4 DEF Held
<1> QED  BY <1>6, <1>7

LEMMA SaveImpressionHeld ==
    ASSUME TypeOK, JobsOK, AllHeld, NEW w \in Workers, SaveMemoryImpression(w)
    PROVE  AllHeld'
<1> DEFINE n == Len(impressions) + 1
<1>1. PICK row \in ImpressionRows :
               /\ row.group = worker[w].group /\ row.user = This(w).user /\ row.active = TRUE
               /\ DOMAIN impressions' = 1..n /\ impressions'[n] = row
               /\ \A k \in DOMAIN impressions : impressions'[k] = impressions[k]
  BY InsertRow
<1>2. /\ DOMAIN impressions \subseteq DOMAIN impressions' /\ n \in DOMAIN impressions'
      /\ \A k \in DOMAIN impressions' : k \in DOMAIN impressions \/ k = n
  <2>1. DOMAIN impressions = 1..Len(impressions) /\ Len(impressions) \in Nat
    BY DEF TypeOK
  <2> QED  BY <1>1, <2>1
<1>3. \A o \in Workers : o # w => worker'[o] = worker[o]
  BY DEF SaveMemoryImpression, Pass, TypeOK
<1>4. Owner(row) = PersonOf(worker[w])
  BY <1>1 DEF Owner, PersonOf, This
<1>5. SUFFICES ASSUME NEW k \in DOMAIN impressions'
               PROVE  \/ \E i \in DOMAIN impressions' :
                             impressions'[i].active /\ Owner(impressions'[i]) = Owner(impressions'[k])
                      \/ \E o \in Workers : Replaces(worker'[o], Owner(impressions'[k]))
                      \/ Owner(impressions'[k]) \in forgotten'
  BY DEF AllHeld, Held, Owner, Replaces, PersonOf
<1>6. CASE k = n
  BY <1>1, <1>2, <1>6
<1>7. CASE k \in DOMAIN impressions
  <2>1. Held(Owner(impressions[k])) /\ impressions'[k] = impressions[k]
    BY <1>1, <1>7 DEF AllHeld
  <2>2. CASE \E i \in DOMAIN impressions :
                 impressions[i].active /\ Owner(impressions[i]) = Owner(impressions[k])
    BY <1>1, <1>2, <2>1, <2>2
  <2>3. CASE \E o \in Workers : Replaces(worker[o], Owner(impressions[k]))
    <3>1. PICK o \in Workers : Replaces(worker[o], Owner(impressions[k]))
      BY <2>3
    <3>2. CASE o = w
      BY <1>1, <1>2, <1>4, <2>1, <3>1, <3>2 DEF Replaces
    <3>3. CASE o # w
      BY <1>3, <2>1, <3>1, <3>3
    <3> QED  BY <3>2, <3>3
  <2>4. CASE Owner(impressions[k]) \in forgotten
    BY <2>1, <2>4 DEF SaveMemoryImpression
  <2> QED  BY <2>1, <2>2, <2>3, <2>4 DEF Held
<1> QED  BY <1>2, <1>6, <1>7

LEMMA StatementErrHeld ==
    ASSUME TypeOK, AllHeld, NEW w \in Workers, StatementErr(w)
    PROVE  AllHeld'
<1>1. \A o \in Workers : o # w => worker'[o] = worker[o]
  BY DEF StatementErr, Pass, TypeOK
<1>2. forgotten' = forgotten \cup Emptied(w) /\ UNCHANGED impressions
  BY DEF StatementErr, tables
<1>3. \A o \in Workers, p \in Groups \X People :
          Replaces(worker[o], p) => Replaces(worker'[o], p) \/ p \in forgotten'
  <2> TAKE o \in Workers, p \in Groups \X People
  <2>1. CASE o = w
    BY <1>2, <2>1, EmptiedIs
  <2>2. CASE o # w
    BY <1>1, <2>2
  <2> QED  BY <2>1, <2>2
<1> QED  BY <1>2, <1>3, HeldStays

LEMMA CrashHeld ==
    ASSUME TypeOK, AllHeld, Crash
    PROVE  AllHeld'
<1>1. forgotten' = forgotten \cup UNION {Emptied(w) : w \in Workers} /\ UNCHANGED impressions
  BY DEF Crash, tables
<1>2. \A o \in Workers, p \in Groups \X People : Replaces(worker[o], p) => p \in forgotten'
  BY <1>1, EmptiedIs
<1> QED  BY <1>1, <1>2, HeldStays

\* Handing out batches does not touch what a worker is doing.
LEMMA HandedOut ==
    ASSUME TypeOK, NEW w \in Workers, NEW B, NEW job,
           job = [worker[w] EXCEPT !.batches = B]
    PROVE  /\ job.at = worker[w].at /\ job.near = worker[w].near /\ job.group = worker[w].group
           /\ job.todo = worker[w].todo /\ job.version = worker[w].version
<1>1. worker[w] \in Jobs
  BY DEF TypeOK
<1> QED  BY <1>1 DEF Jobs

\* Enqueue and FlushExpired give batches to one worker at most, and do nothing else to it.
SameWork ==
    \A w \in Workers :
        /\ worker'[w].at = worker[w].at /\ worker'[w].near = worker[w].near
        /\ worker'[w].group = worker[w].group /\ worker'[w].todo = worker[w].todo
        /\ worker'[w].version = worker[w].version

LEMMA EnqueueSameWork ==
    ASSUME TypeOK, NEW s \in Sources, Enqueue(s)
    PROVE  SameWork
<1>1. CASE UNCHANGED worker
  BY <1>1 DEF SameWork
<1>2. CASE worker' # worker
  <2>1. worker' = [worker EXCEPT ![s] = [@ EXCEPT !.batches =
                      {[group |-> GroupOf[s], items |-> Append(queued[GroupOf[s]], s)]}]]
    BY <1>2 DEF Enqueue
  <2>2. /\ s \in Workers /\ \A w \in Workers : w # s => worker'[w] = worker[w]
        /\ worker'[s] = [worker[s] EXCEPT !.batches =
                      {[group |-> GroupOf[s], items |-> Append(queued[GroupOf[s]], s)]}]
    BY <2>1, Constants DEF TypeOK
  <2>3. /\ worker'[s].at = worker[s].at /\ worker'[s].near = worker[s].near
        /\ worker'[s].group = worker[s].group /\ worker'[s].todo = worker[s].todo
        /\ worker'[s].version = worker[s].version
    BY <2>2, HandedOut
  <2> QED  BY <2>2, <2>3 DEF SameWork
<1> QED  BY <1>1, <1>2

LEMMA FlushExpiredSameWork ==
    ASSUME TypeOK, NEW G \in SUBSET Groups, FlushExpired(G)
    PROVE  SameWork
<1> DEFINE handed == {[group |-> g, items |-> queued[g]] : g \in G}
<1>1. worker' = [worker EXCEPT ![Ticker] = [@ EXCEPT !.batches = handed]]
  BY DEF FlushExpired
<1> HIDE DEF handed
<1>2. /\ Ticker \in Workers /\ \A w \in Workers : w # Ticker => worker'[w] = worker[w]
      /\ worker'[Ticker] = [worker[Ticker] EXCEPT !.batches = handed]
  BY <1>1, Constants DEF TypeOK
<1>3. /\ worker'[Ticker].at = worker[Ticker].at /\ worker'[Ticker].near = worker[Ticker].near
      /\ worker'[Ticker].group = worker[Ticker].group
      /\ worker'[Ticker].todo = worker[Ticker].todo
      /\ worker'[Ticker].version = worker[Ticker].version
  BY <1>2, HandedOut
<1> QED  BY <1>2, <1>3 DEF SameWork

LEMMA SameWorkHeld ==
    ASSUME TypeOK, AllHeld, SameWork, UNCHANGED <<impressions, forgotten>>
    PROVE  AllHeld'
<1>1. \A o \in Workers, p \in Groups \X People :
          Replaces(worker[o], p) => Replaces(worker'[o], p)
  BY DEF SameWork, Replaces, PersonOf
<1> QED  BY <1>1, HeldStays

\* The other steps of a worker.
Looks(w) ==
    \/ BeginBatch(w) \/ Extract(w) \/ Embed(w) \/ EmbedErr(w)
    \/ MemoryFactExistsByHash(w) \/ FindNearestFactMemory(w) \/ SaveMemoryFact(w)
    \/ MemoryImpressionExistsByHash(w) \/ LatestImpressionVersion(w) \/ FindNearestImpression(w)

LEMMA LooksChange ==
    ASSUME TypeOK, NEW w \in Workers, Looks(w)
    PROVE  /\ worker[w].at # "insert" /\ UNCHANGED <<impressions, forgotten, raced>>
           /\ \A o \in Workers : o # w => worker'[o] = worker[o]
<1>1. UNCHANGED <<impressions, forgotten, raced>> /\ worker[w].at # "insert"
  BY DEF Looks, BeginBatch, Extract, Embed, EmbedErr, MemoryFactExistsByHash,
       FindNearestFactMemory, SaveMemoryFact, MemoryImpressionExistsByHash,
       LatestImpressionVersion, FindNearestImpression, tables
<1>2. \E job : worker' = [worker EXCEPT ![w] = job]
  BY DEF Looks, BeginBatch, Extract, Embed, EmbedErr, MemoryFactExistsByHash,
       FindNearestFactMemory, SaveMemoryFact, MemoryImpressionExistsByHash,
       LatestImpressionVersion, FindNearestImpression, Pass, Goto
<1>3. \A o \in Workers : o # w => worker'[o] = worker[o]
  BY <1>2 DEF TypeOK
<1> QED  BY <1>1, <1>3

LEMMA HeldStep ==
    ASSUME TypeOK, JobsOK, AllHeld, [Next]_vars
    PROVE  AllHeld'
<1>1. CASE UNCHANGED vars
  BY <1>1, SameWorkHeld DEF SameWork, vars, tables
<1>2. ASSUME NEW s \in Sources, Enqueue(s) PROVE AllHeld'
  <2>1. UNCHANGED <<impressions, forgotten>>
    BY <1>2 DEF Enqueue, tables
  <2> QED  BY <1>2, <2>1, EnqueueSameWork, SameWorkHeld
<1>3. ASSUME NEW G \in SUBSET Groups, FlushExpired(G) PROVE AllHeld'
  <2>1. UNCHANGED <<impressions, forgotten>>
    BY <1>3 DEF FlushExpired, tables
  <2> QED  BY <1>3, <2>1, FlushExpiredSameWork, SameWorkHeld
<1>4. ASSUME NEW w \in Workers, Looks(w) PROVE AllHeld'
  BY <1>4, LooksChange, QuietStepHeld
<1>5. ASSUME NEW w \in Workers, Step(w) PROVE AllHeld'
  BY <1>4, <1>5, DeactivateHeld, SaveImpressionHeld, StatementErrHeld DEF Step, Looks
<1>6. CASE Crash
  BY <1>6, CrashHeld
<1> QED  BY <1>1, <1>2, <1>3, <1>5, <1>6 DEF Next

\* Whoever the bot had an impression of keeps one, but for a failure or a crash between
\* the two statements.
THEOREM ImpressionsAreKept == Spec => []ImpressionsKept
<1>1. Init => AllHeld
  BY DEF Init, AllHeld
<1>2. TypeOK /\ JobsOK /\ AllHeld /\ [Next]_vars => AllHeld'
  BY HeldStep
<1> QED  BY <1>1, <1>2, WellFormed, AllHeldSuffices, PTL DEF Spec

-----------------------------------------------------------------------------
(* The versions of a person's impressions. *)

SavingAt == {"version", "nearest", "deactivate", "insert"}

\* What a job read is still true of the rows, unless somebody saved at the same time.
FreshJob(job, rows, racers) ==
    job.at \in SavingAt /\ PersonOf(job) \notin racers =>
        \A k \in DOMAIN rows : Owner(rows[k]) = PersonOf(job) =>
            /\ job.at # "version" => rows[k].version <= job.version
            /\ rows[k].active => rows[k].text # job.todo[1].text
AllFresh == \A w \in Workers : FreshJob(worker[w], impressions, raced)

Ordered(rows, racers) ==
    \A i, j \in DOMAIN rows :
        i < j /\ Owner(rows[i]) = Owner(rows[j]) /\ Owner(rows[i]) \notin racers =>
            /\ rows[i].version < rows[j].version
            /\ rows[i].active /\ rows[j].active => rows[i].text # rows[j].text
VersionsInv == AllFresh /\ Ordered(impressions, raced)

LEMMA OrderedIs == Ordered(impressions, raced) => VersionsGrow
BY DEF Ordered, VersionsGrow, Owner

\* The step of one worker that leaves the rows alone.
LEMMA OneJobFresh ==
    ASSUME VersionsInv, NEW w \in Workers, UNCHANGED <<impressions, raced>>,
           \A o \in Workers : o # w => worker'[o] = worker[o],
           FreshJob(worker'[w], impressions, raced)
    PROVE  VersionsInv'
<1>1. \A o \in Workers : FreshJob(worker'[o], impressions, raced)
  BY DEF VersionsInv, AllFresh
<1> QED  BY <1>1 DEF VersionsInv, AllFresh

\* A step after which the worker is not saving an impression.
LEMMA NotSavingFresh ==
    ASSUME VersionsInv, NEW w \in Workers, UNCHANGED <<impressions, raced>>,
           \A o \in Workers : o # w => worker'[o] = worker[o],
           worker'[w].at \notin SavingAt
    PROVE  VersionsInv'
BY OneJobFresh DEF FreshJob

\* Passing ends the saving.
LEMMA PassedIdle ==
    ASSUME TypeOK, JobsOK, NEW w \in Workers, worker[w].at \in Busy, Pass(w)
    PROVE  worker'[w].at \notin SavingAt /\ \A o \in Workers : o # w => worker'[o] = worker[o]
<1>1. worker'[w] = Passed(worker[w]) /\ \A o \in Workers : o # w => worker'[o] = worker[o]
  BY DEF Pass, TypeOK
<1>2. Passed(worker[w]).at \in {"exists", "idle"}
  BY TodoOK, PassedOK
<1> QED  BY <1>1, <1>2 DEF SavingAt

LEMMA SavingBusy == SavingAt \subseteq Busy
BY DEF SavingAt, Busy, Places

LEMMA MovedJob ==
    ASSUME TypeOK, NEW w \in Workers, NEW place, Goto(w, place)
    PROVE  /\ worker'[w].at = place /\ worker'[w].group = worker[w].group
           /\ worker'[w].todo = worker[w].todo /\ worker'[w].version = worker[w].version
           /\ \A o \in Workers : o # w => worker'[o] = worker[o]
<1>1. worker[w] \in Jobs
  BY DEF TypeOK
<1>2. worker'[w] = [worker[w] EXCEPT !.at = place]
      /\ \A o \in Workers : o # w => worker'[o] = worker[o]
  BY DEF Goto, TypeOK
<1> QED  BY <1>1, <1>2 DEF Jobs

LEMMA ExistsFresh ==
    ASSUME TypeOK, JobsOK, VersionsInv, NEW w \in Workers, MemoryImpressionExistsByHash(w)
    PROVE  VersionsInv'
<1>1. UNCHANGED <<impressions, raced>> /\ worker[w].at \in Busy
  BY DEF MemoryImpressionExistsByHash, tables, Busy, Places
<1>2. CASE Pass(w)
  BY <1>1, <1>2, PassedIdle, NotSavingFresh
<1>3. CASE ~Pass(w)
  <2>1. Goto(w, "version")
    BY <1>3 DEF MemoryImpressionExistsByHash
  <2>2. \A k \in DOMAIN impressions : ~(Of(w, impressions[k]) /\ impressions[k].text = This(w).text)
    BY <1>3 DEF MemoryImpressionExistsByHash
  <2>3. /\ worker'[w].at = "version" /\ worker'[w].group = worker[w].group
        /\ worker'[w].todo = worker[w].todo
        /\ \A o \in Workers : o # w => worker'[o] = worker[o]
    BY <2>1, MovedJob
  <2>4. FreshJob(worker'[w], impressions, raced)
    BY <2>2, <2>3 DEF FreshJob, Of, This, Owner, PersonOf
  <2> QED  BY <1>1, <2>3, <2>4, OneJobFresh
<1> QED  BY <1>2, <1>3

LEMMA LatestFresh ==
    ASSUME TypeOK, JobsOK, VersionsInv, NEW w \in Workers, LatestImpressionVersion(w)
    PROVE  VersionsInv'
<1>1. UNCHANGED <<impressions, raced>> /\ worker[w].at = "version" /\ worker[w] \in Jobs
  BY DEF LatestImpressionVersion, tables, TypeOK
<1>2. PICK v \in Versions(Person(w)) \cup {0} :
           /\ \A o \in Versions(Person(w)) : o <= v
           /\ worker' = [worker EXCEPT ![w] = [@ EXCEPT !.at = "nearest", !.version = v]]
  BY DEF LatestImpressionVersion
<1>3. /\ worker'[w] = [worker[w] EXCEPT !.at = "nearest", !.version = v]
      /\ \A o \in Workers : o # w => worker'[o] = worker[o]
  BY <1>2 DEF TypeOK
<1>4. /\ worker'[w].at = "nearest" /\ worker'[w].version = v
      /\ worker'[w].group = worker[w].group /\ worker'[w].todo = worker[w].todo
  BY <1>1, <1>3 DEF Jobs
<1>5. FreshJob(worker[w], impressions, raced)
  BY DEF VersionsInv, AllFresh
<1>6. \A k \in DOMAIN impressions : Owner(impressions[k]) = PersonOf(worker[w]) =>
          impressions[k].version <= v
  BY <1>2 DEF Versions, Owner, PersonOf, Person, This
<1>7. FreshJob(worker'[w], impressions, raced)
  BY <1>1, <1>4, <1>5, <1>6 DEF FreshJob, PersonOf, SavingAt
<1> QED  BY <1>1, <1>3, <1>7, OneJobFresh

LEMMA NearestFresh ==
    ASSUME TypeOK, JobsOK, VersionsInv, NEW w \in Workers, FindNearestImpression(w)
    PROVE  VersionsInv'
<1>1. UNCHANGED <<impressions, raced>> /\ worker[w].at = "nearest" /\ worker[w] \in Jobs
  BY DEF FindNearestImpression, tables, TypeOK
<1>2. /\ worker'[w].at \in {"insert", "deactivate"} /\ worker'[w].group = worker[w].group
      /\ worker'[w].todo = worker[w].todo /\ worker'[w].version = worker[w].version
      /\ \A o \in Workers : o # w => worker'[o] = worker[o]
  <2>1. CASE Goto(w, "insert")
    BY <2>1, MovedJob
  <2>2. ASSUME NEW k \in DOMAIN impressions,
               worker' = [worker EXCEPT ![w] = [@ EXCEPT !.at = "deactivate", !.near = k]]
        PROVE  /\ worker'[w].at \in {"insert", "deactivate"} /\ worker'[w].group = worker[w].group
               /\ worker'[w].todo = worker[w].todo /\ worker'[w].version = worker[w].version
               /\ \A o \in Workers : o # w => worker'[o] = worker[o]
    <3>1. /\ worker'[w] = [worker[w] EXCEPT !.at = "deactivate", !.near = k]
          /\ \A o \in Workers : o # w => worker'[o] = worker[o]
      BY <2>2 DEF TypeOK
    <3> QED  BY <1>1, <3>1 DEF Jobs
  <2> QED  BY <2>1, <2>2 DEF FindNearestImpression
<1>3. FreshJob(worker[w], impressions, raced)
  BY DEF VersionsInv, AllFresh
<1>4. FreshJob(worker'[w], impressions, raced)
  BY <1>1, <1>2, <1>3 DEF FreshJob, PersonOf, SavingAt
<1> QED  BY <1>1, <1>2, <1>4, OneJobFresh

LEMMA DeactivateFresh ==
    ASSUME TypeOK, JobsOK, VersionsInv, NEW w \in Workers, DeactivateMemoryImpression(w)
    PROVE  VersionsInv'
<1>1. /\ DOMAIN impressions' = DOMAIN impressions
      /\ \A k \in DOMAIN impressions :
             /\ Owner(impressions'[k]) = Owner(impressions[k])
             /\ impressions'[k].text = impressions[k].text
             /\ impressions'[k].version = impressions[k].version
             /\ impressions'[k].active => impressions[k].active
  <2>1. \A k \in DOMAIN impressions : impressions'[k].active => impressions[k].active
    BY DeactivateRows
  <2> QED  BY <2>1, DeactivateRows DEF Owner
<1>2. raced' = raced
  BY DEF DeactivateMemoryImpression
<1>3. /\ worker[w].at = "deactivate" /\ worker'[w].at = "insert"
      /\ worker'[w].group = worker[w].group /\ worker'[w].todo = worker[w].todo
      /\ worker'[w].version = worker[w].version
      /\ \A o \in Workers : o # w => worker'[o] = worker[o]
  BY MovedJob DEF DeactivateMemoryImpression
<1>4. ASSUME NEW o \in Workers PROVE FreshJob(worker'[o], impressions', raced')
  <2>1. FreshJob(worker[o], impressions, raced)
    BY DEF VersionsInv, AllFresh
  <2>2. FreshJob(worker'[o], impressions, raced)
    BY <1>3, <2>1 DEF FreshJob, PersonOf, SavingAt
  <2> QED  BY <1>1, <1>2, <2>2 DEF FreshJob
<1>5. Ordered(impressions', raced')
  BY <1>1, <1>2 DEF VersionsInv, Ordered
<1> QED  BY <1>4, <1>5 DEF VersionsInv, AllFresh

LEMMA SaveImpressionFresh ==
    ASSUME TypeOK, JobsOK, VersionsInv, NEW w \in Workers, SaveMemoryImpression(w)
    PROVE  VersionsInv'
<1> DEFINE n == Len(impressions) + 1
           p == PersonOf(worker[w])
<1>1. PICK row \in ImpressionRows :
               /\ row.group = worker[w].group /\ row.user = This(w).user
               /\ row.text = This(w).text /\ row.version = worker[w].version + 1
               /\ DOMAIN impressions' = 1..n /\ impressions'[n] = row
               /\ \A k \in DOMAIN impressions : impressions'[k] = impressions[k]
  BY InsertRow
<1>2. /\ DOMAIN impressions = 1..Len(impressions) /\ Len(impressions) \in Nat
      /\ \A k \in DOMAIN impressions' : k \in DOMAIN impressions \/ k = n
      /\ \A k \in DOMAIN impressions : k < n
  <2>1. DOMAIN impressions = 1..Len(impressions) /\ Len(impressions) \in Nat
    BY DEF TypeOK
  <2> QED  BY <1>1, <2>1
<1>3. Owner(row) = p /\ Person(w) = p
  BY <1>1 DEF Owner, PersonOf, Person, This
<1>4. worker[w].at \in Busy /\ worker[w].at = "insert" /\ Pass(w) /\ worker[w].version \in Nat
  BY DEF SaveMemoryImpression, Busy, Places, TypeOK, Jobs
<1>5. worker'[w].at \notin SavingAt /\ \A o \in Workers : o # w => worker'[o] = worker[o]
  BY <1>4, PassedIdle
<1>6. /\ raced \subseteq raced'
      /\ \A o \in Workers : o # w /\ worker[o].at \in SavingAt /\ PersonOf(worker[o]) = p => p \in raced'
  BY <1>3 DEF SaveMemoryImpression, Saving, SavingAt, Person, PersonOf, This
<1>7. ASSUME NEW o \in Workers PROVE FreshJob(worker'[o], impressions', raced')
  <2>1. CASE o = w
    BY <1>5, <2>1 DEF FreshJob
  <2>2. CASE o # w
    <3>1. worker'[o] = worker[o] /\ FreshJob(worker[o], impressions, raced)
      BY <1>5, <2>2 DEF VersionsInv, AllFresh
    <3>2. CASE worker[o].at \in SavingAt /\ PersonOf(worker[o]) = p
      BY <1>6, <2>2, <3>1, <3>2 DEF FreshJob
    <3>3. CASE ~(worker[o].at \in SavingAt /\ PersonOf(worker[o]) = p)
      <4> SUFFICES ASSUME worker[o].at \in SavingAt, PersonOf(worker[o]) \notin raced',
                          NEW k \in DOMAIN impressions',
                          Owner(impressions'[k]) = PersonOf(worker[o])
                   PROVE  /\ worker[o].at # "version" => impressions'[k].version <= worker[o].version
                          /\ impressions'[k].active => impressions'[k].text # worker[o].todo[1].text
        BY <3>1 DEF FreshJob
      <4>1. k # n
        BY <1>1, <1>3, <3>3
      <4>2. k \in DOMAIN impressions /\ impressions'[k] = impressions[k]
        BY <1>1, <1>2, <4>1
      <4> QED  BY <1>6, <3>1, <4>2 DEF FreshJob
    <3> QED  BY <3>2, <3>3
  <2> QED  BY <2>1, <2>2
<1>8. Ordered(impressions', raced')
  <2> SUFFICES ASSUME NEW i \in DOMAIN impressions', NEW j \in DOMAIN impressions',
                      i < j, Owner(impressions'[i]) = Owner(impressions'[j]),
                      Owner(impressions'[i]) \notin raced'
               PROVE  /\ impressions'[i].version < impressions'[j].version
                      /\ impressions'[i].active /\ impressions'[j].active =>
                             impressions'[i].text # impressions'[j].text
    BY DEF Ordered
  <2>1. i \in DOMAIN impressions /\ impressions'[i] = impressions[i]
        /\ impressions[i] \in ImpressionRows
    <3>1. i \in DOMAIN impressions
      BY <1>2
    <3> QED  BY <1>1, <3>1 DEF TypeOK
  <2>2. CASE j \in DOMAIN impressions
    BY <1>1, <1>6, <2>1, <2>2 DEF VersionsInv, Ordered
  <2>3. CASE j = n
    <3>1. Owner(impressions[i]) = p /\ p \notin raced
      BY <1>1, <1>3, <1>6, <2>1, <2>3
    <3>2. /\ impressions[i].version <= worker[w].version
          /\ impressions[i].active => impressions[i].text # worker[w].todo[1].text
      BY <1>4, <2>1, <3>1 DEF VersionsInv, AllFresh, FreshJob, SavingAt
    <3>3. impressions'[j] = row /\ row.text = worker[w].todo[1].text
      BY <1>1, <2>3 DEF This
    <3>4. impressions[i].version < row.version
      <4>1. impressions[i].version \in Nat
        BY <2>1 DEF ImpressionRows
      <4> QED  BY <1>1, <1>4, <3>2, <4>1
    <3> QED  BY <2>1, <3>2, <3>3, <3>4
  <2> QED  BY <1>2, <2>2, <2>3
<1> QED  BY <1>7, <1>8 DEF VersionsInv, AllFresh

\* The steps that have nothing to do with impressions.
LEMMA OtherFresh ==
    ASSUME TypeOK, JobsOK, VersionsInv, NEW w \in Workers,
           \/ BeginBatch(w) \/ Extract(w) \/ Embed(w) \/ EmbedErr(w)
           \/ MemoryFactExistsByHash(w) \/ FindNearestFactMemory(w) \/ SaveMemoryFact(w)
           \/ StatementErr(w)
    PROVE  VersionsInv'
<1>1. UNCHANGED <<impressions, raced>>
  BY DEF BeginBatch, Extract, Embed, EmbedErr, MemoryFactExistsByHash,
         FindNearestFactMemory, SaveMemoryFact, StatementErr, tables
<1>2. worker[w] \in Jobs
  BY DEF TypeOK
<1>3. CASE Pass(w) /\ worker[w].at \in Busy
  BY <1>1, <1>3, PassedIdle, NotSavingFresh
<1>4. CASE \E place \in Places \ SavingAt : Goto(w, place)
  BY <1>1, <1>4, MovedJob, NotSavingFresh
<1>5. CASE BeginBatch(w) \/ Extract(w) \/ EmbedErr(w)
  <2>1. PICK job : /\ worker' = [worker EXCEPT ![w] = job] /\ job.at \notin SavingAt
    <3>1. CASE BeginBatch(w)
      <4>1. PICK b \in worker[w].batches :
              worker' = [worker EXCEPT ![w] =
               [@ EXCEPT !.at = "extract", !.batches = worker[w].batches \ {b},
                         !.group = b.group, !.user = SenderOf(b.items)]]
        BY <3>1 DEF BeginBatch
      <4>2. [worker[w] EXCEPT !.at = "extract", !.batches = worker[w].batches \ {b},
                         !.group = b.group, !.user = SenderOf(b.items)].at \notin SavingAt
        BY <1>2 DEF Jobs, SavingAt
      <4> QED  BY <4>1, <4>2
    <3>2. CASE Extract(w)
      <4>1. PICK answer \in Answers \cup {<<>>} :
              worker' = [worker EXCEPT ![w] =
               [@ EXCEPT !.at = IF answer = <<>> THEN "idle" ELSE "embed",
                         !.todo = [k \in 1..Len(answer) |-> Attributed(answer[k], worker[w].user)]]]
        BY <3>2 DEF Extract
      <4>2. [worker[w] EXCEPT !.at = IF answer = <<>> THEN "idle" ELSE "embed",
                         !.todo = [k \in 1..Len(answer) |-> Attributed(answer[k], worker[w].user)]].at
               \notin SavingAt
        BY <1>2 DEF Jobs, SavingAt
      <4> QED  BY <4>1, <4>2
    <3>3. CASE EmbedErr(w)
      <4>1. worker' = [worker EXCEPT ![w] = [@ EXCEPT !.at = "idle", !.todo = <<>>]]
        BY <3>3 DEF EmbedErr
      <4>2. [worker[w] EXCEPT !.at = "idle", !.todo = <<>>].at \notin SavingAt
        BY <1>2 DEF Jobs, SavingAt
      <4> QED  BY <4>1, <4>2
    <3> QED  BY <1>5, <3>1, <3>2, <3>3
  <2>2. worker'[w] = job /\ \A o \in Workers : o # w => worker'[o] = worker[o]
    BY <2>1 DEF TypeOK
  <2> QED  BY <1>1, <2>1, <2>2, NotSavingFresh
<1>6. CASE Embed(w)
  <2>1. Goto(w, "exists") /\ "exists" \in Places \ SavingAt
    BY <1>6 DEF Embed, Goto, Places, SavingAt
  <2> QED  BY <1>4, <2>1
<1>7. CASE MemoryFactExistsByHash(w) \/ FindNearestFactMemory(w) \/ SaveMemoryFact(w) \/ StatementErr(w)
  <2>1. \/ Pass(w) \/ Goto(w, "factNearest") \/ Goto(w, "factInsert")
    BY <1>7 DEF MemoryFactExistsByHash, FindNearestFactMemory, SaveMemoryFact, StatementErr
  <2>2. worker[w].at \in Busy
    BY <1>7 DEF MemoryFactExistsByHash, FindNearestFactMemory, SaveMemoryFact, StatementErr,
                Busy, Places
  <2>3. {"factNearest", "factInsert"} \subseteq Places \ SavingAt
    BY DEF Places, SavingAt
  <2> QED  BY <1>3, <1>4, <2>1, <2>2, <2>3
<1> QED  BY <1>5, <1>6, <1>7

LEMMA SameWorkFresh ==
    ASSUME VersionsInv, SameWork, UNCHANGED <<impressions, raced>>
    PROVE  VersionsInv'
<1>1. ASSUME NEW o \in Workers PROVE FreshJob(worker'[o], impressions, raced)
  <2>1. FreshJob(worker[o], impressions, raced)
    BY DEF VersionsInv, AllFresh
  <2> QED  BY <2>1 DEF FreshJob, PersonOf, SameWork
<1> QED  BY <1>1 DEF VersionsInv, AllFresh

LEMMA VersionsStep ==
    ASSUME TypeOK, JobsOK, VersionsInv, [Next]_vars
    PROVE  VersionsInv'
<1>1. CASE UNCHANGED vars
  BY <1>1, SameWorkFresh DEF SameWork, vars, tables
<1>2. ASSUME NEW s \in Sources, Enqueue(s) PROVE VersionsInv'
  <2>1. UNCHANGED <<impressions, raced>>
    BY <1>2 DEF Enqueue, tables
  <2> QED  BY <1>2, <2>1, EnqueueSameWork, SameWorkFresh
<1>3. ASSUME NEW G \in SUBSET Groups, FlushExpired(G) PROVE VersionsInv'
  <2>1. UNCHANGED <<impressions, raced>>
    BY <1>3 DEF FlushExpired, tables
  <2> QED  BY <1>3, <2>1, FlushExpiredSameWork, SameWorkFresh
<1>4. ASSUME NEW w \in Workers, Step(w) PROVE VersionsInv'
  BY <1>4, OtherFresh, ExistsFresh, LatestFresh, NearestFresh, DeactivateFresh,
     SaveImpressionFresh DEF Step
<1>5. CASE Crash
  <2>1. UNCHANGED <<impressions, raced>> /\ \A w \in Workers : worker'[w].at = "idle"
    BY <1>5, IdleOK DEF Crash, tables
  <2> QED  BY <2>1 DEF VersionsInv, AllFresh, FreshJob, SavingAt
<1> QED  BY <1>1, <1>2, <1>3, <1>4, <1>5 DEF Next

\* The versions of a person's impressions count up, and none is there twice, as long as
\* no two batches saved one of that person at once.
THEOREM VersionsAreOrdered == Spec => []VersionsGrow
<1>1. Init => VersionsInv
  BY IdleOK DEF Init, VersionsInv, AllFresh, FreshJob, Ordered, SavingAt
<1>2. TypeOK /\ JobsOK /\ VersionsInv /\ [Next]_vars => VersionsInv'
  BY VersionsStep
<1>3. VersionsInv => VersionsGrow
  BY OrderedIs DEF VersionsInv
<1> QED  BY <1>1, <1>2, <1>3, WellFormed, PTL DEF Spec

=============================================================================
