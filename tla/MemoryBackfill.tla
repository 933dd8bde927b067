--------------------------- MODULE MemoryBackfill ---------------------------
(***************************************************************************)
(* The memory factory: a process of its own that walks through the         *)
(* messages of every group, oldest first, and hands them in chunks to the  *)
(* production of memories (memory_factory.go).  Where it is in each group, *)
(* the cursor, is kept in memory and written to a state file with a rename *)
(* after each change, so that a later run goes on where this one stopped.  *)
(*                                                                         *)
(* The sort key (time, message_id) of a message is a number, and so is the *)
(* time: message k is the k-th that is sent.                               *)
(***************************************************************************)
EXTENDS Integers, FiniteSets

CONSTANTS Groups,
          Limit,     \* memoryBackfillBatchLimit
          Chunk,     \* memoryBatchSize
          MaxClock,  \* bound: messages sent
          Env,       \* what may go wrong, a subset of EnvEvents
          None       \* no state file

\* late     a message is stored some time after it was sent
\* ai       the production of a chunk fails
\* db       a query fails
\* persist  the state file cannot be written
\* crash    the process dies
EnvEvents == {"late", "ai", "db", "persist", "crash"}

ASSUME BackfillAssumption ==
    /\ Limit \in Nat \ {0} /\ Chunk \in Nat \ {0} /\ MaxClock \in Nat
    /\ Env \subseteq EnvEvents

VARIABLES
    clock,      \* messages sent so far
    slow,       \* <<group, message>> not stored at the moment it was sent
    rows,       \* table message, by group
    proc,       \* "down", "prepare", "run"
    mem,        \* memoryBackfillStateStore.state
    disk,       \* state.json
    todo,       \* groups PrepareActiveGroups has still to look at
    worker,     \* each group's goroutine: where it is and the rows it has read
    attempted,  \* messages that went through processMemoryBatch
    produced    \* messages for which it worked

file == <<mem, disk>>
table == <<clock, slow, rows>>
vars == <<table, proc, file, todo, worker, attempted, produced>>

Keys == 1..MaxClock
Workers == [pc : {"off", "pending", "start", "read", "process", "advance", "finish", "ended"},
            batch : SUBSET Keys, left : SUBSET Keys]
\* status "new": the group is not in state.Groups yet.
States == [cursor : [Groups -> 0..MaxClock],
           status : [Groups -> {"new", "pending", "running", "done"}],
           task : {"new", "running", "done"}, endAt : 0..MaxClock]

ASSUME NoneAssumption == None \notin States

Empty == [cursor |-> [g \in Groups |-> 0], status |-> [g \in Groups |-> "new"],
          task |-> "new", endAt |-> 0]
NoWorkers == [g \in Groups |-> [pc |-> "off", batch |-> {}, left |-> {}]]

TypeOK ==
    /\ clock \in 0..MaxClock
    /\ slow \subseteq Groups \X Keys
    /\ rows \in [Groups -> SUBSET Keys]
    /\ proc \in {"down", "prepare", "run"}
    /\ mem \in States
    /\ disk \in States \cup {None}
    /\ todo \subseteq Groups
    /\ worker \in [Groups -> Workers]
    /\ attempted \in [Groups -> SUBSET Keys]
    /\ produced \in [Groups -> SUBSET Keys]

Init ==
    /\ clock = 0 /\ slow = {} /\ rows = [g \in Groups |-> {}]
    /\ proc = "down" /\ mem = Empty /\ disk = None
    /\ todo = {} /\ worker = NoWorkers
    /\ attempted = [g \in Groups |-> {}] /\ produced = [g \in Groups |-> {}]

-----------------------------------------------------------------------------
(* The bot fills the message table meanwhile (Intake). *)

Send(g) ==
    /\ clock < MaxClock
    /\ clock' = clock + 1
    /\ \/ rows' = [rows EXCEPT ![g] = @ \cup {clock + 1}] /\ UNCHANGED slow
       \/ "late" \in Env /\ slow' = slow \cup {<<g, clock + 1>>} /\ UNCHANGED rows
    /\ UNCHANGED <<proc, file, todo, worker, attempted, produced>>

StoreLate(g, k) ==
    /\ <<g, k>> \in slow
    /\ k \notin rows[g]
    /\ rows' = [rows EXCEPT ![g] = @ \cup {k}]
    /\ UNCHANGED <<clock, slow, proc, file, todo, worker, attempted, produced>>

-----------------------------------------------------------------------------
(* The state file. *)

\* persistLocked: the new state is in memory whatever happens to the file.
Persist(new) ==
    /\ mem' = new
    /\ disk' = new \/ ("persist" \in Env /\ disk' = disk)
Saved == disk' = mem'

WithStatus(g, status) == [mem EXCEPT !.status[g] = status]

Exit == proc' = "down" /\ mem' = Empty /\ todo' = {} /\ worker' = NoWorkers

\* HistoricalMessagesBatch, without its limit.
Unread(g) == {k \in rows[g] : mem.cursor[g] < k /\ k <= mem.endAt}

\* newMemoryBackfillStateStore: load the file if there is one, add the groups
\* that have messages, fix the end of the run.  If any of it fails the process
\* ends before it has changed anything.
NewStateStore ==
    /\ proc = "down"
    /\ LET old == IF disk = None THEN Empty ELSE disk IN
         mem' = [old EXCEPT
                   !.status = [g \in Groups |-> IF old.status[g] = "new" /\ rows[g] # {}
                                                THEN "pending" ELSE old.status[g]],
                   !.task = "running", !.endAt = clock]
    /\ disk' = mem'
    /\ proc' = "prepare"
    /\ todo' = {g \in Groups : mem'.status[g] # "new"}
    /\ UNCHANGED <<table, worker, attempted, produced>>

PrepareGroupByStatus(g) ==
    /\ proc = "prepare" /\ g \in todo
    /\ Persist(WithStatus(g, IF mem.status[g] # "done" THEN "pending" ELSE "done"))
    /\ Saved
    /\ worker' = [worker EXCEPT ![g].pc = IF mem.status[g] # "done" THEN "pending" ELSE "off"]
    /\ todo' = todo \ {g}
    /\ UNCHANGED <<table, proc, attempted, produced>>

\* PrepareActiveGroups, one group: it is active if it has a row to read.
PrepareGroup(g) ==
    /\ proc = "prepare" /\ g \in todo
    /\ Persist(WithStatus(g, IF Unread(g) # {} THEN "pending" ELSE "done"))
    /\ Saved
    /\ worker' = [worker EXCEPT ![g].pc = IF Unread(g) # {} THEN "pending" ELSE "off"]
    /\ todo' = todo \ {g}
    /\ UNCHANGED <<table, proc, attempted, produced>>

\* A query or the file fails: the process ends.
PrepareFails ==
    /\ proc = "prepare" /\ todo # {}
    /\ Env \cap {"db", "persist"} # {}
    /\ Exit
    /\ UNCHANGED <<table, disk, attempted, produced>>

\* One goroutine for each active group.
Launch ==
    /\ proc = "prepare" /\ todo = {}
    /\ \E g \in Groups : worker[g].pc = "pending"
    /\ proc' = "run"
    /\ worker' = [g \in Groups |-> IF worker[g].pc = "pending"
                                   THEN [worker[g] EXCEPT !.pc = "start"] ELSE worker[g]]
    /\ UNCHANGED <<table, file, todo, attempted, produced>>

\* MarkTaskDone, when no group was active or all goroutines have returned, for
\* whatever reason; then the process ends.
MarkTaskDone ==
    /\ \/ proc = "prepare" /\ todo = {}
       \/ proc = "run"
    /\ \A g \in Groups : worker[g].pc \in {"off", "ended"}
    /\ disk' = [mem EXCEPT !.task = "done"] \/ ("persist" \in Env /\ disk' = disk)
    /\ Exit
    /\ UNCHANGED <<table, attempted, produced>>

-----------------------------------------------------------------------------
(* The goroutine of a group: runMemoryBackfillGroup.  The minute between two *)
(* ticks is not modelled; an error is followed by the next tick.            *)

At(g, step) == proc = "run" /\ worker[g].pc = step
Goto(g, step) == worker' = [worker EXCEPT ![g].pc = step]

\* If the file cannot be written the goroutine returns at once.
MarkGroupRunning(g) ==
    /\ At(g, "start")
    /\ Persist(WithStatus(g, "running"))
    /\ Goto(g, IF Saved THEN "read" ELSE "ended")
    /\ UNCHANGED <<table, proc, todo, attempted, produced>>

\* The first n rows in S.
Oldest(S, n) == {k \in S : Cardinality({i \in S : i < k}) < n}
Last(S) == CHOOSE k \in S : \A i \in S : i <= k

AdvanceBeyond(g, k) == [WithStatus(g, "running") EXCEPT !.cursor[g] = k + 1]

AdvanceTo(g, k) == [WithStatus(g, "running") EXCEPT !.cursor[g] = k]

ReadBatchAndAdvance(g) ==
    /\ At(g, "read")
    /\ LET batch == Oldest(Unread(g), Limit) IN
       /\ worker' = [worker EXCEPT ![g] = [pc |-> IF batch = {} THEN "finish" ELSE "process",
                                           batch |-> batch, left |-> batch]]
       /\ IF batch = {} THEN UNCHANGED file
          ELSE Persist(AdvanceTo(g, Last(batch)))
    /\ UNCHANGED <<table, proc, todo, attempted, produced>>

ReadBatch(g) ==
    /\ At(g, "read")
    /\ LET batch == Oldest(Unread(g), Limit) IN
       worker' = [worker EXCEPT ![g] = [pc |-> IF batch = {} THEN "finish" ELSE "process",
                                        batch |-> batch, left |-> batch]]
    /\ UNCHANGED <<table, proc, file, todo, attempted, produced>>

\* The query fails; MarkGroupError writes the file and the next tick tries again.
ReadBatchErr(g) ==
    /\ At(g, "read")
    /\ "db" \in Env
    /\ Persist(WithStatus(g, "running"))
    /\ UNCHANGED <<table, proc, todo, worker, attempted, produced>>

\* processMemoryBatch for the next chunk.  It reports no error: a failed chunk
\* is logged and the loop goes on.
ProcessMemoryBatch(g) ==
    LET w == worker[g]
        chunk == Oldest(w.left, Chunk) IN
    /\ At(g, "process")
    /\ attempted' = [attempted EXCEPT ![g] = @ \cup chunk]
    /\ \/ produced' = [produced EXCEPT ![g] = @ \cup chunk]
       \/ "ai" \in Env /\ UNCHANGED produced
    /\ worker' = [worker EXCEPT ![g] = [pc |-> IF chunk = w.left THEN "advance" ELSE "process",
                                        batch |-> w.batch, left |-> w.left \ chunk]]
    /\ UNCHANGED <<table, proc, file, todo>>

AdvanceInMemory(g) ==
    /\ At(g, "advance")
    /\ mem' = AdvanceTo(g, Last(worker[g].batch))
    /\ Goto(g, IF Cardinality(worker[g].batch) < Limit THEN "finish" ELSE "read")
    /\ UNCHANGED <<table, proc, disk, todo, attempted, produced>>

AdvanceDoneWhenFull(g) ==
    /\ At(g, "advance")
    /\ Persist(AdvanceTo(g, Last(worker[g].batch)))
    /\ Goto(g, IF Saved /\ Cardinality(worker[g].batch) <= Limit THEN "finish" ELSE "read")
    /\ UNCHANGED <<table, proc, todo, attempted, produced>>

\* AdvanceGroup: the cursor passes the last row of the batch.  A short batch was
\* the last one.  If the file cannot be written the next tick reads on from the
\* cursor in memory; MarkGroupError may have written the file by then.
AdvanceGroup(g) ==
    /\ At(g, "advance")
    /\ Persist(AdvanceTo(g, Last(worker[g].batch)))
    /\ \/ Saved /\ Goto(g, IF Cardinality(worker[g].batch) < Limit THEN "finish" ELSE "read")
       \/ "persist" \in Env /\ Goto(g, "read")
    /\ UNCHANGED <<table, proc, todo, attempted, produced>>

\* MarkGroupDone; an error is logged.
MarkGroupDone(g) ==
    /\ At(g, "finish")
    /\ Persist(WithStatus(g, "done"))
    /\ Goto(g, "ended")
    /\ UNCHANGED <<table, proc, todo, attempted, produced>>

-----------------------------------------------------------------------------
Crash ==
    /\ "crash" \in Env
    /\ proc # "down"
    /\ Exit
    /\ UNCHANGED <<table, disk, attempted, produced>>

Worker(g) ==
    \/ MarkGroupRunning(g) \/ ReadBatch(g) \/ ProcessMemoryBatch(g)
    \/ AdvanceGroup(g) \/ MarkGroupDone(g)

Next ==
    \/ \E g \in Groups : Send(g) \/ PrepareGroup(g) \/ Worker(g) \/ ReadBatchErr(g)
    \/ \E g \in Groups, k \in Keys : StoreLate(g, k)
    \/ NewStateStore \/ PrepareFails \/ Launch \/ MarkTaskDone \/ Crash

Spec == Init /\ [][Next]_vars

\* Goroutines are scheduled, and somebody runs the factory again (run.sh).
Fairness ==
    /\ WF_vars(NewStateStore) /\ WF_vars(Launch) /\ WF_vars(MarkTaskDone)
    /\ \A g \in Groups : WF_vars(PrepareGroup(g)) /\ WF_vars(Worker(g))

FairSpec == Spec /\ Fairness

-----------------------------------------------------------------------------
(* Properties. *)

Cursor(g) == IF disk = None THEN 0 ELSE disk.cursor[g]

Punctual(g) == {k \in rows[g] : <<g, k>> \notin slow}

\* A group is marked done only when nothing is left to read up to the end of the
\* run: a batch shorter than the limit really was the last
\* (memory_factory.go:139, :157).
DoneMeansCaughtUp ==
    proc = "run" => \A g \in Groups : mem.status[g] = "done" => Unread(g) \cap Punctual(g) = {}

\* While the file can be written and nothing is stored late, a restart processes
\* at most one batch of a group again (memory_factory.go:146-155).
RepeatsOneBatch ==
    Env \cap {"persist", "late"} = {} =>
        \A g \in Groups : Cardinality({k \in attempted[g] : k > Cursor(g)}) <= Limit

\* "When the current batch fails, the cursor is not advanced"
\* (MEMORY_BACKFILL_PRODUCER_DESIGN.md:466).
FailedBatchKept ==
    \A g \in Groups : \A k \in rows[g] : k <= Cursor(g) => k \in produced[g]

\* Every message that is stored is processed in the end, by this run or a later
\* one, unless the process keeps dying (memory_factory.go:98-161, :285).
EverythingAttempted ==
    \/ []<><<Crash>>_vars
    \/ \A g \in Groups : \A k \in Keys : k \in rows[g] ~> k \in attempted[g]

-----------------------------------------------------------------------------
\* What the factory promises of the messages stored when they are sent, through
\* crashes, lost writes and failed queries: see BackfillConsumer.
Consumer == INSTANCE BackfillConsumer
              WITH log <- [g \in Groups |-> Punctual(g)],
                   consumed <- [g \in Groups |-> attempted[g] \cap Punctual(g)],
                   committed <- [g \in Groups |-> Cursor(g)]
ConsumerSpec == Consumer!Spec
=============================================================================
