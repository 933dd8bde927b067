------------------------ MODULE MemoryBackfill_proofs ------------------------
(* Machine-checked facts about MemoryBackfill, for all constants. *)
EXTENDS MemoryBackfill, FiniteSetTheorems, WellFoundedInduction, TLAPS

-----------------------------------------------------------------------------
(* Sets of message numbers. *)

\* There is no infinite descent among the numbers.
LEMMA Descent ==
    \E R : IsWellFoundedOn(R, Nat) /\ \A x, y \in Nat : x < y => <<x, y>> \in R
<1>1. \A x, y \in Nat : x < y => <<x, y>> \in OpToRel(<, Nat)
  BY DEF OpToRel
<1> QED  BY <1>1, NatLessThanWellFounded

\* A set of numbers that is not empty has a least element.
LEMMA LeastExists ==
    ASSUME NEW S \in SUBSET Nat, S # {}
    PROVE  \E k \in S : \A i \in S : k <= i
<1>1. PICK R : IsWellFoundedOn(R, Nat) /\ \A x, y \in Nat : x < y => <<x, y>> \in R
  BY Descent
<1>2. PICK x \in S : \A y \in S : ~ (<<y, x>> \in R)
  <2>1. IsWellFoundedOn(R, Nat)
    BY <1>1
  <2> QED  BY <2>1, WFMin
<1>3. \A y \in S : x <= y
  <2> TAKE y \in S
  <2>1. ~ (y < x)
    BY <1>1, <1>2
  <2>2. x \in Nat /\ y \in Nat
    OBVIOUS
  <2> QED  BY <2>1, <2>2, SMT
<1> QED  BY <1>3

\* A set of message numbers that is not empty has a greatest element.
LEMMA LastExists ==
    ASSUME NEW S \in SUBSET Keys, S # {}
    PROVE  Last(S) \in S /\ \A i \in S : i <= Last(S)
<1>1. MaxClock \in Nat
  BY BackfillAssumption
<1> DEFINE T == {MaxClock - k : k \in S}
<1>2. T \in SUBSET Nat /\ T # {}
  <2>1. \A k \in S : MaxClock - k \in Nat
    BY <1>1 DEF Keys
  <2>2. PICK k \in S : TRUE
    OBVIOUS
  <2> QED  BY <2>1, <2>2
<1> HIDE DEF T
<1>3. PICK t \in T : \A i \in T : t <= i
  BY <1>2, LeastExists
<1>4. PICK k \in S : t = MaxClock - k
  BY <1>3 DEF T
<1>5. \A i \in S : i <= k
  <2> TAKE i \in S
  <2>1. t <= MaxClock - i
    BY <1>3 DEF T
  <2>2. i \in Nat /\ k \in Nat
    BY <1>1 DEF Keys
  <2> HIDE <1>3
  <2> QED  BY <1>1, <1>4, <2>1, <2>2
<1> QED  BY <1>5 DEF Last

LEMMA KeysNat == Keys \subseteq Nat /\ \A k \in Keys : 0 < k /\ k <= MaxClock
BY BackfillAssumption DEF Keys

LEMMA KeysFinite ==
    ASSUME NEW S \in SUBSET Keys
    PROVE  IsFiniteSet(S) /\ Cardinality(S) \in Nat
<1>1. IsFiniteSet(Keys)
  BY FS_Interval, BackfillAssumption DEF Keys
<1>2. IsFiniteSet(S)
  BY <1>1, FS_Subset
<1> QED  BY <1>2, FS_CardinalityType

\* Oldest picks from the front.
LEMMA OldestPrefix ==
    ASSUME NEW S \in SUBSET Keys, NEW n \in Nat,
           NEW k \in Oldest(S, n), NEW i \in S, i <= k
    PROVE  i \in Oldest(S, n)
<1> DEFINE Below(x) == {j \in S : j < x}
<1>1. Below(i) \subseteq Below(k) /\ Below(k) \in SUBSET Keys
  <2>1. k \in S
    BY DEF Oldest
  <2>2. S \subseteq Nat
    BY KeysNat
  <2>3. \A j \in S : j < i => j < k
    BY <2>1, <2>2
  <2> QED  BY <2>3
<1>2. Cardinality(Below(i)) <= Cardinality(Below(k))
  BY <1>1, KeysFinite, FS_Subset
<1>3. Cardinality(Below(i)) \in Nat /\ Cardinality(Below(k)) \in Nat
  BY <1>1, KeysFinite
<1>4. Cardinality(Below(k)) < n
  BY DEF Oldest
<1>5. Cardinality(Below(i)) < n
  BY <1>2, <1>3, <1>4
<1> QED  BY <1>5 DEF Oldest

\* A result shorter than asked for is everything there is.
LEMMA OldestShort ==
    ASSUME NEW S \in SUBSET Keys, NEW n \in Nat, Cardinality(Oldest(S, n)) < n
    PROVE  Oldest(S, n) = S
<1> SUFFICES ASSUME S \ Oldest(S, n) # {} PROVE FALSE
  BY DEF Oldest
<1>1. S \ Oldest(S, n) \in SUBSET Nat
  BY KeysNat
<1>2. PICK k \in S \ Oldest(S, n) : \A i \in S \ Oldest(S, n) : k <= i
  BY <1>1, LeastExists
<1> DEFINE Below == {j \in S : j < k}
<1>3. Below \subseteq Oldest(S, n)
  <2>1. S \subseteq Nat
    BY KeysNat
  <2>2. \A i \in S \ Oldest(S, n) : ~ (i < k)
    BY <1>2, <2>1
  <2> QED  BY <2>2
<1>4. Oldest(S, n) \in SUBSET Keys
  BY DEF Oldest
<1>5. Cardinality(Below) <= Cardinality(Oldest(S, n))
  BY <1>3, <1>4, KeysFinite, FS_Subset
<1>6. Cardinality(Below) \in Nat /\ Cardinality(Oldest(S, n)) \in Nat
  BY <1>3, <1>4, KeysFinite
<1>7. Cardinality(Below) < n
  BY <1>5, <1>6
<1> QED  BY <1>2, <1>7 DEF Oldest

\* The result has at most the length asked for.
LEMMA OldestSize ==
    ASSUME NEW S \in SUBSET Keys, NEW n \in Nat
    PROVE  Cardinality(Oldest(S, n)) <= n
<1>1. CASE Oldest(S, n) = {}
  BY <1>1, FS_EmptySet
<1>2. CASE Oldest(S, n) # {}
  <2>1. Oldest(S, n) \in SUBSET Keys
    BY DEF Oldest
  <2> PICK k : k = Last(Oldest(S, n))
    OBVIOUS
  <2>2. k \in Oldest(S, n) /\ \A i \in Oldest(S, n) : i <= k
    BY <1>2, <2>1, LastExists
  <2> DEFINE Below == {j \in S : j < k}
  <2>3. Below \in SUBSET Keys
    OBVIOUS
  <2>4. Oldest(S, n) \ {k} \subseteq Below
    <3>1. Oldest(S, n) \subseteq S /\ Oldest(S, n) \subseteq Nat
      BY <2>1, KeysNat DEF Oldest
    <3>2. \A i \in Oldest(S, n) : i # k => i < k
      BY <2>2, <3>1
    <3> QED  BY <3>1, <3>2
  <2>5. Cardinality(Below) < n /\ Cardinality(Below) \in Nat
    BY <2>2, <2>3, KeysFinite DEF Oldest
  <2>6. Cardinality(Oldest(S, n) \ {k}) <= Cardinality(Below)
    BY <2>3, <2>4, KeysFinite, FS_Subset
  <2>7. Cardinality(Oldest(S, n) \ {k}) = Cardinality(Oldest(S, n)) - 1
    BY <2>1, <2>2, KeysFinite, FS_RemoveElement
  <2>8. Cardinality(Oldest(S, n)) \in Nat
    BY <2>1, KeysFinite
  <2> HIDE DEF Below
  <2> QED  BY <2>5, <2>6, <2>7, <2>8
<1> QED  BY <1>1, <1>2

\* Rows that come behind do not change what is at the front.
LEMMA OldestGrows ==
    ASSUME NEW S \in SUBSET Keys, NEW T \in SUBSET Keys, NEW n \in Nat, S \subseteq T,
           \A i \in T \ S : \A k \in S : k < i
    PROVE  Oldest(S, n) \subseteq Oldest(T, n)
<1> SUFFICES ASSUME NEW k \in Oldest(S, n) PROVE k \in Oldest(T, n)
  OBVIOUS
<1>1. {i \in T : i < k} = {i \in S : i < k}
  <2>1. k \in S /\ T \subseteq Nat
    BY KeysNat DEF Oldest
  <2>2. \A i \in T : i < k => i \in S
    BY <2>1
  <2> QED  BY <2>2
<1> QED  BY <1>1 DEF Oldest

-----------------------------------------------------------------------------
(* The inductive invariants. *)

\* Nothing is stored before it is sent, or processed before it is stored.
TableSound ==
    /\ slow \subseteq Groups \X (1..clock)
    /\ \A g \in Groups : rows[g] \subseteq 1..clock /\ attempted[g] \subseteq rows[g]

\* A cursor lies in the past, and everything punctual up to it was processed.
StateSound(state) ==
    /\ state.endAt <= clock
    /\ \A g \in Groups :
         /\ state.cursor[g] <= clock
         /\ \A k \in Punctual(g) : k <= state.cursor[g] => k \in attempted[g]

\* The file is behind memory or up to date.
FileSound ==
    /\ disk # None => StateSound(disk)
    /\ proc # "down" => disk # None /\ \A g \in Groups : disk.cursor[g] <= mem.cursor[g]

ProcSound ==
    /\ proc = "down" => mem = Empty /\ worker = NoWorkers /\ todo = {}
    /\ proc = "prepare" => \A g \in Groups : worker[g].pc \in {"off", "pending"}
    /\ proc = "run" => todo = {}

\* A batch holds the punctual rows from the cursor on, without a gap, and all
\* there are if it is short; what is not left of it was processed.
BatchSound(g) ==
    LET w == worker[g] IN
    /\ w.batch # {} /\ w.batch \subseteq rows[g] /\ w.left \subseteq w.batch
    /\ \A b \in w.batch :
         /\ mem.cursor[g] < b /\ b <= mem.endAt
         /\ b \notin w.left => b \in attempted[g]
         /\ \A k \in Unread(g) \cap Punctual(g) : k <= b => k \in w.batch
    /\ Cardinality(w.batch) < Limit => Unread(g) \cap Punctual(g) \subseteq w.batch

WorkerSound(g) ==
    /\ worker[g].pc \in {"process", "advance"} => BatchSound(g)
    /\ worker[g].pc = "advance" => worker[g].left = {}
    /\ worker[g].pc = "finish" => Unread(g) \cap Punctual(g) = {}

DoneSound(g) ==
    proc # "down" /\ g \notin todo /\ mem.status[g] = "done" => Unread(g) \cap Punctual(g) = {}

IInv ==
    /\ TypeOK /\ TableSound /\ StateSound(mem) /\ FileSound /\ ProcSound
    /\ \A g \in Groups : WorkerSound(g) /\ DoneSound(g)

\* What was processed beyond the cursor, and what is being processed, is in the
\* next full batch.
Beyond(g) == {k \in rows[g] : Cursor(g) < k}
InNextBatch(g) ==
    /\ attempted[g] \cap Beyond(g) \subseteq Oldest(Beyond(g), Limit)
    /\ worker[g].pc \in {"process", "advance"} =>
         worker[g].batch \subseteq Oldest(Beyond(g), Limit)

\* This holds if the file can be written and nothing is stored late.
Smooth == Env \cap {"persist", "late"} = {}
RepeatSound ==
    /\ slow = {}
    /\ proc # "down" => disk.cursor = mem.cursor
    /\ \A g \in Groups : InNextBatch(g)


-----------------------------------------------------------------------------
(* Type correctness. *)

Statuses == {"new", "pending", "running", "done"}

LEMMA StatusUpdate ==
    ASSUME mem \in States, NEW g \in Groups, NEW status \in Statuses
    PROVE  /\ WithStatus(g, status) \in States
           /\ WithStatus(g, status).cursor = mem.cursor
           /\ WithStatus(g, status).endAt = mem.endAt
           /\ WithStatus(g, status).status = [mem.status EXCEPT ![g] = status]
BY DEF WithStatus, States, Statuses

LEMMA CursorUpdate ==
    ASSUME mem \in States, NEW g \in Groups, NEW k \in 0..MaxClock
    PROVE  /\ AdvanceTo(g, k) \in States
           /\ AdvanceTo(g, k).cursor = [mem.cursor EXCEPT ![g] = k]
           /\ AdvanceTo(g, k).endAt = mem.endAt
           /\ AdvanceTo(g, k).status = [mem.status EXCEPT ![g] = "running"]
<1> PICK w : w = WithStatus(g, "running")
  OBVIOUS
<1>1. w \in States /\ w.cursor = mem.cursor /\ w.endAt = mem.endAt
      /\ w.status = [mem.status EXCEPT ![g] = "running"]
  BY StatusUpdate DEF Statuses
<1>2. AdvanceTo(g, k) = [w EXCEPT !.cursor[g] = k]
  BY DEF AdvanceTo
<1> QED  BY <1>1, <1>2 DEF States

LEMMA EmptyType == Empty \in States /\ NoWorkers \in [Groups -> Workers]
BY BackfillAssumption DEF Empty, States, NoWorkers, Workers, Keys

LEMMA UnreadType ==
    ASSUME TypeOK, NEW g \in Groups
    PROVE  Unread(g) \in SUBSET Keys /\ \A n : Oldest(Unread(g), n) \in SUBSET Keys
BY DEF Unread, TypeOK, Oldest

LEMMA TypeStep == IInv /\ [Next]_vars => TypeOK'
<1> SUFFICES ASSUME IInv, [Next]_vars PROVE TypeOK'
  OBVIOUS
<1> USE DEF Statuses
<1> TypeOK
  BY DEF IInv
<1>1. ASSUME NEW g \in Groups, Send(g) PROVE TypeOK'
  <2>1. clock + 1 \in Keys /\ clock + 1 \in 0..MaxClock
    BY <1>1, BackfillAssumption DEF Send, TypeOK, Keys
  <2> QED  BY <1>1, <2>1 DEF Send, TypeOK, file
<1>2. ASSUME NEW g \in Groups, NEW k \in Keys, StoreLate(g, k) PROVE TypeOK'
  BY <1>2 DEF StoreLate, TypeOK, file
<1>3. CASE NewStateStore
  <2> PICK old : old = IF disk = None THEN Empty ELSE disk
    OBVIOUS
  <2>1. old \in States
    BY EmptyType DEF TypeOK
  <2> PICK st : st = [g \in Groups |-> IF old.status[g] = "new" /\ rows[g] # {}
                                         THEN "pending" ELSE old.status[g]]
    OBVIOUS
  <2>2. st \in [Groups -> {"new", "pending", "running", "done"}]
    BY <2>1 DEF States
  <2>3. mem' = [old EXCEPT !.status = st, !.task = "running", !.endAt = clock]
    BY <1>3 DEF NewStateStore
  <2>4. mem' \in States
    BY <2>1, <2>2, <2>3 DEF States, TypeOK
  <2> QED  BY <1>3, <2>4 DEF NewStateStore, TypeOK, table
<1>4. ASSUME NEW new \in States, Persist(new) PROVE mem' \in States /\ disk' \in States \cup {None}
  BY <1>4 DEF Persist, TypeOK
<1>5. ASSUME NEW g \in Groups, PrepareGroup(g) PROVE TypeOK'
  <2> PICK st \in Statuses : st = IF Unread(g) # {} THEN "pending" ELSE "done"
    BY DEF Statuses
  <2>1. WithStatus(g, st) \in States
    BY StatusUpdate DEF TypeOK
  <2>2. mem' \in States /\ disk' \in States \cup {None}
    BY <1>4, <1>5, <2>1 DEF PrepareGroup
  <2>3. worker' \in [Groups -> Workers]
    BY <1>5 DEF PrepareGroup, TypeOK, Workers
  <2> QED  BY <1>5, <2>2, <2>3 DEF PrepareGroup, TypeOK, table
<1>6. ASSUME Exit, disk' \in States \cup {None}, UNCHANGED <<table, attempted, produced>>
      PROVE TypeOK'
  BY <1>6, EmptyType DEF Exit, TypeOK, table
<1>7. CASE Launch
  <2>1. worker' \in [Groups -> Workers]
    BY <1>7 DEF Launch, TypeOK, Workers
  <2> QED  BY <1>7, <2>1 DEF Launch, TypeOK, table, file
<1>8. CASE MarkTaskDone
  <2>1. [mem EXCEPT !.task = "done"] \in States
    BY DEF TypeOK, States
  <2> QED  BY <1>6, <1>8, <2>1 DEF MarkTaskDone, TypeOK
<1>9. CASE PrepareFails \/ Crash
  BY <1>6, <1>9 DEF PrepareFails, Crash, TypeOK
<1>10. ASSUME NEW g \in Groups, MarkGroupRunning(g) \/ MarkGroupDone(g) \/ ReadBatchErr(g)
       PROVE  TypeOK'
  <2>1. WithStatus(g, "running") \in States /\ WithStatus(g, "done") \in States
    BY StatusUpdate DEF TypeOK, Statuses
  <2>2. mem' \in States /\ disk' \in States \cup {None}
    BY <1>4, <1>10, <2>1 DEF MarkGroupRunning, MarkGroupDone, ReadBatchErr
  <2>3. worker' \in [Groups -> Workers]
    BY <1>10 DEF MarkGroupRunning, MarkGroupDone, ReadBatchErr, Goto, TypeOK, Workers
  <2> QED  BY <1>10, <2>2, <2>3
           DEF MarkGroupRunning, MarkGroupDone, ReadBatchErr, TypeOK, table
<1>11. ASSUME NEW g \in Groups, ReadBatch(g) PROVE TypeOK'
  <2> PICK batch : batch = Oldest(Unread(g), Limit)
    OBVIOUS
  <2>1. batch \in SUBSET Keys
    BY UnreadType
  <2>2. worker' \in [Groups -> Workers]
    BY <1>11, <2>1 DEF ReadBatch, TypeOK, Workers
  <2> QED  BY <1>11, <2>2 DEF ReadBatch, TypeOK, table, file
<1>12. ASSUME NEW g \in Groups, ProcessMemoryBatch(g) PROVE TypeOK'
  <2> PICK chunk : chunk = Oldest(worker[g].left, Chunk)
    OBVIOUS
  <2>1. worker[g] \in Workers
    BY DEF TypeOK
  <2>2. chunk \in SUBSET Keys /\ worker[g].left \ chunk \in SUBSET Keys
    BY <2>1 DEF Oldest, Workers
  <2>4. worker' \in [Groups -> Workers]
    BY <1>12, <2>1, <2>2 DEF ProcessMemoryBatch, TypeOK, Workers
  <2>5. attempted' \in [Groups -> SUBSET Keys] /\ produced' \in [Groups -> SUBSET Keys]
    BY <1>12, <2>2 DEF ProcessMemoryBatch, TypeOK
  <2> QED  BY <1>12, <2>4, <2>5 DEF ProcessMemoryBatch, TypeOK, table, file
<1>13. ASSUME NEW g \in Groups, AdvanceGroup(g) PROVE TypeOK'
  <2> PICK k : k = Last(worker[g].batch)
    OBVIOUS
  <2>1. Persist(AdvanceTo(g, k))
    BY <1>13 DEF AdvanceGroup
  <2>2. worker' \in [Groups -> Workers]
    BY <1>13 DEF AdvanceGroup, Goto, TypeOK, Workers
  <2>3. worker[g].batch \in SUBSET Keys /\ worker[g].batch # {}
    <3>1. worker[g].pc = "advance" /\ WorkerSound(g)
      BY <1>13 DEF AdvanceGroup, At, IInv
    <3>2. worker[g] \in Workers
      BY DEF TypeOK
    <3> QED  BY <3>1, <3>2 DEF WorkerSound, BatchSound, Workers
  <2>4. k \in 0..MaxClock
    <3>1. k \in Keys
      BY <2>3, LastExists
    <3> QED  BY <3>1, BackfillAssumption DEF Keys
  <2>5. mem' \in States /\ disk' \in States \cup {None}
    BY <1>4, <2>1, <2>4, CursorUpdate DEF TypeOK
  <2> QED  BY <1>13, <2>2, <2>5 DEF AdvanceGroup, TypeOK, table
<1>14. CASE UNCHANGED vars
  BY <1>14 DEF vars, TypeOK, table, file
<1> QED
  BY <1>1, <1>2, <1>3, <1>5, <1>7, <1>8, <1>9, <1>10, <1>11, <1>12, <1>13, <1>14
  DEF Next, Worker

-----------------------------------------------------------------------------
(* What a step does to the table, to memory and to the file. *)

\* The chunk that is processed consists of rows.
LEMMA ChunkStored ==
    ASSUME IInv, NEW g \in Groups, ProcessMemoryBatch(g),
           NEW chunk, chunk = Oldest(worker[g].left, Chunk)
    PROVE  /\ BatchSound(g)
           /\ chunk \subseteq worker[g].left
           /\ chunk \subseteq rows[g]
           /\ attempted' = [attempted EXCEPT ![g] = @ \cup chunk]
           /\ worker' = [worker EXCEPT ![g] =
                [pc |-> IF chunk = worker[g].left THEN "advance" ELSE "process",
                 batch |-> worker[g].batch, left |-> worker[g].left \ chunk]]
<1>1. worker[g].pc = "process" /\ WorkerSound(g)
  BY DEF ProcessMemoryBatch, At, IInv
<1>2. BatchSound(g)
  BY <1>1 DEF WorkerSound
<1>3. chunk \subseteq worker[g].left
  BY DEF Oldest
<1> QED  BY <1>2, <1>3 DEF BatchSound, ProcessMemoryBatch

LEMMA TableStep == IInv /\ [Next]_vars => TableSound'
<1> SUFFICES ASSUME IInv, [Next]_vars PROVE TableSound'
  OBVIOUS
<1>0. TypeOK /\ TableSound
  BY DEF IInv
<1>1. ASSUME NEW g \in Groups, Send(g) PROVE TableSound'
  BY <1>0, <1>1, BackfillAssumption DEF Send, TypeOK, TableSound
<1>2. ASSUME NEW g \in Groups, NEW k \in Keys, StoreLate(g, k) PROVE TableSound'
  BY <1>0, <1>2 DEF StoreLate, TypeOK, TableSound
<1>3. ASSUME NEW g \in Groups, ProcessMemoryBatch(g) PROVE TableSound'
  <2> PICK chunk : chunk = Oldest(worker[g].left, Chunk)
    OBVIOUS
  <2>1. chunk \subseteq rows[g] /\ attempted' = [attempted EXCEPT ![g] = @ \cup chunk]
    BY <1>3, ChunkStored
  <2>2. UNCHANGED <<clock, slow, rows>>
    BY <1>3 DEF ProcessMemoryBatch, table
  <2> QED  BY <1>0, <2>1, <2>2 DEF TypeOK, TableSound
<1>4. ASSUME UNCHANGED <<table, attempted>> PROVE TableSound'
  BY <1>0, <1>4 DEF table, TableSound
<1> QED
  BY <1>1, <1>2, <1>3, <1>4 DEF Next, Worker, NewStateStore, PrepareGroup, PrepareFails,
     Launch, MarkTaskDone, MarkGroupRunning, ReadBatch, ReadBatchErr, AdvanceGroup,
     MarkGroupDone, Crash, vars

LEMMA ClockStep ==
    ASSUME IInv, [Next]_vars
    PROVE  clock \in Nat /\ clock' \in Nat /\ clock <= clock'
<1>1. clock \in Nat /\ clock' \in Nat
  BY TypeStep, BackfillAssumption DEF IInv, TypeOK
<1>2. clock' = clock \/ clock' = clock + 1
  BY DEF Next, Worker, Send, StoreLate, NewStateStore, PrepareGroup, PrepareFails, Launch,
     MarkTaskDone, MarkGroupRunning, ReadBatch, ReadBatchErr, ProcessMemoryBatch,
     AdvanceGroup, MarkGroupDone, Crash, vars, table
<1> QED  BY <1>1, <1>2

\* Punctual rows are new when they come, and what was processed stays so.
LEMMA HistoryStep ==
    ASSUME IInv, [Next]_vars, NEW g \in Groups
    PROVE  /\ \A k \in Punctual(g)' : k \in Punctual(g) \/ (k = clock + 1 /\ clock' = clock + 1)
           /\ Punctual(g) \subseteq Punctual(g)'
           /\ attempted[g] \subseteq attempted'[g]
<1> DEFINE Goal == /\ \A k \in Punctual(g)' : k \in Punctual(g)
                                              \/ (k = clock + 1 /\ clock' = clock + 1)
                   /\ Punctual(g) \subseteq Punctual(g)'
                   /\ attempted[g] \subseteq attempted'[g]
<1>0. TypeOK /\ TableSound /\ clock \in Nat
  BY BackfillAssumption DEF IInv, TypeOK
<1>1. ASSUME NEW h \in Groups, Send(h) PROVE Goal
  <2>1. clock + 1 \notin rows[g]
    BY <1>0 DEF TableSound
  <2>2. clock' = clock + 1 /\ attempted' = attempted
    BY <1>1 DEF Send
  <2>3. CASE rows' = [rows EXCEPT ![h] = @ \cup {clock + 1}] /\ slow' = slow
    <3>1. <<g, clock + 1>> \notin slow
      BY <1>0 DEF TableSound
    <3> QED  BY <1>0, <2>2, <2>3, <3>1 DEF Punctual, TypeOK
  <2>4. CASE slow' = slow \cup {<<h, clock + 1>>} /\ rows' = rows
    BY <1>0, <2>1, <2>2, <2>4 DEF Punctual
  <2> QED  BY <1>1, <2>3, <2>4 DEF Send
<1>2. ASSUME NEW h \in Groups, NEW k \in Keys, StoreLate(h, k) PROVE Goal
  BY <1>0, <1>2 DEF StoreLate, TypeOK, Punctual
<1>3. ASSUME NEW h \in Groups, ProcessMemoryBatch(h) PROVE Goal
  <2>1. UNCHANGED <<clock, slow, rows>>
    BY <1>3 DEF ProcessMemoryBatch, table
  <2>2. attempted[g] \subseteq attempted'[g]
    BY <1>0, <1>3 DEF ProcessMemoryBatch, TypeOK
  <2> QED  BY <1>0, <2>1, <2>2 DEF Punctual
<1>4. ASSUME UNCHANGED <<table, attempted>> PROVE Goal
  BY <1>0, <1>4 DEF table, Punctual
<1> QED
  BY <1>1, <1>2, <1>3, <1>4 DEF Next, Worker, NewStateStore, PrepareGroup, PrepareFails,
     Launch, MarkTaskDone, MarkGroupRunning, ReadBatch, ReadBatchErr, AdvanceGroup,
     MarkGroupDone, Crash, vars

\* What is sound stays sound.
LEMMA SoundStays ==
    ASSUME IInv, [Next]_vars, NEW state, state \in States, StateSound(state)
    PROVE  /\ state.endAt <= clock'
           /\ \A g \in Groups :
                /\ state.cursor[g] <= clock'
                /\ \A k \in Punctual(g)' : k <= state.cursor[g] => k \in attempted'[g]
<1>1. clock \in Nat /\ clock' \in Nat /\ clock <= clock' /\ state.endAt \in Nat
  BY ClockStep, BackfillAssumption DEF States
<1>2. state.endAt <= clock'
  BY <1>1 DEF StateSound
<1>3. ASSUME NEW g \in Groups
      PROVE  /\ state.cursor[g] <= clock'
             /\ \A k \in Punctual(g)' : k <= state.cursor[g] => k \in attempted'[g]
  <2>1. state.cursor[g] \in Nat /\ state.cursor[g] <= clock
    BY BackfillAssumption DEF States, StateSound
  <2>2. ASSUME NEW k \in Punctual(g)', k <= state.cursor[g] PROVE k \in attempted'[g]
    <3>1. k \in Punctual(g) \/ k = clock + 1
      BY HistoryStep
    <3>2. k # clock + 1
      BY <1>1, <2>1, <2>2
    <3>3. k \in attempted[g]
      BY <2>2, <3>1, <3>2 DEF StateSound
    <3> QED  BY <3>3, HistoryStep
  <2> QED  BY <1>1, <2>1, <2>2
<1> QED  BY <1>2, <1>3

\* A cursor moves to the end of a batch that was processed.
LEMMA AdvanceFacts ==
    ASSUME IInv, NEW g \in Groups, AdvanceGroup(g), NEW k, k = Last(worker[g].batch)
    PROVE  /\ BatchSound(g) /\ worker[g].batch \in SUBSET Keys
           /\ k \in worker[g].batch /\ \A i \in worker[g].batch : i <= k
           /\ k \in 0..MaxClock /\ k <= clock /\ mem.cursor[g] < k
           /\ mem'.cursor = [mem.cursor EXCEPT ![g] = k]
           /\ mem'.endAt = mem.endAt
           /\ mem'.status = [mem.status EXCEPT ![g] = "running"]
           /\ \A i \in Punctual(g) : i <= k => i \in attempted[g]
<1>0. TypeOK /\ TableSound /\ StateSound(mem)
  BY DEF IInv
<1>1. worker[g].pc = "advance" /\ WorkerSound(g)
  BY DEF AdvanceGroup, At, IInv
<1>2. BatchSound(g) /\ worker[g].left = {} /\ worker[g] \in Workers
  BY <1>0, <1>1 DEF WorkerSound, TypeOK
<1>3. worker[g].batch \in SUBSET Keys /\ worker[g].batch # {}
  BY <1>2 DEF BatchSound, Workers
<1>4. k \in worker[g].batch /\ \A i \in worker[g].batch : i <= k
  BY <1>3, LastExists
<1>5. k \in Keys /\ k \in rows[g]
  BY <1>2, <1>3, <1>4 DEF BatchSound
<1>6. k \in 0..MaxClock /\ k <= clock
  BY <1>0, <1>5, BackfillAssumption DEF Keys, TableSound
<1>7. mem.cursor[g] < k /\ k <= mem.endAt
  BY <1>2, <1>4 DEF BatchSound
<1>8. mem' = AdvanceTo(g, k)
  BY DEF AdvanceGroup, Persist
<1>9. ASSUME NEW i \in Punctual(g), i <= k PROVE i \in attempted[g]
  <2>1. CASE i <= mem.cursor[g]
    BY <1>0, <2>1 DEF StateSound
  <2>2. CASE mem.cursor[g] < i
    <3>1. i \in rows[g] /\ i \in Nat /\ k \in Nat /\ mem.endAt \in Nat
      BY <1>0, <1>5, KeysNat, BackfillAssumption DEF Punctual, TypeOK, States
    <3>2. i <= mem.endAt
      BY <1>7, <1>9, <3>1
    <3>3. i \in Unread(g) \cap Punctual(g)
      BY <2>2, <3>1, <3>2 DEF Unread
    <3>4. i \in worker[g].batch
      BY <1>2, <1>4, <1>9, <3>3 DEF BatchSound
    <3> QED  BY <1>2, <3>4 DEF BatchSound
  <2>3. i \in Nat /\ mem.cursor[g] \in Nat
    BY <1>0, KeysNat, BackfillAssumption DEF Punctual, TypeOK, States
  <2> QED  BY <2>1, <2>2, <2>3
<1> QED
  BY <1>0, <1>2, <1>3, <1>4, <1>6, <1>7, <1>8, <1>9, CursorUpdate DEF TypeOK

\* The state a run starts with.
LEMMA LoadFacts ==
    ASSUME IInv, NewStateStore
    PROVE  /\ disk' = mem' /\ mem'.endAt = clock
           /\ \A g \in Groups : mem'.cursor[g] = Cursor(g)
           /\ \A g \in Groups : g \in todo' \/ mem'.status[g] = "new"
<1>0. TypeOK
  BY DEF IInv
<1> PICK old : old = IF disk = None THEN Empty ELSE disk
  OBVIOUS
<1>1. old \in States
  BY <1>0, EmptyType DEF TypeOK
<1>2. \A g \in Groups : old.cursor[g] = Cursor(g)
  BY DEF Cursor, Empty
<1>3. mem'.cursor = old.cursor /\ mem'.endAt = clock
  BY <1>1 DEF NewStateStore, States
<1>4. \A g \in Groups : g \in todo' \/ mem'.status[g] = "new"
  BY DEF NewStateStore
<1> QED  BY <1>2, <1>3, <1>4 DEF NewStateStore

\* Only the three operations that say so touch a cursor or the end of the run.
LEMMA MemStep ==
    ASSUME IInv, [Next]_vars
    PROVE  \/ mem'.cursor = mem.cursor /\ mem'.endAt = mem.endAt
           \/ Exit
           \/ NewStateStore
           \/ \E g \in Groups : AdvanceGroup(g)
<1>0. mem \in States
  BY DEF IInv, TypeOK
<1> DEFINE Kept == mem'.cursor = mem.cursor /\ mem'.endAt = mem.endAt
<1>1. ASSUME NEW g \in Groups, NEW status \in Statuses, Persist(WithStatus(g, status)) PROVE Kept
  BY <1>0, <1>1, StatusUpdate DEF Persist
<1>2. ASSUME NEW g \in Groups, PrepareGroup(g) PROVE Kept
  <2> PICK status \in Statuses : status = IF Unread(g) # {} THEN "pending" ELSE "done"
    BY DEF Statuses
  <2> QED  BY <1>1, <1>2 DEF PrepareGroup
<1>3. ASSUME NEW g \in Groups, MarkGroupRunning(g) \/ MarkGroupDone(g) \/ ReadBatchErr(g)
      PROVE  Kept
  BY <1>1, <1>3 DEF MarkGroupRunning, MarkGroupDone, ReadBatchErr, Statuses
<1>4. ASSUME UNCHANGED mem PROVE Kept
  BY <1>4
<1> QED
  BY <1>2, <1>3, <1>4 DEF Next, Worker, Send, StoreLate, PrepareFails, Launch, MarkTaskDone,
     ReadBatch, ProcessMemoryBatch, Crash, vars, file

LEMMA MemSound == IInv /\ [Next]_vars => StateSound(mem)'
<1> SUFFICES ASSUME IInv, [Next]_vars PROVE StateSound(mem)'
  OBVIOUS
<1>0. TypeOK /\ TypeOK' /\ StateSound(mem) /\ FileSound
  BY TypeStep DEF IInv
<1>1. ASSUME mem'.cursor = mem.cursor, mem'.endAt = mem.endAt PROVE StateSound(mem)'
  <2> PICK state : state = mem
    OBVIOUS
  <2>1. /\ state.endAt <= clock'
        /\ \A g \in Groups :
             /\ state.cursor[g] <= clock'
             /\ \A k \in Punctual(g)' : k <= state.cursor[g] => k \in attempted'[g]
    BY <1>0, SoundStays DEF TypeOK
  <2> QED  BY <1>1, <2>1 DEF StateSound
<1>2. CASE Exit
  <2>1. mem'.endAt = 0 /\ \A g \in Groups : mem'.cursor[g] = 0
    BY <1>2 DEF Exit, Empty
  <2>2. \A g \in Groups : \A k \in Punctual(g)' : 0 < k /\ k \in Nat
    BY <1>0, KeysNat DEF Punctual, TypeOK
  <2>3. clock' \in Nat
    BY ClockStep
  <2> QED  BY <2>1, <2>2, <2>3 DEF StateSound
<1>3. CASE NewStateStore
  <2>1. UNCHANGED <<clock, slow, rows, attempted>> /\ mem'.endAt = clock
        /\ \A g \in Groups : mem'.cursor[g] = Cursor(g)
    BY <1>3, LoadFacts DEF NewStateStore, table
  <2>2. \A g \in Groups : /\ Cursor(g) <= clock
                          /\ \A k \in Punctual(g) : k <= Cursor(g) => k \in attempted[g]
    <3>1. CASE disk = None
      <4>1. \A g \in Groups : \A k \in Punctual(g) : 0 < k /\ k \in Nat
        BY <1>0, KeysNat DEF Punctual, TypeOK
      <4> QED  BY <3>1, <4>1, ClockStep DEF Cursor
    <3>2. CASE disk # None
      BY <1>0, <3>2 DEF Cursor, FileSound, StateSound
    <3> QED  BY <3>1, <3>2
  <2>3. \A g \in Groups : Punctual(g)' = Punctual(g)
    BY <2>1 DEF Punctual
  <2> QED  BY <2>1, <2>2, <2>3, ClockStep DEF StateSound
<1>4. ASSUME NEW g \in Groups, AdvanceGroup(g) PROVE StateSound(mem)'
  <2> PICK k : k = Last(worker[g].batch)
    OBVIOUS
  <2>1. /\ k <= clock /\ mem'.cursor = [mem.cursor EXCEPT ![g] = k] /\ mem'.endAt = mem.endAt
        /\ \A i \in Punctual(g) : i <= k => i \in attempted[g]
    BY <1>4, AdvanceFacts
  <2>2. UNCHANGED <<clock, slow, rows, attempted>>
    BY <1>4 DEF AdvanceGroup, table
  <2>3. \A h \in Groups : Punctual(h)' = Punctual(h)
    BY <2>2 DEF Punctual
  <2> QED  BY <1>0, <2>1, <2>2, <2>3 DEF StateSound, TypeOK, States
<1> QED  BY <1>1, <1>2, <1>3, <1>4, MemStep

\* Within a run cursors go forward.
LEMMA MemGrows ==
    ASSUME IInv, [Next]_vars, proc # "down", proc' # "down", NEW g \in Groups
    PROVE  mem.cursor[g] <= mem'.cursor[g]
<1>0. mem \in States /\ mem.cursor[g] \in Nat
  BY BackfillAssumption DEF IInv, TypeOK, States
<1>1. CASE mem'.cursor = mem.cursor
  BY <1>0, <1>1
<1>2. ~ Exit /\ ~ NewStateStore
  BY DEF Exit, NewStateStore
<1>3. ASSUME NEW h \in Groups, AdvanceGroup(h) PROVE mem.cursor[g] <= mem'.cursor[g]
  <2> PICK k : k = Last(worker[h].batch)
    OBVIOUS
  <2>1. k \in 0..MaxClock /\ mem.cursor[h] < k /\ mem'.cursor = [mem.cursor EXCEPT ![h] = k]
    BY <1>3, AdvanceFacts
  <2> QED  BY <1>0, <2>1, BackfillAssumption DEF States
<1> QED  BY <1>1, <1>2, <1>3, MemStep

\* The file keeps its contents or takes over those of memory.
LEMMA DiskStep ==
    ASSUME IInv, [Next]_vars
    PROVE  \/ disk' = disk
           \/ disk' = mem' /\ ((proc # "down" /\ proc' # "down") \/ NewStateStore)
           \/ /\ disk' \in States /\ proc # "down" /\ proc' = "down"
              /\ disk'.cursor = mem.cursor /\ disk'.endAt = mem.endAt
<1> DEFINE Goal == \/ disk' = disk
                   \/ disk' = mem' /\ ((proc # "down" /\ proc' # "down") \/ NewStateStore)
                   \/ /\ disk' \in States /\ proc # "down" /\ proc' = "down"
                      /\ disk'.cursor = mem.cursor /\ disk'.endAt = mem.endAt
<1>1. ASSUME NEW new, Persist(new), proc # "down", UNCHANGED proc PROVE Goal
  BY <1>1 DEF Persist
<1>2. ASSUME NEW g \in Groups, PrepareGroup(g) \/ Worker(g) \/ ReadBatchErr(g) PROVE Goal
  BY <1>1, <1>2 DEF PrepareGroup, Worker, MarkGroupRunning, MarkGroupDone, ReadBatchErr,
     ReadBatch, ProcessMemoryBatch, AdvanceGroup, At, file
<1>3. CASE MarkTaskDone
  <2>1. mem \in States
    BY DEF IInv, TypeOK
  <2>2. /\ [mem EXCEPT !.task = "done"] \in States
        /\ [mem EXCEPT !.task = "done"].cursor = mem.cursor
        /\ [mem EXCEPT !.task = "done"].endAt = mem.endAt
    BY <2>1 DEF States
  <2> QED  BY <1>3, <2>2 DEF MarkTaskDone, Exit
<1>4. CASE NewStateStore
  BY <1>4 DEF NewStateStore
<1>5. ASSUME UNCHANGED disk PROVE Goal
  BY <1>5
<1> QED
  BY <1>2, <1>3, <1>4, <1>5 DEF Next, Send, StoreLate, PrepareFails, Launch, Crash, vars, file

LEMMA FileStep == IInv /\ [Next]_vars => FileSound'
<1> SUFFICES ASSUME IInv, [Next]_vars PROVE FileSound'
  OBVIOUS
<1>0. /\ TypeOK /\ TypeOK' /\ StateSound(mem) /\ FileSound /\ StateSound(mem)'
  BY TypeStep, MemSound DEF IInv
<1>1. ASSUME NEW state, state \in States, StateSound(state),
             disk'.cursor = state.cursor, disk'.endAt = state.endAt
      PROVE  StateSound(disk)'
  BY <1>1, SoundStays DEF StateSound
<1>2. disk' # None => StateSound(disk)'
  <2>1. CASE disk' = disk
    <3> SUFFICES ASSUME disk # None PROVE StateSound(disk)'
      BY <2>1
    <3> PICK state : state = disk
      OBVIOUS
    <3>1. state \in States /\ StateSound(state)
      BY <1>0 DEF TypeOK, FileSound
    <3> QED  BY <1>1, <2>1, <3>1
  <2>2. CASE disk' = mem'
    BY <1>0, <2>2 DEF StateSound
  <2>3. CASE disk'.cursor = mem.cursor /\ disk'.endAt = mem.endAt
    <3> PICK state : state = mem
      OBVIOUS
    <3> QED  BY <1>0, <1>1, <2>3 DEF TypeOK
  <2> QED  BY <2>1, <2>2, <2>3, DiskStep
<1>3. ASSUME proc' # "down"
      PROVE  disk' # None /\ \A g \in Groups : disk'.cursor[g] <= mem'.cursor[g]
  <2>1. CASE disk' = mem'
    <3>1. mem' \in States
      BY <1>0 DEF TypeOK
    <3> QED  BY <2>1, <3>1, NoneAssumption, BackfillAssumption DEF States
  <2>2. CASE disk' = disk /\ proc # "down"
    <3>1. disk # None /\ \A g \in Groups : disk.cursor[g] <= mem.cursor[g]
      BY <1>0, <2>2 DEF FileSound
    <3>2. \A g \in Groups : mem.cursor[g] <= mem'.cursor[g]
      BY <1>3, <2>2, MemGrows
    <3>3. disk \in States /\ mem \in States /\ mem' \in States
      BY <1>0, <3>1 DEF TypeOK
    <3>4. \A g \in Groups : /\ disk.cursor[g] \in Nat /\ mem.cursor[g] \in Nat
                            /\ mem'.cursor[g] \in Nat
      BY <3>3, BackfillAssumption DEF States
    <3> QED  BY <2>2, <3>1, <3>2, <3>4
  <2>3. CASE disk' = disk /\ proc = "down"
    <3>1. NewStateStore
      BY <1>3, <2>3 DEF Next, Worker, Send, StoreLate, PrepareGroup, PrepareFails, Launch,
         MarkTaskDone, MarkGroupRunning, ReadBatch, ReadBatchErr, ProcessMemoryBatch,
         AdvanceGroup, MarkGroupDone, Crash, At, Exit, vars
    <3> QED  BY <2>1, <3>1 DEF NewStateStore
  <2> QED  BY <1>3, <2>1, <2>2, <2>3, DiskStep
<1> QED  BY <1>2, <1>3 DEF FileSound

LEMMA ProcStep == IInv /\ [Next]_vars => ProcSound'
<1> SUFFICES ASSUME IInv, [Next]_vars PROVE ProcSound'
  OBVIOUS
<1>0. TypeOK /\ ProcSound
  BY DEF IInv
<1>1. CASE Exit
  BY <1>1 DEF Exit, ProcSound
<1>2. CASE NewStateStore
  BY <1>0, <1>2 DEF NewStateStore, ProcSound, NoWorkers
<1>3. ASSUME NEW g \in Groups, PrepareGroup(g) PROVE ProcSound'
  BY <1>0, <1>3 DEF PrepareGroup, ProcSound, TypeOK, Workers
<1>4. CASE Launch
  BY <1>4 DEF Launch, ProcSound
<1>5. ASSUME NEW g \in Groups, Worker(g) \/ ReadBatchErr(g) PROVE ProcSound'
  <2>1. proc = "run" /\ proc' = proc /\ todo' = todo
    BY <1>5 DEF Worker, ReadBatchErr, MarkGroupRunning, ReadBatch, ProcessMemoryBatch,
       AdvanceGroup, MarkGroupDone, At
  <2> QED  BY <1>0, <2>1 DEF ProcSound
<1>6. ASSUME UNCHANGED <<proc, mem, worker, todo>> PROVE ProcSound'
  BY <1>0, <1>6 DEF ProcSound
<1> QED
  BY <1>1, <1>2, <1>3, <1>4, <1>5, <1>6 DEF Next, Send, StoreLate, PrepareFails,
     MarkTaskDone, Crash, vars, file

-----------------------------------------------------------------------------
(* The goroutines. *)

\* New punctual rows lie beyond the end of the run.
LEMMA UnreadStep ==
    ASSUME IInv, [Next]_vars, NEW g \in Groups,
           mem'.cursor[g] = mem.cursor[g], mem'.endAt = mem.endAt
    PROVE  /\ rows[g] \subseteq rows'[g]
           /\ (Unread(g) \cap Punctual(g))' = Unread(g) \cap Punctual(g)
<1>0. TypeOK /\ StateSound(mem) /\ TypeOK'
  BY TypeStep DEF IInv
<1>1. rows[g] \subseteq rows'[g]
  BY <1>0 DEF TypeOK, Next, Worker, Send, StoreLate, NewStateStore, PrepareGroup, PrepareFails, Launch,
     MarkTaskDone, MarkGroupRunning, ReadBatch, ReadBatchErr, ProcessMemoryBatch,
     AdvanceGroup, MarkGroupDone, Crash, vars, table
<1>2. mem.endAt <= clock /\ mem.endAt \in Nat /\ clock \in Nat
  BY <1>0, ClockStep, BackfillAssumption DEF StateSound, TypeOK, States
<1>3. ASSUME NEW k \in Punctual(g)', k <= mem.endAt PROVE k \in Punctual(g)
  <2>1. k # clock + 1
    BY <1>2, <1>3
  <2> QED  BY <1>3, <2>1, HistoryStep
<1>4. Punctual(g) \subseteq Punctual(g)'
  BY HistoryStep
<1>5. (Unread(g) \cap Punctual(g))' = {k \in Punctual(g)' : mem.cursor[g] < k /\ k <= mem.endAt}
  BY DEF Unread, Punctual
<1>6. Unread(g) \cap Punctual(g) = {k \in Punctual(g) : mem.cursor[g] < k /\ k <= mem.endAt}
  BY DEF Unread, Punctual
<1> QED  BY <1>1, <1>3, <1>4, <1>5, <1>6

LEMMA WorkerKept ==
    ASSUME IInv, [Next]_vars, NEW g \in Groups, worker'[g] = worker[g],
           mem'.cursor[g] = mem.cursor[g], mem'.endAt = mem.endAt
    PROVE  WorkerSound(g)'
<1>0. WorkerSound(g)
  BY DEF IInv
<1>1. /\ rows[g] \subseteq rows'[g] /\ attempted[g] \subseteq attempted'[g]
      /\ (Unread(g) \cap Punctual(g))' = Unread(g) \cap Punctual(g)
  BY UnreadStep, HistoryStep
<1>2. ASSUME BatchSound(g) PROVE BatchSound(g)'
  <2> PICK w : w = worker[g]
    OBVIOUS
  <2> PICK unread : unread = Unread(g) \cap Punctual(g)
    OBVIOUS
  <2>1. worker'[g] = w /\ (Unread(g) \cap Punctual(g))' = unread
    BY <1>1
  <2>2. /\ w.batch # {} /\ w.batch \subseteq rows[g] /\ w.left \subseteq w.batch
        /\ \A b \in w.batch : /\ mem.cursor[g] < b /\ b <= mem.endAt
                              /\ b \notin w.left => b \in attempted[g]
                              /\ \A k \in unread : k <= b => k \in w.batch
        /\ Cardinality(w.batch) < Limit => unread \subseteq w.batch
    BY <1>2 DEF BatchSound
  <2> QED  BY <1>1, <2>1, <2>2 DEF BatchSound
<1> QED  BY <1>0, <1>1, <1>2 DEF WorkerSound

LEMMA WorkerStep ==
    ASSUME IInv, [Next]_vars, NEW g \in Groups
    PROVE  WorkerSound(g)'
<1>0. TypeOK /\ TypeOK' /\ ProcSound /\ WorkerSound(g)
  BY TypeStep DEF IInv
<1>1. ASSUME worker'[g].pc \in {"off", "pending", "start", "read", "ended"} PROVE WorkerSound(g)'
  BY <1>1 DEF WorkerSound
<1>2. ASSUME NEW h \in Groups, h # g, AdvanceGroup(h) PROVE WorkerSound(g)'
  <2> PICK k : k = Last(worker[h].batch)
    OBVIOUS
  <2>1. mem'.cursor[g] = mem.cursor[g] /\ mem'.endAt = mem.endAt
    BY <1>0, <1>2, AdvanceFacts DEF TypeOK, States
  <2>2. worker'[g] = worker[g]
    BY <1>0, <1>2 DEF AdvanceGroup, Goto, TypeOK
  <2> QED  BY <2>1, <2>2, WorkerKept
<1>3. ASSUME AdvanceGroup(g) PROVE WorkerSound(g)'
  <2> PICK k : k = Last(worker[g].batch)
    OBVIOUS
  <2>1. /\ BatchSound(g) /\ k \in worker[g].batch /\ \A i \in worker[g].batch : i <= k
        /\ worker[g].batch \in SUBSET Keys
        /\ mem.cursor[g] < k /\ mem'.cursor[g] = k /\ mem'.endAt = mem.endAt
    BY <1>0, <1>3, AdvanceFacts DEF TypeOK, States
  <2>2. CASE Cardinality(worker[g].batch) < Limit
    <3>1. UNCHANGED <<slow, rows>>
      BY <1>3 DEF AdvanceGroup, table
    <3>2. mem.cursor[g] \in Nat /\ k \in Nat /\ rows[g] \subseteq Nat /\ worker[g].batch \subseteq Nat
      <4>1. rows[g] \subseteq Keys /\ mem.cursor[g] \in Nat
        BY <1>0, BackfillAssumption DEF TypeOK, States
      <4> QED  BY <2>1, <4>1, KeysNat
    <3>3. (Unread(g) \cap Punctual(g))' \subseteq Unread(g) \cap Punctual(g)
      BY <2>1, <3>1, <3>2 DEF Unread, Punctual
    <3>4. Unread(g) \cap Punctual(g) \subseteq worker[g].batch
      BY <2>1, <2>2 DEF BatchSound
    <3>5. \A i \in (Unread(g) \cap Punctual(g))' : k < i
      BY <2>1 DEF Unread
    <3>6. (Unread(g) \cap Punctual(g))' = {}
      BY <2>1, <3>2, <3>3, <3>4, <3>5
    <3>7. worker'[g].pc \in {"finish", "read"}
      BY <1>0, <1>3 DEF AdvanceGroup, Goto, TypeOK, Workers
    <3> QED  BY <3>6, <3>7 DEF WorkerSound
  <2>3. CASE ~ (Cardinality(worker[g].batch) < Limit)
    BY <1>0, <1>1, <1>3, <2>3 DEF AdvanceGroup, Goto, TypeOK, Workers
  <2> QED  BY <2>2, <2>3
<1>4. ASSUME mem'.cursor = mem.cursor, mem'.endAt = mem.endAt, worker'[g] = worker[g]
      PROVE  WorkerSound(g)'
  BY <1>4, WorkerKept
<1>5. ASSUME NEW h \in Groups, PrepareGroup(h) \/ Worker(h) \/ ReadBatchErr(h),
             mem'.cursor = mem.cursor, mem'.endAt = mem.endAt
      PROVE  WorkerSound(g)'
  <2>1. CASE h # g
    <3>1. worker'[g] = worker[g]
      BY <1>0, <1>5, <2>1 DEF TypeOK, PrepareGroup, Worker, MarkGroupRunning, ReadBatch,
         ReadBatchErr, ProcessMemoryBatch, AdvanceGroup, MarkGroupDone, Goto
    <3> QED  BY <1>4, <1>5, <3>1
  <2>2. CASE PrepareGroup(g) \/ MarkGroupRunning(g) \/ MarkGroupDone(g)
    <3>1. worker'[g].pc \in {"off", "pending", "read", "ended"}
      BY <1>0, <2>2 DEF PrepareGroup, MarkGroupRunning, MarkGroupDone, Goto, TypeOK, Workers
    <3> QED  BY <1>1, <3>1
  <2>3. CASE ReadBatchErr(g)
    BY <1>4, <1>5, <2>3 DEF ReadBatchErr
  <2>4. CASE ReadBatch(g)
    <3> PICK batch : batch = Oldest(Unread(g), Limit)
      OBVIOUS
    <3>1. worker'[g] = [pc |-> IF batch = {} THEN "finish" ELSE "process",
                        batch |-> batch, left |-> batch]
      BY <1>0, <2>4 DEF ReadBatch, TypeOK
    <3>2. UNCHANGED <<slow, rows, mem, attempted>>
      BY <2>4 DEF ReadBatch, table, file
    <3>3. Unread(g)' = Unread(g) /\ Punctual(g)' = Punctual(g)
      BY <3>2 DEF Unread, Punctual
    <3>4. Unread(g) \in SUBSET Keys /\ batch \subseteq Unread(g)
      BY <1>0, UnreadType DEF Oldest
    <3>5. Limit \in Nat /\ 0 < Limit
      BY BackfillAssumption
    <3>6. Cardinality(batch) < Limit => batch = Unread(g)
      BY <3>4, <3>5, OldestShort
    <3>7. CASE batch = {}
      <4>1. Unread(g) = {}
        BY <3>5, <3>6, <3>7, FS_EmptySet
      <4> QED  BY <3>1, <3>3, <3>7, <4>1 DEF WorkerSound
    <3>8. CASE batch # {}
      <4>1. \A b \in batch : \A k \in Unread(g) : k <= b => k \in batch
        BY <3>4, <3>5, OldestPrefix
      <4>2. \A b \in batch : b \in rows[g] /\ mem.cursor[g] < b /\ b <= mem.endAt
        BY <3>4 DEF Unread
      <4>3. BatchSound(g)'
        BY <3>1, <3>2, <3>3, <3>6, <3>8, <4>1, <4>2 DEF BatchSound
      <4> QED  BY <3>1, <3>8, <4>3 DEF WorkerSound
    <3> QED  BY <3>7, <3>8
  <2>5. CASE ProcessMemoryBatch(g)
    <3> PICK chunk : chunk = Oldest(worker[g].left, Chunk)
      OBVIOUS
    <3> PICK w : w = worker[g]
      OBVIOUS
    <3>1. /\ BatchSound(g) /\ chunk \subseteq w.left
          /\ attempted'[g] = attempted[g] \cup chunk
          /\ worker'[g] = [pc |-> IF chunk = w.left THEN "advance" ELSE "process",
                           batch |-> w.batch, left |-> w.left \ chunk]
      BY <1>0, <2>5, ChunkStored DEF TypeOK
    <3>2. UNCHANGED <<slow, rows, mem>>
      BY <2>5 DEF ProcessMemoryBatch, table, file
    <3>3. Unread(g)' = Unread(g) /\ Punctual(g)' = Punctual(g)
      BY <3>2 DEF Unread, Punctual
    <3>4. BatchSound(g)'
      BY <3>1, <3>2, <3>3 DEF BatchSound
    <3>5. worker'[g].pc = "advance" => worker'[g].left = {}
      BY <3>1
    <3>6. worker'[g].pc # "finish"
      BY <3>1
    <3> QED  BY <3>4, <3>5, <3>6 DEF WorkerSound
  <2> QED  BY <1>3, <1>5, <2>1, <2>2, <2>3, <2>4, <2>5 DEF Worker
<1>6. CASE Exit
  BY <1>1, <1>6 DEF Exit, NoWorkers
<1>7. CASE NewStateStore
  BY <1>0, <1>1, <1>7 DEF NewStateStore, ProcSound, NoWorkers
<1>8. CASE Launch
  <2>1. worker'[g].pc \in {"off", "start"}
    BY <1>0, <1>8 DEF Launch, ProcSound
  <2> QED  BY <1>1, <2>1
<1> QED
  <2>1. CASE mem'.cursor = mem.cursor /\ mem'.endAt = mem.endAt
    BY <1>4, <1>5, <1>6, <1>7, <1>8, <2>1 DEF Next, Send, StoreLate, PrepareFails,
       MarkTaskDone, Crash, vars, file
  <2>2. CASE \E h \in Groups : AdvanceGroup(h)
    BY <1>2, <1>3, <2>2
  <2> QED  BY <1>6, <1>7, <2>1, <2>2, MemStep

LEMMA DoneStep ==
    ASSUME IInv, [Next]_vars, NEW g \in Groups
    PROVE  DoneSound(g)'
<1>0. TypeOK /\ ProcSound /\ WorkerSound(g) /\ DoneSound(g)
  BY DEF IInv
<1>1. ASSUME proc' = "down" \/ proc # "down", mem'.cursor[g] = mem.cursor[g],
             mem'.endAt = mem.endAt,
             g \in todo' \/ mem'.status[g] # "done"
               \/ (g \notin todo /\ mem'.status[g] = mem.status[g])
      PROVE  DoneSound(g)'
  BY <1>0, <1>1, UnreadStep DEF DoneSound
<1>2. ASSUME mem'.status[g] # "done" PROVE DoneSound(g)'
  BY <1>2 DEF DoneSound
<1>3. ASSUME NEW h \in Groups, AdvanceGroup(h) PROVE DoneSound(g)'
  <2> PICK k : k = Last(worker[h].batch)
    OBVIOUS
  <2>1. /\ mem'.cursor = [mem.cursor EXCEPT ![h] = k] /\ mem'.endAt = mem.endAt
        /\ mem'.status = [mem.status EXCEPT ![h] = "running"]
    BY <1>3, AdvanceFacts
  <2>2. proc # "down" /\ todo' = todo /\ mem \in States
    BY <1>0, <1>3 DEF AdvanceGroup, At, TypeOK
  <2>3. CASE h = g
    BY <1>2, <2>1, <2>2, <2>3 DEF States
  <2>4. CASE h # g
    BY <1>1, <2>1, <2>2, <2>4 DEF States
  <2> QED  BY <2>3, <2>4
<1>4. ASSUME NEW h \in Groups, NEW status \in Statuses, Persist(WithStatus(h, status)),
             proc # "down", todo' \in {todo, todo \ {h}},
             h = g /\ status = "done" => (Unread(g) \cap Punctual(g))' = {}
      PROVE  DoneSound(g)'
  <2>1. /\ mem'.cursor = mem.cursor /\ mem'.endAt = mem.endAt
        /\ mem'.status = [mem.status EXCEPT ![h] = status]
    BY <1>0, <1>4, StatusUpdate DEF Persist, TypeOK
  <2>2. CASE h = g
    BY <1>0, <1>2, <1>4, <2>1, <2>2 DEF DoneSound, TypeOK, States
  <2>3. CASE h # g
    BY <1>0, <1>1, <1>4, <2>1, <2>3 DEF TypeOK, States
  <2> QED  BY <2>2, <2>3
<1>5. ASSUME NEW h \in Groups, PrepareGroup(h) PROVE DoneSound(g)'
  <2> PICK status \in Statuses : status = IF Unread(h) # {} THEN "pending" ELSE "done"
    BY DEF Statuses
  <2>1. Persist(WithStatus(h, status)) /\ proc # "down" /\ todo' = todo \ {h}
    BY <1>5 DEF PrepareGroup
  <2>2. mem'.cursor = mem.cursor /\ mem'.endAt = mem.endAt
    BY <1>0, <2>1, StatusUpdate DEF Persist, TypeOK
  <2>3. h = g /\ status = "done" => (Unread(g) \cap Punctual(g))' = {}
    BY <2>2, UnreadStep
  <2> QED  BY <1>4, <2>1, <2>3
<1>6. ASSUME NEW h \in Groups, MarkGroupRunning(h) \/ ReadBatchErr(h) PROVE DoneSound(g)'
  BY <1>4, <1>6 DEF MarkGroupRunning, ReadBatchErr, At, Statuses
<1>7. ASSUME NEW h \in Groups, MarkGroupDone(h) PROVE DoneSound(g)'
  <2>1. Persist(WithStatus(h, "done")) /\ proc # "down" /\ todo' = todo
        /\ worker[h].pc = "finish"
    BY <1>7 DEF MarkGroupDone, At
  <2>2. mem'.cursor = mem.cursor /\ mem'.endAt = mem.endAt
    BY <1>0, <2>1, StatusUpdate DEF Persist, TypeOK, Statuses
  <2>3. h = g => (Unread(g) \cap Punctual(g))' = {}
    BY <1>0, <2>1, <2>2, UnreadStep DEF WorkerSound
  <2> QED  BY <1>4, <2>1, <2>3 DEF Statuses
<1>8. CASE Exit
  BY <1>8 DEF Exit, DoneSound
<1>9. CASE NewStateStore
  BY <1>9, LoadFacts DEF DoneSound
<1>10. ASSUME UNCHANGED <<mem, todo>>, proc' = "down" \/ proc # "down" PROVE DoneSound(g)'
  BY <1>0, <1>1, <1>10 DEF DoneSound
<1> QED
  BY <1>3, <1>5, <1>6, <1>7, <1>8, <1>9, <1>10 DEF Next, Worker, Send, StoreLate, Launch,
     PrepareFails, ReadBatch, ProcessMemoryBatch, MarkTaskDone, Crash, At, vars, file

LEMMA InvStep == IInv /\ [Next]_vars => IInv'
<1> SUFFICES ASSUME IInv, [Next]_vars PROVE IInv'
  OBVIOUS
<1>1. TypeOK' /\ TableSound' /\ StateSound(mem)' /\ FileSound' /\ ProcSound'
  BY TypeStep, TableStep, MemSound, FileStep, ProcStep
<1>2. \A g \in Groups : WorkerSound(g)' /\ DoneSound(g)'
  BY WorkerStep, DoneStep
<1> QED  BY <1>1, <1>2 DEF IInv

-----------------------------------------------------------------------------
(* The theorems. *)

\* The inductive invariant: cursors, batches and files are sound in every
\* reachable state, whatever fails and whenever the process dies.
THEOREM Invariance == Spec => []IInv
<1>1. Init => IInv
  <2> SUFFICES ASSUME Init PROVE IInv
    OBVIOUS
  <2>1. TypeOK
    BY EmptyType, BackfillAssumption DEF Init, TypeOK
  <2>2. TableSound /\ FileSound /\ ProcSound
    BY DEF Init, TableSound, FileSound, ProcSound
  <2>3. StateSound(mem)
    BY DEF Init, StateSound, Empty, Punctual
  <2>4. \A g \in Groups : WorkerSound(g) /\ DoneSound(g)
    BY DEF Init, WorkerSound, DoneSound, NoWorkers
  <2> QED  BY <2>1, <2>2, <2>3, <2>4 DEF IInv
<1> QED  BY <1>1, InvStep, PTL DEF Spec

\* Every reachable state of the factory is type correct.
THEOREM TypeCorrect == Spec => []TypeOK
BY Invariance, PTL DEF IInv

\* A group marked done has nothing punctual left to read, whatever fails.
THEOREM DoneMeansCaughtUpAlways == Spec => []DoneMeansCaughtUp
<1>1. IInv => DoneMeansCaughtUp
  BY DEF IInv, ProcSound, DoneSound, DoneMeansCaughtUp
<1> QED  BY <1>1, Invariance, PTL

-----------------------------------------------------------------------------
(* MemoryBackfill implements BackfillConsumer. *)

\* The cursor in the file never goes back.
LEMMA CommitGrows ==
    ASSUME IInv, [Next]_vars, NEW g \in Groups
    PROVE  Cursor(g) <= Cursor(g)' /\ Cursor(g)' \in Keys \cup {0}
<1>0. TypeOK /\ TypeOK' /\ FileSound /\ FileSound'
  BY TypeStep, FileStep DEF IInv
<1>1. Cursor(g) \in 0..MaxClock /\ Cursor(g)' \in 0..MaxClock
  BY <1>0, BackfillAssumption DEF Cursor, TypeOK, States
<1>2. Cursor(g)' \in Keys \cup {0} /\ Cursor(g)' \in Nat /\ Cursor(g) \in Nat
  BY <1>1, BackfillAssumption DEF Keys
<1>3. CASE disk' = disk
  BY <1>2, <1>3 DEF Cursor
<1>4. CASE disk' = mem' /\ proc # "down" /\ proc' # "down"
  <2>1. disk # None /\ disk.cursor[g] <= mem.cursor[g] /\ disk' # None
    BY <1>0, <1>4 DEF FileSound
  <2>2. mem.cursor[g] <= mem'.cursor[g]
    BY <1>4, MemGrows
  <2>3. mem.cursor[g] \in Nat
    BY <1>0, BackfillAssumption DEF TypeOK, States
  <2> QED  BY <1>2, <1>4, <2>1, <2>2, <2>3 DEF Cursor
<1>5. CASE disk' = mem' /\ NewStateStore
  <2>1. mem'.cursor[g] = Cursor(g) /\ disk' # None
    BY <1>0, <1>5, LoadFacts, NoneAssumption DEF TypeOK
  <2> QED  BY <1>2, <1>5, <2>1 DEF Cursor
<1>6. CASE disk' \in States /\ proc # "down" /\ disk'.cursor = mem.cursor
  <2>1. disk # None /\ disk.cursor[g] <= mem.cursor[g] /\ disk' # None
    BY <1>0, <1>6, NoneAssumption DEF FileSound
  <2> QED  BY <1>2, <1>6, <2>1 DEF Cursor
<1> QED  BY <1>2, <1>3, <1>4, <1>5, <1>6, DiskStep

LEMMA ConsumerStep == IInv /\ [Next]_vars => [Consumer!Next]_(Consumer!vars)
<1> SUFFICES ASSUME IInv, [Next]_vars PROVE [Consumer!Next]_(Consumer!vars)
  OBVIOUS
<1>0. TypeOK /\ TypeOK' /\ TableSound /\ FileSound /\ FileSound' /\ clock \in Nat
  BY TypeStep, FileStep, ClockStep DEF IInv
<1>1. ASSUME \A g \in Groups : /\ Punctual(g)' = Punctual(g)
                               /\ (attempted[g] \cap Punctual(g))' = attempted[g] \cap Punctual(g)
                               /\ Cursor(g)' = Cursor(g)
      PROVE  [Consumer!Next]_(Consumer!vars)
  BY <1>1 DEF Consumer!vars
<1>2. ASSUME NEW h \in Groups, Send(h) PROVE [Consumer!Next]_(Consumer!vars)
  <2> PICK k : k = clock + 1
    OBVIOUS
  <2>1. k \in Keys
    BY <1>0, <1>2, BackfillAssumption DEF Send, Keys
  <2>2. \A g \in Groups : k \notin rows[g] /\ k \notin attempted[g] /\ <<g, k>> \notin slow
    BY <1>0 DEF TableSound
  <2>3. attempted' = attempted /\ disk' = disk
    BY <1>2 DEF Send, file
  <2>4. \A g \in Groups : Cursor(g)' = Cursor(g)
    BY <2>3 DEF Cursor
  <2>5. CASE rows' = rows /\ slow' = slow \cup {<<h, k>>}
    <3>1. \A g \in Groups : Punctual(g)' = Punctual(g)
      BY <2>2, <2>5 DEF Punctual
    <3> QED  BY <1>1, <2>3, <2>4, <3>1
  <2>6. CASE rows' = [rows EXCEPT ![h] = @ \cup {k}] /\ slow' = slow
    <3>1. Punctual(h)' = Punctual(h) \cup {k} /\ \A g \in Groups : g # h => Punctual(g)' = Punctual(g)
      BY <1>0, <2>2, <2>6 DEF Punctual, TypeOK
    <3>2. \A g \in Groups : (attempted[g] \cap Punctual(g))' = attempted[g] \cap Punctual(g)
      BY <2>2, <2>3, <3>1
    <3>3. k > Cursor(h)
      <4>1. Cursor(h) <= clock /\ Cursor(h) \in Nat
        BY <1>0, BackfillAssumption DEF Cursor, FileSound, StateSound, TypeOK, States
      <4> QED  BY <1>0, <4>1
    <3>4. Consumer!Grow(h, k)
      BY <2>4, <3>1, <3>2, <3>3 DEF Consumer!Grow
    <3> QED  BY <2>1, <3>4 DEF Consumer!Next
  <2> QED  BY <1>2, <2>5, <2>6 DEF Send
<1>3. ASSUME NEW h \in Groups, NEW k \in Keys, StoreLate(h, k)
      PROVE  [Consumer!Next]_(Consumer!vars)
  <2>1. \A g \in Groups : Punctual(g)' = Punctual(g)
    BY <1>0, <1>3 DEF StoreLate, Punctual, TypeOK
  <2>2. attempted' = attempted /\ \A g \in Groups : Cursor(g)' = Cursor(g)
    BY <1>3 DEF StoreLate, Cursor, file
  <2> QED  BY <1>1, <2>1, <2>2
<1>4. ASSUME NEW h \in Groups, ProcessMemoryBatch(h) PROVE [Consumer!Next]_(Consumer!vars)
  <2> PICK chunk : chunk = Oldest(worker[h].left, Chunk)
    OBVIOUS
  <2> PICK S : S = chunk \cap Punctual(h)
    OBVIOUS
  <2>1. attempted' = [attempted EXCEPT ![h] = @ \cup chunk]
    BY <1>4, ChunkStored
  <2>2. UNCHANGED <<slow, rows, disk>>
    BY <1>4 DEF ProcessMemoryBatch, table, file
  <2>3. \A g \in Groups : Punctual(g)' = Punctual(g) /\ Cursor(g)' = Cursor(g)
    BY <2>2 DEF Punctual, Cursor
  <2>4. /\ (attempted[h] \cap Punctual(h))' = (attempted[h] \cap Punctual(h)) \cup S
        /\ \A g \in Groups : g # h =>
             (attempted[g] \cap Punctual(g))' = attempted[g] \cap Punctual(g)
    BY <1>0, <2>1, <2>3 DEF TypeOK
  <2>5. Consumer!Consume(h, S)
    BY <2>3, <2>4 DEF Consumer!Consume
  <2>6. S \subseteq Punctual(h) /\ S \in SUBSET Keys
    BY <1>0 DEF Punctual, TypeOK
  <2> QED  BY <2>5, <2>6 DEF Consumer!Next
<1>5. ASSUME UNCHANGED <<table, attempted>> PROVE [Consumer!Next]_(Consumer!vars)
  <2> PICK new : new = [g \in Groups |-> Cursor(g)']
    OBVIOUS
  <2>1. \A g \in Groups : Punctual(g)' = Punctual(g)
    BY <1>5 DEF table, Punctual
  <2>2. \A g \in Groups : new[g] >= Cursor(g) /\ new[g] \in Keys \cup {0}
    BY CommitGrows
  <2>3. \A g \in Groups : \A k \in Punctual(g) : k <= new[g] => k \in attempted[g]
    <3>1. CASE disk' = None
      <4>1. \A g \in Groups : \A k \in Punctual(g) : k \in Nat /\ 0 < k
        BY <1>0, KeysNat DEF Punctual, TypeOK
      <4> QED  BY <3>1, <4>1 DEF Cursor
    <3>2. CASE disk' # None
      <4>1. \A g \in Groups : new[g] = disk'.cursor[g]
        BY <3>2 DEF Cursor
      <4> QED  BY <1>0, <1>5, <2>1, <3>2, <4>1 DEF FileSound, StateSound
    <3> QED  BY <3>1, <3>2
  <2>4. Consumer!Commit(new)
    BY <1>5, <2>1, <2>2, <2>3 DEF Consumer!Commit
  <2> QED  BY <2>2, <2>4 DEF Consumer!Next
<1> QED
  BY <1>2, <1>3, <1>4, <1>5 DEF Next, Worker, NewStateStore, PrepareGroup, PrepareFails,
     Launch, MarkTaskDone, MarkGroupRunning, ReadBatch, ReadBatchErr, AdvanceGroup,
     MarkGroupDone, Crash, vars

\* In every environment the factory keeps the promise of BackfillConsumer for the
\* messages stored in time: the file's cursor goes forward only, and passes nothing
\* that was not processed.
THEOREM Refinement == Spec => ConsumerSpec
<1>1. Init => Consumer!Init
  BY DEF Init, Consumer!Init, Punctual, Cursor
<1> QED  BY <1>1, ConsumerStep, Invariance, PTL DEF Spec, ConsumerSpec, Consumer!Spec

-----------------------------------------------------------------------------
(* A restart repeats one batch at most. *)

LEMMA BeyondType ==
    ASSUME TypeOK, NEW g \in Groups
    PROVE  Beyond(g) \in SUBSET Keys
BY DEF Beyond, TypeOK

\* While the cursor stays where it is the next batch only grows at its end.
LEMMA NextBatchKept ==
    ASSUME IInv, TypeOK', NEW g \in Groups, InNextBatch(g), Cursor(g)' = Cursor(g),
           rows[g] \subseteq rows'[g], \A k \in rows'[g] \ rows[g] : k = clock + 1,
           \A k \in attempted'[g] : k \in attempted[g] \/ k \in Oldest(Beyond(g), Limit),
           worker'[g].pc \in {"process", "advance"} =>
             worker'[g].batch \subseteq Oldest(Beyond(g), Limit)
    PROVE  InNextBatch(g)'
<1>0. TypeOK /\ TableSound /\ clock \in Nat /\ Limit \in Nat
  BY BackfillAssumption DEF IInv, TypeOK
<1>1. Beyond(g) \in SUBSET Keys /\ Beyond(g)' \in SUBSET Keys
  BY <1>0, BeyondType DEF Beyond, TypeOK
<1>2. Beyond(g) \subseteq Beyond(g)' /\ \A i \in Beyond(g)' \ Beyond(g) : i = clock + 1
  BY DEF Beyond
<1>3. \A k \in Beyond(g) : k < clock + 1
  BY <1>0 DEF Beyond, TableSound
<1> PICK S : S = Beyond(g)
  OBVIOUS
<1> PICK T : T = Beyond(g)'
  OBVIOUS
<1>4. Oldest(S, Limit) \subseteq Oldest(T, Limit)
  BY <1>0, <1>1, <1>2, <1>3, OldestGrows
<1>5. \A i \in attempted'[g] : i \in T => i \in Oldest(T, Limit)
  <2> TAKE i \in attempted'[g]
  <2>1. CASE i \in Oldest(S, Limit)
    BY <1>4, <2>1
  <2>2. CASE i \in attempted[g]
    <3>1. i \in T => i \in S
      BY <1>0, <2>2 DEF Beyond, TableSound
    <3> QED  BY <1>4, <2>2, <3>1 DEF InNextBatch
  <2> QED  BY <2>1, <2>2
<1>6. Oldest(Beyond(g), Limit)' = Oldest(T, Limit)
  BY DEF Oldest
<1> QED  BY <1>4, <1>5, <1>6 DEF InNextBatch

\* The batch that is read is the front of what lies beyond the cursor.
LEMMA BatchIsNext ==
    ASSUME IInv, NEW g \in Groups, Cursor(g) = mem.cursor[g]
    PROVE  Oldest(Unread(g), Limit) \subseteq Oldest(Beyond(g), Limit)
<1>0. TypeOK /\ Limit \in Nat
  BY BackfillAssumption DEF IInv
<1>1. Unread(g) \in SUBSET Keys /\ Beyond(g) \in SUBSET Keys
  BY <1>0, UnreadType, BeyondType
<1>2. Unread(g) \subseteq Beyond(g)
  BY DEF Unread, Beyond
<1>3. \A i \in Beyond(g) \ Unread(g) : \A k \in Unread(g) : k < i
  <2>1. mem.endAt \in Nat /\ Beyond(g) \subseteq Nat
    <3>1. mem.endAt \in Nat
      BY <1>0, BackfillAssumption DEF TypeOK, States
    <3> QED  BY <1>1, <3>1, KeysNat
  <2>2. \A i \in Beyond(g) \ Unread(g) : mem.endAt < i
    BY <2>1 DEF Unread, Beyond
  <2>3. \A k \in Unread(g) : k <= mem.endAt
    BY DEF Unread
  <2> QED  BY <1>2, <2>1, <2>2, <2>3
<1> QED  BY <1>0, <1>1, <1>2, <1>3, OldestGrows

\* When the cursor moves past a batch nothing processed is left beyond it but
\* what is next.
LEMMA NextBatchMoves ==
    ASSUME IInv, NEW g \in Groups, AdvanceGroup(g), InNextBatch(g), TypeOK',
           Cursor(g) = mem.cursor[g], disk' = mem'
    PROVE  InNextBatch(g)'
<1>0. TypeOK /\ Limit \in Nat
  BY BackfillAssumption DEF IInv
<1> PICK k : k = Last(worker[g].batch)
  OBVIOUS
<1>1. k \in 0..MaxClock /\ mem.cursor[g] < k /\ mem'.cursor[g] = k
  BY <1>0, AdvanceFacts DEF TypeOK, States
<1>2. Cursor(g)' = k
  BY <1>0, <1>1, NoneAssumption DEF Cursor, TypeOK
<1>3. UNCHANGED <<rows, attempted>>
  BY DEF AdvanceGroup, table
<1> PICK S : S = Beyond(g)
  OBVIOUS
<1> PICK T : T = Beyond(g)'
  OBVIOUS
<1>4. S \in SUBSET Keys /\ T \in SUBSET Keys /\ mem.cursor[g] \in Nat /\ k \in Nat
  BY <1>0, <1>1, BeyondType, BackfillAssumption DEF Beyond, TypeOK, States
<1>5. S = {i \in rows[g] : mem.cursor[g] < i} /\ T = {i \in rows[g] : k < i}
  BY <1>2, <1>3 DEF Beyond
<1>6. T \subseteq S
  <2>1. rows[g] \in SUBSET Keys
    BY <1>0 DEF TypeOK
  <2>2. \A i \in rows[g] : i \in Nat
    BY <2>1, KeysNat
  <2> QED  BY <1>1, <1>4, <1>5, <2>2
<1>7. ASSUME NEW i \in Oldest(S, Limit), i \in T PROVE i \in Oldest(T, Limit)
  <2> DEFINE A == {j \in S : j < i}
             B == {j \in T : j < i}
  <2>1. A \in SUBSET Keys /\ B \subseteq A
    BY <1>4, <1>6
  <2>2. Cardinality(B) <= Cardinality(A) /\ Cardinality(A) \in Nat /\ Cardinality(B) \in Nat
    BY <2>1, KeysFinite, FS_Subset
  <2>3. Cardinality(A) < Limit
    BY DEF Oldest
  <2>4. Cardinality(B) < Limit
    BY <1>0, <2>2, <2>3
  <2> QED  BY <1>7, <2>4 DEF Oldest
<1>8. \A i \in attempted'[g] : i \in T => i \in Oldest(T, Limit)
  BY <1>3, <1>6, <1>7 DEF InNextBatch
<1>9. Oldest(Beyond(g), Limit)' = Oldest(T, Limit)
  BY DEF Oldest
<1>10. worker'[g].pc \in {"finish", "read"}
  BY <1>0 DEF AdvanceGroup, Goto, TypeOK, Workers
<1> QED  BY <1>8, <1>9, <1>10 DEF InNextBatch

LEMMA SlowStays == IInv /\ RepeatSound /\ Smooth /\ [Next]_vars => slow' = {}
<1> SUFFICES ASSUME IInv, RepeatSound, Smooth, [Next]_vars PROVE slow' = {}
  OBVIOUS
<1>1. "late" \notin Env /\ slow = {}
  BY DEF Smooth, RepeatSound
<1> QED
  BY <1>1 DEF Next, Worker, Send, StoreLate, NewStateStore, PrepareGroup, PrepareFails, Launch,
     MarkTaskDone, MarkGroupRunning, ReadBatch, ReadBatchErr, ProcessMemoryBatch,
     AdvanceGroup, MarkGroupDone, Crash, vars, table

\* Memory and file have the same cursors as long as the process runs.
LEMMA FileStays ==
    ASSUME IInv, RepeatSound, Smooth, [Next]_vars, proc' # "down"
    PROVE  disk'.cursor = mem'.cursor
<1>1. "persist" \notin Env /\ (proc # "down" => disk.cursor = mem.cursor)
  BY DEF Smooth, RepeatSound
<1>2. ASSUME NEW new, Persist(new) PROVE disk'.cursor = mem'.cursor
  BY <1>1, <1>2 DEF Persist
<1>3. ASSUME UNCHANGED file, proc # "down" PROVE disk'.cursor = mem'.cursor
  BY <1>1, <1>3 DEF file
<1>4. CASE NewStateStore
  BY <1>4 DEF NewStateStore
<1>5. ASSUME NEW g \in Groups, Worker(g) \/ ReadBatchErr(g) PROVE disk'.cursor = mem'.cursor
  <2>1. proc # "down"
    BY <1>5 DEF Worker, ReadBatchErr, MarkGroupRunning, ReadBatch, ProcessMemoryBatch,
       AdvanceGroup, MarkGroupDone, At
  <2> QED
    BY <1>2, <1>3, <1>5, <2>1 DEF Worker, ReadBatchErr, MarkGroupRunning, ReadBatch,
       ProcessMemoryBatch, AdvanceGroup, MarkGroupDone
<1>6. ~ Exit
  BY DEF Exit
<1> QED
  BY <1>2, <1>3, <1>4, <1>5, <1>6 DEF Next, Send, StoreLate, PrepareGroup, PrepareFails,
     Launch, MarkTaskDone, Crash, vars, file

LEMMA NextBatchStep ==
    ASSUME IInv, RepeatSound, Smooth, [Next]_vars, NEW g \in Groups
    PROVE  InNextBatch(g)'
<1>0. TypeOK /\ TypeOK' /\ ProcSound /\ InNextBatch(g)
  BY TypeStep DEF IInv, RepeatSound
<1>1. proc # "down" => Cursor(g) = mem.cursor[g]
  BY DEF IInv, FileSound, RepeatSound, Cursor
<1>2. ASSUME Cursor(g)' = Cursor(g), UNCHANGED <<rows, attempted>>,
             worker'[g] = worker[g] \/ worker'[g].pc \notin {"process", "advance"}
      PROVE  InNextBatch(g)'
  BY <1>0, <1>2, NextBatchKept DEF InNextBatch
<1>3. ASSUME NEW h \in Groups, Send(h) PROVE InNextBatch(g)'
  <2>1. Cursor(g)' = Cursor(g)
    BY <1>3 DEF Send, Cursor, file
  <2>2. rows[g] \subseteq rows'[g] /\ \A k \in rows'[g] \ rows[g] : k = clock + 1
    BY <1>0, <1>3 DEF Send, TypeOK
  <2>3. attempted' = attempted /\ worker' = worker
    BY <1>3 DEF Send
  <2> QED  BY <1>0, <2>1, <2>2, <2>3, NextBatchKept DEF InNextBatch
<1>4. ASSUME NEW h \in Groups, NEW k \in Keys, StoreLate(h, k) PROVE InNextBatch(g)'
  BY <1>4 DEF StoreLate, RepeatSound
<1>5. ASSUME NEW h \in Groups, ReadBatch(h) PROVE InNextBatch(g)'
  <2>1. Cursor(g)' = Cursor(g) /\ UNCHANGED <<rows, attempted>>
    BY <1>5 DEF ReadBatch, Cursor, file, table
  <2>2. CASE h # g
    <3>1. worker'[g] = worker[g]
      BY <1>0, <1>5, <2>2 DEF ReadBatch, TypeOK
    <3> QED  BY <1>2, <2>1, <3>1
  <2>3. CASE h = g
    <3> PICK batch : batch = Oldest(Unread(g), Limit)
      OBVIOUS
    <3>1. worker'[g].batch = batch
      BY <1>0, <1>5, <2>3 DEF ReadBatch, TypeOK
    <3>2. batch \subseteq Oldest(Beyond(g), Limit)
      BY <1>1, <1>5, BatchIsNext DEF ReadBatch, At
    <3> QED  BY <1>0, <2>1, <3>1, <3>2, NextBatchKept DEF InNextBatch
  <2> QED  BY <2>2, <2>3
<1>6. ASSUME NEW h \in Groups, ProcessMemoryBatch(h) PROVE InNextBatch(g)'
  <2> PICK chunk : chunk = Oldest(worker[h].left, Chunk)
    OBVIOUS
  <2>1. /\ BatchSound(h) /\ chunk \subseteq worker[h].left
        /\ attempted' = [attempted EXCEPT ![h] = @ \cup chunk]
        /\ worker' = [worker EXCEPT ![h] =
             [pc |-> IF chunk = worker[h].left THEN "advance" ELSE "process",
              batch |-> worker[h].batch, left |-> worker[h].left \ chunk]]
    BY <1>6, ChunkStored
  <2>2. Cursor(g)' = Cursor(g) /\ UNCHANGED rows /\ worker[h].pc = "process"
    BY <1>6 DEF ProcessMemoryBatch, Cursor, file, table, At
  <2>3. CASE h # g
    <3>1. attempted'[g] = attempted[g] /\ worker'[g] = worker[g]
      BY <1>0, <2>1, <2>3 DEF TypeOK
    <3> QED  BY <1>0, <2>2, <3>1, NextBatchKept DEF InNextBatch
  <2>4. CASE h = g
    <3>1. worker[g].batch \subseteq Oldest(Beyond(g), Limit)
      BY <1>0, <2>2, <2>4 DEF InNextBatch
    <3>2. chunk \subseteq worker[g].batch
      BY <2>1, <2>4 DEF BatchSound
    <3>3. attempted'[g] = attempted[g] \cup chunk /\ worker'[g].batch = worker[g].batch
      BY <1>0, <2>1, <2>4 DEF TypeOK
    <3> QED  BY <1>0, <2>2, <3>1, <3>2, <3>3, NextBatchKept
  <2> QED  BY <2>3, <2>4
<1>7. ASSUME NEW h \in Groups, AdvanceGroup(h) PROVE InNextBatch(g)'
  <2> PICK k : k = Last(worker[h].batch)
    OBVIOUS
  <2>1. mem'.cursor = [mem.cursor EXCEPT ![h] = k] /\ mem \in States
    BY <1>0, <1>7, AdvanceFacts DEF TypeOK
  <2>2. disk' = mem' /\ proc # "down" /\ disk' \in States
    BY <1>0, <1>7 DEF AdvanceGroup, Persist, At, Smooth, TypeOK
  <2>3. CASE h # g
    <3>1. Cursor(g)' = Cursor(g)
      BY <1>1, <2>1, <2>2, <2>3, NoneAssumption DEF Cursor, States
    <3>2. worker'[g] = worker[g] /\ UNCHANGED <<rows, attempted>>
      BY <1>0, <1>7, <2>3 DEF AdvanceGroup, Goto, TypeOK, table
    <3> QED  BY <1>2, <3>1, <3>2
  <2>4. CASE h = g
    BY <1>0, <1>1, <1>7, <2>2, <2>4, NextBatchMoves
  <2> QED  BY <2>3, <2>4
<1>8. ASSUME NEW h \in Groups,
             PrepareGroup(h) \/ MarkGroupRunning(h) \/ MarkGroupDone(h) \/ ReadBatchErr(h)
      PROVE  InNextBatch(g)'
  <2>1. UNCHANGED <<rows, attempted>> /\ proc # "down" /\ proc' = proc
    BY <1>8 DEF PrepareGroup, MarkGroupRunning, MarkGroupDone, ReadBatchErr, At, table
  <2>2. worker'[g] = worker[g] \/ worker'[g].pc \notin {"process", "advance"}
    BY <1>0, <1>8 DEF PrepareGroup, MarkGroupRunning, MarkGroupDone, ReadBatchErr, Goto,
       TypeOK, Workers
  <2>3. mem'.cursor = mem.cursor
    <3>1. ASSUME NEW status \in Statuses, Persist(WithStatus(h, status))
          PROVE  mem'.cursor = mem.cursor
      BY <1>0, <3>1, StatusUpdate DEF Persist, TypeOK
    <3> PICK status \in Statuses : status = IF Unread(h) # {} THEN "pending" ELSE "done"
      BY DEF Statuses
    <3> QED  BY <1>8, <3>1 DEF PrepareGroup, MarkGroupRunning, MarkGroupDone, ReadBatchErr,
             Statuses
  <2>4. Cursor(g)' = mem'.cursor[g]
    <3>1. disk'.cursor = mem'.cursor
      BY <2>1, FileStays
    <3>2. disk' # None
      BY <2>1, FileStep DEF FileSound
    <3> QED  BY <3>1, <3>2 DEF Cursor
  <2> QED  BY <1>1, <1>2, <2>1, <2>2, <2>3, <2>4
<1>9. CASE NewStateStore
  <2>1. Cursor(g)' = Cursor(g)
    <3>1. disk' = mem' /\ mem'.cursor[g] = Cursor(g) /\ disk' # None
      BY <1>0, <1>9, LoadFacts, NoneAssumption DEF TypeOK
    <3> QED  BY <3>1 DEF Cursor
  <2> QED  BY <1>2, <1>9, <2>1 DEF NewStateStore, table
<1>10. ASSUME Exit, UNCHANGED <<table, attempted>>, Cursor(g)' = Cursor(g)
       PROVE  InNextBatch(g)'
  BY <1>2, <1>10 DEF Exit, NoWorkers, table
<1>11. CASE PrepareFails \/ Crash
  BY <1>10, <1>11 DEF PrepareFails, Crash, Cursor
<1>12. CASE MarkTaskDone
  <2>1. proc # "down" /\ mem \in States
    BY <1>0, <1>12 DEF MarkTaskDone, TypeOK
  <2>2. disk' = [mem EXCEPT !.task = "done"]
    BY <1>12 DEF MarkTaskDone, Smooth
  <2>3. disk'.cursor = mem.cursor /\ disk' \in States
    BY <2>1, <2>2 DEF States
  <2>4. Cursor(g)' = Cursor(g)
    BY <1>1, <2>1, <2>3, NoneAssumption DEF Cursor
  <2> QED  BY <1>10, <1>12, <2>4 DEF MarkTaskDone
<1>13. CASE Launch
  <2>1. worker'[g] = worker[g] \/ worker'[g].pc = "start"
    BY <1>0, <1>13 DEF Launch, TypeOK, Workers
  <2> QED  BY <1>2, <1>13, <2>1 DEF Launch, Cursor, file, table
<1>14. CASE UNCHANGED vars
  BY <1>2, <1>14 DEF vars, Cursor, file, table
<1> QED
  BY <1>3, <1>4, <1>5, <1>6, <1>7, <1>8, <1>9, <1>11, <1>12, <1>13, <1>14 DEF Next, Worker

\* While the file can be written and nothing is stored late, what was processed
\* beyond the cursor of the file, and would be processed again after a crash, is at
\* most one batch of a group.
THEOREM RepeatsOneBatchAlways == Spec => []RepeatsOneBatch
<1>1. Init => (Smooth => RepeatSound)
  <2> SUFFICES ASSUME Init PROVE RepeatSound
    OBVIOUS
  <2>1. \A g \in Groups : InNextBatch(g)
    BY DEF Init, InNextBatch, NoWorkers
  <2> QED  BY <2>1 DEF Init, RepeatSound
<1>2. IInv /\ (Smooth => RepeatSound) /\ [Next]_vars => (Smooth => RepeatSound)'
  <2> SUFFICES ASSUME IInv, Smooth => RepeatSound, [Next]_vars, Smooth PROVE RepeatSound'
    BY DEF Smooth
  <2>1. slow' = {} /\ (proc' # "down" => disk'.cursor = mem'.cursor)
    BY SlowStays, FileStays
  <2>2. \A g \in Groups : InNextBatch(g)'
    BY NextBatchStep
  <2> QED  BY <2>1, <2>2 DEF RepeatSound
<1>3. IInv /\ (Smooth => RepeatSound) => RepeatsOneBatch
  <2> SUFFICES ASSUME IInv, RepeatSound, NEW g \in Groups
               PROVE  Cardinality({k \in attempted[g] : k > Cursor(g)}) <= Limit
    BY DEF RepeatsOneBatch, Smooth
  <2>1. TypeOK /\ TableSound /\ Limit \in Nat
    BY BackfillAssumption DEF IInv
  <2>2. {k \in attempted[g] : k > Cursor(g)} \subseteq Oldest(Beyond(g), Limit)
    <3>1. Cursor(g) \in Int /\ attempted[g] \subseteq rows[g] /\ rows[g] \subseteq Keys
      BY <2>1, BackfillAssumption DEF Cursor, TypeOK, States, TableSound
    <3>2. \A k \in attempted[g] : k > Cursor(g) => k \in Beyond(g)
      BY <3>1, KeysNat DEF Beyond
    <3> QED  BY <3>2 DEF RepeatSound, InNextBatch
  <2>3. Beyond(g) \in SUBSET Keys
    BY <2>1, BeyondType
  <2>4. Oldest(Beyond(g), Limit) \in SUBSET Keys
    BY <2>3 DEF Oldest
  <2>5. Cardinality(Oldest(Beyond(g), Limit)) <= Limit
    BY <2>1, <2>3, OldestSize
  <2>6. /\ Cardinality({k \in attempted[g] : k > Cursor(g)})
             <= Cardinality(Oldest(Beyond(g), Limit))
        /\ Cardinality({k \in attempted[g] : k > Cursor(g)}) \in Nat
        /\ Cardinality(Oldest(Beyond(g), Limit)) \in Nat
    BY <2>2, <2>4, KeysFinite, FS_Subset
  <2> QED  BY <2>1, <2>5, <2>6
<1> QED  BY <1>1, <1>2, <1>3, Invariance, PTL DEF Spec

=============================================================================
