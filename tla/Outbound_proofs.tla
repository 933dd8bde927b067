--------------------------- MODULE Outbound_proofs ---------------------------
(* Machine-checked facts about Outbound, for all constants. *)
EXTENDS Outbound, FiniteSetTheorems, FunctionTheorems, TLAPS

-----------------------------------------------------------------------------
(* Type correctness. *)

\* A handler's program counter stays inside its script.
LEMMA AdvanceType ==
    ASSUME NEW j \in Jobs, j.script \in Scripts, j.conn \in Conns,
           j.at \in 1..Len(j.script)
    PROVE  /\ Advance(j) \in Jobs
           /\ Advance(j).script = j.script
           /\ Advance(j).conn = j.conn
           /\ Advance(j).st \in {"write", "done"}
           /\ Advance(j).st = "write" => Advance(j).at \in 1..Len(j.script)
<1> Len(j.script) \in Nat
  BY OutboundAssumption DEF Slots
<1>1. CASE j.at = Len(j.script)
  BY <1>1 DEF Advance, Jobs, JobStates
<1>2. CASE j.at # Len(j.script)
  <2>1. j.at + 1 \in 1..Len(j.script)
    BY <1>2 
  <2>2. Advance(j) = [j EXCEPT !.st = "write", !.at = j.at + 1]
    BY <1>2 DEF Advance
  <2>3. Advance(j) = [st |-> "write", conn |-> j.conn, script |-> j.script, at |-> j.at + 1]
    BY <2>2 DEF Jobs
  <2>4. j.at + 1 \in Nat
    BY <2>1
  <2>5. Advance(j) \in Jobs
    BY <2>3, <2>4 DEF Jobs, JobStates
  <2> QED  BY <2>1, <2>3, <2>5
<1> QED  BY <1>1, <1>2

\* The program counter of a writing handler names one of the sends.
LEMMA CurrentSend ==
    ASSUME TypeOK, NEW h \in Handlers, Writing(h)
    PROVE  <<h, job[h].at>> \in Sends
<1>1. job[h].at \in 1..Len(job[h].script) /\ Len(job[h].script) \in 1..MaxActions
  BY OutboundAssumption DEF TypeOK, Slots
<1>2. job[h].at \in Slots
  BY <1>1, OutboundAssumption DEF Slots
<1> QED  BY <1>2 DEF Sends

LEMMA TypeStep == TypeOK /\ [Next]_vars => TypeOK'
<1> SUFFICES ASSUME TypeOK, [Next]_vars PROVE TypeOK'
  OBVIOUS
<1>1. ASSUME NEW c \in Conns, Connect(c) \/ Lose(c) \/ Disconnect(c) PROVE TypeOK'
  BY <1>1 DEF Connect, Lose, Disconnect, TypeOK, ConnStates, Writing
<1>2. ASSUME NEW h \in Handlers, NEW c \in Conns, NEW sc \in Scripts, Dispatch(h, c, sc)
      PROVE  TypeOK'
  <2>1. 1 \in 1..Len(sc)
    BY OutboundAssumption DEF Slots
  <2>2. [st |-> "write", conn |-> c, script |-> sc, at |-> 1] \in Jobs
    BY DEF Jobs, JobStates
  <2> QED  BY <1>2, <2>1, <2>2 DEF Dispatch, TypeOK, Writing
<1>3. ASSUME NEW h \in Handlers, WriteOk(h) PROVE TypeOK'
  <2> DEFINE j == job[h]
  <2>1. j \in Jobs /\ j.script \in Scripts /\ j.conn \in Conns /\ j.at \in 1..Len(j.script)
    BY <1>3 DEF WriteOk, TypeOK, Writing
  <2>2. <<h, j.at>> \in Sends
    BY <1>3, CurrentSend DEF WriteOk, Writing
  <2>3. [j EXCEPT !.st = "record"] \in Jobs
    BY <2>1 DEF Jobs, JobStates
  <2> QED  BY <1>3, <2>1, <2>2, <2>3, AdvanceType DEF WriteOk, TypeOK, Writing
<1>4. ASSUME NEW h \in Handlers, WriteErr(h) PROVE TypeOK'
  BY <1>4, AdvanceType DEF WriteErr, TypeOK, Writing
<1>5. ASSUME NEW h \in Handlers, Record(h) PROVE TypeOK'
  <2>1. <<h, job[h].at>> \in Sends
    BY <1>5, CurrentSend DEF Record, Writing
  <2>2. pending' \in Seq(Entries)
    BY <1>5, <2>1 DEF Record, TypeOK, Entries
  <2> QED  BY <1>5, <2>2, AdvanceType DEF Record, TypeOK, Writing
<1>6. ASSUME NEW s \in Sends, NEW out \in Outcomes, Answer(s, out) PROVE TypeOK'
  BY <1>6 DEF Answer, TypeOK, Writing, Receipts, ReceiptStates
<1>7. ASSUME NEW s \in Sends, ReceiptStep(s) PROVE TypeOK'
  <2>1. CASE IgnoreReceipt(s) \/ PopNothing(s) \/ SaveSelfErr(s)
    <3>1. receipt' = [receipt EXCEPT ![s].pc = "done"] /\ UNCHANGED <<conn, job, written, pending, archive>>
      BY <2>1 DEF IgnoreReceipt, PopNothing, SaveSelfErr
    <3>2. receipt' \in [Sends -> Receipts]
      BY <3>1 DEF TypeOK, Receipts, ReceiptStates
    <3> QED  BY <3>1, <3>2 DEF TypeOK, Writing
  <2>2. CASE Pop(s)
    <3> DEFINE pc == IF Head(pending).save THEN "saving" ELSE "done"
    <3>1. Head(pending) \in Entries /\ Tail(pending) \in Seq(Entries)
      BY <2>2 DEF Pop, TypeOK
    <3>2. pc \in ReceiptStates /\ Head(pending).send \in Sends
      BY <3>1 DEF Entries, ReceiptStates
    <3>3. receipt' = [receipt EXCEPT ![s].pc = pc, ![s].got = Head(pending).send]
      BY <2>2 DEF Pop
    <3> HIDE DEF pc
    <3>4. receipt' \in [Sends -> Receipts]
      BY <3>2, <3>3 DEF TypeOK, Receipts
    <3> QED  BY <2>2, <3>1, <3>4 DEF Pop, TypeOK, Writing
  <2>3. CASE SaveSelf(s)
    BY <2>3 DEF SaveSelf, TypeOK, Writing, Receipts, ReceiptStates
  <2> QED  BY <1>7, <2>1, <2>2, <2>3 DEF ReceiptStep
<1>8. CASE Crash
  <2>1. conn' \in [Conns -> ConnStates]
    BY <1>8 DEF Crash, TypeOK, ConnStates
  <2>2. \A h \in Handlers : job'[h] \in Jobs
    <3> TAKE h \in Handlers
    <3>1. job[h] \in Jobs
      BY <1>8 DEF TypeOK
    <3>2. [job[h] EXCEPT !.st = "dead"] \in Jobs
      BY <3>1 DEF Jobs, JobStates
    <3>3. job'[h] \in {job[h], [job[h] EXCEPT !.st = "dead"]}
      BY <1>8 DEF Crash
    <3> QED  BY <3>1, <3>2, <3>3
  <2>3. \A h \in Handlers : job'[h].st \in {"idle", "dead"}
    BY <1>8 DEF Crash, TypeOK, Jobs
  <2>4. \A s \in Sends : receipt'[s] \in Receipts
    BY <1>8 DEF Crash, TypeOK, Receipts, ReceiptStates
  <2>5. job' \in [Handlers -> Jobs] /\ receipt' \in [Sends -> Receipts]
    BY <1>8, <2>2, <2>4 DEF Crash
  <2> QED  BY <1>8, <2>1, <2>3, <2>5 DEF Crash, TypeOK, Writing
<1>9. CASE UNCHANGED vars
  BY <1>9 DEF vars, TypeOK, Writing
<1> QED
  BY <1>1, <1>2, <1>3, <1>4, <1>5, <1>6, <1>7, <1>8, <1>9 DEF Next, HandlerStep

\* Every reachable state has the declared types, and the program counter of a
\* handler in executeActions never leaves its script.
THEOREM TypeCorrect == Spec => []TypeOK
<1>1. Init => TypeOK
  BY OutboundAssumption DEF Init, TypeOK, ConnStates, Jobs, JobStates, Receipts,
     ReceiptStates, Outcomes, Entries, Writing
<1> QED  BY <1>1, TypeStep, PTL DEF Spec

-----------------------------------------------------------------------------
(* Ownership of recorded texts. *)

\* Handler s[1] is done with its request number s[2].
Past(s) ==
    \/ s[2] < job[s[1]].at
    \/ s[2] = job[s[1]].at /\ job[s[1]].st \in {"done", "dead"}

\* Only dispatched handlers write, and recording follows writing.
WrittenSound ==
    /\ \A s \in Written : job[s[1]].st # "idle"
    /\ \A h \in Handlers : job[h].st = "record" => <<h, job[h].at>> \in Written

\* An entry is the trace of a written request its handler is past.
EntrySound(e) == e.send \in Written /\ Past(e.send) /\ (e.save <=> Kind(e.send) = "reply")

PendingSound == \A i \in 1..Len(pending) : EntrySound(pending[i])

\* So is what a receipt has popped; what it is saving is marked ShouldSave.
GotSound(s) ==
    /\ receipt[s].got # None => receipt[s].got \in Written /\ Past(receipt[s].got)
    /\ receipt[s].pc \in {"none", "arrived"} => receipt[s].got = None
    /\ receipt[s].pc = "saving" => /\ receipt[s].got # None
                                   /\ Kind(receipt[s].got) = "reply"
                                   /\ Delivered(receipt[s].out)
                                   /\ archive[s] = None

ReceiptSound == \A s \in Sends : GotSound(s)

IInv == TypeOK /\ WrittenSound /\ PendingSound /\ ReceiptSound /\ OwnedOnce

\* A send that is written is in Sends.
LEMMA WrittenSends == TypeOK => Written \subseteq Sends
BY DEF TypeOK, Written

\* Appending to a sequence adds one element to its range.
LEMMA AppendWritten ==
    ASSUME TypeOK, NEW s \in Sends, written' = Append(written, s)
    PROVE  Written' = Written \cup {s}
<1>1. /\ Len(written) \in Nat
      /\ Len(written') = Len(written) + 1
      /\ \A i \in 1..Len(written) : written'[i] = written[i]
      /\ written'[Len(written) + 1] = s
  BY DEF TypeOK
<1>2. 1..(Len(written) + 1) = (1..Len(written)) \cup {Len(written) + 1}
  BY <1>1
<1> QED  BY <1>1, <1>2 DEF Written

\* What is known of a written send survives every step: it stays written, its
\* kind is fixed, and a handler that is past it stays past it.
LEMMA WrittenStable ==
    ASSUME TypeOK, WrittenSound, [Next]_vars, NEW s \in Written
    PROVE  s \in Written' /\ Kind(s)' = Kind(s) /\ (Past(s) => Past(s)')
<1> s \in Sends /\ s[1] \in Handlers /\ s[2] \in Int
  BY WrittenSends, OutboundAssumption DEF Sends, Slots
<1> job[s[1]] \in Jobs /\ job[s[1]].st # "idle" /\ job[s[1]].at \in Int
  BY DEF TypeOK, WrittenSound, Jobs
<1>1. ASSUME UNCHANGED <<job, written>> PROVE s \in Written' /\ Kind(s)' = Kind(s) /\ (Past(s) => Past(s)')
  BY <1>1 DEF Written, Kind, Past
<1>2. ASSUME NEW h \in Handlers, NEW c \in Conns, NEW sc \in Scripts, Dispatch(h, c, sc)
      PROVE  s \in Written' /\ Kind(s)' = Kind(s) /\ (Past(s) => Past(s)')
  BY <1>2 DEF Dispatch, TypeOK, Written, Kind, Past
<1>3. ASSUME NEW h \in Handlers, HandlerStep(h)
      PROVE  s \in Written' /\ Kind(s)' = Kind(s) /\ (Past(s) => Past(s)')
  <2>1. Writing(h)
    BY <1>3 DEF HandlerStep, WriteOk, WriteErr, Record, Writing
  <2>2. s \in Written'
    <3>1. CASE WriteOk(h)
      BY <3>1, <2>1, AppendWritten, CurrentSend DEF WriteOk
    <3>2. CASE UNCHANGED written
      BY <3>2 DEF Written
    <3> QED  BY <1>3, <3>1, <3>2 DEF HandlerStep, WriteErr, Record
  <2> DEFINE j == job[h]
  <2>3. j \in Jobs /\ j.script \in Scripts /\ j.conn \in Conns /\ j.at \in 1..Len(j.script)
    BY <2>1 DEF TypeOK, Writing
  <2>4. /\ Advance(j).script = j.script
        /\ j.at < Advance(j).at \/ Advance(j).at = j.at
    BY <2>3 DEF Advance, Jobs
  <2>5. /\ [j EXCEPT !.st = "record"].script = j.script
        /\ [j EXCEPT !.st = "record"].at = j.at
    BY <2>3 DEF Jobs
  <2>6. job' = [job EXCEPT ![h] = Advance(j)]
        \/ job' = [job EXCEPT ![h] = [j EXCEPT !.st = "record"]]
    BY <1>3 DEF HandlerStep, WriteOk, WriteErr, Record
  <2>7. CASE s[1] = h
    <3>1. job[h].st \in {"write", "record"}
      BY <2>1 DEF Writing
    <3>2. job'[h].script = job[h].script /\ job'[h].at \in Int /\ job[h].at <= job'[h].at
      <4>1. CASE job' = [job EXCEPT ![h] = Advance(j)]
        <5>1. job'[h] = Advance(j)
          BY <4>1 DEF TypeOK
        <5>2. Advance(j).at \in Nat
          BY <2>3, AdvanceType DEF Jobs
        <5> QED  BY <5>1, <5>2, <2>3, <2>4
      <4>2. CASE job' = [job EXCEPT ![h] = [j EXCEPT !.st = "record"]]
        <5>1. job'[h] = [j EXCEPT !.st = "record"]
          BY <4>2 DEF TypeOK
        <5> QED  BY <5>1, <2>3, <2>5
      <4> QED  BY <2>6, <4>1, <4>2
    <3>3. Past(s) => s[2] < job[h].at
      BY <3>1, <2>7 DEF Past
    <3> QED  BY <2>2, <2>7, <3>2, <3>3 DEF Past, Kind
  <2>8. CASE s[1] # h
    BY <2>2, <2>6, <2>8 DEF Past, Kind, TypeOK
  <2> QED  BY <2>7, <2>8
<1>4. CASE Crash
  <2>1. job'[s[1]] = [job[s[1]] EXCEPT !.st = "dead"]
    BY <1>4 DEF Crash
  <2>2. /\ job'[s[1]].script = job[s[1]].script
        /\ job'[s[1]].at = job[s[1]].at
        /\ job'[s[1]].st = "dead"
    BY <2>1 DEF Jobs
  <2>3. s \in Written'
    BY <1>4 DEF Crash, Written
  <2> QED  BY <2>2, <2>3 DEF Kind, Past
<1> QED
  BY <1>1, <1>2, <1>3, <1>4 DEF Next, vars, Connect, Lose, Disconnect, Answer, ReceiptStep,
     IgnoreReceipt, PopNothing, Pop, SaveSelf, SaveSelfErr

\* Only WriteOk adds a written send, and only in a dispatched handler.
LEMMA WrittenStep == TypeOK /\ TypeOK' /\ WrittenSound /\ [Next]_vars => WrittenSound'
<1> SUFFICES ASSUME TypeOK, TypeOK', WrittenSound, [Next]_vars PROVE WrittenSound'
  OBVIOUS
<1>1. ASSUME UNCHANGED <<job, written>> PROVE WrittenSound'
  BY <1>1 DEF WrittenSound, Written
<1>2. ASSUME NEW h \in Handlers, NEW c \in Conns, NEW sc \in Scripts, Dispatch(h, c, sc)
      PROVE  WrittenSound'
  <2>1. /\ job'[h].st = "write"
        /\ \A g \in Handlers : g # h => job'[g] = job[g]
    BY <1>2 DEF Dispatch, TypeOK
  <2>2. Written' = Written /\ \A s \in Written : s[1] \in Handlers
    BY <1>2, WrittenSends DEF Dispatch, Written, Sends
  <2>3. \A s \in Written : s[1] # h
    BY <1>2 DEF Dispatch, WrittenSound
  <2>4. \A s \in Written' : job'[s[1]].st # "idle"
    BY <2>1, <2>2, <2>3 DEF WrittenSound
  <2>5. \A g \in Handlers : job'[g].st = "record" => <<g, job'[g].at>> \in Written'
    BY <2>1, <2>2 DEF WrittenSound
  <2> QED  BY <2>4, <2>5 DEF WrittenSound
<1>3. ASSUME NEW h \in Handlers, HandlerStep(h) PROVE WrittenSound'
  <2> DEFINE j == job[h]
  <2>1. j.st \in {"write", "record"} /\ j \in Jobs /\ j.script \in Scripts /\ j.conn \in Conns
        /\ j.at \in 1..Len(j.script)
    BY <1>3 DEF HandlerStep, WriteOk, WriteErr, Record, TypeOK, Writing
  <2>2. Advance(j).st \in {"write", "done"}
    BY <2>1, AdvanceType
  <2>3. [j EXCEPT !.st = "record"].st = "record" /\ [j EXCEPT !.st = "record"].at = j.at
    BY <2>1 DEF Jobs
  <2>4. <<h, j.at>> \in Sends
    BY <2>1, CurrentSend DEF Writing
  <2>5. \A g \in Handlers : g # h => job'[g] = job[g]
    BY <1>3 DEF HandlerStep, WriteOk, WriteErr, Record, TypeOK
  <2>6. job'[h] \in {Advance(j), [j EXCEPT !.st = "record"]}
    BY <1>3 DEF HandlerStep, WriteOk, WriteErr, Record, TypeOK
  <2>7. job'[h] = [j EXCEPT !.st = "record"] => <<h, j.at>> \in Written'
    <3>1. CASE WriteOk(h)
      BY <3>1, <2>4, AppendWritten DEF WriteOk
    <3>2. CASE WriteErr(h) \/ Record(h)
      BY <3>2, <2>2, <2>3 DEF WriteErr, Record, TypeOK
    <3> QED  BY <1>3, <3>1, <3>2 DEF HandlerStep
  <2>8. \A s \in Written' : s \in Written \/ s[1] = h
    <3>1. CASE WriteOk(h)
      BY <3>1, <2>4, AppendWritten DEF WriteOk
    <3>2. CASE UNCHANGED written
      BY <3>2 DEF Written
    <3> QED  BY <1>3, <3>1, <3>2 DEF HandlerStep, WriteErr, Record
  <2>9. Written \subseteq Written' /\ Written' \subseteq Sends
    <3>1. Written \subseteq Written'
      BY WrittenStable
    <3>2. Written' \subseteq Sends
      BY DEF TypeOK, Written
    <3> QED  BY <3>1, <3>2
  <2>10. job'[h].st # "idle"
    BY <2>2, <2>3, <2>6
  <2>11. \A s \in Written' : job'[s[1]].st # "idle"
    BY <2>5, <2>8, <2>9, <2>10 DEF WrittenSound, Sends
  <2>12. \A g \in Handlers : job'[g].st = "record" => <<g, job'[g].at>> \in Written'
    BY <2>2, <2>3, <2>5, <2>6, <2>7, <2>9 DEF WrittenSound
  <2> QED  BY <2>11, <2>12 DEF WrittenSound
<1>4. CASE Crash
  <2>1. \A h \in Handlers : /\ job'[h].st # "record"
                            /\ job[h].st # "idle" => job'[h].st # "idle"
    BY <1>4 DEF Crash, TypeOK, Jobs
  <2>2. Written' = Written /\ \A s \in Written : s[1] \in Handlers
    BY <1>4, WrittenSends DEF Crash, Written, Sends
  <2> QED  BY <2>1, <2>2 DEF WrittenSound
<1> QED
  BY <1>1, <1>2, <1>3, <1>4 DEF Next, vars, Connect, Lose, Disconnect, Answer, ReceiptStep,
     IgnoreReceipt, PopNothing, Pop, SaveSelf, SaveSelfErr

\* What Record appends is the send just written, which its handler is then past.
LEMMA RecordAppends ==
    ASSUME TypeOK, WrittenSound, NEW h \in Handlers, Record(h),
           NEW s, s = <<h, job[h].at>>
    PROVE  /\ s \in Written /\ ~Past(s) /\ Past(s)'
           /\ Len(pending) \in Nat
           /\ Len(pending') = Len(pending) + 1
           /\ \A i \in 1..Len(pending) : pending'[i] = pending[i]
           /\ pending'[Len(pending) + 1] = [send |-> s, save |-> Kind(s) = "reply"]
<1> DEFINE j == job[h]
<1>1. j.st = "record" /\ j \in Jobs /\ j.script \in Scripts /\ j.conn \in Conns
      /\ j.at \in 1..Len(j.script)
  BY DEF Record, TypeOK, Writing
<1>2. job'[h] = Advance(j)
  BY DEF Record, TypeOK
<1>3. (Advance(j).st = "done" /\ Advance(j).at = j.at) \/ Advance(j).at = j.at + 1
  BY <1>1 DEF Advance, Jobs
<1>4. s \in Written
  BY <1>1 DEF WrittenSound
<1>5. ~Past(s)
  BY <1>1 DEF Past
<1>6. Past(s)'
  BY <1>1, <1>2, <1>3 DEF Past
<1>7. s \in Sends
  BY <1>1, CurrentSend DEF Writing
<1>8. pending' = Append(pending, [send |-> s, save |-> Kind(s) = "reply"])
  BY DEF Record, Kind
<1>9. [send |-> s, save |-> Kind(s) = "reply"] \in Entries
  BY <1>7 DEF Entries
<1> QED  BY <1>4, <1>5, <1>6, <1>8, <1>9 DEF TypeOK

\* What Pop takes is the oldest entry; the others move up by one.
LEMMA PopTakes ==
    ASSUME TypeOK, NEW s \in Sends, Pop(s)
    PROVE  /\ Len(pending) \in Nat /\ 1 \in 1..Len(pending)
           /\ Len(pending') = Len(pending) - 1
           /\ \A i \in 1..Len(pending') : pending'[i] = pending[i + 1] /\ i + 1 \in 1..Len(pending)
           /\ receipt'[s].got = pending[1].send
           /\ receipt'[s].out = receipt[s].out
           /\ receipt'[s].pc = IF pending[1].save THEN "saving" ELSE "done"
           /\ \A t \in Sends : t # s => receipt'[t] = receipt[t]
           /\ pending[1].send \in Sends
<1>1. pending \in Seq(Entries) /\ pending # <<>> /\ pending' = Tail(pending)
  BY DEF TypeOK, Pop
<1>2. Len(pending) \in Nat /\ Len(pending) # 0 /\ Head(pending) = pending[1] /\ pending[1] \in Entries
  BY <1>1
<1>3. /\ Len(pending') = Len(pending) - 1
      /\ \A i \in 1..Len(pending') : pending'[i] = pending[i + 1] /\ i + 1 \in 1..Len(pending)
  BY <1>1, <1>2
<1>4. /\ receipt'[s].got = pending[1].send
      /\ receipt'[s].out = receipt[s].out
      /\ receipt'[s].pc = IF pending[1].save THEN "saving" ELSE "done"
      /\ \A t \in Sends : t # s => receipt'[t] = receipt[t]
  <2> DEFINE pc == IF pending[1].save THEN "saving" ELSE "done"
  <2>1. receipt' = [receipt EXCEPT ![s].pc = pc, ![s].got = pending[1].send]
    BY <1>2 DEF Pop
  <2> HIDE DEF pc
  <2>2. receipt'[s].got = pending[1].send /\ receipt'[s].out = receipt[s].out /\ receipt'[s].pc = pc
        /\ \A t \in Sends : t # s => receipt'[t] = receipt[t]
    BY <2>1 DEF TypeOK, Receipts
  <2> QED  BY <2>2 DEF pc
<1> QED  BY <1>2, <1>3, <1>4 DEF Entries

\* An entry that is sound stays sound, wherever it is kept.
LEMMA EntryStable ==
    ASSUME TypeOK, WrittenSound, [Next]_vars, NEW e, EntrySound(e)
    PROVE  EntrySound(e)'
<1> DEFINE s == e.send
<1>1. s \in Written /\ Past(s)
  BY DEF EntrySound
<1> HIDE DEF s
<1>2. s \in Written' /\ Kind(s)' = Kind(s) /\ (Past(s) => Past(s)')
  BY <1>1, WrittenStable
<1> QED  BY <1>1, <1>2 DEF EntrySound, s

\* Every entry of the queue stays the trace of a written request.
LEMMA PendingStep == IInv /\ [Next]_vars => PendingSound'
<1> SUFFICES ASSUME IInv, [Next]_vars, NEW i \in 1..Len(pending') PROVE EntrySound(pending[i])'
  BY DEF PendingSound
<1>1. ASSUME NEW k \in 1..Len(pending), pending'[i] = pending[k]
      PROVE  EntrySound(pending[i])'
  <2>1. EntrySound(pending[k])
    BY DEF IInv, PendingSound
  <2>2. \A e : EntrySound(e) => EntrySound(e)'
    BY EntryStable DEF IInv
  <2> QED  BY <1>1, <2>1, <2>2
<1>2. CASE UNCHANGED pending
  BY <1>1, <1>2
<1>3. ASSUME NEW h \in Handlers, Record(h) PROVE EntrySound(pending[i])'
  <2> PICK t : t = <<h, job[h].at>>
    OBVIOUS
  <2>1. /\ t \in Written /\ Past(t)'
        /\ Len(pending) \in Nat /\ Len(pending') = Len(pending) + 1
        /\ \A k \in 1..Len(pending) : pending'[k] = pending[k]
        /\ pending'[Len(pending) + 1] = [send |-> t, save |-> Kind(t) = "reply"]
    BY <1>3, RecordAppends DEF IInv
  <2>2. CASE i \in 1..Len(pending)
    BY <1>1, <2>1, <2>2
  <2>3. CASE i = Len(pending) + 1
    <3>1. t \in Written' /\ Kind(t)' = Kind(t)
      BY <2>1, WrittenStable DEF IInv
    <3>2. pending'[i].send = t /\ (pending'[i].save <=> Kind(t)' = "reply")
      <4>1. pending'[i] = [send |-> t, save |-> Kind(t) = "reply"]
        BY <2>1, <2>3
      <4>2. CASE Kind(t) = "reply"
        <5>1. pending'[i] = [send |-> t, save |-> TRUE]
          BY <4>1, <4>2
        <5> QED  BY <5>1, <4>2, <3>1
      <4>3. CASE Kind(t) # "reply"
        <5>1. pending'[i] = [send |-> t, save |-> FALSE]
          BY <4>1, <4>3
        <5> QED  BY <5>1, <4>3, <3>1
      <4> QED  BY <4>2, <4>3
    <3> QED  BY <2>1, <3>1, <3>2 DEF EntrySound, Past, Kind
  <2> QED  BY <2>1, <2>2, <2>3
<1>4. ASSUME NEW s \in Sends, Pop(s) PROVE EntrySound(pending[i])'
  BY <1>1, <1>4, PopTakes DEF IInv
<1>5. CASE Crash
  BY <1>5 DEF Crash
<1> QED
  BY <1>2, <1>3, <1>4, <1>5 DEF Next, vars, Connect, Lose, Disconnect, Dispatch, HandlerStep,
     WriteOk, WriteErr, Answer, ReceiptStep, IgnoreReceipt, PopNothing, SaveSelf, SaveSelfErr


\* A receipt that keeps what it holds, and stays where it is or is finished,
\* stays sound.
LEMMA GotStable ==
    ASSUME IInv, [Next]_vars, NEW s \in Sends,
           receipt'[s].got = receipt[s].got,
           \/ receipt'[s] = receipt[s] /\ archive'[s] = archive[s]
           \/ receipt'[s].pc \in {"done", "dropped"}
    PROVE  GotSound(s)'
<1>1. GotSound(s)
  BY DEF IInv, ReceiptSound
<1>2. CASE receipt[s].got = None
  BY <1>1, <1>2 DEF GotSound
<1>3. CASE receipt[s].got # None
  <2>1. PICK t : t = receipt[s].got
    OBVIOUS
  <2>2. t \in Written /\ Past(t)
    BY <1>1, <1>3, <2>1 DEF GotSound
  <2>3. t \in Written' /\ Past(t)' /\ Kind(t)' = Kind(t)
    BY <2>2, WrittenStable DEF IInv
  <2>4. receipt'[s].got \in Written' /\ Past(receipt[s].got)'
    BY <2>1, <2>3 DEF Past
  <2>5. Kind(receipt[s].got)' = Kind(receipt[s].got)
    BY <2>1, <2>3 DEF Kind
  <2> QED  BY <1>1, <1>3, <2>4, <2>5 DEF GotSound
<1> QED  BY <1>2, <1>3

\* Receipts keep what PendingSound knew of the entry they popped.
LEMMA ReceiptSoundStep == IInv /\ [Next]_vars => ReceiptSound'
<1> SUFFICES ASSUME IInv, [Next]_vars, NEW s \in Sends PROVE GotSound(s)'
  BY DEF ReceiptSound
<1>1. CASE UNCHANGED <<receipt, archive>>
  BY <1>1, GotStable
<1>2. ASSUME NEW t \in Sends, NEW out \in Outcomes, Answer(t, out) PROVE GotSound(s)'
  <2>1. CASE s = t
    BY <1>2, <2>1 DEF Answer, GotSound, IInv, TypeOK
  <2>2. CASE s # t
    <3>1. receipt'[s] = receipt[s] /\ archive'[s] = archive[s]
      BY <1>2, <2>2 DEF Answer
    <3> QED  BY <3>1, GotStable
  <2> QED  BY <2>1, <2>2
<1>3. ASSUME NEW t \in Sends, IgnoreReceipt(t) \/ PopNothing(t) \/ SaveSelfErr(t)
      PROVE  GotSound(s)'
  <2>1. receipt' = [receipt EXCEPT ![t].pc = "done"] /\ archive' = archive
    BY <1>3 DEF IgnoreReceipt, PopNothing, SaveSelfErr
  <2>2. receipt'[s].got = receipt[s].got /\ (receipt'[s] = receipt[s] \/ receipt'[s].pc = "done")
    BY <2>1 DEF IInv, TypeOK, Receipts
  <2> QED  BY <2>1, <2>2, GotStable
<1>4. ASSUME NEW t \in Sends, SaveSelf(t) PROVE GotSound(s)'
  <2>1. receipt' = [receipt EXCEPT ![t].pc = "done"]
        /\ archive' = [archive EXCEPT ![t] = receipt[t].got]
    BY <1>4 DEF SaveSelf
  <2>2. receipt'[s].got = receipt[s].got
        /\ \/ s # t /\ receipt'[s] = receipt[s] /\ archive'[s] = archive[s]
           \/ receipt'[s].pc = "done"
    BY <2>1 DEF IInv, TypeOK, Receipts
  <2> QED  BY <2>2, GotStable
<1>5. ASSUME NEW t \in Sends, Pop(t) PROVE GotSound(s)'
  <2>1. CASE s = t
    <3>1. /\ receipt'[t].got = pending[1].send
          /\ receipt'[t].out = receipt[t].out
          /\ receipt'[t].pc = IF pending[1].save THEN "saving" ELSE "done"
          /\ EntrySound(pending[1]) /\ pending[1].send \in Sends
      BY <1>5, PopTakes DEF IInv, PendingSound
    <3>2. PICK e : e = pending[1]
      OBVIOUS
    <3>3. EntrySound(e)'
      BY <3>1, <3>2, EntryStable DEF IInv
    <3>4. receipt'[t].got \in Written' /\ Past(receipt[t].got)' /\ receipt'[t].got # None
      BY <3>1, <3>2, <3>3, OutboundAssumption DEF EntrySound, Past
    <3>5. receipt'[t].pc = "saving" => Kind(receipt[t].got)' = "reply"
      BY <3>1, <3>2, <3>3 DEF EntrySound, Kind
    <3>6. Delivered(receipt'[t].out) /\ archive'[t] = None
      BY <1>5, <3>1 DEF Pop, IInv, OwnedOnce
    <3>7. receipt'[t].pc \in {"saving", "done"}
      BY <3>1
    <3> QED  BY <2>1, <3>4, <3>5, <3>6, <3>7 DEF GotSound, Delivered
  <2>2. CASE s # t
    <3>1. receipt'[s] = receipt[s] /\ archive'[s] = archive[s]
      BY <1>5, <2>2, PopTakes DEF Pop, IInv
    <3> QED  BY <3>1, GotStable
  <2> QED  BY <2>1, <2>2
<1>6. CASE Crash
  <2>1. archive' = archive
        /\ receipt'[s] = IF receipt[s].pc \in {"arrived", "saving"}
                         THEN [receipt[s] EXCEPT !.pc = "dropped"] ELSE receipt[s]
    BY <1>6 DEF Crash
  <2>2. receipt'[s].got = receipt[s].got
        /\ (receipt'[s] = receipt[s] \/ receipt'[s].pc = "dropped")
    BY <2>1 DEF IInv, TypeOK, Receipts
  <2> QED  BY <2>1, <2>2, GotStable
<1> QED
  BY <1>1, <1>2, <1>3, <1>4, <1>5, <1>6 DEF Next, vars, Connect, Lose, Disconnect, Dispatch,
     HandlerStep, WriteOk, WriteErr, Record, ReceiptStep

\* No step duplicates the ownership of a recorded text.
LEMMA OwnedOnceStep == IInv /\ [Next]_vars => OwnedOnce'
<1> SUFFICES ASSUME IInv, [Next]_vars PROVE OwnedOnce'
  OBVIOUS
<1>0. /\ \A i, k \in 1..Len(pending) : pending[i].send = pending[k].send => i = k
      /\ \A s, t \in Sends : receipt[s].got = receipt[t].got /\ s # t => receipt[s].got = None
      /\ \A s \in Sends : \A i \in 1..Len(pending) : receipt[s].got # pending[i].send
      /\ \A s \in Sends : archive[s] # None => receipt[s].pc = "done" /\ archive[s] = receipt[s].got
  BY DEF IInv, OwnedOnce, PendingSends
<1>1. CASE UNCHANGED <<pending, receipt, archive>>
  BY <1>0, <1>1 DEF OwnedOnce, PendingSends
<1>2. ASSUME NEW h \in Handlers, Record(h) PROVE OwnedOnce'
  <2> PICK t : t = <<h, job[h].at>>
    OBVIOUS
  <2>1. /\ ~Past(t) /\ t \in Sends
        /\ Len(pending) \in Nat /\ Len(pending') = Len(pending) + 1
        /\ \A k \in 1..Len(pending) : pending'[k].send = pending[k].send
        /\ pending'[Len(pending) + 1].send = t
    <3>1. /\ t \in Written /\ ~Past(t)
          /\ Len(pending) \in Nat /\ Len(pending') = Len(pending) + 1
          /\ \A k \in 1..Len(pending) : pending'[k] = pending[k]
          /\ pending'[Len(pending) + 1] = [send |-> t, save |-> Kind(t) = "reply"]
      BY <1>2, RecordAppends DEF IInv
    <3>2. pending'[Len(pending) + 1].send = t
      <4> DEFINE b == Kind(t) = "reply"
      <4>1. pending'[Len(pending) + 1] = [send |-> t, save |-> b]
        BY <3>1
      <4> HIDE DEF b
      <4> QED  BY <4>1
    <3> QED  BY <3>1, <3>2, WrittenSends DEF IInv
  <2>2. \A k \in 1..Len(pending) : pending[k].send # t
    BY <2>1 DEF IInv, PendingSound, EntrySound
  <2>3. \A s \in Sends : receipt[s].got # t
    BY <2>1, OutboundAssumption DEF IInv, ReceiptSound, GotSound
  <2>4. \A k \in 1..Len(pending') : k \in 1..Len(pending) \/ k = Len(pending) + 1
    BY <2>1
  <2>5. receipt' = receipt /\ archive' = archive
    BY <1>2 DEF Record
  <2>6. \A i, k \in 1..Len(pending') : pending'[i].send = pending'[k].send => i = k
    BY <1>0, <2>1, <2>2, <2>4
  <2>7. \A s \in Sends : \A i \in 1..Len(pending') : receipt'[s].got # pending'[i].send
    BY <1>0, <2>1, <2>3, <2>4, <2>5
  <2> QED  BY <1>0, <2>5, <2>6, <2>7 DEF OwnedOnce, PendingSends
<1>3. ASSUME UNCHANGED <<pending, archive>>,
             \A s \in Sends : receipt'[s].got = receipt[s].got,
             \A s \in Sends : receipt[s].pc = "done" => receipt'[s].pc = "done"
      PROVE  OwnedOnce'
  BY <1>0, <1>3 DEF OwnedOnce, PendingSends
<1>4. ASSUME NEW t \in Sends, NEW out \in Outcomes, Answer(t, out) PROVE OwnedOnce'
  <2>1. receipt[t].got = None
    BY <1>4 DEF Answer, IInv, ReceiptSound, GotSound
  <2>2. receipt'[t].got = None /\ \A s \in Sends : s # t => receipt'[s] = receipt[s]
    BY <1>4 DEF Answer, IInv, TypeOK
  <2>3. \A s \in Sends : receipt[s].pc = "done" => receipt'[s].pc = "done"
    BY <1>4, <2>2 DEF Answer
  <2>4. UNCHANGED <<pending, archive>>
    BY <1>4 DEF Answer
  <2>5. \A s \in Sends : receipt'[s].got = receipt[s].got
    BY <2>1, <2>2
  <2> QED  BY <1>3, <2>3, <2>4, <2>5
<1>5. ASSUME NEW t \in Sends, IgnoreReceipt(t) \/ PopNothing(t) \/ SaveSelfErr(t)
      PROVE  OwnedOnce'
  <2>1. receipt' = [receipt EXCEPT ![t].pc = "done"] /\ UNCHANGED <<pending, archive>>
    BY <1>5 DEF IgnoreReceipt, PopNothing, SaveSelfErr
  <2>2. \A s \in Sends : /\ receipt'[s].got = receipt[s].got
                         /\ receipt[s].pc = "done" => receipt'[s].pc = "done"
    BY <2>1 DEF IInv, TypeOK, Receipts
  <2> QED  BY <1>3, <2>1, <2>2
<1>6. ASSUME NEW t \in Sends, Pop(t) PROVE OwnedOnce'
  <2>1. /\ Len(pending) \in Nat /\ 1 \in 1..Len(pending)
        /\ Len(pending') = Len(pending) - 1
        /\ \A i \in 1..Len(pending') : pending'[i] = pending[i + 1] /\ i + 1 \in 1..Len(pending)
        /\ receipt'[t].got = pending[1].send
        /\ \A s \in Sends : s # t => receipt'[s] = receipt[s]
        /\ archive' = archive /\ receipt[t].pc = "arrived"
    BY <1>6, PopTakes DEF IInv, Pop
  <2>2. \A i, k \in 1..Len(pending') : pending'[i].send = pending'[k].send => i = k
    BY <1>0, <2>1
  <2>3. \A i \in 1..Len(pending') : pending[1].send # pending'[i].send
    BY <1>0, <2>1
  <2>4. \A s \in Sends : \A i \in 1..Len(pending') : receipt'[s].got # pending'[i].send
    BY <1>0, <2>1, <2>3
  <2>5. \A s, u \in Sends : receipt'[s].got = receipt'[u].got /\ s # u => receipt'[s].got = None
    BY <1>0, <2>1
  <2>6. archive[t] = None
    BY <1>0, <2>1
  <2>7. \A s \in Sends : archive'[s] # None =>
          receipt'[s].pc = "done" /\ archive'[s] = receipt'[s].got
    BY <1>0, <2>1, <2>6
  <2> QED  BY <2>2, <2>4, <2>5, <2>7 DEF OwnedOnce, PendingSends
<1>7. ASSUME NEW t \in Sends, SaveSelf(t) PROVE OwnedOnce'
  <2>1. /\ receipt' = [receipt EXCEPT ![t].pc = "done"]
        /\ archive' = [archive EXCEPT ![t] = receipt[t].got]
        /\ pending' = pending
    BY <1>7 DEF SaveSelf
  <2>2. \A s \in Sends : /\ receipt'[s].got = receipt[s].got
                         /\ receipt[s].pc = "done" => receipt'[s].pc = "done"
    BY <2>1 DEF IInv, TypeOK, Receipts
  <2>3. receipt'[t].pc = "done" /\ archive'[t] = receipt[t].got
        /\ \A s \in Sends : s # t => archive'[s] = archive[s]
    BY <2>1 DEF IInv, TypeOK, Receipts
  <2> QED  BY <1>0, <2>1, <2>2, <2>3 DEF OwnedOnce, PendingSends
<1>8. CASE Crash
  <2>1. \A s \in Sends : /\ receipt'[s].got = receipt[s].got
                         /\ receipt[s].pc = "done" => receipt'[s].pc = "done"
    BY <1>8 DEF Crash, IInv, TypeOK, Receipts
  <2>2. pending' = <<>> /\ archive' = archive
    BY <1>8 DEF Crash
  <2> QED  BY <1>0, <2>1, <2>2 DEF OwnedOnce, PendingSends
<1> QED
  BY <1>1, <1>2, <1>4, <1>5, <1>6, <1>7, <1>8 DEF Next, vars, Connect, Lose, Disconnect,
     Dispatch, HandlerStep, WriteOk, WriteErr, ReceiptStep

\* Nothing is written, queued or answered at the start.
LEMMA InitIInv == Init => IInv
<1> SUFFICES ASSUME Init PROVE IInv
  OBVIOUS
<1>1. TypeOK
  BY OutboundAssumption DEF Init, TypeOK, ConnStates, Jobs, JobStates, Receipts,
     ReceiptStates, Outcomes, Entries, Writing
<1>2. Written = {} /\ Len(pending) = 0
  BY DEF Init, Written
<1> QED
  BY <1>1, <1>2 DEF Init, IInv, WrittenSound, PendingSound, ReceiptSound, GotSound,
     OwnedOnce, PendingSends

\* The inductive invariant.
THEOREM Invariance == Spec => []IInv
<1>1. Init => IInv
  BY InitIInv
<1>2. IInv /\ [Next]_vars => IInv'
  <2> SUFFICES ASSUME IInv, [Next]_vars PROVE IInv'
    OBVIOUS
  <2>1. TypeOK'
    BY TypeStep DEF IInv
  <2>2. WrittenSound'
    BY <2>1, WrittenStep DEF IInv
  <2> QED  BY <2>1, <2>2, PendingStep, ReceiptSoundStep, OwnedOnceStep DEF IInv
<1> QED  BY <1>1, <1>2, PTL DEF Spec

\* Whatever NapCat, the network, the scheduler and crashes do, a recorded text is
\* owned once: it is in at most one of the queue, the hands of a receipt
\* goroutine and the message table.
THEOREM OwnedOnceAlways == Spec => []OwnedOnce
BY Invariance, PTL DEF IInv

\* The queue only ever holds traces of requests that were written.
THEOREM PendingWasWrittenAlways == Spec => []PendingWasWritten
<1>1. IInv => PendingWasWritten
  BY DEF IInv, PendingSound, EntrySound, PendingWasWritten, PendingSends
<1> QED  BY <1>1, Invariance, PTL

-----------------------------------------------------------------------------
(* Outbound implements ReplyArchive. *)

\* The texts requested change only when something is written.
LEMMA RequestedStable ==
    ASSUME IInv, [Next]_vars, Written' = Written
    PROVE  Requested' = Requested
<1>1. \A s \in Written : Kind(s)' = Kind(s)
  BY WrittenStable DEF IInv
<1> QED  BY <1>1 DEF Requested

\* The messages confirmed are those whose receipt has come, in whatever state
\* its goroutine is.
LEMMA IssuedStable ==
    ASSUME \A s \in Sends : /\ receipt'[s].out = receipt[s].out
                            /\ receipt'[s].pc = "none" <=> receipt[s].pc = "none"
    PROVE  Issued' = Issued
BY DEF Issued, Delivered

LEMMA ArchiveStep == IInv /\ [Next]_vars => [Archive!Next]_(Archive!vars)
<1> SUFFICES ASSUME IInv, [Next]_vars PROVE [Archive!Next]_(Archive!vars)
  OBVIOUS
<1>1. ASSUME Requested' = Requested, Issued' = Issued, archive' = archive
      PROVE  [Archive!Next]_(Archive!vars)
  BY <1>1 DEF Archive!vars
<1>2. ASSUME UNCHANGED <<written, receipt, archive>> PROVE [Archive!Next]_(Archive!vars)
  <2>1. Written' = Written /\ Issued' = Issued
    BY <1>2 DEF Written, Issued
  <2> QED  BY <1>1, <1>2, <2>1, RequestedStable
<1>3. ASSUME NEW h \in Handlers, WriteOk(h) PROVE [Archive!Next]_(Archive!vars)
  <2> PICK t : t = <<h, job[h].at>>
    OBVIOUS
  <2>1. t \in Sends
    BY <1>3, CurrentSend DEF WriteOk, Writing, IInv
  <2>2. Written' = Written \cup {t}
    BY <1>3, <2>1, AppendWritten DEF WriteOk, IInv
  <2>3. \A s \in Written : Kind(s)' = Kind(s)
    BY WrittenStable DEF IInv
  <2>4. Issued' = Issued /\ archive' = archive
    BY <1>3 DEF WriteOk, Issued
  <2>5. Requested' = Requested \/ Requested' = Requested \cup {t}
    BY <2>2, <2>3 DEF Requested
  <2>6. CASE Requested' = Requested \cup {t}
    BY <2>1, <2>4, <2>6 DEF Archive!Next, Archive!Request
  <2> QED  BY <1>1, <2>4, <2>5, <2>6
<1>4. ASSUME NEW t \in Sends, NEW out \in Outcomes, Answer(t, out)
      PROVE  [Archive!Next]_(Archive!vars)
  <2>1. /\ receipt'[t].pc = "arrived" /\ receipt'[t].out = out
        /\ receipt[t].pc = "none"
        /\ \A s \in Sends : s # t => receipt'[s] = receipt[s]
    BY <1>4 DEF Answer, IInv, TypeOK
  <2>2. Issued' = Issued \/ Issued' = Issued \cup {t}
    BY <2>1 DEF Issued, Delivered
  <2>3. Requested' = Requested /\ archive' = archive
    <3>1. Written' = Written /\ archive' = archive
      BY <1>4 DEF Answer, Written
    <3> QED  BY <3>1, RequestedStable
  <2>4. CASE Issued' = Issued \cup {t}
    BY <2>3, <2>4 DEF Archive!Next, Archive!Issue
  <2> QED  BY <1>1, <2>2, <2>3, <2>4
<1>5. ASSUME NEW t \in Sends, IgnoreReceipt(t) \/ PopNothing(t) \/ SaveSelfErr(t)
      PROVE  [Archive!Next]_(Archive!vars)
  <2>1. receipt' = [receipt EXCEPT ![t].pc = "done"] /\ receipt[t].pc # "none"
        /\ UNCHANGED <<written, archive>>
    BY <1>5 DEF IgnoreReceipt, PopNothing, SaveSelfErr
  <2>2. \A s \in Sends : /\ receipt'[s].out = receipt[s].out
                         /\ receipt'[s].pc = "none" <=> receipt[s].pc = "none"
    BY <2>1 DEF IInv, TypeOK, Receipts
  <2>3. Written' = Written
    BY <2>1 DEF Written
  <2> QED  BY <1>1, <2>1, <2>2, <2>3, IssuedStable, RequestedStable
<1>6. ASSUME NEW t \in Sends, Pop(t) PROVE [Archive!Next]_(Archive!vars)
  <2>1. /\ receipt[t].pc = "arrived" /\ receipt'[t].pc \in {"saving", "done"}
        /\ receipt'[t].out = receipt[t].out
        /\ \A s \in Sends : s # t => receipt'[s] = receipt[s]
    BY <1>6, PopTakes DEF IInv, Pop
  <2>2. Issued' = Issued
    BY <2>1, IssuedStable
  <2>3. Written' = Written /\ archive' = archive
    BY <1>6 DEF Pop, Written
  <2> QED  BY <1>1, <2>2, <2>3, RequestedStable
<1>7. ASSUME NEW t \in Sends, SaveSelf(t) PROVE [Archive!Next]_(Archive!vars)
  <2> PICK g : g = receipt[t].got
    OBVIOUS
  <2>1. /\ receipt' = [receipt EXCEPT ![t].pc = "done"] /\ receipt[t].pc = "saving"
        /\ archive' = [archive EXCEPT ![t] = g]
        /\ written' = written
    BY <1>7 DEF SaveSelf
  <2>2. \A s \in Sends : /\ receipt'[s].out = receipt[s].out
                         /\ receipt'[s].pc = "none" <=> receipt[s].pc = "none"
    BY <2>1 DEF IInv, TypeOK, Receipts
  <2>3. Issued' = Issued
    BY <2>2, IssuedStable
  <2>4. Requested' = Requested
    BY <2>1, RequestedStable DEF Written
  <2>5. /\ g # None /\ g \in Written /\ Kind(g) = "reply"
        /\ Delivered(receipt[t].out) /\ archive[t] = None
    BY <2>1 DEF IInv, ReceiptSound, GotSound
  <2>6. g \in Sends /\ g \in Requested /\ t \in Issued
    BY <2>1, <2>5, WrittenSends DEF Requested, Issued, IInv
  <2>7. \A n \in Sends : archive[n] # g
    BY <2>1, <2>5 DEF IInv, OwnedOnce
  <2>8. Archive!File(t, g)
    BY <2>1, <2>3, <2>4, <2>5, <2>6, <2>7 DEF Archive!File
  <2> QED  BY <2>6, <2>8 DEF Archive!Next
<1>8. CASE Crash
  <2>1. UNCHANGED <<written, archive>>
    BY <1>8 DEF Crash
  <2>2. \A s \in Sends : /\ receipt'[s].out = receipt[s].out
                         /\ receipt'[s].pc = "none" <=> receipt[s].pc = "none"
    BY <1>8 DEF Crash, IInv, TypeOK, Receipts
  <2>3. Written' = Written
    BY <2>1 DEF Written
  <2> QED  BY <1>1, <2>1, <2>2, <2>3, IssuedStable, RequestedStable
<1> QED
  BY <1>2, <1>3, <1>4, <1>5, <1>6, <1>7, <1>8 DEF Next, vars, Connect, Lose, Disconnect,
     Dispatch, HandlerStep, WriteErr, Record, ReceiptStep

\* In every environment the pipeline keeps the promise of ReplyArchive: rows are
\* keyed by confirmed ids, hold texts that were sent to be saved, are written once,
\* and no text is stored under two ids.
THEOREM Refinement == Spec => ArchiveSpec
<1>1. Init => Archive!Init
  BY DEF Init, Archive!Init, Requested, Written, Issued
<1> QED  BY <1>1, ArchiveStep, Invariance, PTL DEF Spec, ArchiveSpec, Archive!Spec

-----------------------------------------------------------------------------
(* The law of the backlog. *)

Dead(h) == job[h].st = "dead"

\* A dispatched handler holds a connection that was opened; the process it dies
\* with takes the connection along.
ConnSound ==
    \A h \in Handlers : job[h].st # "idle" =>
        /\ job[h].conn \in Conns
        /\ conn[job[h].conn] # "new"
        /\ Dead(h) => conn[job[h].conn] = "closed"

\* A written request is recorded at once or never; reactions never are.
WrittenPast ==
    /\ \A s \in Written : Past(s) \/ Recording(s)
    /\ \A h \in Handlers : job[h].st = "record" => job[h].script[job[h].at] # "emoji"

\* What a receipt says of its send.
AnswerSoundOf(s) ==
    /\ receipt[s].pc # "none" => s \in Written
    /\ receipt[s].pc \in {"arrived", "saving"} => ~Dead(s[1])
    /\ receipt[s].pc = "dropped" => Dead(s[1])
    /\ receipt[s].pc # "none" => (receipt[s].out = "noid" <=> Kind(s) = "emoji")
    /\ receipt[s].got # None => receipt[s].pc # "none" /\ Delivered(receipt[s].out)

AnswerSound == \A s \in Sends : AnswerSoundOf(s)

\* The queue and the receipts hold messages, and those of the process they run in.
EntriesLive ==
    /\ \A p \in Written : \A i \in 1..Len(pending) :
         pending[i].send = p => ~Dead(p[1]) /\ Kind(p) # "emoji"
    /\ \A g \in Written : \A s \in Sends :
         receipt[s].got = g => (Dead(s[1]) <=> Dead(g[1])) /\ Kind(g) # "emoji"

\* No message is forgotten: it is queued or was popped by some receipt.
Accounted ==
    \A s \in Written : ~Dead(s[1]) /\ Kind(s) # "emoji" /\ ~Recording(s) =>
        \/ \E i \in 1..Len(pending) : pending[i].send = s
        \/ \E t \in Sends : receipt[t].got = s

LawInv == IInv /\ ConnSound /\ WrittenPast /\ AnswerSound /\ EntriesLive /\ Accounted

\* What a step of executeActions changes.
LEMMA HandlerEffect ==
    ASSUME TypeOK, NEW h \in Handlers, HandlerStep(h)
    PROVE  /\ job[h].st \in {"write", "record"} /\ job[h].at \in Nat
           /\ \A g \in Handlers : g # h => job'[g] = job[g]
           /\ job'[h].conn = job[h].conn /\ job'[h].script = job[h].script
           /\ \/ WriteOk(h) /\ job'[h].st = "record" /\ job'[h].at = job[h].at
              \/ job'[h].st = "done" /\ job'[h].at = job[h].at
              \/ job'[h].st = "write" /\ job'[h].at = job[h].at + 1
           /\ WriteOk(h) \/ written' = written
           /\ Record(h) \/ pending' = pending
           /\ conn' = conn /\ receipt' = receipt /\ archive' = archive
<1> DEFINE j == job[h]
<1>1. j.st \in {"write", "record"}
  BY DEF HandlerStep, WriteOk, WriteErr, Record
<1>2. j \in Jobs /\ j.script \in Scripts /\ j.conn \in Conns /\ j.at \in 1..Len(j.script)
  BY <1>1 DEF TypeOK, Writing
<1>3. /\ Advance(j).script = j.script /\ Advance(j).conn = j.conn
      /\ \/ Advance(j).st = "done" /\ Advance(j).at = j.at
         \/ Advance(j).st = "write" /\ Advance(j).at = j.at + 1
  <2>1. CASE j.at = Len(j.script)
    BY <1>2, <2>1 DEF Advance, Jobs
  <2>2. CASE j.at # Len(j.script)
    BY <1>2, <2>2 DEF Advance, Jobs
  <2> QED  BY <2>1, <2>2
<1>4. /\ [j EXCEPT !.st = "record"].script = j.script /\ [j EXCEPT !.st = "record"].at = j.at
      /\ [j EXCEPT !.st = "record"].conn = j.conn /\ [j EXCEPT !.st = "record"].st = "record"
  BY <1>2 DEF Jobs
<1>5. \/ job' = [job EXCEPT ![h] = Advance(j)]
      \/ WriteOk(h) /\ job' = [job EXCEPT ![h] = [j EXCEPT !.st = "record"]]
  BY DEF HandlerStep, WriteOk, WriteErr, Record
<1>6. \/ job'[h] = Advance(j)
      \/ WriteOk(h) /\ job'[h] = [j EXCEPT !.st = "record"]
  BY <1>5 DEF TypeOK
<1>7. \A g \in Handlers : g # h => job'[g] = job[g]
  BY <1>5 DEF TypeOK
<1>8. /\ WriteOk(h) \/ written' = written
      /\ Record(h) \/ pending' = pending
      /\ conn' = conn /\ receipt' = receipt /\ archive' = archive
  BY DEF HandlerStep, WriteOk, WriteErr, Record
<1>9. job[h].at \in Nat
  BY <1>2 DEF Jobs
<1> HIDE DEF j
<1>10. /\ job'[h].conn = j.conn /\ job'[h].script = j.script
       /\ \/ WriteOk(h) /\ job'[h].st = "record" /\ job'[h].at = j.at
          \/ job'[h].st = "done" /\ job'[h].at = j.at
          \/ job'[h].st = "write" /\ job'[h].at = j.at + 1
  BY <1>3, <1>4, <1>6
<1> QED  BY <1>1, <1>7, <1>8, <1>9, <1>10 DEF j

\* What the death of the process changes.
LEMMA CrashEffect ==
    ASSUME TypeOK, Crash
    PROVE  /\ \A h \in Handlers : /\ job'[h].st = IF job[h].st = "idle" THEN "idle" ELSE "dead"
                                  /\ job'[h].conn = job[h].conn
                                  /\ job'[h].script = job[h].script /\ job'[h].at = job[h].at
           /\ \A s \in Sends : /\ receipt'[s].got = receipt[s].got /\ receipt'[s].out = receipt[s].out
                               /\ receipt'[s].pc = IF receipt[s].pc \in {"arrived", "saving"}
                                                   THEN "dropped" ELSE receipt[s].pc
           /\ \A c \in Conns : conn'[c] = IF conn[c] = "new" THEN "new" ELSE "closed"
           /\ pending' = <<>> /\ written' = written /\ archive' = archive
<1>1. \A h \in Handlers : /\ job'[h].st = IF job[h].st = "idle" THEN "idle" ELSE "dead"
                          /\ job'[h].conn = job[h].conn
                          /\ job'[h].script = job[h].script /\ job'[h].at = job[h].at
  BY DEF Crash, TypeOK, Jobs
<1>2. \A s \in Sends : /\ receipt'[s].got = receipt[s].got /\ receipt'[s].out = receipt[s].out
                       /\ receipt'[s].pc = IF receipt[s].pc \in {"arrived", "saving"}
                                           THEN "dropped" ELSE receipt[s].pc
  BY DEF Crash, TypeOK, Receipts
<1>3. \A c \in Conns : conn'[c] = IF conn[c] = "new" THEN "new" ELSE "closed"
  BY DEF Crash, TypeOK, ConnStates
<1> QED  BY <1>1, <1>2, <1>3 DEF Crash

\* What a step of a receipt goroutine changes.
LEMMA ReceiptEffect ==
    ASSUME TypeOK, NEW t \in Sends, ReceiptStep(t)
    PROVE  /\ \A s \in Sends : s # t => receipt'[s] = receipt[s]
           /\ receipt[t].pc \in {"arrived", "saving"} /\ receipt'[t].pc \in {"saving", "done"}
           /\ receipt'[t].out = receipt[t].out
           /\ Pop(t) \/ (receipt'[t].got = receipt[t].got /\ receipt'[t].pc = "done" /\ pending' = pending)
           /\ conn' = conn /\ job' = job /\ written' = written
<1>1. CASE Pop(t)
  BY <1>1, PopTakes DEF Pop
<1>2. CASE IgnoreReceipt(t) \/ PopNothing(t) \/ SaveSelf(t) \/ SaveSelfErr(t)
  <2>1. /\ receipt' = [receipt EXCEPT ![t].pc = "done"] /\ receipt[t].pc \in {"arrived", "saving"}
        /\ conn' = conn /\ job' = job /\ written' = written /\ pending' = pending
    BY <1>2 DEF IgnoreReceipt, PopNothing, SaveSelf, SaveSelfErr
  <2>2. /\ \A s \in Sends : s # t => receipt'[s] = receipt[s]
        /\ receipt'[t].pc = "done" /\ receipt'[t].out = receipt[t].out
        /\ receipt'[t].got = receipt[t].got
    BY <2>1 DEF TypeOK, Receipts
  <2> QED  BY <2>1, <2>2
<1> QED  BY <1>1, <1>2 DEF ReceiptStep

\* Handlers die together, and only then; a written send is a handler's that runs.
LEMMA DeadStep ==
    ASSUME TypeOK, WrittenSound, [Next]_vars, NEW s \in Written
    PROVE  IF Crash THEN Dead(s[1])' ELSE Dead(s[1])' <=> Dead(s[1])
<1> s[1] \in Handlers /\ job[s[1]].st # "idle"
  BY WrittenSends DEF Sends, WrittenSound
<1>1. CASE Crash
  BY <1>1, CrashEffect DEF Dead
<1>2. ASSUME NEW h \in Handlers, NEW c \in Conns, NEW sc \in Scripts, Dispatch(h, c, sc)
      PROVE  Dead(s[1])' <=> Dead(s[1])
  BY <1>2 DEF Dispatch, TypeOK, Dead
<1>3. ASSUME NEW h \in Handlers, HandlerStep(h)
      PROVE  Dead(s[1])' <=> Dead(s[1])
  BY <1>3, HandlerEffect DEF Dead
<1>4. ASSUME job' = job PROVE Dead(s[1])' <=> Dead(s[1])
  BY <1>4 DEF Dead
<1> QED
  BY <1>1, <1>2, <1>3, <1>4 DEF Next, vars, Connect, Lose, Disconnect, Answer, ReceiptStep,
     IgnoreReceipt, PopNothing, Pop, SaveSelf, SaveSelfErr

LEMMA ConnSoundStep == LawInv /\ [Next]_vars => ConnSound'
<1> SUFFICES ASSUME LawInv, [Next]_vars PROVE ConnSound'
  OBVIOUS
<1> TypeOK
  BY DEF LawInv, IInv
<1>1. ASSUME NEW c \in Conns, Connect(c) \/ Lose(c) \/ Disconnect(c) PROVE ConnSound'
  BY <1>1 DEF Connect, Lose, Disconnect, LawInv, ConnSound, Dead, TypeOK
<1>2. ASSUME NEW h \in Handlers, NEW c \in Conns, NEW sc \in Scripts, Dispatch(h, c, sc)
      PROVE  ConnSound'
  BY <1>2 DEF Dispatch, LawInv, ConnSound, Dead, TypeOK
<1>3. ASSUME NEW h \in Handlers, HandlerStep(h) PROVE ConnSound'
  <2>1. /\ job[h].st \in {"write", "record"} /\ job'[h].st \in {"write", "record", "done"}
        /\ \A g \in Handlers : g # h => job'[g] = job[g]
        /\ job'[h].conn = job[h].conn /\ conn' = conn
    BY <1>3, HandlerEffect
  <2> QED  BY <2>1 DEF LawInv, ConnSound, Dead
<1>4. CASE Crash
  BY <1>4, CrashEffect DEF LawInv, ConnSound, Dead
<1>5. CASE UNCHANGED <<conn, job>>
  BY <1>5 DEF LawInv, ConnSound, Dead
<1> QED
  BY <1>1, <1>2, <1>3, <1>4, <1>5 DEF Next, vars, Answer, ReceiptStep, IgnoreReceipt,
     PopNothing, Pop, SaveSelf, SaveSelfErr

LEMMA WrittenPastStep == LawInv /\ [Next]_vars => WrittenPast'
<1> SUFFICES ASSUME LawInv, [Next]_vars PROVE WrittenPast'
  OBVIOUS
<1> TypeOK /\ WrittenSound /\ WrittenPast
  BY DEF LawInv, IInv
<1>1. CASE UNCHANGED <<job, written>>
  BY <1>1 DEF WrittenPast, Written, Past, Recording
<1>2. ASSUME NEW h \in Handlers, NEW c \in Conns, NEW sc \in Scripts, Dispatch(h, c, sc)
      PROVE  WrittenPast'
  <2>1. /\ job'[h].st = "write" /\ job[h].st = "idle" /\ written' = written
        /\ \A g \in Handlers : g # h => job'[g] = job[g]
    BY <1>2 DEF Dispatch, TypeOK
  <2>2. \A s \in Written : s[1] \in Handlers /\ s[1] # h
    BY <2>1, WrittenSends DEF WrittenSound, Sends
  <2> QED  BY <2>1, <2>2 DEF WrittenPast, Written, Past, Recording
<1>3. ASSUME NEW h \in Handlers, HandlerStep(h) PROVE WrittenPast'
  <2> PICK t : t = <<h, job[h].at>>
    OBVIOUS
  <2>1. /\ job[h].st \in {"write", "record"} /\ job[h].at \in Nat
        /\ \A g \in Handlers : g # h => job'[g] = job[g]
        /\ job'[h].script = job[h].script
        /\ \/ WriteOk(h) /\ job'[h].st = "record" /\ job'[h].at = job[h].at
           \/ job'[h].st = "done" /\ job'[h].at = job[h].at
           \/ job'[h].st = "write" /\ job'[h].at = job[h].at + 1
    BY <1>3, HandlerEffect
  <2>2. t \in Sends
    BY <2>1, CurrentSend DEF Writing
  <2>3. \A s \in Written' : s \in Written \/ s = t
    <3>1. CASE WriteOk(h)
      BY <3>1, <2>2, AppendWritten DEF WriteOk
    <3>2. CASE UNCHANGED written
      BY <3>2 DEF Written
    <3> QED  BY <1>3, <3>1, <3>2 DEF HandlerStep, WriteErr, Record
  <2>4. Past(t)' \/ Recording(t)'
    BY <2>1 DEF Past, Recording
  <2>5. \A s \in Written : Recording(s) => s = t \/ Recording(s)'
    <3> TAKE s \in Written
    <3>1. s \in Sends /\ s[1] \in Handlers /\ s = <<s[1], s[2]>>
      BY WrittenSends DEF Sends
    <3> QED  BY <2>1, <3>1 DEF Recording
  <2>6. \A s \in Written : Past(s) => Past(s)'
    BY WrittenStable
  <2>7. \A s \in Written' : Past(s)' \/ Recording(s)'
    BY <2>3, <2>4, <2>5, <2>6 DEF WrittenPast
  <2>8. job'[h].st = "record" => job'[h].script[job'[h].at] # "emoji"
    <3> SUFFICES ASSUME job'[h].st = "record" PROVE job'[h].script[job'[h].at] # "emoji"
      OBVIOUS
    <3>1. WriteOk(h) /\ job'[h].at = job[h].at /\ job'[h].script = job[h].script
      BY <2>1
    <3>2. job[h].script[job[h].at] = "emoji" => job'[h] = Advance(job[h])
      BY <3>1 DEF WriteOk, TypeOK
    <3>3. Advance(job[h]).st \in {"write", "done"}
      BY <2>1, AdvanceType DEF TypeOK, Writing
    <3> QED  BY <3>1, <3>2, <3>3
  <2> QED  BY <2>1, <2>7, <2>8 DEF WrittenPast
<1>4. CASE Crash
  <2>1. /\ Written' = Written
        /\ \A h \in Handlers : job'[h].st \in {"idle", "dead"} /\ job'[h].at = job[h].at
                               /\ (job[h].st # "idle" => job'[h].st = "dead")
    BY <1>4, CrashEffect DEF Written
  <2>2. \A s \in Written : s[1] \in Handlers /\ job[s[1]].st # "idle"
    BY WrittenSends DEF WrittenSound, Sends
  <2>3. \A s \in Written : Past(s)'
    BY <2>1, <2>2 DEF WrittenPast, Past, Recording
  <2> QED  BY <2>1, <2>3 DEF WrittenPast
<1> QED
  BY <1>1, <1>2, <1>3, <1>4 DEF Next, vars, Connect, Lose, Disconnect, Answer, ReceiptStep,
     IgnoreReceipt, PopNothing, Pop, SaveSelf, SaveSelfErr

LEMMA AnswerSoundStep == LawInv /\ [Next]_vars => AnswerSound'
<1> SUFFICES ASSUME LawInv, [Next]_vars, NEW s \in Sends PROVE AnswerSoundOf(s)'
  BY DEF AnswerSound
<1> USE DEF Delivered
<1>0. TypeOK /\ WrittenSound /\ ConnSound /\ AnswerSoundOf(s) /\ GotSound(s)
  BY DEF LawInv, IInv, AnswerSound, ReceiptSound
<1>1. s \in Written => s \in Written' /\ Kind(s)' = Kind(s)
  BY <1>0, WrittenStable
<1>2. ~Crash /\ s \in Written => (Dead(s[1])' <=> Dead(s[1]))
  BY <1>0, DeadStep
<1>3. ASSUME receipt'[s] = receipt[s], ~Crash PROVE AnswerSoundOf(s)'
  <2>1. CASE receipt[s].pc = "none"
    <3>1. receipt'[s].pc = "none" /\ receipt'[s].got = None
      BY <1>0, <1>3, <2>1 DEF GotSound
    <3> QED  BY <3>1 DEF AnswerSoundOf
  <2>2. CASE receipt[s].pc # "none"
    <3>1. s \in Written
      BY <1>0, <2>2 DEF AnswerSoundOf
    <3>2. s \in Written' /\ Kind(s)' = Kind(s) /\ (Dead(s[1])' <=> Dead(s[1]))
      BY <1>1, <1>2, <1>3, <3>1
    <3> QED  BY <1>0, <1>3, <3>2 DEF AnswerSoundOf
  <2> QED  BY <2>1, <2>2
<1>4. ASSUME NEW t \in Sends, NEW out \in Outcomes, Answer(t, out) PROVE AnswerSoundOf(s)'
  <2>0. ~Crash \/ receipt' = receipt
    <3>1. job' = job
      BY <1>4 DEF Answer
    <3>2. Crash => \A c \in Conns : conn'[c] \notin {"up", "lost"}
      BY <1>0, CrashEffect
    <3>3. conn' = conn
      BY <1>4 DEF Answer
    <3> QED  BY <3>2, <3>3 DEF Crash
  <2>1. CASE s # t
    <3>1. receipt'[s] = receipt[s]
      BY <1>4, <2>1 DEF Answer
    <3>2. ~Crash
      <4>1. Crash => conn' # conn
        <5> SUFFICES ASSUME Crash PROVE conn' # conn
          OBVIOUS
        <5>1. PICK c \in Conns : conn[c] \in {"up", "lost"}
          BY DEF Crash
        <5>2. conn'[c] = "closed"
          BY <1>0, <5>1, CrashEffect
        <5> QED  BY <5>1, <5>2
      <4> QED  BY <1>4, <4>1 DEF Answer
    <3> QED  BY <1>3, <3>1, <3>2
  <2>2. CASE s = t
    <3>1. /\ receipt'[s].pc = "arrived" /\ receipt'[s].out = out /\ receipt'[s].got = None
          /\ s \in Written /\ conn[ConnOf(s)] \in {"up", "lost"}
          /\ out = "noid" <=> (Kind(s) = "emoji")
          /\ job' = job /\ written' = written
      BY <1>0, <1>4, <2>2 DEF Answer, TypeOK
    <3>2. s[1] \in Handlers /\ job[s[1]].st # "idle"
      BY <1>0, <3>1 DEF WrittenSound, Sends
    <3>3. ~Dead(s[1])
      BY <1>0, <3>1, <3>2 DEF ConnSound, ConnOf
    <3> QED  BY <1>1, <3>1, <3>3 DEF AnswerSoundOf, Dead
  <2> QED  BY <2>1, <2>2
<1>5. ASSUME NEW t \in Sends, ReceiptStep(t) PROVE AnswerSoundOf(s)'
  <2>1. job' = job /\ written' = written
    BY <1>5 DEF ReceiptStep, IgnoreReceipt, PopNothing, Pop, SaveSelf, SaveSelfErr
  <2>2. CASE s # t
    <3>1. receipt'[s] = receipt[s]
      BY <1>0, <1>5, <2>2, ReceiptEffect
    <3>2. /\ Kind(s)' = Kind(s) /\ (Dead(s[1])' <=> Dead(s[1])) /\ Written' = Written
      BY <2>1 DEF Kind, Dead, Written
    <3> QED  BY <1>0, <3>1, <3>2 DEF AnswerSoundOf
  <2>3. CASE s = t
    <3>1. /\ receipt[s].pc \in {"arrived", "saving"}
          /\ receipt'[s].pc \in {"saving", "done"} /\ receipt'[s].out = receipt[s].out
          /\ receipt'[s].got = receipt[s].got \/ Delivered(receipt[s].out)
      BY <1>0, <1>5, <2>3, ReceiptEffect DEF Pop
    <3>2. /\ Kind(s)' = Kind(s) /\ (Dead(s[1])' <=> Dead(s[1])) /\ Written' = Written
      BY <2>1 DEF Kind, Dead, Written
    <3> QED  BY <1>0, <3>1, <3>2 DEF AnswerSoundOf
  <2> QED  BY <2>2, <2>3
<1>6. CASE Crash
  <2>1. /\ receipt'[s].got = receipt[s].got /\ receipt'[s].out = receipt[s].out
        /\ receipt'[s].pc = IF receipt[s].pc \in {"arrived", "saving"} THEN "dropped" ELSE receipt[s].pc
    BY <1>0, <1>6, CrashEffect
  <2>2. s \in Written => Dead(s[1])'
    BY <1>0, <1>6, DeadStep
  <2>3. receipt[s].pc # "none" => s \in Written
    BY <1>0 DEF AnswerSoundOf
  <2> QED  BY <1>0, <1>1, <2>1, <2>2, <2>3 DEF AnswerSoundOf, GotSound
<1>7. ASSUME receipt' = receipt PROVE AnswerSoundOf(s)'
  BY <1>3, <1>6, <1>7
<1> QED
  BY <1>4, <1>5, <1>6, <1>7 DEF Next, vars, Connect, Lose, Disconnect, Dispatch,
     HandlerStep, WriteOk, WriteErr, Record

LEMMA EntriesLiveStep == LawInv /\ [Next]_vars => EntriesLive'
<1> SUFFICES ASSUME LawInv, [Next]_vars PROVE EntriesLive'
  OBVIOUS
<1>0. TypeOK /\ WrittenSound /\ EntriesLive /\ PendingSound /\ ReceiptSound /\ AnswerSound
  BY DEF LawInv, IInv
<1>1. \A s \in Sends : \A g \in Written : receipt[s].got = g => s \in Written
  BY <1>0, WrittenSends, OutboundAssumption DEF AnswerSound, AnswerSoundOf
\* A holder and what it holds are written; their handlers live and die as one.
<1>2. ASSUME NEW s \in Sends, NEW g \in Written, receipt[s].got = g
      PROVE  (Dead(s[1])' <=> Dead(g[1])') /\ Kind(g)' # "emoji"
  <2>1. s \in Written /\ (Dead(s[1]) <=> Dead(g[1])) /\ Kind(g) # "emoji"
    BY <1>0, <1>1, <1>2 DEF EntriesLive
  <2>2. Kind(g)' = Kind(g)
    BY <1>0, WrittenStable
  <2>3. IF Crash THEN Dead(s[1])' ELSE Dead(s[1])' <=> Dead(s[1])
    BY <1>0, <2>1, DeadStep
  <2>4. IF Crash THEN Dead(g[1])' ELSE Dead(g[1])' <=> Dead(g[1])
    BY <1>0, DeadStep
  <2> QED  BY <2>1, <2>2, <2>3, <2>4
\* What is queued stays a message of a running handler until a crash.
<1>3. ASSUME NEW p \in Written, NEW i \in 1..Len(pending), pending[i].send = p, ~Crash
      PROVE  ~Dead(p[1])' /\ Kind(p)' # "emoji"
  <2>1. ~Dead(p[1]) /\ Kind(p) # "emoji"
    BY <1>0, <1>3 DEF EntriesLive
  <2> QED  BY <1>0, <1>3, <2>1, WrittenStable, DeadStep
\* What a receipt holds after a step it held or took from the queue.
<1>4. ASSUME NEW s \in Sends, NEW g \in Written', receipt'[s].got = g
      PROVE  (Dead(s[1])' <=> Dead(g[1])') /\ Kind(g)' # "emoji"
  <2>1. g # None /\ g \in Sends
    BY <1>0, OutboundAssumption, TypeStep DEF TypeOK, Written
  <2>2. CASE receipt[s].got = g
    <3>1. g \in Written
      BY <1>0, <2>1, <2>2 DEF ReceiptSound, GotSound
    <3> QED  BY <1>2, <2>2, <3>1
  <2>3. CASE receipt[s].got # g
    <3>1. Pop(s) /\ ~Crash
      <4>1. \A t \in Sends : ReceiptStep(t) => Pop(s) \/ receipt'[s].got = receipt[s].got
        BY <1>0, ReceiptEffect
      <4>2. Crash => receipt'[s].got = receipt[s].got
        BY <1>0, CrashEffect
      <4>3. \A t \in Sends, out \in Outcomes : Answer(t, out) => receipt'[s] = receipt[s] \/ receipt'[s].got = None
        BY <1>0 DEF Answer, TypeOK
      <4> QED
        BY <1>4, <2>1, <2>3, <4>1, <4>2, <4>3 DEF Next, vars, Connect, Lose, Disconnect,
           Dispatch, HandlerStep, WriteOk, WriteErr, Record
    <3>2. pending[1].send = g /\ 1 \in 1..Len(pending)
      BY <1>0, <1>4, <3>1, PopTakes
    <3>3. g \in Written
      BY <1>0, <3>2 DEF PendingSound, EntrySound
    <3>4. ~Dead(g[1])' /\ Kind(g)' # "emoji"
      BY <1>3, <3>1, <3>2, <3>3
    <3>5. s \in Written /\ ~Dead(s[1])
      BY <1>0, <3>1 DEF Pop, AnswerSound, AnswerSoundOf
    <3>6. ~Dead(s[1])'
      BY <1>0, <3>1, <3>5, DeadStep
    <3> QED  BY <3>4, <3>6
  <2> QED  BY <2>2, <2>3
<1>5. ASSUME NEW p \in Written', NEW i \in 1..Len(pending'), pending'[i].send = p
      PROVE  ~Dead(p[1])' /\ Kind(p)' # "emoji"
  <2>1. CASE Crash
    BY <1>0, <2>1, CrashEffect
  <2>2. ASSUME ~Crash, NEW k \in 1..Len(pending), pending[k].send = p
        PROVE  ~Dead(p[1])' /\ Kind(p)' # "emoji"
    <3>1. p \in Written
      BY <1>0, <2>2 DEF PendingSound, EntrySound
    <3> QED  BY <1>3, <2>2, <3>1
  <2>3. CASE ~Crash /\ pending' = pending
    BY <1>5, <2>2, <2>3
  <2>4. ASSUME ~Crash, NEW s \in Sends, Pop(s) PROVE ~Dead(p[1])' /\ Kind(p)' # "emoji"
    <3>1. /\ pending'[i] = pending[i + 1] /\ i + 1 \in 1..Len(pending)
      BY <1>0, <2>4, PopTakes
    <3> QED  BY <1>5, <2>2, <2>4, <3>1
  <2>5. ASSUME ~Crash, NEW h \in Handlers, Record(h) PROVE ~Dead(p[1])' /\ Kind(p)' # "emoji"
    <3> PICK t : t = <<h, job[h].at>>
      OBVIOUS
    <3>1. /\ t \in Written /\ Len(pending) \in Nat /\ Len(pending') = Len(pending) + 1
          /\ \A k \in 1..Len(pending) : pending'[k] = pending[k]
          /\ pending'[Len(pending) + 1] = [send |-> t, save |-> Kind(t) = "reply"]
      BY <1>0, <2>5, RecordAppends
    <3>2. CASE i \in 1..Len(pending)
      BY <1>5, <2>2, <2>5, <3>1, <3>2
    <3>3. CASE i = Len(pending) + 1
      <4> DEFINE b == Kind(t) = "reply"
      <4>1. pending'[i] = [send |-> t, save |-> b]
        BY <3>1, <3>3
      <4> HIDE DEF b
      <4>2. p = t
        BY <1>5, <4>1
      <4>3. Kind(t) # "emoji" /\ ~Dead(t[1])
        BY <2>5 DEF Record, Kind, Dead, LawInv, WrittenPast
      <4> QED  BY <1>0, <2>5, <3>1, <4>2, <4>3, WrittenStable, DeadStep
    <3> QED  BY <3>1, <3>2, <3>3
  <2> QED
    BY <2>1, <2>3, <2>4, <2>5 DEF Next, vars, Connect, Lose, Disconnect, Dispatch, HandlerStep,
       WriteOk, WriteErr, Answer, ReceiptStep, IgnoreReceipt, PopNothing, SaveSelf, SaveSelfErr
<1> QED  BY <1>4, <1>5 DEF EntriesLive

LEMMA AccountedStep == LawInv /\ [Next]_vars => Accounted'
<1> SUFFICES ASSUME LawInv, [Next]_vars, NEW s \in Written', ~Dead(s[1])', Kind(s)' # "emoji", ~Recording(s)'
             PROVE  \/ \E i \in 1..Len(pending') : pending'[i].send = s
                    \/ \E t \in Sends : receipt'[t].got = s
  BY DEF Accounted
<1>0. TypeOK /\ WrittenSound /\ Accounted /\ ReceiptSound /\ WrittenPast
  BY DEF LawInv, IInv
<1>1. s \in Sends /\ s[1] \in Handlers /\ s[2] \in Int /\ s # None /\ s = <<s[1], s[2]>>
  BY <1>0, TypeStep, OutboundAssumption DEF TypeOK, Written, Sends, Slots
<1> DEFINE Kept == \/ \E i \in 1..Len(pending') : pending'[i].send = s
                   \/ \E t \in Sends : receipt'[t].got = s
\* A message that was accounted for is so after the step.
<1>2. ASSUME s \in Written, ~Recording(s) PROVE Kept
  <2>1. ~Crash
    BY <1>0, <1>2, DeadStep
  <2>2. ~Dead(s[1]) /\ Kind(s) # "emoji"
    BY <1>0, <1>2, <2>1, DeadStep, WrittenStable
  <2>3. ASSUME NEW t \in Sends, receipt[t].got = s PROVE Kept
    <3>1. receipt[t].pc \notin {"none", "arrived"}
      BY <1>0, <1>1, <2>3 DEF ReceiptSound, GotSound
    <3>2. receipt'[t].got = s
      <4>1. ASSUME NEW u \in Sends, ReceiptStep(u) PROVE receipt'[t].got = s
        BY <1>0, <2>3, <3>1, <4>1, ReceiptEffect DEF Pop
      <4>2. ASSUME NEW u \in Sends, NEW out \in Outcomes, Answer(u, out) PROVE receipt'[t].got = s
        BY <1>0, <2>3, <3>1, <4>2 DEF Answer, TypeOK
      <4> QED
        BY <2>1, <2>3, <4>1, <4>2 DEF Next, vars, Connect, Lose, Disconnect, Dispatch,
           HandlerStep, WriteOk, WriteErr, Record
    <3> QED  BY <3>2
  <2>4. ASSUME NEW i \in 1..Len(pending), pending[i].send = s PROVE Kept
    <3>1. CASE pending' = pending
      BY <2>4, <3>1
    <3>2. ASSUME NEW h \in Handlers, Record(h) PROVE Kept
      <4>1. /\ Len(pending) \in Nat /\ Len(pending') = Len(pending) + 1
            /\ \A k \in 1..Len(pending) : pending'[k] = pending[k]
        BY <1>0, <3>2, RecordAppends
      <4>2. i \in 1..Len(pending') /\ pending'[i] = pending[i]
        BY <4>1
      <4> QED  BY <2>4, <4>2
    <3>3. ASSUME NEW t \in Sends, Pop(t) PROVE Kept
      <4>1. /\ Len(pending) \in Nat /\ Len(pending') = Len(pending) - 1
            /\ \A k \in 1..Len(pending') : pending'[k] = pending[k + 1]
            /\ receipt'[t].got = pending[1].send
        BY <1>0, <3>3, PopTakes
      <4>2. CASE i = 1
        BY <2>4, <4>1, <4>2
      <4>3. CASE i # 1
        <5>1. i - 1 \in 1..Len(pending') /\ pending'[i - 1] = pending[(i - 1) + 1]
          BY <4>1, <4>3
        <5>2. pending'[i - 1].send = s
          BY <2>4, <5>1
        <5> QED  BY <5>1, <5>2
      <4> QED  BY <4>2, <4>3
    <3> QED
      BY <2>1, <3>1, <3>2, <3>3 DEF Next, vars, Connect, Lose, Disconnect, Dispatch, HandlerStep,
         WriteOk, WriteErr, Answer, ReceiptStep, IgnoreReceipt, PopNothing, SaveSelf, SaveSelfErr
  <2> QED  BY <1>0, <1>2, <2>2, <2>3, <2>4 DEF Accounted
\* Record is the step that takes a message out of its handler's hands.
<1>3. ASSUME s \in Written, Recording(s) PROVE Kept
  <2>1. ~Crash
    BY <1>0, <1>3, DeadStep
  <2>2. Record(s[1])
    <3>1. ASSUME NEW h \in Handlers, HandlerStep(h), ~Record(s[1]) PROVE Recording(s)'
      <4>1. h # s[1]
        BY <1>3, <3>1 DEF HandlerStep, WriteOk, WriteErr, Recording
      <4> QED  BY <1>0, <1>1, <1>3, <3>1, <4>1, HandlerEffect DEF Recording
    <3>2. ASSUME NEW h \in Handlers, NEW c \in Conns, NEW sc \in Scripts, Dispatch(h, c, sc)
          PROVE  Recording(s)'
      BY <1>0, <1>1, <1>3, <3>2 DEF Dispatch, TypeOK, Recording
    <3>3. job' = job => Recording(s)'
      BY <1>3 DEF Recording
    <3> QED
      BY <2>1, <3>1, <3>2, <3>3 DEF Next, vars, Connect, Lose, Disconnect, Answer, ReceiptStep,
         IgnoreReceipt, PopNothing, Pop, SaveSelf, SaveSelfErr
  <2>3. s = <<s[1], job[s[1]].at>>
    BY <1>1, <1>3 DEF Recording
  <2>4. /\ Len(pending) \in Nat /\ Len(pending') = Len(pending) + 1
        /\ pending'[Len(pending) + 1] = [send |-> s, save |-> Kind(s) = "reply"]
    BY <1>0, <1>1, <2>2, <2>3, RecordAppends
  <2> DEFINE b == Kind(s) = "reply"
  <2>5. pending'[Len(pending) + 1] = [send |-> s, save |-> b] /\ Len(pending) + 1 \in 1..Len(pending')
    BY <2>4
  <2> HIDE DEF b
  <2>6. pending'[Len(pending) + 1].send = s
    BY <2>5
  <2> QED  BY <2>5, <2>6
\* A message just written is in its handler's hands.
<1>4. s \in Written
  <2> SUFFICES ASSUME s \notin Written PROVE FALSE
    OBVIOUS
  <2>1. PICK h \in Handlers : WriteOk(h)
    BY DEF Next, vars, Connect, Lose, Disconnect, Dispatch, HandlerStep, WriteErr, Record,
       Answer, ReceiptStep, IgnoreReceipt, PopNothing, Pop, SaveSelf, SaveSelfErr, Crash, Written
  <2> PICK t : t = <<h, job[h].at>>
    OBVIOUS
  <2>2. Written' = Written \cup {t}
    BY <1>0, <2>1, CurrentSend, AppendWritten DEF WriteOk, Writing
  <2>3. s = t /\ s[1] = h /\ s[2] = job[h].at
    BY <1>1, <2>2
  <2>4. /\ job'[h].script = job[h].script
        /\ \/ job'[h].st = "record" /\ job'[h].at = job[h].at
           \/ job'[h] = Advance(job[h]) /\ job[h].script[job[h].at] = "emoji"
    <3>1. CASE job[h].script[job[h].at] = "emoji"
      BY <1>0, <2>1, <3>1, HandlerEffect DEF WriteOk, TypeOK, HandlerStep
    <3>2. CASE job[h].script[job[h].at] # "emoji"
      <4>1. job'[h] = [job[h] EXCEPT !.st = "record"]
        BY <1>0, <2>1, <3>2 DEF WriteOk, TypeOK
      <4> QED  BY <1>0, <4>1 DEF TypeOK, Jobs
    <3> QED  BY <3>1, <3>2
  <2> QED  BY <2>3, <2>4 DEF Recording, Kind
<1> QED  BY <1>2, <1>3, <1>4

LEMMA LawInvAlways == Spec => []LawInv
<1>1. Init => IInv
  BY InitIInv
<1>2. Init => LawInv
  <2> SUFFICES ASSUME Init PROVE LawInv
    OBVIOUS
  <2>1. Written = {} /\ Len(pending) = 0
    BY DEF Init, Written
  <2> QED
    BY <1>1, <2>1, OutboundAssumption DEF Init, LawInv, ConnSound, WrittenPast, AnswerSound,
       AnswerSoundOf, EntriesLive, Accounted
<1>3. LawInv /\ IInv' /\ [Next]_vars => LawInv'
  BY ConnSoundStep, WrittenPastStep, AnswerSoundStep, EntriesLiveStep, AccountedStep DEF LawInv
<1> QED  BY <1>2, <1>3, Invariance, PTL DEF Spec

\* A set of images of a finite set under an injective function has its size.
LEMMA SameSize ==
    ASSUME NEW S, NEW T, IsFiniteSet(S), NEW f \in [S -> T],
           \A x, y \in S : f[x] = f[y] => x = y,
           \A z \in T : \E x \in S : f[x] = z
    PROVE  IsFiniteSet(T) /\ Cardinality(T) = Cardinality(S)
<1>1. f \in Surjection(S, T)
  BY DEF Surjection
<1>2. f \in Injection(S, T)
  BY DEF Injection, IsInjective
<1> QED  BY <1>1, <1>2, FS_Surjection

\* Taking a part away from a finite set.
LEMMA Remainder ==
    ASSUME NEW S, NEW T, IsFiniteSet(S), T \subseteq S
    PROVE  /\ IsFiniteSet(T) /\ Cardinality(T) \in Nat /\ Cardinality(S) \in Nat
           /\ Cardinality(S \ T) = Cardinality(S) - Cardinality(T)
<1>1. IsFiniteSet(T) /\ S \cap T = T
  BY FS_Subset
<1> QED  BY <1>1, FS_Difference, FS_CardinalityType

\* Only finitely many requests were written.
LEMMA WrittenFinite == TypeOK => IsFiniteSet(Written)
<1> SUFFICES ASSUME TypeOK PROVE IsFiniteSet(Written)
  OBVIOUS
<1> DEFINE f == [i \in 1..Len(written) |-> written[i]]
<1>1. Len(written) \in Nat
  BY DEF TypeOK
<1>2. IsFiniteSet(1..Len(written))
  BY <1>1, FS_Interval
<1>3. f \in Surjection(1..Len(written), Written)
  BY DEF Surjection, Written
<1> QED  BY <1>2, <1>3, FS_Surjection

\* The queue has as many entries as distinct sends in it.
LEMMA QueueSize ==
    TypeOK /\ OwnedOnce => /\ IsFiniteSet(PendingSends)
                           /\ Cardinality(PendingSends) = Len(pending)
<1> SUFFICES ASSUME TypeOK, OwnedOnce
             PROVE  IsFiniteSet(PendingSends) /\ Cardinality(PendingSends) = Len(pending)
  OBVIOUS
<1> DEFINE f == [i \in 1..Len(pending) |-> pending[i].send]
<1>1. Len(pending) \in Nat
  BY DEF TypeOK
<1>2. IsFiniteSet(1..Len(pending)) /\ Cardinality(1..Len(pending)) = Len(pending)
  <2> PICK n : n = Len(pending)
    OBVIOUS
  <2>1. n \in Int /\ 1 \in Int
    BY <1>1
  <2>2. IsFiniteSet(1..n) /\ Cardinality(1..n) = IF 1 > n THEN 0 ELSE n - 1 + 1
    BY <2>1, FS_Interval, Zenon
  <2> QED  BY <1>1, <2>2
<1>3. f \in [1..Len(pending) -> PendingSends]
  BY DEF PendingSends
<1>4. \A x, y \in 1..Len(pending) : f[x] = f[y] => x = y
  BY DEF OwnedOnce
<1>5. \A z \in PendingSends : \E x \in 1..Len(pending) : f[x] = z
  BY DEF PendingSends
<1> HIDE DEF f
<1> QED  BY <1>2, <1>3, <1>4, <1>5, SameSize

\* The law counts the messages of running handlers in two ways: queued or popped,
\* and acknowledged or not.
LEMMA LawHolds == LawInv => BacklogLaw
<1> SUFFICES ASSUME LawInv, Quiescent
             PROVE  Len(pending) = Cardinality(Unacknowledged) + Cardinality(PoppedTooEarly)
  BY DEF BacklogLaw
<1> USE DEF Delivered
<1> DEFINE Messages == {s \in LiveSends : Kind(s) # "emoji"}
           Acked == {s \in LiveSends : receipt[s].pc = "done" /\ Delivered(receipt[s].out)}
           Holders == {s \in Acked : receipt[s].got # None}
           Gots == {receipt[s].got : s \in Holders}
<1>0. TypeOK /\ OwnedOnce /\ PendingSound /\ ReceiptSound /\ WrittenSound /\ LiveSends \subseteq Sends
  BY WrittenSends DEF LawInv, IInv, LiveSends
<1>1. IsFiniteSet(Messages)
  BY <1>0, WrittenFinite, FS_Subset DEF LiveSends
<1>2. Acked \subseteq Messages /\ Holders \subseteq Acked
  BY <1>0 DEF LawInv, AnswerSound, AnswerSoundOf
<1>3. Unacknowledged = Messages \ Acked /\ PoppedTooEarly = Acked \ Holders
  BY DEF Unacknowledged, PoppedTooEarly
<1>4. /\ Cardinality(Unacknowledged) = Cardinality(Messages) - Cardinality(Acked)
      /\ Cardinality(PoppedTooEarly) = Cardinality(Acked) - Cardinality(Holders)
      /\ Cardinality(Messages) \in Nat /\ Cardinality(Acked) \in Nat /\ Cardinality(Holders) \in Nat
      /\ IsFiniteSet(Holders)
  BY <1>1, <1>2, <1>3, Remainder
<1>5. PendingSends \subseteq Messages
  <2> SUFFICES ASSUME NEW i \in 1..Len(pending), NEW p, p = pending[i].send PROVE p \in Messages
    BY DEF PendingSends
  <2>1. p \in Written
    BY <1>0 DEF PendingSound, EntrySound
  <2> QED  BY <2>1 DEF LawInv, EntriesLive, LiveSends, Dead
<1>6. Gots \subseteq Messages
  <2> SUFFICES ASSUME NEW s \in Holders, NEW g, g = receipt[s].got PROVE g \in Messages
    OBVIOUS
  <2>1. g \in Written /\ s \in Sends
    BY <1>0 DEF ReceiptSound, GotSound
  <2> QED  BY <2>1 DEF LawInv, EntriesLive, LiveSends, Dead
<1>7. Messages \ PendingSends \subseteq Gots
  <2> SUFFICES ASSUME NEW s \in Messages, s \notin PendingSends PROVE s \in Gots
    OBVIOUS
  <2>1. s \in Written /\ ~Dead(s[1]) /\ ~Recording(s) /\ s # None
    BY <1>0, OutboundAssumption DEF LiveSends, Dead, Quiescent, Writing, Recording, Sends
  <2>2. PICK t \in Sends : receipt[t].got = s
    BY <2>1 DEF LawInv, Accounted, PendingSends
  <2>3. ~Dead(t[1]) /\ receipt[t].pc # "none" /\ t \in Written /\ receipt[t].out = "ok"
    BY <2>1, <2>2 DEF LawInv, EntriesLive, AnswerSound, AnswerSoundOf
  <2>4. receipt[t].pc = "done"
    <3>1. receipt[t].pc \in ReceiptStates
      BY <1>0 DEF TypeOK, Receipts
    <3> QED  BY <2>3, <3>1 DEF LawInv, AnswerSound, AnswerSoundOf, Quiescent, ReceiptStates
  <2>5. t \in Holders
    BY <2>1, <2>2, <2>3, <2>4 DEF LiveSends, Dead
  <2> QED  BY <2>2, <2>5
<1>8. PendingSends \cap Gots = {}
  BY <1>0 DEF OwnedOnce
<1>9. Messages \ PendingSends = Gots
  BY <1>6, <1>7, <1>8
<1>10. Cardinality(Gots) = Cardinality(Holders)
  <2> DEFINE f == [s \in Holders |-> receipt[s].got]
  <2>1. f \in [Holders -> Gots]
    OBVIOUS
  <2>2. \A x, y \in Holders : f[x] = f[y] => x = y
    BY <1>0 DEF OwnedOnce
  <2>3. \A z \in Gots : \E x \in Holders : f[x] = z
    OBVIOUS
  <2> HIDE DEF f, Gots, Holders
  <2> QED  BY <1>4, <2>1, <2>2, <2>3, SameSize
<1>11. /\ Cardinality(Gots) = Cardinality(Messages) - Cardinality(PendingSends)
       /\ Cardinality(PendingSends) = Len(pending)
  BY <1>0, <1>1, <1>5, <1>9, Remainder, QueueSize
<1> HIDE DEF Messages, Acked, Holders, Gots
<1>12. Len(pending) \in Nat
  BY <1>0 DEF TypeOK
<1> QED  BY <1>4, <1>10, <1>11, <1>12

\* The law of the backlog, whatever the environment does: when nothing runs, the
\* queue has one entry for each message of a running process never acknowledged,
\* and one for each receipt that came before its request was recorded.
THEOREM BacklogLawAlways == Spec => []BacklogLaw
BY LawInvAlways, LawHolds, PTL

-----------------------------------------------------------------------------
(* The promise of RequestLog. *)

\* A text that is queued or was popped.
Owned(s) == s \in PendingSends \/ \E t \in Sends : receipt[t].got = s

\* Who records stays the same as long as no handler begins or ends it.
LEMMA NotedStays ==
    ASSUME UNCHANGED written,
           \A h \in Handlers : /\ job'[h].st = "record" <=> job[h].st = "record"
                               /\ job[h].st = "record" => job'[h].at = job[h].at,
           TypeOK
    PROVE  UNCHANGED Written /\ UNCHANGED BeingNoted
<1>1. Written' = Written
  BY DEF Written
<1>2. \A s \in Written : s[1] \in Handlers
  BY WrittenSends DEF Sends
<1> QED  BY <1>1, <1>2 DEF BeingNoted, Recording

\* What is expected stays the same as long as nobody dies and texts only change hands.
LEMMA ExpectedStays ==
    ASSUME \A h \in Handlers : Dead(h)' <=> Dead(h),
           \A s \in Sends : Owned(s)' <=> Owned(s)
    PROVE  UNCHANGED Expected
<1>1. \A s \in Sends : s[1] \in Handlers
  BY DEF Sends
<1> QED  BY <1>1 DEF Expected, Owned, Dead

\* A request is written when its handler is past every earlier one.
LEMMA WriteLogged ==
    ASSUME LawInv, [Next]_vars, NEW h \in Handlers, WriteOk(h)
    PROVE  Log!Next
<1>0. TypeOK /\ WrittenSound /\ WrittenPast
  BY DEF LawInv, IInv
<1> PICK r : r = <<h, job[h].at>>
  OBVIOUS
<1>1. job[h].st = "write" /\ r \in Sends /\ Written' = Written \cup {r} /\ job[h].at \in Nat
  <2>1. job[h].st = "write" /\ r \in Sends
    BY <1>0, CurrentSend DEF WriteOk, Writing
  <2>2. Written' = Written \cup {r}
    BY <1>0, <2>1, AppendWritten DEF WriteOk
  <2> QED  BY <1>0, <2>1, <2>2 DEF TypeOK, Jobs
<1>2. \A q \in Written : q[1] = r[1] => q[2] < r[2] /\ q \notin BeingNoted
  <2> SUFFICES ASSUME NEW q \in Written, q[1] = h
               PROVE  q[2] < job[h].at /\ ~Recording(q)
    BY DEF BeingNoted
  <2>1. ~Recording(q)
    BY <1>1 DEF Recording
  <2>2. Past(q)
    BY <1>0, <2>1 DEF WrittenPast
  <2> QED  BY <1>1, <2>1, <2>2 DEF Past
<1>3. r \notin Written
  BY <1>1, <1>2
<1>4. /\ job'[h].st \in {"record", "done", "write"}
      /\ job'[h].st = "record" => job'[h].at = job[h].at
      /\ \A g \in Handlers : g # h => job'[g] = job[g]
      /\ pending' = pending /\ receipt' = receipt
  <2>1. HandlerStep(h)
    BY DEF HandlerStep
  <2>2. ~Record(h)
    BY <1>1 DEF Record
  <2> QED  BY <1>0, <1>1, <2>1, <2>2, HandlerEffect
<1>5. BeingNoted' \in {BeingNoted, BeingNoted \cup {r}}
  <2>1. \A s \in Sends : s[1] \in Handlers /\ s = <<s[1], s[2]>>
    BY DEF Sends
  <2>2. ASSUME NEW s \in Written, s[1] # h PROVE Recording(s)' <=> Recording(s)
    BY <1>0, <1>4, <2>1, <2>2, WrittenSends DEF Recording
  <2>3. ASSUME NEW s \in Written, s[1] = h PROVE ~Recording(s) /\ ~Recording(s)'
    <3>1. s[2] # job[h].at
      BY <1>1, <1>2, <2>3
    <3> QED  BY <1>1, <1>4, <2>3, <3>1 DEF Recording
  <2>4. \A s \in Written : Recording(s)' <=> Recording(s)
    BY <2>2, <2>3
  <2>5. BeingNoted' = BeingNoted \cup (IF Recording(r)' THEN {r} ELSE {})
    BY <1>1, <1>3, <2>4 DEF BeingNoted
  <2> QED  BY <2>5
<1>6. UNCHANGED Expected
  <2>1. \A g \in Handlers : Dead(g)' <=> Dead(g)
    BY <1>1, <1>4 DEF Dead
  <2>2. \A s \in Sends : Owned(s)' <=> Owned(s)
    BY <1>4 DEF Owned, PendingSends
  <2> QED  BY <2>1, <2>2, ExpectedStays
<1>7. Log!Write(r)
  BY <1>1, <1>2, <1>5, <1>6 DEF Log!Write
<1>8. r \in Written' \ Written
  BY <1>1, <1>3
<1> QED  BY <1>7, <1>8 DEF Log!Next

\* What is recorded was being noted, and is expected from then on.
LEMMA RecordLogged ==
    ASSUME LawInv, [Next]_vars, NEW h \in Handlers, Record(h)
    PROVE  Log!Next
<1>0. TypeOK /\ WrittenSound
  BY DEF LawInv, IInv
<1> PICK r : r = <<h, job[h].at>>
  OBVIOUS
<1>1. /\ job[h].st = "record" /\ r \in Written /\ r \in Sends /\ Written' = Written
      /\ Len(pending) \in Nat /\ Len(pending') = Len(pending) + 1
      /\ \A i \in 1..Len(pending) : pending'[i] = pending[i]
      /\ pending'[Len(pending) + 1].send = r
  <2>1. /\ r \in Written /\ Len(pending) \in Nat /\ Len(pending') = Len(pending) + 1
        /\ \A i \in 1..Len(pending) : pending'[i] = pending[i]
        /\ pending'[Len(pending) + 1] = [send |-> r, save |-> Kind(r) = "reply"]
    BY <1>0, RecordAppends
  <2>2. job[h].st = "record" /\ Written' = Written
    BY DEF Record, Written
  <2> QED  BY <1>0, <2>1, <2>2, WrittenSends
<1>2. /\ job'[h].st \in {"done", "write"}
      /\ \A g \in Handlers : g # h => job'[g] = job[g]
      /\ receipt' = receipt
  <2>1. HandlerStep(h)
    BY DEF HandlerStep
  <2>2. ~WriteOk(h)
    BY <1>1 DEF WriteOk
  <2> QED  BY <1>0, <2>1, <2>2, HandlerEffect
<1>3. r \in BeingNoted
  BY <1>1 DEF BeingNoted, Recording
<1>4. BeingNoted' = BeingNoted \ {r}
  <2>1. \A s \in Written : s[1] \in Handlers /\ s = <<s[1], s[2]>>
    BY <1>0, WrittenSends DEF Sends
  <2>2. \A s \in Written : Recording(s)' <=> Recording(s) /\ s # r
    <3> SUFFICES ASSUME NEW s \in Written
                 PROVE  Recording(s)' <=> Recording(s) /\ s # r
      OBVIOUS
    <3>1. CASE s[1] = h
      BY <1>1, <1>2, <2>1, <3>1 DEF Recording
    <3>2. CASE s[1] # h
      BY <1>2, <2>1, <3>2 DEF Recording
    <3> QED  BY <3>1, <3>2
  <2> QED  BY <1>1, <2>2 DEF BeingNoted
<1>5. PendingSends' = PendingSends \cup {r}
  <2>1. 1..(Len(pending) + 1) = (1..Len(pending)) \cup {Len(pending) + 1}
    BY <1>1
  <2> QED  BY <1>1, <2>1 DEF PendingSends
<1>6. Expected' = Expected \cup {r}
  <2>1. \A s \in Sends : s[1] \in Handlers
    BY DEF Sends
  <2>2. \A g \in Handlers : Dead(g)' <=> Dead(g)
    BY <1>1, <1>2 DEF Dead
  <2>3. \A s \in Sends : Owned(s)' <=> Owned(s) \/ s = r
    BY <1>2, <1>5 DEF Owned
  <2>4. ~Dead(r[1])
    BY <1>1 DEF Dead
  <2> QED  BY <1>1, <2>1, <2>2, <2>3, <2>4 DEF Expected, Owned, Dead
<1>7. Log!Record(r)
  BY <1>1, <1>4, <1>6 DEF Log!Record
<1> QED  BY <1>3, <1>7 DEF Log!Next

\* A text goes from the queue to the receipt that pops it.
LEMMA PopOwned ==
    ASSUME LawInv, NEW t \in Sends, Pop(t)
    PROVE  \A s \in Sends : Owned(s)' <=> Owned(s)
<1>1. TypeOK /\ receipt[t].got = None
  BY DEF LawInv, IInv, ReceiptSound, GotSound, Pop
<1>2. /\ Len(pending) \in Nat /\ 1 \in 1..Len(pending)
      /\ Len(pending') = Len(pending) - 1
      /\ \A i \in 1..Len(pending') : pending'[i] = pending[i + 1] /\ i + 1 \in 1..Len(pending)
      /\ receipt'[t].got = pending[1].send
      /\ \A s \in Sends : s # t => receipt'[s] = receipt[s]
  BY <1>1, PopTakes
<1>3. ASSUME NEW s \in PendingSends PROVE s \in PendingSends' \/ s = pending[1].send
  <2>1. PICK i \in 1..Len(pending) : s = pending[i].send
    BY <1>3 DEF PendingSends
  <2>2. CASE i # 1
    <3>1. i - 1 \in 1..Len(pending') /\ (i - 1) + 1 = i
      BY <1>2, <2>2
    <3>2. pending'[i - 1] = pending[i]
      BY <1>2, <3>1
    <3> QED  BY <2>1, <3>1, <3>2 DEF PendingSends
  <2> QED  BY <2>1, <2>2
<1>4. PendingSends' \subseteq PendingSends /\ pending[1].send \in PendingSends
  BY <1>2 DEF PendingSends
<1>5. None \notin Sends
  BY OutboundAssumption
<1> SUFFICES ASSUME NEW s \in Sends PROVE Owned(s)' <=> Owned(s)
  OBVIOUS
<1>6. Owned(s) => Owned(s)'
  <2>1. CASE s \in PendingSends
    BY <1>2, <1>3, <2>1 DEF Owned
  <2>2. ASSUME NEW u \in Sends, receipt[u].got = s PROVE Owned(s)'
    <3>1. u # t
      BY <1>1, <1>5, <2>2
    <3> QED  BY <1>2, <2>2, <3>1 DEF Owned
  <2> QED  BY <2>1, <2>2 DEF Owned
<1>7. Owned(s)' => Owned(s)
  <2>1. CASE s \in PendingSends'
    BY <1>4, <2>1 DEF Owned
  <2>2. ASSUME NEW u \in Sends, receipt'[u].got = s PROVE Owned(s)
    <3>1. CASE u = t
      BY <1>2, <1>4, <2>2, <3>1 DEF Owned
    <3>2. CASE u # t
      BY <1>2, <2>2, <3>2 DEF Owned
    <3> QED  BY <3>1, <3>2
  <2> QED  BY <2>1, <2>2 DEF Owned
<1> QED  BY <1>6, <1>7

\* With the process dies what it was noting and what it expected.
LEMMA CrashLogged == LawInv /\ Crash => Log!Next
<1> SUFFICES ASSUME LawInv, Crash PROVE Log!Next
  OBVIOUS
<1>0. TypeOK /\ WrittenSound /\ ReceiptSound
  BY DEF LawInv, IInv
<1>1. /\ \A h \in Handlers : job'[h].st = IF job[h].st = "idle" THEN "idle" ELSE "dead"
      /\ \A s \in Sends : receipt'[s].got = receipt[s].got
      /\ pending' = <<>> /\ written' = written
  BY <1>0, CrashEffect
<1>2. Written' = Written
  BY <1>1 DEF Written
<1>3. \A s \in Sends : s[1] \in Handlers
  BY DEF Sends
<1>4. BeingNoted' = {}
  BY <1>0, <1>1, <1>2, <1>3, WrittenSends DEF BeingNoted, Recording
<1>5. Expected' = {}
  <2> SUFFICES ASSUME NEW s \in Sends, job'[s[1]].st # "dead", Owned(s)'
               PROVE  FALSE
    BY DEF Expected, Owned
  <2>1. job[s[1]].st = "idle"
    BY <1>1, <1>3
  <2>2. PendingSends' = {}
    BY <1>1 DEF PendingSends
  <2>3. PICK t \in Sends : receipt[t].got = s
    BY <1>1, <2>2 DEF Owned
  <2>4. s \in Written
    <3>1. s # None
      BY OutboundAssumption
    <3> QED  BY <1>0, <2>3, <3>1 DEF ReceiptSound, GotSound
  <2> QED  BY <1>0, <2>1, <2>4 DEF WrittenSound
<1> QED  BY <1>2, <1>4, <1>5 DEF Log!Next, Log!Crash

LEMMA LogStep == LawInv /\ [Next]_vars => [Log!Next]_(Log!vars)
<1> SUFFICES ASSUME LawInv, [Next]_vars PROVE [Log!Next]_(Log!vars)
  OBVIOUS
<1>0. TypeOK /\ ReceiptSound
  BY DEF LawInv, IInv
<1>1. ASSUME UNCHANGED written,
             \A h \in Handlers : /\ job'[h].st = "record" <=> job[h].st = "record"
                                 /\ job[h].st = "record" => job'[h].at = job[h].at
                                 /\ Dead(h)' <=> Dead(h),
             \A s \in Sends : Owned(s)' <=> Owned(s)
      PROVE  [Log!Next]_(Log!vars)
  BY <1>0, <1>1, NotedStays, ExpectedStays DEF Log!vars
<1>2. ASSUME UNCHANGED <<written, job>>, \A s \in Sends : Owned(s)' <=> Owned(s)
      PROVE  [Log!Next]_(Log!vars)
  BY <1>1, <1>2 DEF Dead
<1>3. ASSUME NEW c \in Conns, Connect(c) \/ Lose(c) \/ Disconnect(c) PROVE [Log!Next]_(Log!vars)
  <2>1. \A s \in Sends : Owned(s)' <=> Owned(s)
    BY <1>3 DEF Connect, Lose, Disconnect, Owned, PendingSends
  <2> QED  BY <1>2, <1>3, <2>1 DEF Connect, Lose, Disconnect
<1>4. ASSUME NEW h \in Handlers, NEW c \in Conns, NEW sc \in Scripts, Dispatch(h, c, sc)
      PROVE  [Log!Next]_(Log!vars)
  <2>1. /\ job[h].st = "idle" /\ job'[h].st = "write"
        /\ \A g \in Handlers : g # h => job'[g] = job[g]
        /\ UNCHANGED <<written, pending, receipt>>
    BY <1>0, <1>4 DEF Dispatch, TypeOK
  <2>2. \A s \in Sends : Owned(s)' <=> Owned(s)
    BY <2>1 DEF Owned, PendingSends
  <2> QED  BY <1>1, <2>1, <2>2 DEF Dead
<1>5. ASSUME NEW h \in Handlers, WriteErr(h) PROVE [Log!Next]_(Log!vars)
  <2>1. (HandlerStep(h) /\ job[h].st = "write" /\ ~WriteOk(h)) \/ WriteOk(h)
    BY <1>5 DEF HandlerStep, WriteErr
  <2>2. ASSUME ~WriteOk(h) PROVE [Log!Next]_(Log!vars)
    <3>1. /\ job[h].st = "write" /\ job'[h].st \in {"done", "write"}
          /\ \A g \in Handlers : g # h => job'[g] = job[g]
          /\ UNCHANGED <<written, pending, receipt>>
      BY <1>0, <1>5, <2>1, <2>2, HandlerEffect DEF WriteErr
    <3>2. \A s \in Sends : Owned(s)' <=> Owned(s)
      BY <3>1 DEF Owned, PendingSends
    <3> QED  BY <1>1, <3>1, <3>2 DEF Dead
  <2> QED  BY <2>2, WriteLogged
<1>6. ASSUME NEW s \in Sends, NEW out \in Outcomes, Answer(s, out) PROVE [Log!Next]_(Log!vars)
  <2>1. \A t \in Sends : receipt'[t].got = receipt[t].got
    BY <1>0, <1>6 DEF Answer, TypeOK, ReceiptSound, GotSound
  <2>2. \A t \in Sends : Owned(t)' <=> Owned(t)
    BY <1>6, <2>1 DEF Answer, Owned, PendingSends
  <2> QED  BY <1>2, <1>6, <2>2 DEF Answer
<1>7. ASSUME NEW t \in Sends, ReceiptStep(t) PROVE [Log!Next]_(Log!vars)
  <2>1. UNCHANGED <<written, job>>
    BY <1>0, <1>7, ReceiptEffect
  <2>2. \A s \in Sends : Owned(s)' <=> Owned(s)
    <3>1. CASE Pop(t)
      BY <3>1, PopOwned
    <3>2. CASE ~Pop(t)
      <4>1. pending' = pending /\ \A s \in Sends : receipt'[s].got = receipt[s].got
        BY <1>0, <1>7, <3>2, ReceiptEffect
      <4> QED  BY <4>1 DEF Owned, PendingSends
    <3> QED  BY <3>1, <3>2
  <2> QED  BY <1>2, <2>1, <2>2
<1>8. CASE UNCHANGED vars
  <2>1. \A s \in Sends : Owned(s)' <=> Owned(s)
    BY <1>8 DEF vars, Owned, PendingSends
  <2> QED  BY <1>2, <1>8, <2>1 DEF vars
<1> QED
  BY <1>3, <1>4, <1>5, <1>6, <1>7, <1>8, WriteLogged, RecordLogged, CrashLogged DEF Next, HandlerStep

\* In every environment the pipeline keeps the promise of RequestLog: of the requests of
\* a handler each is written after the earlier ones and once, only what was written is
\* put in the queue, once, and what has been popped is never queued again; what a
\* process that dies was about to record is never expected.  (executeActions,
\* RecordPending, Push, Pop.)
THEOREM LogRefinement == Spec => LogSpec
<1>1. Init => Log!Init
  <2> SUFFICES ASSUME Init PROVE Log!Init
    OBVIOUS
  <2>1. Written = {} /\ PendingSends = {} /\ None \notin Sends
    BY OutboundAssumption DEF Init, Written, PendingSends
  <2>2. \A t \in Sends : receipt[t].got = None
    BY DEF Init
  <2> QED  BY <2>1, <2>2 DEF Log!Init, BeingNoted, Expected
<1> QED  BY <1>1, LogStep, LawInvAlways, PTL DEF Spec, LogSpec, Log!Spec

-----------------------------------------------------------------------------
(* Texts under the id of their own message. *)

\* No connection breaks, NapCat refuses nothing, handlers do not write at the
\* same time, and receipts come after the record and are handled in the order
\* of their requests.  The database may fail and the process may die.
Orderly == Env \subseteq {"store", "crash"}

WrittenOnce == \A i, k \in 1..Len(written) : written[i] = written[k] => i = k

OneWriter == \A g, h \in Handlers : Writing(g) /\ Writing(h) => g = h

ConnUp == \A h \in Handlers : job[h].st \notin {"idle", "dead"} => conn[job[h].conn] = "up"

\* The send being recorded is the last one written, and is not answered yet.
LastRecording ==
    \A s \in Sends : Recording(s) =>
        /\ Len(written) \in 1..Len(written)
        /\ s = written[Len(written)]
        /\ receipt[s].pc = "none"

\* The queue keeps the order in which the requests were written.
Ordered ==
    \A i, k \in 1..Len(pending) : \A a, b \in 1..Len(written) :
        i < k /\ written[a] = pending[i].send /\ written[b] = pending[k].send => a < b

\* What is queued waits for its own receipt, and a receipt takes only its own text.
Unanswered ==
    \A p \in Written : \A i \in 1..Len(pending) :
        pending[i].send = p => receipt[p].pc \in {"none", "arrived"}

OwnText == \A s \in Sends : receipt[s].got \in {None, s} /\ receipt[s].out # "failed"

OrderInv ==
    LawInv /\ WrittenOnce /\ OneWriter /\ ConnUp /\ LastRecording /\ Ordered
    /\ Unanswered /\ OwnText

\* What a successful write adds is new and unanswered.
LEMMA WriteAppends ==
    ASSUME LawInv, NEW h \in Handlers, WriteOk(h), NEW t, t = <<h, job[h].at>>
    PROVE  /\ t \in Sends /\ t \notin Written /\ receipt[t].pc = "none"
           /\ Len(written) \in Nat /\ Len(written') = Len(written) + 1
           /\ \A i \in 1..Len(written) : written'[i] = written[i]
           /\ written'[Len(written) + 1] = t
           /\ Written' = Written \cup {t}
<1>1. TypeOK /\ job[h].st = "write" /\ job[h].at \in Nat
  BY HandlerEffect DEF LawInv, IInv, WriteOk, HandlerStep
<1>2. t \in Sends
  BY <1>1, CurrentSend DEF Writing
<1>3. t \notin Written
  BY <1>1 DEF LawInv, WrittenPast, Past, Recording
<1>4. receipt[t].pc = "none"
  BY <1>2, <1>3 DEF LawInv, AnswerSound, AnswerSoundOf
<1>5. written' = Append(written, t) /\ written \in Seq(Sends)
  BY <1>1 DEF WriteOk, TypeOK
<1>6. Written' = Written \cup {t}
  BY <1>1, <1>2, <1>5, AppendWritten
<1> QED  BY <1>2, <1>3, <1>4, <1>5, <1>6

\* The heart of the argument: the text a receipt pops is its own.  An older entry
\* at the head of the queue would belong to an earlier request that is still to be
\* answered, and such a receipt is handled first.
LEMMA PopsItsOwn ==
    ASSUME OrderInv, Orderly, NEW s \in Sends, Pop(s)
    PROVE  pending[1].send = s
<1>0. TypeOK /\ LawInv /\ GotSound(s) /\ AnswerSoundOf(s) /\ PendingSound /\ WrittenSound
  BY DEF OrderInv, LawInv, IInv, ReceiptSound, AnswerSound
<1>1. receipt[s].pc = "arrived" /\ receipt[s].out = "ok" /\ receipt[s].got = None
  BY <1>0 DEF Pop, Delivered, GotSound
<1>2. s \in Written /\ ~Dead(s[1]) /\ Kind(s) # "emoji" /\ ~Recording(s) /\ s # None
  BY <1>0, <1>1, OutboundAssumption DEF AnswerSoundOf, OrderInv, LastRecording
<1>3. ~\E t \in Sends : receipt[t].got = s
  BY <1>1, <1>2 DEF OrderInv, OwnText
<1>4. PICK k \in 1..Len(pending) : pending[k].send = s
  BY <1>0, <1>2, <1>3 DEF LawInv, Accounted
<1>5. 1 \in 1..Len(pending) /\ Len(pending) \in Nat /\ Len(written) \in Nat
  BY <1>0, PopTakes DEF TypeOK
<1> PICK p : p = pending[1].send
  OBVIOUS
<1>6. p \in Written /\ ~Dead(p[1]) /\ receipt[p].pc \in {"none", "arrived"}
  BY <1>0, <1>5 DEF PendingSound, EntrySound, LawInv, EntriesLive, OrderInv, Unanswered
<1>7. PICK a \in 1..Len(written) : written[a] = p
  BY <1>6 DEF Written
<1>8. PICK b \in 1..Len(written) : written[b] = s
  BY <1>2 DEF Written
<1>9. ASSUME k # 1 PROVE FALSE
  <2>1. a < b
    BY <1>4, <1>5, <1>7, <1>8, <1>9 DEF OrderInv, Ordered
  <2>2. b \in (a + 1)..Len(written)
    BY <1>5, <2>1
  <2>3. p \in Predecessors(s)
    BY <1>7, <1>8, <2>2 DEF Predecessors
  <2>4. ~Awaited(p)
    BY <2>3 DEF Pop, InTurn, Orderly
  <2>5. conn[ConnOf(p)] = "closed"
    BY <1>6, <2>4 DEF Awaited
  <2>6. p[1] \in Handlers /\ job[p[1]].st \notin {"idle", "dead"}
    BY <1>0, <1>6, WrittenSends DEF WrittenSound, Dead, Sends
  <2> QED  BY <2>5, <2>6 DEF OrderInv, ConnUp, ConnOf
<1> QED  BY <1>4, <1>9

LEMMA OneWriterStep == OrderInv /\ Orderly /\ [Next]_vars => OneWriter' /\ ConnUp'
<1> SUFFICES ASSUME OrderInv, Orderly, [Next]_vars PROVE OneWriter' /\ ConnUp'
  OBVIOUS
<1>0. TypeOK /\ OneWriter /\ ConnUp /\ ConnSound
  BY DEF OrderInv, LawInv, IInv
<1>1. ASSUME NEW c \in Conns, Connect(c) \/ Lose(c) \/ Disconnect(c) PROVE OneWriter' /\ ConnUp'
  <2>1. job' = job /\ \A d \in Conns : conn[d] = "up" => conn'[d] = "up"
    BY <1>0, <1>1 DEF Connect, Lose, Disconnect, TypeOK, Orderly
  <2> QED  BY <1>0, <2>1 DEF OneWriter, ConnUp, Writing, ConnSound
<1>2. ASSUME NEW h \in Handlers, NEW c \in Conns, NEW sc \in Scripts, Dispatch(h, c, sc)
      PROVE  OneWriter' /\ ConnUp'
  <2>1. /\ \A g \in Handlers : ~Writing(g)
        /\ \A g \in Handlers : g # h => job'[g] = job[g]
        /\ job'[h].conn = c /\ conn[c] = "up" /\ conn' = conn
    BY <1>0, <1>2 DEF Dispatch, Orderly, TypeOK
  <2> QED  BY <1>0, <2>1 DEF OneWriter, ConnUp, Writing
<1>3. ASSUME NEW h \in Handlers, HandlerStep(h) PROVE OneWriter' /\ ConnUp'
  BY <1>0, <1>3, HandlerEffect DEF OneWriter, ConnUp, Writing
<1>4. CASE Crash
  BY <1>0, <1>4, CrashEffect DEF OneWriter, ConnUp, Writing
<1>5. CASE UNCHANGED <<conn, job>>
  BY <1>0, <1>5 DEF OneWriter, ConnUp, Writing
<1> QED
  BY <1>1, <1>2, <1>3, <1>4, <1>5 DEF Next, vars, Answer, ReceiptStep, IgnoreReceipt,
     PopNothing, Pop, SaveSelf, SaveSelfErr

LEMMA LastRecordingStep ==
    OrderInv /\ Orderly /\ [Next]_vars => WrittenOnce' /\ LastRecording'
<1> SUFFICES ASSUME OrderInv, Orderly, [Next]_vars PROVE WrittenOnce' /\ LastRecording'
  OBVIOUS
<1>0. TypeOK /\ LawInv /\ WrittenOnce /\ OneWriter /\ LastRecording
  BY DEF OrderInv, LawInv, IInv
<1>1. ASSUME NEW h \in Handlers, WriteOk(h) PROVE WrittenOnce' /\ LastRecording'
  <2> PICK t : t = <<h, job[h].at>>
    OBVIOUS
  <2>1. /\ t \in Sends /\ t \notin Written /\ receipt[t].pc = "none"
        /\ Len(written) \in Nat /\ Len(written') = Len(written) + 1
        /\ \A i \in 1..Len(written) : written'[i] = written[i]
        /\ written'[Len(written) + 1] = t
    BY <1>0, <1>1, WriteAppends
  <2>2. \A i \in 1..Len(written) : written[i] # t
    BY <2>1 DEF Written
  <2>3. WrittenOnce'
    <3> SUFFICES ASSUME NEW i \in 1..(Len(written) + 1), NEW k \in 1..(Len(written) + 1),
                        written'[i] = written'[k]
                 PROVE  i = k
      BY <2>1 DEF WrittenOnce
    <3>1. i \in 1..Len(written) \/ i = Len(written) + 1
      BY <2>1
    <3>2. k \in 1..Len(written) \/ k = Len(written) + 1
      BY <2>1
    <3> QED  BY <1>0, <2>1, <2>2, <3>1, <3>2 DEF WrittenOnce
  <2>4. ASSUME NEW s \in Sends, Recording(s)' PROVE s = t
    <3>1. s[1] \in Handlers /\ s = <<s[1], s[2]>>
      BY DEF Sends
    <3>2. s[1] = h
      BY <1>0, <1>1, <2>4, <3>1, HandlerEffect DEF HandlerStep, Recording, OneWriter, Writing
    <3>3. job'[h].at = job[h].at
      BY <1>0, <1>1, <2>4, <3>2, HandlerEffect DEF HandlerStep, Recording
    <3> QED  BY <2>4, <3>1, <3>2, <3>3 DEF Recording
  <2>5. receipt' = receipt
    BY <1>1 DEF WriteOk
  <2>6. Len(written') \in 1..Len(written')
    BY <2>1
  <2> QED  BY <2>1, <2>3, <2>4, <2>5, <2>6 DEF LastRecording
<1>2. ASSUME written' = written,
             \A s \in Sends : Recording(s)' => Recording(s) /\ receipt'[s].pc = receipt[s].pc
      PROVE  WrittenOnce' /\ LastRecording'
  BY <1>0, <1>2 DEF WrittenOnce, LastRecording
<1>3. ASSUME NEW h \in Handlers, WriteErr(h) \/ Record(h)
      PROVE  WrittenOnce' /\ LastRecording'
  <2>1. /\ \A g \in Handlers : g # h => job'[g] = job[g]
        /\ job'[h].st = "record" => WriteOk(h)
        /\ written' = written /\ receipt' = receipt
    BY <1>0, <1>3, HandlerEffect DEF HandlerStep, WriteErr, Record
  <2>2. WriteOk(h) => written' # written
    <3> SUFFICES ASSUME WriteOk(h) PROVE written' # written
      OBVIOUS
    <3>1. Len(written) \in Nat /\ Len(written') = Len(written) + 1
      BY <1>0, WriteAppends
    <3> QED  BY <3>1
  <2>3. \A s \in Sends : Recording(s)' => Recording(s)
    BY <2>1, <2>2 DEF Recording, Sends
  <2> QED  BY <1>2, <2>1, <2>3
<1>4. ASSUME NEW h \in Handlers, NEW c \in Conns, NEW sc \in Scripts, Dispatch(h, c, sc)
      PROVE  WrittenOnce' /\ LastRecording'
  <2>1. /\ \A g \in Handlers : g # h => job'[g] = job[g]
        /\ job'[h].st = "write"
        /\ written' = written /\ receipt' = receipt
    BY <1>0, <1>4 DEF Dispatch, TypeOK
  <2>2. \A s \in Sends : Recording(s)' => Recording(s)
    BY <2>1 DEF Recording, Sends
  <2> QED  BY <1>2, <2>1, <2>2
<1>5. ASSUME NEW t \in Sends, NEW out \in Outcomes, Answer(t, out)
      PROVE  WrittenOnce' /\ LastRecording'
  <2>1. /\ job' = job /\ written' = written /\ ~Recording(t)
        /\ \A s \in Sends : s # t => receipt'[s] = receipt[s]
    BY <1>0, <1>5 DEF Answer, TypeOK, Orderly
  <2> QED  BY <1>2, <2>1 DEF Recording
<1>6. ASSUME NEW t \in Sends, ReceiptStep(t) PROVE WrittenOnce' /\ LastRecording'
  <2>1. /\ job' = job /\ written' = written /\ receipt[t].pc # "none"
        /\ \A s \in Sends : s # t => receipt'[s] = receipt[s]
    BY <1>0, <1>6, ReceiptEffect
  <2>2. ~Recording(t)
    BY <1>0, <2>1 DEF LastRecording
  <2> QED  BY <1>2, <2>1, <2>2 DEF Recording
<1>7. CASE Crash
  <2>1. written' = written /\ \A s \in Sends : ~Recording(s)'
    BY <1>0, <1>7, CrashEffect DEF Recording, Sends
  <2> QED  BY <1>2, <2>1
<1>8. CASE UNCHANGED <<job, written, receipt>>
  BY <1>2, <1>8 DEF Recording
<1> QED
  BY <1>1, <1>3, <1>4, <1>5, <1>6, <1>7, <1>8 DEF Next, vars, Connect, Lose, Disconnect, HandlerStep

LEMMA OrderedStep == OrderInv /\ Orderly /\ [Next]_vars => Ordered'
<1> SUFFICES ASSUME OrderInv, Orderly, [Next]_vars PROVE Ordered'
  OBVIOUS
<1>0. /\ TypeOK /\ LawInv /\ WrittenOnce /\ LastRecording /\ Ordered /\ PendingSound /\ WrittenSound
      /\ Len(written) \in Nat /\ Len(pending) \in Nat
  BY DEF OrderInv, LawInv, IInv, TypeOK
<1>1. ASSUME NEW h \in Handlers, WriteOk(h) PROVE Ordered'
  <2> PICK t : t = <<h, job[h].at>>
    OBVIOUS
  <2>1. /\ t \notin Written
        /\ Len(written) \in Nat /\ Len(written') = Len(written) + 1
        /\ \A i \in 1..Len(written) : written'[i] = written[i]
        /\ written'[Len(written) + 1] = t
    BY <1>0, <1>1, WriteAppends
  <2>2. pending' = pending /\ \A i \in 1..Len(pending) : pending[i].send # t
    BY <1>0, <1>1, <2>1 DEF WriteOk, PendingSound, EntrySound
  <2>3. \A i \in 1..Len(pending) : \A a \in 1..Len(written') :
          written'[a] = pending[i].send => a \in 1..Len(written) /\ written[a] = pending[i].send
    BY <2>1, <2>2
  <2> QED  BY <1>0, <2>2, <2>3 DEF Ordered
<1>2. ASSUME NEW h \in Handlers, Record(h) PROVE Ordered'
  <2> PICK t : t = <<h, job[h].at>>
    OBVIOUS
  <2>1. /\ ~Past(t)
        /\ Len(pending') = Len(pending) + 1
        /\ \A k \in 1..Len(pending) : pending'[k] = pending[k]
        /\ pending'[Len(pending) + 1] = [send |-> t, save |-> Kind(t) = "reply"]
    BY <1>0, <1>2, RecordAppends
  <2>2. pending'[Len(pending) + 1].send = t
    <3> DEFINE b == Kind(t) = "reply"
    <3>1. pending'[Len(pending) + 1] = [send |-> t, save |-> b]
      BY <2>1
    <3> HIDE DEF b
    <3> QED  BY <3>1
  <2>3. written' = written
    BY <1>2 DEF Record
  <2>4. t = written[Len(written)] /\ Len(written) \in 1..Len(written)
    <3>1. t \in Sends /\ Recording(t)
      BY <1>0, <1>2, CurrentSend DEF Record, Writing, Recording
    <3> QED  BY <1>0, <3>1 DEF LastRecording
  <2>5. \A i \in 1..Len(pending) : pending[i].send # t
    BY <1>0, <2>1 DEF PendingSound, EntrySound
  <2> SUFFICES ASSUME NEW i \in 1..Len(pending'), NEW k \in 1..Len(pending'),
                      NEW a \in 1..Len(written), NEW b \in 1..Len(written),
                      i < k, written[a] = pending'[i].send, written[b] = pending'[k].send
               PROVE  a < b
    BY <2>3 DEF Ordered
  <2>6. i \in 1..Len(pending) /\ pending'[i] = pending[i]
    BY <1>0, <2>1
  <2>7. CASE k \in 1..Len(pending)
    <3>1. pending'[k] = pending[k]
      BY <2>1, <2>7
    <3> QED  BY <1>0, <2>6, <2>7, <3>1 DEF Ordered
  <2>8. CASE k = Len(pending) + 1
    <3>1. b = Len(written)
      BY <1>0, <2>2, <2>4, <2>8 DEF WrittenOnce
    <3>2. a # Len(written)
      BY <2>4, <2>5, <2>6
    <3> QED  BY <1>0, <3>1, <3>2
  <2>9. k \in 1..Len(pending) \/ k = Len(pending) + 1
    BY <1>0, <2>1
  <2> QED  BY <2>7, <2>8, <2>9
<1>3. ASSUME NEW t \in Sends, Pop(t) PROVE Ordered'
  <2>1. /\ Len(pending') = Len(pending) - 1 /\ written' = written
        /\ \A i \in 1..Len(pending') : pending'[i] = pending[i + 1] /\ i + 1 \in 1..Len(pending)
    BY <1>0, <1>3, PopTakes DEF Pop
  <2> SUFFICES ASSUME NEW i \in 1..Len(pending'), NEW k \in 1..Len(pending'),
                      NEW a \in 1..Len(written), NEW b \in 1..Len(written),
                      i < k, written[a] = pending'[i].send, written[b] = pending'[k].send
               PROVE  a < b
    BY <2>1 DEF Ordered
  <2>2. written[a] = pending[i + 1].send /\ written[b] = pending[k + 1].send
    BY <2>1
  <2>3. i + 1 \in 1..Len(pending) /\ k + 1 \in 1..Len(pending) /\ i + 1 < k + 1
    BY <1>0, <2>1
  <2> QED  BY <1>0, <2>2, <2>3 DEF Ordered
<1>4. CASE Crash
  BY <1>4 DEF Crash, Ordered
<1>5. CASE UNCHANGED <<written, pending>>
  BY <1>0, <1>5 DEF Ordered
<1> QED
  BY <1>1, <1>2, <1>3, <1>4, <1>5 DEF Next, vars, Connect, Lose, Disconnect, Dispatch, HandlerStep,
     WriteErr, Answer, ReceiptStep, IgnoreReceipt, PopNothing, SaveSelf, SaveSelfErr

LEMMA OwnTextStep == OrderInv /\ Orderly /\ [Next]_vars => OwnText'
<1> SUFFICES ASSUME OrderInv, Orderly, [Next]_vars, NEW s \in Sends
             PROVE  receipt'[s].got \in {None, s} /\ receipt'[s].out # "failed"
  BY DEF OwnText
<1>0. TypeOK /\ receipt[s].got \in {None, s} /\ receipt[s].out # "failed"
  BY DEF OrderInv, OwnText, LawInv, IInv
<1>1. ASSUME NEW t \in Sends, ReceiptStep(t)
      PROVE  receipt'[s].got \in {None, s} /\ receipt'[s].out # "failed"
  <2>1. CASE s # t
    BY <1>0, <1>1, <2>1, ReceiptEffect
  <2>2. CASE s = t /\ Pop(t)
    BY <1>0, <2>2, PopTakes, PopsItsOwn
  <2>3. CASE s = t /\ ~Pop(t)
    BY <1>0, <1>1, <2>3, ReceiptEffect
  <2> QED  BY <2>1, <2>2, <2>3
<1>2. ASSUME NEW t \in Sends, NEW out \in Outcomes, Answer(t, out)
      PROVE  receipt'[s].got \in {None, s} /\ receipt'[s].out # "failed"
  BY <1>0, <1>2 DEF Answer, TypeOK, Orderly
<1>3. CASE Crash
  BY <1>0, <1>3, CrashEffect
<1>4. CASE receipt' = receipt
  BY <1>0, <1>4
<1> QED
  BY <1>1, <1>2, <1>3, <1>4 DEF Next, vars, Connect, Lose, Disconnect, Dispatch, HandlerStep,
     WriteOk, WriteErr, Record

LEMMA UnansweredStep == OrderInv /\ Orderly /\ [Next]_vars => Unanswered'
<1> SUFFICES ASSUME OrderInv, Orderly, [Next]_vars, NEW p \in Written',
                    NEW i \in 1..Len(pending'), pending'[i].send = p
             PROVE  receipt'[p].pc \in {"none", "arrived"}
  BY DEF Unanswered
<1>0. /\ TypeOK /\ LawInv /\ PendingSound /\ WrittenSound /\ Unanswered /\ LastRecording /\ OwnedOnce
      /\ Len(pending) \in Nat
  BY DEF OrderInv, LawInv, IInv, TypeOK
<1>1. p \in Sends
  BY <1>0, TypeStep DEF TypeOK, Written
\* What was queued and still is.
<1>2. ASSUME NEW k \in 1..Len(pending), pending[k].send = p
      PROVE  receipt[p].pc \in {"none", "arrived"} /\ Kind(p) # "emoji" /\ p \in Written
  <2>1. p \in Written
    BY <1>0, <1>2 DEF PendingSound, EntrySound
  <2> QED  BY <1>0, <1>2, <2>1 DEF Unanswered, LawInv, EntriesLive
<1>3. CASE UNCHANGED <<pending, receipt>>
  BY <1>2, <1>3
<1>4. ASSUME NEW h \in Handlers, Record(h) PROVE receipt'[p].pc \in {"none", "arrived"}
  <2> PICK t : t = <<h, job[h].at>>
    OBVIOUS
  <2>1. /\ Len(pending') = Len(pending) + 1
        /\ \A k \in 1..Len(pending) : pending'[k] = pending[k]
        /\ pending'[Len(pending) + 1] = [send |-> t, save |-> Kind(t) = "reply"]
        /\ receipt' = receipt
    BY <1>0, <1>4, RecordAppends DEF Record
  <2>2. CASE i \in 1..Len(pending)
    BY <1>2, <2>1, <2>2
  <2>3. CASE i = Len(pending) + 1
    <3> DEFINE b == Kind(t) = "reply"
    <3>1. pending'[i] = [send |-> t, save |-> b]
      BY <2>1, <2>3
    <3> HIDE DEF b
    <3>2. p = t
      BY <3>1
    <3>3. Recording(t)
      BY <1>4 DEF Record, Recording
    <3> QED  BY <1>0, <1>1, <2>1, <3>2, <3>3 DEF LastRecording
  <2> QED  BY <1>0, <2>1, <2>2, <2>3
<1>5. ASSUME NEW t \in Sends, NEW out \in Outcomes, Answer(t, out)
      PROVE  receipt'[p].pc \in {"none", "arrived"}
  BY <1>0, <1>1, <1>2, <1>5 DEF Answer, TypeOK
<1>6. ASSUME NEW t \in Sends, Pop(t) PROVE receipt'[p].pc \in {"none", "arrived"}
  <2>1. /\ 1 \in 1..Len(pending) /\ pending'[i] = pending[i + 1] /\ i + 1 \in 1..Len(pending)
        /\ \A s \in Sends : s # t => receipt'[s] = receipt[s]
        /\ pending[1].send = t
    BY <1>0, <1>6, PopTakes, PopsItsOwn
  <2>2. p # t
    BY <1>0, <2>1 DEF OwnedOnce
  <2> QED  BY <1>1, <1>2, <2>1, <2>2
<1>7. ASSUME NEW t \in Sends, ReceiptStep(t), ~Pop(t) PROVE receipt'[p].pc \in {"none", "arrived"}
  <2>1. pending' = pending /\ \A s \in Sends : s # t => receipt'[s] = receipt[s]
    BY <1>0, <1>7, ReceiptEffect
  <2>2. receipt[p].pc \in {"none", "arrived"} /\ Kind(p) # "emoji"
    BY <1>2, <2>1
  <2>3. p # t
    <3> SUFFICES ASSUME p = t PROVE FALSE
      OBVIOUS
    <3>1. IgnoreReceipt(t) \/ PopNothing(t)
      BY <1>7, <2>2 DEF ReceiptStep, SaveSelf, SaveSelfErr
    <3>2. ~PopNothing(t)
      BY <2>1 DEF PopNothing
    <3>3. receipt[t].pc = "arrived" /\ receipt[t].out # "ok"
      BY <3>1, <3>2 DEF IgnoreReceipt, Delivered
    <3>4. receipt[t].out \in Outcomes /\ receipt[t].out # "failed"
      BY <1>0 DEF TypeOK, Receipts, OrderInv, OwnText
    <3>5. Kind(t) = "emoji"
      BY <3>3, <3>4 DEF Outcomes, OrderInv, LawInv, AnswerSound, AnswerSoundOf
    <3> QED  BY <2>2, <3>5
  <2> QED  BY <1>1, <2>1, <2>2, <2>3
<1>8. CASE Crash
  BY <1>8 DEF Crash
<1> QED
  BY <1>3, <1>4, <1>5, <1>6, <1>7, <1>8 DEF Next, vars, Connect, Lose, Disconnect, Dispatch,
     HandlerStep, WriteOk, WriteErr

\* As long as the environment is orderly, the archive holds each text under the id
\* of its own message.  A refusing database and the death of the process do no
\* harm: each of the five other events alone leads a text to a wrong id.
THEOREM ReceiptMatchesSendAlways ==
    ASSUME Orderly PROVE Spec => []ReceiptMatchesSend
<1>1. Init /\ LawInv => OrderInv
  BY DEF Init, OrderInv, WrittenOnce, OneWriter, Writing, ConnUp, LastRecording, Recording,
     Ordered, Unanswered, OwnText, Sends
<1>2. OrderInv /\ LawInv' /\ [Next]_vars => OrderInv'
  BY OneWriterStep, LastRecordingStep, OrderedStep, OwnTextStep, UnansweredStep DEF OrderInv
<1>3. OrderInv => ReceiptMatchesSend
  BY DEF OrderInv, OwnText, LawInv, IInv, OwnedOnce, ReceiptMatchesSend
<1> QED  BY <1>1, <1>2, <1>3, LawInvAlways, PTL DEF Spec
=============================================================================
