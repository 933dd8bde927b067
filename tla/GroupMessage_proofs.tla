------------------------- MODULE GroupMessage_proofs -------------------------
(* Machine-checked facts about one connection and its handlers, for all constants. *)
EXTENDS GroupMessage, TLAPS

------------------------------------------------------------------------------
(* The parts of the invariant. *)

\* Nobody calls writeFrame but a goroutine that waits for it, and a handler that waits
\* has called it for its current request.
CallsOK ==
    /\ reader \notin {"pong", "close"} => calls[Reader].at = "none"
    /\ \A t \in Tasks :
           IF handlers[t].at = "write"
           THEN calls[t].frame = [from |-> t, no |-> handlers[t].next, bare |-> FALSE]
           ELSE calls[t].at = "none"

LastPiece == wire[Len(wire)]

\* As long as writes succeed, a header without its payload is that of the goroutine
\* which holds the mutex.
LastWhole == wire # <<>> => LastPiece.part = "payload" \/ LastPiece.frame.bare
HeldByLast ==
    /\ lock # Nobody =>
           /\ wire # <<>> /\ LastPiece = [frame |-> calls[lock].frame, part |-> "header"]
           /\ ~calls[lock].frame.bare
    /\ lock = Nobody /\ socket = "open" => LastWhole

\* What a goroutine may have done with its text so far.
TaskSound(t) ==
    /\ handlers[t].at = "none" => t \notin stored \cup faces /\ handlers[t].plan = <<>>
    /\ handlers[t].at # "none" => t \in DOMAIN delivered
    /\ handlers[t].at \in {"store", "execute"} => delivered[t].kind = "message"
    /\ handlers[t].at = "store" => ~delivered[t].banned /\ Storing(Meant(delivered[t]))
TasksSound == \A t \in Tasks : TaskSound(t)

TypeInv == TypeOK /\ CallsOK
FramesInv == FramesWhole /\ HeldByLast
TextsInv == TasksSound /\ OnlyWhatMayBe

------------------------------------------------------------------------------
(* Types. *)

LEMMA Distinct == Nobody \notin Writers /\ Reader \notin Tasks /\ Reader \in Writers
                  /\ Tasks \subseteq Writers /\ MaxTexts \in Nat
  BY ConnAssumption DEF Writers, Tasks

LEMMA InitTypes == Init => TypeInv
<1> SUFFICES ASSUME Init PROVE TypeInv
  OBVIOUS
<1>1. calls = [w \in Writers |-> [at |-> "none", frame |-> NoFrame]] /\ NoFrame \in Frames
  BY Distinct DEF Init, ConnInit, NoFrame, Frames
<1>2. LockHeld
  BY <1>1, Distinct DEF Init, ConnInit, LockHeld
<1>3. ConnTypeOK
  <2>1. reads \in 0..MaxReads /\ Len(delivered) <= MaxTexts /\ delivered \in Seq(Payloads \cup {Part})
    BY Distinct, ConnAssumption DEF Init, ConnInit
  <2>2. wire \in Seq(Pieces)
    BY DEF Init, ConnInit
  <2>3. /\ socket = "open" /\ reader = "handshake" /\ cancelled = FALSE /\ fragmented = FALSE
        /\ lock = Nobody
    BY DEF Init, ConnInit
  <2> QED  BY <1>1, <1>2, <2>1, <2>2, <2>3 DEF ConnTypeOK
<1>4. handlers \in [Tasks -> Handlers]
  BY DEF Init, Handlers, Matches
<1>5. CallsOK
  BY <1>1, Distinct DEF Init, ConnInit, CallsOK
<1> QED  BY <1>3, <1>4, <1>5 DEF Init, TypeInv, TypeOK

\* Everything about a call but the mutex: a goroutine that is not in a call makes one.
LEMMA CalledType ==
    ASSUME TypeOK, NEW w \in Writers, NEW no \in Nat, NEW bare \in BOOLEAN,
           calls[w].at = "none", Called(w, no, bare), UNCHANGED lock
    PROVE  /\ calls' \in [Writers -> [at : {"none", "header", "payload", "ok", "failed"},
                                      frame : Frames]]
           /\ LockHeld'
           /\ calls'[w].at = "header"
           /\ calls'[w].frame = [from |-> w, no |-> no, bare |-> bare]
           /\ \A o \in Writers \ {w} : calls'[o] = calls[o]
<1>1. [from |-> w, no |-> no, bare |-> bare] \in Frames
  BY DEF Frames
<1>2. calls \in [Writers -> [at : {"none", "header", "payload", "ok", "failed"}, frame : Frames]]
      /\ LockHeld
  BY DEF TypeOK, ConnTypeOK
<1> QED  BY <1>1, <1>2 DEF Called, LockHeld

\* The same of one that goes on.
LEMMA MovedType ==
    ASSUME TypeOK, NEW w \in Writers,
           NEW place \in {"none", "header", "payload", "ok", "failed"}, Moved(w, place)
    PROVE  /\ calls' \in [Writers -> [at : {"none", "header", "payload", "ok", "failed"},
                                      frame : Frames]]
           /\ calls'[w].at = place
           /\ calls'[w].frame = calls[w].frame
           /\ \A o \in Writers \ {w} : calls'[o] = calls[o]
  BY DEF TypeOK, ConnTypeOK, Moved

\* writeFrame keeps the types and, of the calls, touches its own only.
LEMMA WriteTypes ==
    ASSUME TypeInv, NEW w \in Writers, WriteFrame(w), UNCHANGED handlerVars
    PROVE  TypeInv'
<1>1. /\ calls' \in [Writers -> [at : {"none", "header", "payload", "ok", "failed"}, frame : Frames]]
      /\ calls[w].at # "none" /\ calls'[w].frame = calls[w].frame
      /\ \A o \in Writers \ {w} : calls'[o] = calls[o]
  BY MovedType DEF WriteFrame, WriteHeader, WritePayload, WriteErr, TypeInv
<1>2. LockHeld'
  <2>1. LockHeld /\ calls \in [Writers -> [at : {"none", "header", "payload", "ok", "failed"},
                                           frame : Frames]]
    BY DEF TypeInv, TypeOK, ConnTypeOK
  <2>2. CASE WriteHeader(w)
    BY <2>1, <2>2, MovedType, Distinct DEF WriteHeader, Acquire, LockHeld, TypeInv
  <2>3. CASE WritePayload(w)
    BY <2>1, <2>3, MovedType, Distinct DEF WritePayload, LockHeld, TypeInv
  <2>4. CASE WriteErr(w)
    BY <2>1, <2>4, MovedType, Distinct DEF WriteErr, LockHeld, TypeInv
  <2> QED  BY <2>2, <2>3, <2>4 DEF WriteFrame
<1>3. wire' \in Seq(Pieces) /\ lock' \in Writers \cup {Nobody} /\ socket' \in {"open", "broken", "closed"}
  <2>1. calls[w].frame \in Frames
    BY DEF TypeInv, TypeOK, ConnTypeOK
  <2>2. wire \in Seq(Pieces) /\ lock \in Writers \cup {Nobody} /\ socket \in {"open", "broken", "closed"}
    BY DEF TypeInv, TypeOK, ConnTypeOK
  <2>3. \A part \in {"header", "payload"} :
            Append(wire, [frame |-> calls[w].frame, part |-> part]) \in Seq(Pieces)
    BY <2>1, <2>2 DEF Pieces
  <2> QED  BY <2>2, <2>3 DEF WriteFrame, WriteHeader, WritePayload, WriteErr, Acquire
<1>4. UNCHANGED reading
  BY DEF WriteFrame, WriteHeader, WritePayload, WriteErr
<1>5. TypeOK'
  BY <1>1, <1>2, <1>3, <1>4 DEF TypeInv, TypeOK, ConnTypeOK, reading, handlerVars
<1>6. CallsOK'
  BY <1>1, <1>4, Distinct DEF TypeInv, CallsOK, reading, handlerVars
<1> QED  BY <1>5, <1>6 DEF TypeInv

\* So does the loop that reads.
LEMMA ReaderTypes ==
    ASSUME TypeInv, UNCHANGED handlerVars,
           Handshake \/ HandshakeErr \/ Receive \/ ReadErr \/ ReaderReturned \/ Cancel \/ Close
    PROVE  TypeInv'
<1> USE DEF writing, handlerVars
<1>0. /\ LockHeld /\ reads \in 0..MaxReads /\ MaxReads \in Nat
      /\ calls \in [Writers -> [at : {"none", "header", "payload", "ok", "failed"}, frame : Frames]]
  BY ConnAssumption DEF TypeInv, TypeOK, ConnTypeOK
<1>00. Read => reads + 1 \in Nat /\ reads' \in 0..MaxReads
  BY <1>0 DEF Read
<1>1. CASE Handshake \/ HandshakeErr \/ ReadErr \/ Cancel \/ Close
  <2>1. TypeOK'
    BY <1>1 DEF Handshake, HandshakeErr, ReadErr, Cancel, Close, TypeInv, TypeOK, ConnTypeOK, LockHeld
  <2>2. CallsOK'
    BY <1>1 DEF Handshake, HandshakeErr, ReadErr, Cancel, Close, TypeInv, CallsOK
  <2> QED  BY <2>1, <2>2 DEF TypeInv
<1>2. ASSUME NEW payload \in Payloads \cup {Part}, ReadText(payload) PROVE TypeInv'
  <2>1. delivered' \in Seq(Payloads \cup {Part}) /\ Len(delivered') <= MaxTexts
    BY <1>2, Distinct DEF ReadText, TypeInv, TypeOK, ConnTypeOK
  <2>2. TypeOK'
    BY <1>0, <1>2, <2>1 DEF ReadText, Read, TypeInv, TypeOK, ConnTypeOK, LockHeld
  <2> QED  BY <1>2, <2>2 DEF ReadText, Read, TypeInv, CallsOK
<1>3. ASSUME NEW bare \in BOOLEAN, ReadPing(bare) \/ ReadClose PROVE TypeInv'
  <2>1. calls[Reader].at = "none" /\ reads + 1 \in Nat /\ reads' \in 0..MaxReads
    BY <1>00, <1>3 DEF ReadPing, ReadClose, Read, TypeInv, CallsOK
  <2>2. PICK b \in BOOLEAN : Called(Reader, reads + 1, b)
    BY <1>3 DEF ReadPing, ReadClose
  <2>3. UNCHANGED <<lock, wire, fragmented, delivered, socket, cancelled>>
    BY <1>3 DEF ReadPing, ReadClose, Read
  <2>4. TypeOK /\ Reader \in Writers
    BY Distinct DEF TypeInv
  <2>5. /\ calls' \in [Writers -> [at : {"none", "header", "payload", "ok", "failed"}, frame : Frames]]
        /\ LockHeld'
        /\ \A o \in Writers \ {Reader} : calls'[o] = calls[o]
    BY <2>1, <2>2, <2>3, <2>4, CalledType
  <2>6. reader' \in {"pong", "close"}
    BY <1>3 DEF ReadPing, ReadClose
  <2>7. TypeOK'
    BY <2>1, <2>3, <2>5, <2>6 DEF TypeInv, TypeOK, ConnTypeOK
  <2>8. CallsOK'
    BY <2>5, <2>6, Distinct DEF TypeInv, CallsOK
  <2> QED  BY <2>7, <2>8 DEF TypeInv
<1>4. CASE ReadOther \/ ReadContinuation
  <2>1. TypeOK'
    <3>1. reads' \in 0..MaxReads /\ UNCHANGED <<socket, cancelled, delivered, calls, lock, wire>>
      BY <1>00, <1>4 DEF ReadOther, ReadContinuation, Read
    <3>2. reader' \in {"read", "ending"} /\ fragmented' \in BOOLEAN
      BY <1>4 DEF ReadOther, ReadContinuation, Read, TypeInv, TypeOK, ConnTypeOK
    <3> QED  BY <3>1, <3>2 DEF TypeInv, TypeOK, ConnTypeOK, LockHeld
  <2>2. CallsOK'
    BY <1>4 DEF ReadOther, ReadContinuation, Read, TypeInv, CallsOK
  <2> QED  BY <2>1, <2>2 DEF TypeInv
<1>5. CASE ReaderReturned
  <2>1. /\ calls' \in [Writers -> [at : {"none", "header", "payload", "ok", "failed"}, frame : Frames]]
        /\ calls'[Reader].at = "none" /\ calls[Reader].at # "payload"
        /\ \A o \in Writers \ {Reader} : calls'[o] = calls[o]
    BY <1>5, MovedType, Distinct DEF ReaderReturned, Finished, TypeInv
  <2>2. LockHeld'
    BY <1>0, <1>5, <2>1 DEF ReaderReturned, LockHeld
  <2>3. TypeOK'
    BY <1>5, <2>1, <2>2 DEF ReaderReturned, TypeInv, TypeOK, ConnTypeOK
  <2>4. CallsOK'
    BY <1>5, <2>1, Distinct DEF ReaderReturned, TypeInv, CallsOK
  <2> QED  BY <2>3, <2>4 DEF TypeInv
<1> QED  BY <1>1, <1>2, <1>3, <1>4, <1>5 DEF Receive

\* The ways a handler's record changes.
HandlerPlaces == {"none", "store", "execute", "send", "sleep", "write", "done"}
Others(t) == \A u \in Tasks \ {t} : handlers'[u] = handlers[u]

LEMMA AtType ==
    ASSUME TypeOK, NEW t \in Tasks, NEW place \in HandlerPlaces, At(t, place)
    PROVE  /\ handlers' \in [Tasks -> Handlers] /\ Others(t)
           /\ handlers'[t].at = place
           /\ handlers'[t].plan = handlers[t].plan /\ handlers'[t].next = handlers[t].next
<1>1. handlers \in [Tasks -> Handlers]
  BY DEF TypeOK
<1>2. [handlers[t] EXCEPT !.at = place] \in Handlers /\ [handlers[t] EXCEPT !.at = place].at = place
  BY <1>1 DEF Handlers, HandlerPlaces
<1> QED  BY <1>1, <1>2 DEF At, Becomes, Others, Handlers

LEMMA MatchedType ==
    ASSUME TypeOK, NEW t \in Tasks, NEW place \in HandlerPlaces, NEW match \in Matches,
           Becomes(t, [handlers[t] EXCEPT !.at = place, !.match = match])
    PROVE  /\ handlers' \in [Tasks -> Handlers] /\ Others(t)
           /\ handlers'[t].at = place
           /\ handlers'[t].plan = handlers[t].plan /\ handlers'[t].next = handlers[t].next
<1>1. handlers \in [Tasks -> Handlers]
  BY DEF TypeOK
<1> QED  BY <1>1 DEF Becomes, Others, Handlers, HandlerPlaces

LEMMA PlannedType ==
    ASSUME TypeOK, NEW t \in Tasks, NEW place \in HandlerPlaces, NEW plan \in Seq(Requests),
           Becomes(t, [handlers[t] EXCEPT !.at = place, !.plan = plan])
    PROVE  /\ handlers' \in [Tasks -> Handlers] /\ Others(t)
           /\ handlers'[t].at = place
           /\ handlers'[t].plan = plan /\ handlers'[t].next = handlers[t].next
<1>1. handlers \in [Tasks -> Handlers]
  BY DEF TypeOK
<1> QED  BY <1>1 DEF Becomes, Others, Handlers, HandlerPlaces

LEMMA PassedType ==
    ASSUME TypeOK, NEW t \in Tasks, Becomes(t, Passed(t))
    PROVE  /\ handlers' \in [Tasks -> Handlers] /\ Others(t)
           /\ handlers'[t].at = "send"
           /\ handlers'[t].plan = handlers[t].plan
<1>1. handlers \in [Tasks -> Handlers] /\ handlers[t].next \in Nat /\ handlers[t].next + 1 \in Nat
  BY DEF TypeOK, Handlers
<1> QED  BY <1>1 DEF Becomes, Passed, Others, Handlers

\* A step of a handler that calls nobody.
LEMMA QuietTypes ==
    ASSUME TypeInv, NEW t \in Tasks, handlers' \in [Tasks -> Handlers], Others(t),
           handlers[t].at # "write", handlers'[t].at # "write",
           faces' \subseteq Tasks, stored' \subseteq Tasks, UNCHANGED <<connVars, recorded>>
    PROVE  TypeInv'
<1>1. TypeOK'
  BY DEF TypeInv, TypeOK, ConnTypeOK, connVars, reading, writing, LockHeld
<1>2. CallsOK'
  BY DEF Others, TypeInv, CallsOK, connVars, reading, writing
<1> QED  BY <1>1, <1>2 DEF TypeInv

LEMMA MeantType ==
    ASSUME TypeInv, NEW t \in Tasks, Start(t)
    PROVE  Meant(delivered[t]) \in Matches
<1>1. delivered[t] \in [kind : Kinds, banned : BOOLEAN, match : Matches, mentions : BOOLEAN]
  BY GroupMessageAssumption DEF Start, TypeInv, TypeOK, ConnTypeOK
<1> QED  BY <1>1 DEF Meant, Matches

LEMMA StartTypes ==
    ASSUME TypeInv, NEW t \in Tasks, Start(t)
    PROVE  TypeInv'
<1>2. Meant(delivered[t]) \in Matches
  BY MeantType
<1>3. handlers' \in [Tasks -> Handlers] /\ Others(t) /\ handlers'[t].at # "write"
  <2>1. CASE StartMessage(t)
    <3>1. CASE At(t, "done")
      BY <3>1, AtType DEF TypeInv, HandlerPlaces
    <3>2. CASE ~At(t, "done")
      <4>1. PICK place \in {"store", "execute"} :
                Becomes(t, [handlers[t] EXCEPT !.at = place, !.match = Meant(delivered[t])])
        BY <2>1, <3>2 DEF StartMessage
      <4> QED  BY <1>2, <4>1, MatchedType DEF TypeInv, HandlerPlaces
    <3> QED  BY <3>1, <3>2
  <2>2. CASE StartOther(t)
    <3>1. CASE At(t, "done")
      BY <3>1, AtType DEF TypeInv, HandlerPlaces
    <3>2. CASE Becomes(t, [handlers[t] EXCEPT !.at = "send", !.plan = <<"message">>])
      <4>1. <<"message">> \in Seq(Requests)
        BY DEF Requests
      <4> QED  BY <3>2, <4>1, PlannedType DEF TypeInv, HandlerPlaces
    <3> QED  BY <2>2, <3>1, <3>2 DEF StartOther
  <2> QED  BY <2>1, <2>2 DEF Start
<1>4. faces' \subseteq Tasks /\ stored' \subseteq Tasks
  BY DEF Start, StartMessage, StartOther, TypeInv, TypeOK
<1> QED  BY <1>3, <1>4, QuietTypes DEF Start

\* Storing and answering lengthen the plan and touch no other handler.
LEMMA PlanChanges ==
    ASSUME TypeInv, NEW t \in Tasks, Store(t) \/ Execute(t)
    PROVE  /\ handlers' \in [Tasks -> Handlers] /\ Others(t)
           /\ handlers'[t].at \in {"execute", "send"} /\ handlers'[t].next = handlers[t].next
<1>1. handlers[t].plan \in Seq(Requests)
  BY DEF TypeInv, TypeOK, Handlers
<1>2. PICK place \in {"execute", "send"}, plan \in Seq(Requests) :
          Becomes(t, [handlers[t] EXCEPT !.at = place, !.plan = plan])
  <2>1. CASE Store(t)
    <3>1. PICK n \in 0..MaxDuplicates :
              Becomes(t, [handlers[t] EXCEPT !.at = "execute", !.plan = [k \in 1..n |-> "message"]])
      BY <2>1 DEF Store
    <3>2. [k \in 1..n |-> "message"] \in Seq(Requests)
      BY GroupMessageAssumption DEF Requests
    <3> QED  BY <3>1, <3>2
  <2>2. CASE Execute(t)
    <3>1. PICK answer \in {<<>>, <<"message">>} \cup Answers :
              Becomes(t, [handlers[t] EXCEPT !.at = "send", !.plan = handlers[t].plan \o answer])
      BY <2>2 DEF Execute
    <3>2. answer \in Seq(Requests)
      <4>1. <<>> \in Seq(Requests) /\ <<"message">> \in Seq(Requests)
        BY DEF Requests
      <4> QED  BY <4>1, GroupMessageAssumption
    <3>3. handlers[t].plan \o answer \in Seq(Requests)
      BY <1>1, <3>2
    <3> QED  BY <3>1, <3>3
  <2> QED  BY <2>1, <2>2
<1> QED  BY <1>2, PlannedType DEF TypeInv, HandlerPlaces

LEMMA PlanTypes ==
    ASSUME TypeInv, NEW t \in Tasks, Store(t) \/ Execute(t)
    PROVE  TypeInv'
<1>1. stored' \subseteq Tasks /\ faces' \subseteq Tasks
  BY DEF Store, Execute, TypeInv, TypeOK
<1> QED  BY <1>1, PlanChanges, QuietTypes DEF Store, Execute

\* A handler calls writeFrame for its current request.
LEMMA CallTypes ==
    ASSUME TypeInv, NEW t \in Tasks, handlers[t].at # "write",
           At(t, "write"), Called(t, handlers[t].next, FALSE),
           UNCHANGED <<socket, reading, lock, wire, faces, stored, recorded>>
    PROVE  TypeInv'
<1>1. calls[t].at = "none" /\ handlers[t].next \in Nat /\ t \in Writers
  BY Distinct DEF TypeInv, TypeOK, CallsOK, Handlers
<1>2. /\ calls' \in [Writers -> [at : {"none", "header", "payload", "ok", "failed"}, frame : Frames]]
      /\ LockHeld'
      /\ calls'[t].frame = [from |-> t, no |-> handlers[t].next, bare |-> FALSE]
      /\ \A o \in Writers \ {t} : calls'[o] = calls[o]
  BY <1>1, CalledType DEF TypeInv
<1>3. /\ handlers' \in [Tasks -> Handlers] /\ Others(t)
      /\ handlers'[t].at = "write" /\ handlers'[t].next = handlers[t].next
  BY AtType DEF TypeInv, HandlerPlaces
<1>4. TypeOK'
  BY <1>2, <1>3 DEF TypeInv, TypeOK, ConnTypeOK, reading
<1>5. reader' \notin {"pong", "close"} => calls'[Reader].at = "none"
  <2>1. reader' = reader /\ Reader \in Writers \ {t}
    BY Distinct DEF reading
  <2> QED  BY <1>2, <2>1 DEF TypeInv, CallsOK
<1>6. ASSUME NEW u \in Tasks
      PROVE  IF handlers'[u].at = "write"
             THEN calls'[u].frame = [from |-> u, no |-> handlers'[u].next, bare |-> FALSE]
             ELSE calls'[u].at = "none"
  <2>1. CASE u = t
    BY <1>2, <1>3, <2>1
  <2>2. CASE u # t
    <3>1. u \in Writers \ {t} /\ u \in Tasks \ {t}
      BY <2>2, Distinct
    <3>2. calls'[u] = calls[u] /\ handlers'[u] = handlers[u]
      BY <1>2, <1>3, <3>1 DEF Others
    <3> QED  BY <3>2 DEF TypeInv, CallsOK
  <2> QED  BY <2>1, <2>2
<1> QED  BY <1>4, <1>5, <1>6 DEF TypeInv, CallsOK

\* What executeActions does between and after its calls.
LEMMA ExecuteTypes ==
    ASSUME TypeInv, NEW t \in Tasks, Send(t) \/ Awake(t) \/ Aborted(t) \/ Returned(t)
    PROVE  TypeInv'
<1>1. faces \subseteq Tasks /\ stored \subseteq Tasks /\ TypeOK
  BY DEF TypeInv, TypeOK
<1>2. CASE Send(t)
  <2>1. CASE UNCHANGED calls
    <3>1. CASE ~(At(t, "write") /\ Called(t, handlers[t].next, FALSE))
      <4>1. At(t, "done") \/ At(t, "sleep") \/ Becomes(t, Passed(t))
        BY <1>2, <3>1 DEF Send, At
      <4>2. handlers' \in [Tasks -> Handlers] /\ Others(t) /\ handlers'[t].at # "write"
        BY <1>1, <4>1, AtType, PassedType DEF HandlerPlaces
      <4>3. UNCHANGED <<connVars, recorded, faces, stored>> /\ handlers[t].at # "write"
        BY <1>2, <2>1 DEF Send, connVars, reading, writing
      <4> QED  BY <1>1, <4>2, <4>3, QuietTypes
    <3> QED  BY <1>2, <3>1, CallTypes DEF Send
  <2>2. CASE ~UNCHANGED calls
    BY <1>2, <2>2, CallTypes DEF Send
  <2> QED  BY <2>1, <2>2
<1>3. CASE Awake(t)
  BY <1>3, CallTypes DEF Awake
<1>4. CASE Aborted(t)
  BY <1>1, <1>4, PassedType, QuietTypes DEF Aborted
<1>5. CASE Returned(t)
  <2>1. /\ calls' \in [Writers -> [at : {"none", "header", "payload", "ok", "failed"}, frame : Frames]]
        /\ calls'[t].at = "none" /\ calls[t].at # "payload" /\ t \in Writers
        /\ \A o \in Writers \ {t} : calls'[o] = calls[o]
    BY <1>1, <1>5, MovedType, Distinct DEF Returned, Finished
  <2>2. UNCHANGED <<socket, reading, lock, wire, faces, stored>>
    BY <1>5 DEF Returned
  <2>3. LockHeld'
    BY <2>1, <2>2 DEF TypeInv, TypeOK, ConnTypeOK, LockHeld
  <2>4. handlers' \in [Tasks -> Handlers] /\ Others(t) /\ handlers'[t].at = "send"
    BY <1>1, <1>5, PassedType DEF Returned
  <2>5. recorded' \in Seq(Tasks \X Nat)
    <3>1. handlers[t].next \in Nat /\ recorded \in Seq(Tasks \X Nat)
      BY DEF TypeInv, TypeOK, Handlers
    <3> QED  BY <1>5, <3>1 DEF Returned
  <2>6. TypeOK'
    BY <1>1, <2>1, <2>2, <2>3, <2>4, <2>5 DEF TypeOK, ConnTypeOK, reading
  <2>7. CallsOK'
    BY <2>1, <2>2, <2>4, Distinct DEF TypeInv, CallsOK, reading, Others
  <2> QED  BY <2>6, <2>7 DEF TypeInv
<1> QED  BY <1>2, <1>3, <1>4, <1>5

LEMMA TypeStep == TypeInv /\ [Next]_vars => TypeInv'
<1> SUFFICES ASSUME TypeInv, [Next]_vars PROVE TypeInv'
  OBVIOUS
<1>1. CASE ConnNext /\ UNCHANGED handlerVars
  BY <1>1, WriteTypes, ReaderTypes DEF ConnNext
<1>2. ASSUME NEW t \in Tasks, Step(t) PROVE TypeInv'
  BY <1>2, StartTypes, PlanTypes, ExecuteTypes DEF Step
<1>3. CASE UNCHANGED vars
  BY <1>3 DEF vars, connVars, reading, writing, handlerVars, TypeInv, TypeOK, ConnTypeOK, LockHeld, CallsOK
<1> QED  BY <1>1, <1>2, <1>3 DEF Next

LEMMA TypesAlways == Spec => []TypeInv
  BY InitTypes, TypeStep, PTL DEF Spec

\* Every reachable state is of its type, and whoever is between the header and the
\* payload of a frame holds the mutex alone.
THEOREM TypeCorrect == Spec => []TypeOK
<1>1. TypeInv => TypeOK
  BY DEF TypeInv
<1> QED  BY <1>1, TypesAlways, PTL

------------------------------------------------------------------------------
(* Frames. *)

LEMMA InitFrames == Init => FramesInv
  BY Distinct DEF Init, ConnInit, FramesInv, FramesWhole, HeldByLast, LastWhole

\* Nothing is written and the mutex stays where it is: whoever holds it is in his call.
LEMMA QuietFrames ==
    ASSUME TypeInv, FramesInv, UNCHANGED <<wire, lock>>, socket' = socket \/ socket' # "open",
           \A w \in Writers : calls[w].at = "payload" => calls'[w].frame = calls[w].frame
    PROVE  FramesInv'
<1>1. lock # Nobody => lock \in Writers /\ calls[lock].at = "payload"
  BY DEF TypeInv, TypeOK, ConnTypeOK, LockHeld
<1> QED  BY <1>1 DEF FramesInv, FramesWhole, HeldByLast, LastWhole, LastPiece

\* A header goes out when the last frame is whole.
LEMMA HeaderFrames ==
    ASSUME TypeInv, FramesInv, NEW w \in Writers, WriteHeader(w)
    PROVE  FramesInv'
<1> DEFINE p == [frame |-> calls[w].frame, part |-> "header"]
<1>1. wire' = Append(wire, p) /\ wire \in Seq(Pieces) /\ lock = Nobody /\ socket = "open"
  BY DEF WriteHeader, Acquire, TypeInv, TypeOK, ConnTypeOK
<1>2. LastWhole
  BY <1>1 DEF FramesInv, HeldByLast
<1>3. /\ Len(wire') = Len(wire) + 1 /\ Len(wire) \in Nat /\ wire'[Len(wire')] = p
      /\ DOMAIN wire = 1..Len(wire) /\ DOMAIN wire' = 1..Len(wire')
      /\ \A i \in 1..Len(wire) : wire'[i] = wire[i]
  BY <1>1
<1>4. FramesWhole'
  <2> SUFFICES ASSUME NEW i \in 1..Len(wire')
               PROVE  /\ wire'[i].part = "payload" =>
                             i > 1 /\ wire'[i - 1] = [frame |-> wire'[i].frame, part |-> "header"]
                      /\ wire'[i].part = "header" /\ ~wire'[i].frame.bare /\ i < Len(wire') =>
                             wire'[i + 1] = [frame |-> wire'[i].frame, part |-> "payload"]
    BY <1>3 DEF FramesWhole
  <2>1. CASE i = Len(wire')
    BY <1>3, <2>1
  <2>2. CASE i = Len(wire)
    <3>1. wire # <<>> /\ wire'[i] = LastPiece /\ i \in DOMAIN wire
      BY <1>1, <1>3, <2>2 DEF LastPiece
    <3>2. wire'[i].part = "header" => wire'[i].frame.bare
      BY <1>2, <3>1 DEF LastWhole
    <3>3. wire[i].part = "payload" =>
              i > 1 /\ wire[i - 1] = [frame |-> wire[i].frame, part |-> "header"]
      BY <3>1 DEF FramesInv, FramesWhole
    <3> QED  BY <1>3, <2>2, <3>2, <3>3
  <2>3. CASE i < Len(wire)
    BY <1>3, <2>3 DEF FramesInv, FramesWhole
  <2>4. i = Len(wire') \/ i = Len(wire) \/ i < Len(wire)
    BY <1>3
  <2> QED  BY <2>1, <2>2, <2>3, <2>4
<1>5. HeldByLast'
  <2>1. wire' # <<>> /\ wire'[Len(wire')] = p
    BY <1>1, <1>3
  <2>2. CASE calls[w].frame.bare
    BY <1>1, <2>1, <2>2 DEF WriteHeader, HeldByLast, LastWhole, LastPiece
  <2>3. CASE ~calls[w].frame.bare
    <3>1. lock' = w /\ calls'[w].frame = calls[w].frame /\ w # Nobody
      BY <2>3, MovedType, Distinct DEF WriteHeader, Acquire, TypeInv
    <3> QED  BY <2>1, <2>3, <3>1 DEF HeldByLast, LastPiece
  <2> QED  BY <2>2, <2>3
<1> QED  BY <1>4, <1>5 DEF FramesInv

\* A payload goes out when the last piece is its own header.
LEMMA PayloadFrames ==
    ASSUME TypeInv, FramesInv, NEW w \in Writers, WritePayload(w)
    PROVE  FramesInv'
<1> DEFINE p == [frame |-> calls[w].frame, part |-> "payload"]
<1>1. wire' = Append(wire, p) /\ wire \in Seq(Pieces) /\ lock = w /\ lock' = Nobody /\ w # Nobody
  BY Distinct DEF WritePayload, TypeInv, TypeOK, ConnTypeOK, LockHeld
<1>2. wire # <<>> /\ LastPiece = [frame |-> calls[w].frame, part |-> "header"]
  BY <1>1 DEF FramesInv, HeldByLast
<1>3. /\ Len(wire') = Len(wire) + 1 /\ Len(wire) \in Nat /\ Len(wire) > 0 /\ wire'[Len(wire')] = p
      /\ DOMAIN wire = 1..Len(wire) /\ DOMAIN wire' = 1..Len(wire')
      /\ \A i \in 1..Len(wire) : wire'[i] = wire[i]
  BY <1>1, <1>2
<1>4. FramesWhole'
  <2> SUFFICES ASSUME NEW i \in 1..Len(wire')
               PROVE  /\ wire'[i].part = "payload" =>
                             i > 1 /\ wire'[i - 1] = [frame |-> wire'[i].frame, part |-> "header"]
                      /\ wire'[i].part = "header" /\ ~wire'[i].frame.bare /\ i < Len(wire') =>
                             wire'[i + 1] = [frame |-> wire'[i].frame, part |-> "payload"]
    BY <1>3 DEF FramesWhole
  <2>1. CASE i = Len(wire')
    BY <1>2, <1>3, <2>1 DEF LastPiece
  <2>2. CASE i = Len(wire)
    <3>1. wire'[i] = [frame |-> calls[w].frame, part |-> "header"] /\ wire'[i + 1] = p
      BY <1>2, <1>3, <2>2 DEF LastPiece
    <3> QED  BY <3>1
  <2>3. CASE i < Len(wire)
    BY <1>3, <2>3 DEF FramesInv, FramesWhole
  <2>4. i = Len(wire') \/ i = Len(wire) \/ i < Len(wire)
    BY <1>3
  <2> QED  BY <2>1, <2>2, <2>3, <2>4
<1>5. HeldByLast'
  BY <1>1, <1>3 DEF HeldByLast, LastWhole, LastPiece
<1> QED  BY <1>4, <1>5 DEF FramesInv

\* A write that fails leaves the wire as it is, and the connection broken.
LEMMA ErrFrames ==
    ASSUME TypeInv, FramesInv, NEW w \in Writers, WriteErr(w)
    PROVE  FramesInv'
<1>1. UNCHANGED wire /\ lock' = Nobody /\ socket' # "open"
  BY DEF WriteErr
<1> QED  BY <1>1 DEF FramesInv, FramesWhole, HeldByLast

LEMMA FramesStep == TypeInv /\ FramesInv /\ [Next]_vars => FramesInv'
<1> SUFFICES ASSUME TypeInv, FramesInv, [Next]_vars PROVE FramesInv'
  OBVIOUS
<1>1. ASSUME NEW w \in Writers, WriteFrame(w) PROVE FramesInv'
  BY <1>1, HeaderFrames, PayloadFrames, ErrFrames DEF WriteFrame
<1>2. CASE Handshake \/ HandshakeErr \/ ReadErr \/ Cancel \/ Close
  BY <1>2, QuietFrames DEF Handshake, HandshakeErr, ReadErr, Cancel, Close, writing
<1>3. CASE Receive
  <2>1. UNCHANGED <<wire, lock, socket>>
    BY <1>3 DEF Receive, ReadText, ReadPing, ReadOther, ReadContinuation, ReadClose, Read, writing
  <2>2. \A w \in Writers : calls[w].at = "payload" => calls'[w] = calls[w]
    <3>1. CASE UNCHANGED calls
      BY <3>1
    <3>2. ASSUME NEW bare \in BOOLEAN, ReadPing(bare) \/ ReadClose
          PROVE  \A w \in Writers : calls[w].at = "payload" => calls'[w] = calls[w]
      <4>1. calls[Reader].at = "none"
        BY <3>2 DEF ReadPing, ReadClose, Read, TypeInv, CallsOK
      <4>2. PICK b \in BOOLEAN : Called(Reader, reads + 1, b)
        BY <3>2 DEF ReadPing, ReadClose
      <4>3. calls \in [Writers -> [at : {"none", "header", "payload", "ok", "failed"}, frame : Frames]]
        BY DEF TypeInv, TypeOK, ConnTypeOK
      <4> QED  BY <4>1, <4>2, <4>3 DEF Called
    <3> QED  BY <1>3, <3>1, <3>2 DEF Receive, ReadText, ReadOther, ReadContinuation, writing
  <2> QED  BY <2>1, <2>2, QuietFrames
<1>4. CASE ReaderReturned
  <2>1. /\ UNCHANGED <<wire, lock, socket>>
        /\ \A w \in Writers : calls'[w].frame = calls[w].frame
    BY <1>4, MovedType, Distinct DEF ReaderReturned, TypeInv
  <2> QED  BY <2>1, QuietFrames
<1>5. ASSUME NEW t \in Tasks, Step(t) PROVE FramesInv'
  <2>1. UNCHANGED <<wire, lock, socket>>
    BY <1>5 DEF Step, Start, Store, Execute, Send, Awake, Aborted, Returned, connVars, writing
  <2>2. \A w \in Writers : calls[w].at = "payload" => calls'[w].frame = calls[w].frame
    <3>1. CASE UNCHANGED calls
      BY <3>1
    <3>2. CASE Called(t, handlers[t].next, FALSE) /\ handlers[t].at # "write"
      <4>1. calls[t].at = "none"
        BY <3>2 DEF TypeInv, CallsOK
      <4>2. calls \in [Writers -> [at : {"none", "header", "payload", "ok", "failed"}, frame : Frames]]
        BY DEF TypeInv, TypeOK, ConnTypeOK
      <4> QED  BY <3>2, <4>1, <4>2 DEF Called
    <3>3. CASE Returned(t)
      BY <3>3, MovedType, Distinct DEF Returned, TypeInv
    <3> QED  BY <1>5, <3>1, <3>2, <3>3 DEF Step, Start, Store, Execute, Send, Awake, Aborted,
                 connVars, writing
  <2> QED  BY <2>1, <2>2, QuietFrames
<1>6. CASE UNCHANGED vars
  BY <1>6, QuietFrames DEF vars, connVars, writing
<1> QED  BY <1>1, <1>2, <1>3, <1>4, <1>5, <1>6 DEF Next, ConnNext

\* On the wire every payload follows its own header, and nothing comes between the two,
\* for any number of handlers and frames.
THEOREM FramesAlwaysWhole == Spec => []FramesWhole
<1>1. FramesInv => FramesWhole
  BY DEF FramesInv
<1> QED  BY <1>1, InitTypes, TypeStep, InitFrames, FramesStep, PTL DEF Spec

------------------------------------------------------------------------------
(* Receipts. *)

\* A receipt is expected for no message but one whose frame is on the wire to its end.
\* (executeActions calls RecordPending after WriteText.)
OnWire(frame, sent) == \E i \in DOMAIN sent : sent[i] = [frame |-> frame, part |-> "payload"]
RecordedWasWritten ==
    \A k \in DOMAIN recorded :
        OnWire([from |-> recorded[k][1], no |-> recorded[k][2], bare |-> FALSE], wire)

\* And so was what a goroutine has just written without an error.
OkWasWritten ==
    \A w \in Writers : calls[w].at = "ok" /\ ~calls[w].frame.bare => OnWire(calls[w].frame, wire)
RecordsInv == RecordedWasWritten /\ OkWasWritten

LEMMA InitRecords == Init => RecordsInv
  BY DEF Init, ConnInit, RecordsInv, RecordedWasWritten, OkWasWritten

\* What is on the wire stays there.
LEMMA WireGrows ==
    ASSUME TypeInv, [Next]_vars, NEW frame, OnWire(frame, wire)
    PROVE  OnWire(frame, wire')
<1>1. UNCHANGED wire \/ \E w \in Writers, part \in {"header", "payload"} :
                            wire' = Append(wire, [frame |-> calls[w].frame, part |-> part])
  BY DEF Next, ConnNext, Receive, Handshake, HandshakeErr, ReadText, ReadPing, ReadOther,
     ReadContinuation, ReadClose, ReadErr, ReaderReturned, Cancel, Close,
     WriteFrame, WriteHeader, WritePayload, WriteErr, Step, Start, Store, Execute, Send, Awake,
     Aborted, Returned, vars, connVars, writing
<1>2. wire \in Seq(Pieces)
  BY DEF TypeInv, TypeOK, ConnTypeOK
<1>3. PICK i \in DOMAIN wire : wire[i] = [frame |-> frame, part |-> "payload"]
  BY DEF OnWire
<1>4. ASSUME NEW p, wire' = Append(wire, p) PROVE i \in DOMAIN wire' /\ wire'[i] = wire[i]
  BY <1>2, <1>3, <1>4
<1>5. i \in DOMAIN wire' /\ wire'[i] = wire[i]
  BY <1>1, <1>3, <1>4
<1> QED  BY <1>3, <1>5 DEF OnWire

\* A call that succeeds in this step has written its frame in this step.
LEMMA OkStep == TypeInv /\ OkWasWritten /\ [Next]_vars => OkWasWritten'
<1> SUFFICES ASSUME TypeInv, OkWasWritten, [Next]_vars,
                    NEW w \in Writers, calls'[w].at = "ok", ~calls'[w].frame.bare
             PROVE  OnWire(calls'[w].frame, wire')
  BY DEF OkWasWritten
<1>1. CASE calls[w].at = "ok" /\ calls'[w].frame = calls[w].frame
  BY <1>1, WireGrows DEF OkWasWritten
<1>2. CASE WritePayload(w)
  <2>1. wire' = Append(wire, [frame |-> calls[w].frame, part |-> "payload"])
        /\ wire \in Seq(Pieces) /\ calls'[w].frame = calls[w].frame
    BY <1>2, MovedType DEF WritePayload, TypeInv, TypeOK, ConnTypeOK
  <2> QED  BY <2>1 DEF OnWire
<1>3. calls \in [Writers -> [at : {"none", "header", "payload", "ok", "failed"}, frame : Frames]]
  BY DEF TypeInv, TypeOK, ConnTypeOK
<1>4. ASSUME NEW o \in Writers, WriteFrame(o) PROVE calls'[w] = calls[w] \/ WritePayload(w)
  <2>1. CASE o # w
    BY <1>4, <2>1, MovedType DEF WriteFrame, WriteHeader, WritePayload, WriteErr, TypeInv
  <2>2. CASE o = w
    BY <1>4, <2>2, MovedType DEF WriteFrame, WriteHeader, WriteErr, TypeInv
  <2> QED  BY <2>1, <2>2
<1>5. ASSUME NEW o \in Writers, NEW no, NEW bare, Called(o, no, bare) PROVE calls'[w] = calls[w]
  BY <1>3, <1>5 DEF Called
<1>6. ASSUME NEW o \in Writers, Moved(o, "none") PROVE calls'[w] = calls[w]
  BY <1>3, <1>6 DEF Moved
<1>7. CASE ConnNext
  BY <1>1, <1>2, <1>4, <1>5, <1>6, <1>7, Distinct
     DEF ConnNext, Receive, Handshake, HandshakeErr, ReadText, ReadPing, ReadOther,
         ReadContinuation, ReadClose, ReadErr, ReaderReturned, Cancel, Close, writing
<1>8. ASSUME NEW t \in Tasks, Step(t) PROVE calls'[w] = calls[w]
  BY <1>5, <1>6, <1>8, Distinct
     DEF Step, Start, Store, Execute, Send, Awake, Aborted, Returned, connVars, writing
<1>9. CASE UNCHANGED vars
  BY <1>1, <1>9 DEF vars, connVars, writing
<1> QED  BY <1>1, <1>7, <1>8, <1>9 DEF Next

LEMMA RecordsStep == TypeInv /\ RecordsInv /\ [Next]_vars => RecordsInv'
<1> SUFFICES ASSUME TypeInv, RecordsInv, [Next]_vars PROVE RecordedWasWritten'
  BY OkStep DEF RecordsInv
<1>1. CASE UNCHANGED recorded
  BY <1>1, WireGrows DEF RecordsInv, RecordedWasWritten
<1>2. ASSUME NEW t \in Tasks, Returned(t), ~UNCHANGED recorded PROVE RecordedWasWritten'
  <2> DEFINE r == <<t, handlers[t].next>>
             frame == [from |-> t, no |-> handlers[t].next, bare |-> FALSE]
  <2>1. recorded' = Append(recorded, r) /\ calls[t].at = "ok" /\ handlers[t].at = "write"
    BY <1>2 DEF Returned
  <2>2. calls[t].frame = frame /\ t \in Writers
    BY <2>1, Distinct DEF TypeInv, CallsOK
  <2>3. OnWire(frame, wire')
    BY <2>1, <2>2, WireGrows DEF RecordsInv, OkWasWritten
  <2>4. recorded \in Seq(Tasks \X Nat) /\ handlers[t].next \in Nat
    BY DEF TypeInv, TypeOK, Handlers
  <2>5. ASSUME NEW k \in DOMAIN recorded'
        PROVE  OnWire([from |-> recorded'[k][1], no |-> recorded'[k][2], bare |-> FALSE], wire')
    <3>1. CASE k \in DOMAIN recorded
      <4>1. recorded'[k] = recorded[k]
        BY <2>1, <2>4, <3>1
      <4> QED  BY <3>1, <4>1, WireGrows DEF RecordsInv, RecordedWasWritten
    <3>2. CASE k \notin DOMAIN recorded
      <4>1. recorded'[k] = r
        BY <2>1, <2>4, <2>5, <3>2
      <4> QED  BY <2>3, <4>1
    <3> QED  BY <3>1, <3>2
  <2> QED  BY <2>5 DEF RecordedWasWritten
<1> QED  BY <1>1, <1>2 DEF Next, Step, Start, Store, Execute, Send, Awake, Aborted, handlerVars, vars

\* The queue of pending requests never holds one that is not on the wire.
THEOREM RecordedWasWrittenAlways == Spec => []RecordedWasWritten
<1>1. RecordsInv => RecordedWasWritten
  BY DEF RecordsInv
<1> QED  BY <1>1, InitTypes, TypeStep, InitRecords, RecordsStep, PTL DEF Spec

------------------------------------------------------------------------------
(* What is stored and answered. *)

LEMMA InitTexts == Init => TextsInv
  BY DEF Init, ConnInit, TextsInv, TasksSound, TaskSound, OnlyWhatMayBe

\* A text that arrives belongs to a goroutine that has done nothing yet.
LEMMA DeliveredTexts ==
    ASSUME TypeInv, TextsInv, UNCHANGED handlerVars,
           \/ UNCHANGED delivered
           \/ \E payload \in Payloads \cup {Part} : ReadText(payload)
    PROVE  TextsInv'
<1>1. CASE UNCHANGED delivered
  BY <1>1 DEF TextsInv, TasksSound, TaskSound, OnlyWhatMayBe, handlerVars
<1>2. ASSUME NEW payload \in Payloads \cup {Part}, ReadText(payload) PROVE TextsInv'
  <2>1. delivered' = Append(delivered, payload) /\ delivered \in Seq(Payloads \cup {Part})
        /\ Len(delivered) < MaxTexts
    BY <1>2 DEF ReadText, TypeInv, TypeOK, ConnTypeOK
  <2> DEFINE n == Len(delivered) + 1
  <2>2. /\ DOMAIN delivered' = DOMAIN delivered \cup {n} /\ n \notin DOMAIN delivered
        /\ \A t \in DOMAIN delivered : delivered'[t] = delivered[t]
        /\ n \in Tasks
    BY <2>1, Distinct DEF Tasks
  <2>3. handlers[n].at = "none" /\ n \notin stored \cup faces /\ handlers[n].plan = <<>>
    BY <2>2 DEF TextsInv, TasksSound, TaskSound
  <2> HIDE DEF n
  <2>4. TasksSound'
    BY <2>2, <2>3 DEF TextsInv, TasksSound, TaskSound, handlerVars
  <2>5. OnlyWhatMayBe'
    BY <2>2, <2>3 DEF TextsInv, OnlyWhatMayBe, handlerVars
  <2> QED  BY <2>4, <2>5 DEF TextsInv
<1> QED  BY <1>1, <1>2

\* What becomes of one goroutine's text concerns no other.
LEMMA TaskTexts ==
    ASSUME TypeInv, TextsInv, NEW t \in Tasks, t \in DOMAIN delivered, UNCHANGED delivered,
           Others(t), TaskSound(t)',
           \A u \in Tasks \ {t} : (u \in stored' <=> u \in stored) /\ (u \in faces' <=> u \in faces),
           t \in stored' => /\ delivered[t] # Part /\ ~delivered[t].banned
                            /\ Storing(Meant(delivered[t])),
           delivered[t] = Part => handlers'[t].plan = <<>> /\ t \notin faces'
    PROVE  TextsInv'
<1>1. DOMAIN delivered \subseteq Tasks
  BY Distinct DEF TypeInv, TypeOK, ConnTypeOK, Tasks
<1>2. TasksSound'
  BY DEF TextsInv, TasksSound, TaskSound, Others
<1>3. OnlyWhatMayBe'
  BY <1>1 DEF TextsInv, OnlyWhatMayBe, Others
<1> QED  BY <1>2, <1>3 DEF TextsInv

LEMMA StartTexts ==
    ASSUME TypeInv, TextsInv, NEW t \in Tasks, Start(t)
    PROVE  TextsInv'
<1> DEFINE p == delivered[t]
<1>1. /\ t \in DOMAIN delivered /\ UNCHANGED <<delivered, stored>> /\ handlers[t].at = "none"
      /\ t \notin stored /\ t \notin faces /\ handlers[t].plan = <<>> /\ TypeOK
  BY DEF Start, connVars, reading, TypeInv, TextsInv, TasksSound, TaskSound
<1>2. p.kind = "message" => p # Part
  BY GroupMessageAssumption
<1>3. Meant(p) \in Matches
  <2>1. p \in [kind : Kinds, banned : BOOLEAN, match : Matches, mentions : BOOLEAN]
    BY <1>1, GroupMessageAssumption DEF TypeOK, ConnTypeOK
  <2> QED  BY <2>1 DEF Meant, Matches
<1>4. CASE At(t, "done") /\ UNCHANGED faces
  <2>1. Others(t) /\ handlers'[t].at = "done" /\ handlers'[t].plan = <<>>
    BY <1>1, <1>4, AtType DEF HandlerPlaces
  <2> QED  BY <1>1, <1>4, <2>1, TaskTexts DEF TaskSound
<1>5. CASE StartMessage(t) /\ ~p.banned
  <2>1. PICK place \in {"store", "execute"} :
            /\ Becomes(t, [handlers[t] EXCEPT !.at = place, !.match = Meant(p)])
            /\ place = "store" => Storing(Meant(p))
    BY <1>5 DEF StartMessage
  <2>2. Others(t) /\ handlers'[t].at = place /\ handlers'[t].plan = <<>>
    BY <1>1, <1>3, <2>1, MatchedType DEF HandlerPlaces
  <2>3. p.kind = "message" /\ faces' \in {faces, faces \cup {t}}
    BY <1>5 DEF StartMessage
  <2>4. TaskSound(t)'
    BY <1>1, <1>5, <2>1, <2>2, <2>3 DEF TaskSound
  <2> QED  BY <1>1, <1>2, <2>2, <2>3, <2>4, TaskTexts
<1>6. CASE p.kind = "poke" /\ Becomes(t, [handlers[t] EXCEPT !.at = "send", !.plan = <<"message">>])
           /\ UNCHANGED faces
  <2>1. <<"message">> \in Seq(Requests) /\ p # Part
    BY <1>6, GroupMessageAssumption DEF Requests
  <2>2. Others(t) /\ handlers'[t].at = "send"
    BY <1>1, <1>6, <2>1, PlannedType DEF HandlerPlaces
  <2> QED  BY <1>1, <1>6, <2>1, <2>2, TaskTexts DEF TaskSound
<1> QED  BY <1>4, <1>5, <1>6 DEF Start, StartMessage, StartOther

LEMMA PlanTexts ==
    ASSUME TypeInv, TextsInv, NEW t \in Tasks, Store(t) \/ Execute(t)
    PROVE  TextsInv'
<1>1. /\ t \in DOMAIN delivered /\ delivered[t].kind = "message"
      /\ handlers[t].at = "store" => ~delivered[t].banned /\ Storing(Meant(delivered[t]))
      /\ UNCHANGED <<delivered, faces>>
  BY DEF Store, Execute, connVars, reading, TextsInv, TasksSound, TaskSound
<1>2. delivered[t] # Part
  BY <1>1, GroupMessageAssumption
<1>3. Others(t) /\ handlers'[t].at \in {"execute", "send"}
  BY PlanChanges
<1>4. TaskSound(t)'
  BY <1>1, <1>3 DEF TaskSound
<1>5. CASE Store(t)
  BY <1>1, <1>2, <1>3, <1>4, <1>5, TaskTexts DEF Store
<1>6. CASE Execute(t)
  BY <1>1, <1>2, <1>3, <1>4, <1>6, TaskTexts DEF Execute, TextsInv, OnlyWhatMayBe
<1> QED  BY <1>5, <1>6

LEMMA ExecuteTexts ==
    ASSUME TypeInv, TextsInv, NEW t \in Tasks, Send(t) \/ Awake(t) \/ Aborted(t) \/ Returned(t)
    PROVE  TextsInv'
<1>1. /\ t \in DOMAIN delivered /\ UNCHANGED <<delivered, faces, stored>> /\ TypeOK
      /\ handlers[t].at \in {"send", "sleep", "write"}
  BY DEF Send, Awake, Aborted, Returned, connVars, reading, TypeInv, TextsInv, TasksSound, TaskSound
<1>2. \/ At(t, "done") \/ At(t, "sleep") \/ At(t, "write") \/ Becomes(t, Passed(t))
  BY DEF Send, Awake, Aborted, Returned, At
<1>3. Others(t) /\ handlers'[t].plan = handlers[t].plan
      /\ handlers'[t].at \in {"done", "sleep", "write", "send"}
  BY <1>1, <1>2, AtType, PassedType DEF HandlerPlaces
<1>4. TaskSound(t)'
  BY <1>1, <1>3 DEF TaskSound
<1> QED  BY <1>1, <1>3, <1>4, TaskTexts DEF TextsInv, OnlyWhatMayBe

LEMMA TextsStep == TypeInv /\ TextsInv /\ [Next]_vars => TextsInv'
<1> SUFFICES ASSUME TypeInv, TextsInv, [Next]_vars PROVE TextsInv'
  OBVIOUS
<1>1. CASE ConnNext /\ UNCHANGED handlerVars
  <2>1. UNCHANGED delivered \/ \E payload \in Payloads \cup {Part} : ReadText(payload)
    BY <1>1 DEF ConnNext, Receive, Handshake, HandshakeErr, ReadPing, ReadOther, ReadContinuation,
       ReadClose, ReadErr, ReaderReturned, Cancel, Close, WriteFrame, WriteHeader, WritePayload,
       WriteErr, reading, writing
  <2> QED  BY <1>1, <2>1, DeliveredTexts
<1>2. ASSUME NEW t \in Tasks, Step(t) PROVE TextsInv'
  BY <1>2, StartTexts, PlanTexts, ExecuteTexts DEF Step
<1>3. CASE UNCHANGED vars
  BY <1>3, DeliveredTexts DEF vars, connVars, reading
<1> QED  BY <1>1, <1>2, <1>3 DEF Next

\* Nothing of a banned user and no command but njk is stored, and a part of a message
\* is answered by nobody.
THEOREM OnlyWhatMayBeAlways == Spec => []OnlyWhatMayBe
<1>1. TextsInv => OnlyWhatMayBe
  BY DEF TextsInv
<1> QED  BY <1>1, InitTypes, TypeStep, InitTexts, TextsStep, PTL DEF Spec

------------------------------------------------------------------------------
(* Plans, frames and receipts together. *)

Recorded(t, n) == \E k \in DOMAIN recorded : recorded[k] = <<t, n>>

\* Where executeActions is in its plan.
PlanSound(t) ==
    LET h == handlers[t] IN
    /\ h.next \in 1..(Len(h.plan) + 1)
    /\ h.at \in {"none", "store", "execute"} => h.next = 1
    /\ h.at \in {"sleep", "write"} => h.next <= Len(h.plan)
    /\ h.at = "sleep" => h.plan[h.next] = "emoji"
    /\ h.at = "done" => h.next = Len(h.plan) + 1

\* On the wire is what has been passed, and maybe the current request.
EndsSound(t) ==
    \A i \in Ends(t) :
        LET n == wire[i].frame.no IN
        /\ n \in Nat \ {0} /\ ~wire[i].frame.bare
        /\ n < handlers[t].next \/ (n = handlers[t].next /\ handlers[t].at = "write"
                                     /\ calls[t].at = "ok")

InOrder(t) == \A i, k \in Ends(t) : i < k => wire[i].frame.no < wire[k].frame.no

NoGaps(t) ==
    \A i \in Ends(t) : \A n \in 1..(wire[i].frame.no - 1) : Whole(t, n) \/ GivenUp(t, n)

\* What has been passed is on the wire, given up, or lost with the connection.
PassedSent(t) ==
    \A n \in 1..(handlers[t].next - 1) : Whole(t, n) \/ GivenUp(t, n) \/ socket # "open"

RecordsOf(t) ==
    /\ \A n \in Nat : Recorded(t, n) => n < handlers[t].next
    /\ \A n \in 1..(handlers[t].next - 1) :
           Recorded(t, n) <=> Whole(t, n) /\ handlers[t].plan[n] # "emoji"

TaskPlan(t) ==
    PlanSound(t) /\ EndsSound(t) /\ InOrder(t) /\ NoGaps(t) /\ PassedSent(t) /\ RecordsOf(t)

\* The frames of the loop that reads are its own, and a call fails with the connection.
CallsFair ==
    /\ calls[Reader].frame.from = Reader
    /\ \A w \in Writers : calls[w].at = "failed" => socket # "open"

RecordedOnce == \A i, k \in DOMAIN recorded : recorded[i] = recorded[k] => i = k

PlansInv == (\A t \in Tasks : TaskPlan(t)) /\ CallsFair /\ RecordedOnce

LEMMA InitPlans == Init => PlansInv
<1> SUFFICES ASSUME Init PROVE PlansInv
  OBVIOUS
<1>1. wire = <<>> /\ recorded = <<>> /\ Reader \in Writers
  BY Distinct DEF Init, ConnInit
<1>2. CallsFair /\ RecordedOnce
  BY <1>1 DEF Init, ConnInit, CallsFair, RecordedOnce, NoFrame
<1>3. ASSUME NEW t \in Tasks PROVE TaskPlan(t)
  <2>1. handlers[t].at = "none" /\ handlers[t].next = 1 /\ handlers[t].plan = <<>>
    BY DEF Init
  <2>2. Ends(t) = {} /\ \A n : ~Recorded(t, n)
    BY <1>1 DEF Ends, Recorded
  <2> QED  BY <2>1, <2>2 DEF TaskPlan, PlanSound, EndsSound, InOrder, NoGaps, PassedSent, RecordsOf
<1> QED  BY <1>2, <1>3 DEF PlansInv

\* What ends one of t's requests on the wire is one of its ends.
LEMMA WholeEnds == \A t, n : Whole(t, n) => \E i \in Ends(t) : wire[i].frame.no = n
  BY DEF Whole, Ends

\* A step that leaves alone what concerns one goroutine.
LEMMA TaskStays ==
    ASSUME NEW t \in Tasks, TaskPlan(t), handlers'[t] = handlers[t], Ends(t)' = Ends(t),
           \A i \in Ends(t) : wire'[i] = wire[i], cancelled => cancelled',
           socket' = "open" => socket = "open", calls[t].at = "ok" => calls'[t].at = "ok",
           \A n : Recorded(t, n)' <=> Recorded(t, n)
    PROVE  TaskPlan(t)'
<1>1. \A n : Whole(t, n)' <=> Whole(t, n)
  BY DEF Whole, Ends
<1>2. \A n : GivenUp(t, n) => GivenUp(t, n)'
  BY DEF GivenUp
<1>3. PlanSound(t)' /\ EndsSound(t)' /\ InOrder(t)'
  BY DEF TaskPlan, PlanSound, EndsSound, InOrder
<1>4. NoGaps(t)'
  BY <1>1, <1>2 DEF TaskPlan, NoGaps
<1>5. PassedSent(t)'
  BY <1>1, <1>2 DEF TaskPlan, PassedSent
<1>6. RecordsOf(t)'
  BY <1>1 DEF TaskPlan, RecordsOf
<1> QED  BY <1>3, <1>4, <1>5, <1>6 DEF TaskPlan

\* A frame is written by the goroutine it names.
LEMMA WrittenByItself ==
    ASSUME TypeInv, CallsFair, NEW w \in Writers, calls[w].at # "none"
    PROVE  calls[w].frame.from = w
<1>1. CASE w \in Tasks
  <2>1. calls[w].frame = [from |-> w, no |-> handlers[w].next, bare |-> FALSE]
    BY <1>1 DEF TypeInv, CallsOK
  <2> QED  BY <2>1
<1>2. CASE w = Reader
  BY <1>2 DEF CallsFair
<1> QED  BY <1>1, <1>2 DEF Writers

\* The ends on the wire that one step adds.
LEMMA EndsStep ==
    ASSUME TypeInv, CallsFair, [Next]_vars, NEW t \in Tasks, ~WritePayload(t)
    PROVE  Ends(t)' = Ends(t) /\ \A i \in Ends(t) : wire'[i] = wire[i]
<1>1. wire \in Seq(Pieces)
  BY DEF TypeInv, TypeOK, ConnTypeOK
<1>2. CASE UNCHANGED wire
  BY <1>2 DEF Ends
<1>3. ASSUME NEW p \in Pieces, wire' = Append(wire, p), p.frame.from # t \/ p.part # "payload"
      PROVE  Ends(t)' = Ends(t) /\ \A i \in Ends(t) : wire'[i] = wire[i]
  <2>1. /\ DOMAIN wire' = DOMAIN wire \cup {Len(wire) + 1} /\ Len(wire) + 1 \notin DOMAIN wire
        /\ \A i \in DOMAIN wire : wire'[i] = wire[i]
        /\ wire'[Len(wire) + 1] = p
    BY <1>1, <1>3
  <2> QED  BY <1>3, <2>1 DEF Ends
<1>4. ASSUME NEW w \in Writers, WriteHeader(w)
      PROVE  Ends(t)' = Ends(t) /\ \A i \in Ends(t) : wire'[i] = wire[i]
  <2>1. [frame |-> calls[w].frame, part |-> "header"] \in Pieces
    BY DEF TypeInv, TypeOK, ConnTypeOK, Pieces
  <2> QED  BY <1>3, <1>4, <2>1 DEF WriteHeader
<1>5. ASSUME NEW w \in Writers, WritePayload(w)
      PROVE  Ends(t)' = Ends(t) /\ \A i \in Ends(t) : wire'[i] = wire[i]
  <2>1. [frame |-> calls[w].frame, part |-> "payload"] \in Pieces
    BY DEF TypeInv, TypeOK, ConnTypeOK, Pieces
  <2>2. calls[w].frame.from # t
    BY <1>5, WrittenByItself DEF WritePayload
  <2> QED  BY <1>3, <1>5, <2>1, <2>2 DEF WritePayload
<1> QED
  BY <1>2, <1>4, <1>5 DEF Next, ConnNext, Receive, Handshake, HandshakeErr, ReadText, ReadPing,
     ReadOther, ReadContinuation, ReadClose, ReadErr, ReaderReturned, Cancel, Close,
     WriteFrame, WriteErr, Step, Start, Store, Execute, Send, Awake,
     Aborted, Returned, vars, connVars, writing

\* A payload goes on the wire as long as the connection is open: all that was passed is there.
LEMMA PayloadPlan ==
    ASSUME TypeInv, PlansInv, NEW t \in Tasks, WritePayload(t), UNCHANGED handlerVars
    PROVE  TaskPlan(t)'
<1> DEFINE h == handlers[t]
           last == Len(wire) + 1
<1>1. /\ h.at = "write" /\ calls[t].frame = [from |-> t, no |-> h.next, bare |-> FALSE]
      /\ calls[t].at = "payload" /\ socket = "open" /\ TaskPlan(t) /\ h.next \in Nat /\ h.next >= 1
  BY DEF WritePayload, TypeInv, TypeOK, Handlers, CallsOK, PlansInv, TaskPlan, PlanSound
<1>2. /\ wire' = Append(wire, [frame |-> calls[t].frame, part |-> "payload"]) /\ wire \in Seq(Pieces)
      /\ socket' = socket /\ cancelled' = cancelled /\ recorded' = recorded
      /\ handlers' = handlers
  BY DEF WritePayload, TypeInv, TypeOK, ConnTypeOK, handlerVars, reading
<1>3. calls'[t].at = "ok"
  BY MovedType, Distinct DEF WritePayload, TypeInv
<1>4. /\ DOMAIN wire' = DOMAIN wire \cup {last} /\ \A i \in DOMAIN wire : i < last /\ i \in Nat
      /\ \A i \in DOMAIN wire : wire'[i] = wire[i]
      /\ wire'[last] = [frame |-> [from |-> t, no |-> h.next, bare |-> FALSE], part |-> "payload"]
      /\ last \in Nat
  BY <1>1, <1>2
<1> HIDE DEF last
<1>5. Ends(t)' = Ends(t) \cup {last} /\ wire'[last].frame.no = h.next /\ ~wire'[last].frame.bare
  BY <1>4 DEF Ends
<1>6. \A i \in Ends(t) : /\ wire'[i] = wire[i] /\ i < last /\ i \in Nat
                         /\ wire[i].frame.no \in Nat \ {0} /\ wire[i].frame.no < h.next
                         /\ ~wire[i].frame.bare
  BY <1>1, <1>4 DEF Ends, TaskPlan, EndsSound
<1>7. \A n \in 1..(h.next - 1) : Whole(t, n) <=> Whole(t, n)'
  <2>1. \A n : Whole(t, n) => Whole(t, n)'
    BY <1>4 DEF Whole
  <2>2. \A n \in 1..(h.next - 1) : Whole(t, n)' => Whole(t, n)
    BY <1>1, <1>4 DEF Whole
  <2> QED  BY <2>1, <2>2
<1>8. \A n : GivenUp(t, n) <=> GivenUp(t, n)'
  BY <1>2 DEF GivenUp
<1>9. PlanSound(t)'
  BY <1>1, <1>2 DEF TaskPlan, PlanSound
<1>10. EndsSound(t)'
  <2> SUFFICES ASSUME NEW i \in Ends(t)'
               PROVE  /\ wire'[i].frame.no \in Nat \ {0} /\ ~wire'[i].frame.bare
                      /\ wire'[i].frame.no < h.next \/ wire'[i].frame.no = h.next
    BY <1>1, <1>2, <1>3 DEF EndsSound
  <2>1. CASE i \in Ends(t)
    BY <1>6, <2>1
  <2>2. CASE i = last
    BY <1>1, <1>5, <2>2
  <2> QED  BY <1>5, <2>1, <2>2
<1>11. InOrder(t)'
  BY <1>1, <1>4, <1>5, <1>6 DEF TaskPlan, InOrder
<1>12. \A n \in 1..(h.next - 1) : Whole(t, n)' \/ GivenUp(t, n)'
  BY <1>1, <1>7, <1>8 DEF TaskPlan, PassedSent
<1>13. NoGaps(t)'
  <2> SUFFICES ASSUME NEW i \in Ends(t)', NEW n \in 1..(wire'[i].frame.no - 1)
               PROVE  Whole(t, n)' \/ GivenUp(t, n)'
    BY DEF NoGaps
  <2>1. n \in 1..(h.next - 1)
    BY <1>1, <1>5, <1>6
  <2> QED  BY <1>12, <2>1
<1>14. PassedSent(t)'
  BY <1>2, <1>12 DEF PassedSent
<1>15. RecordsOf(t)'
  BY <1>1, <1>2, <1>7 DEF TaskPlan, RecordsOf, Recorded
<1> QED  BY <1>9, <1>10, <1>11, <1>13, <1>14, <1>15 DEF TaskPlan

\* A goroutine that has sent nothing plans what it likes.
LEMMA FreshPlan ==
    ASSUME TypeInv, PlansInv, [Next]_vars, NEW t \in Tasks,
           handlers[t].at \in {"none", "store", "execute"},
           handlers'[t].next = 1, handlers'[t].at \in {"store", "execute", "send", "done"},
           handlers'[t].plan \in Seq(Requests),
           handlers'[t].at = "done" => handlers'[t].plan = <<>>, recorded' = recorded
    PROVE  TaskPlan(t)'
<1>1. handlers[t].next = 1 /\ TaskPlan(t) /\ CallsFair
  BY DEF PlansInv, TaskPlan, PlanSound
<1>2. Ends(t) = {}
  BY <1>1 DEF TaskPlan, EndsSound
<1>3. ~WritePayload(t)
  BY DEF WritePayload, TypeInv, CallsOK
<1>4. Ends(t)' = {}
  BY <1>1, <1>2, <1>3, EndsStep
<1>5. \A n \in Nat : ~Recorded(t, n)' \/ n < 1
  BY <1>1 DEF TaskPlan, RecordsOf, Recorded
<1> QED  BY <1>4, <1>5 DEF TaskPlan, PlanSound, EndsSound, InOrder, NoGaps, PassedSent, RecordsOf

\* Between its calls a handler goes from place to place.
LEMMA PlacePlan ==
    ASSUME TypeInv, PlansInv, [Next]_vars, NEW t \in Tasks, handlers[t].at # "write",
           handlers'[t].next = handlers[t].next, handlers'[t].plan = handlers[t].plan,
           PlanSound(t)', recorded' = recorded, cancelled' = cancelled, socket' = socket
    PROVE  TaskPlan(t)'
<1>1. TaskPlan(t) /\ CallsFair
  BY DEF PlansInv
<1>2. Ends(t)' = Ends(t) /\ \A i \in Ends(t) : wire'[i] = wire[i]
  <2>1. ~WritePayload(t)
    BY DEF WritePayload, TypeInv, CallsOK
  <2> QED  BY <1>1, <2>1, EndsStep
<1>3. \A n : (Whole(t, n)' <=> Whole(t, n)) /\ (Recorded(t, n)' <=> Recorded(t, n))
             /\ (GivenUp(t, n)' <=> GivenUp(t, n))
  BY <1>2 DEF Whole, Ends, Recorded, GivenUp
<1>4. EndsSound(t)' /\ InOrder(t)'
  BY <1>1, <1>2 DEF TaskPlan, EndsSound, InOrder
<1>5. NoGaps(t)' /\ PassedSent(t)' /\ RecordsOf(t)'
  BY <1>1, <1>2, <1>3 DEF TaskPlan, NoGaps, PassedSent, RecordsOf
<1> QED  BY <1>4, <1>5 DEF TaskPlan

\* A request is passed: it is on the wire, or given up, or the connection has failed.
LEMMA PassedPlan ==
    ASSUME TypeInv, PlansInv, [Next]_vars, NEW t \in Tasks,
           Becomes(t, Passed(t)), handlers[t].at \in {"send", "sleep", "write"},
           handlers[t].next <= Len(handlers[t].plan), wire' = wire,
           cancelled' = cancelled, socket' = socket,
           Whole(t, handlers[t].next) \/ GivenUp(t, handlers[t].next) \/ socket # "open",
           \A n : Recorded(t, n)' <=> \/ Recorded(t, n)
                                      \/ /\ n = handlers[t].next
                                         /\ Whole(t, n) /\ handlers[t].plan[n] # "emoji"
    PROVE  TaskPlan(t)'
<1> DEFINE h == handlers[t]
<1>1. TaskPlan(t) /\ h.next \in Nat /\ h.next >= 1 /\ Len(h.plan) \in Nat
  BY DEF PlansInv, TaskPlan, PlanSound, TypeInv, TypeOK, Handlers
<1>2. handlers'[t].at = "send" /\ handlers'[t].plan = h.plan /\ handlers'[t].next = h.next + 1
  BY DEF Becomes, Passed, TypeInv, TypeOK, Handlers
<1> HIDE DEF h
<1>3. \A n : (Whole(t, n)' <=> Whole(t, n)) /\ (GivenUp(t, n)' <=> GivenUp(t, n))
  BY <1>2 DEF Whole, GivenUp, h
<1>4. Ends(t)' = Ends(t)
  BY DEF Ends
<1>5. PlanSound(t)'
  BY <1>1, <1>2 DEF PlanSound, h
<1>6. EndsSound(t)'
  <2> SUFFICES ASSUME NEW i \in Ends(t)
               PROVE  /\ wire[i].frame.no \in Nat \ {0} /\ ~wire[i].frame.bare
                      /\ wire[i].frame.no < h.next + 1
    BY <1>2, <1>4 DEF EndsSound
  <2> QED  BY <1>1 DEF TaskPlan, EndsSound, h
<1>7. InOrder(t)' /\ NoGaps(t)'
  BY <1>1, <1>3, <1>4 DEF TaskPlan, InOrder, NoGaps
<1>8. \A n \in 1..((h.next + 1) - 1) : n \in 1..(h.next - 1) \/ n = h.next
  BY <1>1
<1>9. PassedSent(t)'
  BY <1>1, <1>2, <1>3, <1>8 DEF TaskPlan, PassedSent, h
<1>10. RecordsOf(t)'
  <2>1. \A n \in Nat : Recorded(t, n)' => n < h.next + 1
    BY <1>1 DEF TaskPlan, RecordsOf, h
  <2>2. ~Recorded(t, h.next)
    BY <1>1 DEF TaskPlan, RecordsOf, h
  <2>3. \A n \in 1..((h.next + 1) - 1) : Recorded(t, n)' <=> Whole(t, n) /\ h.plan[n] # "emoji"
    BY <1>1, <1>8, <2>2 DEF TaskPlan, RecordsOf, h
  <2> QED  BY <1>2, <1>3, <2>1, <2>3 DEF RecordsOf
<1> QED  BY <1>5, <1>6, <1>7, <1>9, <1>10 DEF TaskPlan

LEMMA StartPlan ==
    ASSUME TypeInv, TextsInv, PlansInv, [Next]_vars, NEW t \in Tasks, Start(t) \/ Store(t) \/ Execute(t)
    PROVE  TaskPlan(t)'
<1>1. /\ handlers[t].next = 1 /\ handlers[t].plan \in Seq(Requests) /\ recorded' = recorded
      /\ handlers[t].at \in {"none", "store", "execute"} /\ TypeInv'
      /\ handlers[t].at = "none" => handlers[t].plan = <<>>
  <2>1. handlers[t].at \in {"none", "store", "execute"} /\ recorded' = recorded
    BY DEF Start, Store, Execute
  <2>2. TypeInv'
    BY TypeStep
  <2> QED  BY <2>1, <2>2 DEF PlansInv, TaskPlan, PlanSound, TypeInv, TypeOK, Handlers,
              TextsInv, TasksSound, TaskSound
<1>2. handlers'[t].plan \in Seq(Requests)
  BY <1>1 DEF TypeInv, TypeOK, Handlers
<1>3. /\ handlers'[t].next = 1 /\ handlers'[t].at \in {"store", "execute", "send", "done"}
      /\ handlers'[t].at = "done" => handlers'[t].plan = <<>>
  <2>1. TypeOK
    BY DEF TypeInv
  <2>2. CASE At(t, "done") /\ Start(t)
    BY <1>1, <2>1, <2>2, AtType DEF Start, HandlerPlaces
  <2>3. CASE Start(t) /\ StartMessage(t) /\ ~At(t, "done")
    <3>1. PICK place \in {"store", "execute"} :
              Becomes(t, [handlers[t] EXCEPT !.at = place, !.match = Meant(delivered[t])])
      BY <2>3 DEF StartMessage
    <3>2. Meant(delivered[t]) \in Matches
      BY <2>3, MeantType
    <3> QED  BY <1>1, <2>1, <3>1, <3>2, MatchedType DEF HandlerPlaces
  <2>4. CASE Start(t) /\ StartOther(t) /\ ~At(t, "done")
    <3>1. Becomes(t, [handlers[t] EXCEPT !.at = "send", !.plan = <<"message">>])
      BY <2>4 DEF StartOther
    <3>2. <<"message">> \in Seq(Requests)
      BY DEF Requests
    <3> QED  BY <1>1, <2>1, <3>1, <3>2, PlannedType DEF HandlerPlaces
  <2>5. CASE Store(t) \/ Execute(t)
    BY <1>1, <2>5, PlanChanges
  <2> QED  BY <2>2, <2>3, <2>4, <2>5 DEF Start
<1> QED  BY <1>1, <1>2, <1>3, FreshPlan

LEMMA ExecutePlan ==
    ASSUME TypeInv, RecordsInv, PlansInv, [Next]_vars, NEW t \in Tasks,
           Send(t) \/ Awake(t) \/ Aborted(t) \/ Returned(t)
    PROVE  TaskPlan(t)'
<1> DEFINE h == handlers[t]
<1>1. /\ TypeOK /\ TaskPlan(t) /\ PlanSound(t) /\ h.next \in Nat /\ h.next >= 1 /\ Len(h.plan) \in Nat
      /\ wire' = wire /\ socket' = socket /\ cancelled' = cancelled
      /\ h.at \in {"send", "sleep", "write"}
  <2>1. wire' = wire /\ socket' = socket /\ cancelled' = cancelled
        /\ h.at \in {"send", "sleep", "write"}
    BY DEF Send, Awake, Aborted, Returned, connVars, reading, writing
  <2> QED  BY <2>1 DEF PlansInv, TaskPlan, PlanSound, TypeInv, TypeOK, Handlers
\* Places.
<1>2. ASSUME NEW place \in {"sleep", "write", "done"}, At(t, place), h.at # "write",
             recorded' = recorded,
             place = "done" => h.next > Len(h.plan), place # "done" => h.next <= Len(h.plan),
             place = "sleep" => h.plan[h.next] = "emoji"
      PROVE  TaskPlan(t)'
  <2>1. /\ handlers'[t].at = place /\ handlers'[t].plan = h.plan /\ handlers'[t].next = h.next
    BY <1>1, <1>2, AtType DEF HandlerPlaces
  <2>2. PlanSound(t)'
    BY <1>1, <1>2, <2>1 DEF PlanSound
  <2> QED  BY <1>1, <1>2, <2>1, <2>2, PlacePlan
\* A reaction that is given up.
<1>3. ASSUME Becomes(t, Passed(t)), cancelled, h.plan[h.next] = "emoji", h.next <= Len(h.plan),
             recorded' = recorded
      PROVE  TaskPlan(t)'
  <2>1. GivenUp(t, h.next)
    BY <1>3 DEF GivenUp
  <2>2. \A n : Recorded(t, n)' <=> \/ Recorded(t, n)
                                   \/ n = h.next /\ Whole(t, n) /\ h.plan[n] # "emoji"
    BY <1>3 DEF Recorded
  <2> QED  BY <1>1, <1>3, <2>1, <2>2, PassedPlan
<1>4. CASE Send(t)
  <2>1. h.at = "send" /\ recorded' = recorded
    BY <1>4 DEF Send
  <2>2. CASE h.next > Len(h.plan)
    BY <1>2, <1>4, <2>1, <2>2 DEF Send
  <2>3. CASE h.next <= Len(h.plan) /\ h.plan[h.next] = "emoji" /\ cancelled
    BY <1>1, <1>3, <1>4, <2>1, <2>3 DEF Send, This
  <2>4. CASE h.next <= Len(h.plan) /\ h.plan[h.next] = "emoji" /\ ~cancelled
    BY <1>1, <1>2, <1>4, <2>1, <2>4 DEF Send, This, At
  <2>5. CASE h.next <= Len(h.plan) /\ h.plan[h.next] # "emoji"
    BY <1>1, <1>2, <1>4, <2>1, <2>5 DEF Send, This
  <2> QED  BY <1>1, <2>2, <2>3, <2>4, <2>5
<1>5. CASE Awake(t)
  BY <1>1, <1>2, <1>5 DEF Awake, PlanSound
<1>6. CASE Aborted(t)
  BY <1>1, <1>3, <1>6 DEF Aborted, PlanSound
<1>7. CASE Returned(t)
  <2>1. /\ h.at = "write" /\ calls[t].at \in {"ok", "failed"} /\ h.next <= Len(h.plan)
        /\ calls[t].frame = [from |-> t, no |-> h.next, bare |-> FALSE] /\ t \in Writers
    BY <1>1, <1>7, Distinct DEF Returned, Finished, PlanSound, TypeInv, CallsOK
  <2>2. calls[t].at = "ok" <=> Whole(t, h.next)
    <3>1. calls[t].at = "ok" => Whole(t, h.next)
      BY <2>1 DEF RecordsInv, OkWasWritten, OnWire, Whole
    <3>2. Whole(t, h.next) => calls[t].at = "ok"
      BY <1>1, WholeEnds DEF TaskPlan, EndsSound
    <3> QED  BY <3>1, <3>2
  <2>3. calls[t].at = "failed" => socket # "open"
    BY <2>1 DEF PlansInv, CallsFair
  <2>4. \A n : Recorded(t, n)' <=> \/ Recorded(t, n)
                                   \/ n = h.next /\ Whole(t, n) /\ h.plan[n] # "emoji"
    <3>1. recorded \in Seq(Tasks \X Nat)
      BY <1>1 DEF TypeOK
    <3>2. CASE recorded' = Append(recorded, <<t, h.next>>)
      <4>1. calls[t].at = "ok" /\ h.plan[h.next] # "emoji"
        <5>1. recorded' # recorded
          BY <3>1, <3>2
        <5> QED  BY <1>7, <5>1 DEF Returned, This
      <4>2. /\ DOMAIN recorded' = DOMAIN recorded \cup {Len(recorded) + 1}
            /\ \A k \in DOMAIN recorded : recorded'[k] = recorded[k]
            /\ recorded'[Len(recorded) + 1] = <<t, h.next>>
        BY <1>1, <3>1, <3>2
      <4>3. \A n : Recorded(t, n)' <=> Recorded(t, n) \/ n = h.next
        BY <4>2 DEF Recorded
      <4> QED  BY <2>2, <4>1, <4>3
    <3>3. CASE recorded' = recorded
      <4>1. ~(calls[t].at = "ok" /\ h.plan[h.next] # "emoji")
        <5>1. recorded' # Append(recorded, <<t, h.next>>)
          <6>1. Len(Append(recorded, <<t, h.next>>)) = Len(recorded) + 1 /\ Len(recorded) \in Nat
            BY <1>1, <3>1
          <6> QED  BY <3>3, <6>1
        <5> QED  BY <1>7, <5>1 DEF Returned, This
      <4> QED  BY <2>2, <3>3, <4>1 DEF Recorded
    <3> QED  BY <1>7, <3>2, <3>3 DEF Returned
  <2> QED  BY <1>1, <1>7, <2>1, <2>2, <2>3, <2>4, PassedPlan DEF Returned
<1> QED  BY <1>4, <1>5, <1>6, <1>7

\* A connection that has failed stays so.
LEMMA SocketStep == [Next]_vars => /\ socket' = "open" => socket = "open"
                                   /\ cancelled => cancelled'
<1> SUFFICES ASSUME [Next]_vars PROVE (socket' = "open" => socket = "open") /\ (cancelled => cancelled')
  OBVIOUS
<1>1. CASE UNCHANGED <<socket, cancelled>>
  BY <1>1
<1>2. ASSUME NEW w \in Writers, WriteErr(w)
      PROVE  (socket' = "open" => socket = "open") /\ (cancelled => cancelled')
  BY <1>2 DEF WriteErr, reading
<1>3. CASE HandshakeErr \/ Cancel \/ Close
  BY <1>3 DEF HandshakeErr, Cancel, Close
<1> QED
  BY <1>1, <1>2, <1>3 DEF Next, ConnNext, Receive, Handshake, ReadText, ReadPing, ReadOther,
     ReadContinuation, ReadClose, Read, ReadErr, ReaderReturned, WriteFrame, WriteHeader,
     WritePayload, Step, Start, Store, Execute, Send, Awake, Aborted, Returned,
     vars, connVars, reading, writing

\* What one step does to one call.
LEMMA CallStep ==
    ASSUME TypeInv, [Next]_vars, NEW w \in Writers
    PROVE  \/ calls'[w] = calls[w]
           \/ /\ calls[w].at = "none" /\ calls'[w].at = "header" /\ calls'[w].frame.from = w
           \/ /\ calls[w].at \in {"header", "payload"} /\ calls'[w].frame = calls[w].frame
              /\ calls'[w].at = "failed" => socket' # "open"
           \/ calls'[w].at = "none" /\ calls'[w].frame = calls[w].frame
              /\ (Step(w) \/ (w = Reader /\ ReaderReturned))
<1> DEFINE Goal ==
       \/ calls'[w] = calls[w]
       \/ /\ calls[w].at = "none" /\ calls'[w].at = "header" /\ calls'[w].frame.from = w
       \/ /\ calls[w].at \in {"header", "payload"} /\ calls'[w].frame = calls[w].frame
          /\ calls'[w].at = "failed" => socket' # "open"
       \/ calls'[w].at = "none" /\ calls'[w].frame = calls[w].frame
          /\ (Step(w) \/ (w = Reader /\ ReaderReturned))
<1> SUFFICES Goal
  OBVIOUS
<1>1. TypeOK /\ calls \in [Writers -> [at : {"none", "header", "payload", "ok", "failed"}, frame : Frames]]
  BY DEF TypeInv, TypeOK, ConnTypeOK
<1>2. ASSUME NEW o \in Writers, WriteFrame(o) PROVE Goal
  <2>1. o # w => calls'[w] = calls[w]
    BY <1>1, <1>2, MovedType DEF WriteFrame, WriteHeader, WritePayload, WriteErr
  <2>2. ASSUME o = w PROVE calls[w].at \in {"header", "payload"} /\ calls'[w].frame = calls[w].frame
    BY <1>1, <1>2, <2>2, MovedType DEF WriteFrame, WriteHeader, WritePayload, WriteErr
  <2>3. ASSUME o = w, calls'[w].at = "failed" PROVE socket' # "open"
    <3>1. WriteErr(w)
      BY <1>1, <1>2, <2>3, MovedType DEF WriteFrame, WriteHeader, WritePayload
    <3> QED  BY <3>1 DEF WriteErr
  <2> QED  BY <2>1, <2>2, <2>3
<1>3. ASSUME NEW o \in Writers, NEW no, NEW bare, Called(o, no, bare), calls[o].at = "none" PROVE Goal
  BY <1>1, <1>3 DEF Called
<1>4. ASSUME NEW o \in Writers, Moved(o, "none"), Step(o) \/ (o = Reader /\ ReaderReturned) PROVE Goal
  BY <1>1, <1>4, MovedType
<1>5. CASE ConnNext
  <2>1. CASE UNCHANGED calls
    BY <2>1
  <2> HIDE DEF Goal
  <2>2. ASSUME NEW bare \in BOOLEAN, ReadPing(bare) \/ ReadClose PROVE Goal
    <3>1. calls[Reader].at = "none" /\ Reader \in Writers
      BY <2>2, Distinct DEF ReadClose, ReadPing, Read, TypeInv, CallsOK
    <3> QED  BY <1>3, <2>2, <3>1 DEF ReadPing, ReadClose
  <2>3. CASE ReaderReturned
    BY <1>4, <2>3, Distinct DEF ReaderReturned
  <2>4. CASE \E o \in Writers : WriteFrame(o)
    BY <1>2, <2>4
  <2> QED
    BY <1>5, <2>1, <2>2, <2>3, <2>4
       DEF ConnNext, Receive, Handshake, HandshakeErr, ReadText, ReadOther, ReadContinuation,
           ReadErr, Cancel, Close, writing
<1>6. ASSUME NEW t \in Tasks, Step(t) PROVE Goal
  <2>1. handlers[t].at # "write" => calls[t].at = "none"
    BY DEF TypeInv, CallsOK
  <2>2. t \in Writers
    BY Distinct
  <2> HIDE DEF Goal
  <2>3. CASE UNCHANGED calls
    BY <2>3 DEF Goal
  <2>4. CASE Send(t) \/ Awake(t)
    BY <1>3, <2>1, <2>2, <2>3, <2>4 DEF Send, Awake
  <2>5. CASE Returned(t)
    BY <1>4, <1>6, <2>2, <2>5 DEF Returned
  <2> QED  BY <1>6, <2>3, <2>4, <2>5 DEF Step, Start, Store, Execute, Aborted, connVars, writing
<1>7. CASE UNCHANGED vars
  BY <1>7 DEF vars, connVars, writing
<1> QED  BY <1>5, <1>6, <1>7 DEF Next

LEMMA CallsFairStep ==
    ASSUME TypeInv, CallsFair, [Next]_vars
    PROVE  CallsFair'
<1>1. calls'[Reader].frame.from = Reader
  BY CallStep, Distinct DEF CallsFair
<1>2. ASSUME NEW w \in Writers, calls'[w].at = "failed" PROVE socket' # "open"
  BY <1>2, CallStep, SocketStep DEF CallsFair
<1> QED  BY <1>1, <1>2 DEF CallsFair

\* The goroutines have receipts of their own only.
LEMMA RecordedStep ==
    ASSUME TypeInv, PlansInv, [Next]_vars
    PROVE  /\ RecordedOnce'
           /\ \A t \in Tasks : ~Step(t) => \A n : Recorded(t, n)' <=> Recorded(t, n)
<1>1. CASE UNCHANGED recorded
  BY <1>1 DEF PlansInv, RecordedOnce, Recorded
<1>2. ASSUME NEW u \in Tasks, Returned(u), ~UNCHANGED recorded
      PROVE  /\ RecordedOnce'
             /\ \A t \in Tasks : ~Step(t) => \A n : Recorded(t, n)' <=> Recorded(t, n)
  <2>1. recorded' = Append(recorded, <<u, handlers[u].next>>)
    BY <1>2 DEF Returned
  <2>2. /\ DOMAIN recorded' = DOMAIN recorded \cup {Len(recorded) + 1}
        /\ \A k \in DOMAIN recorded : recorded'[k] = recorded[k]
        /\ recorded'[Len(recorded) + 1] = <<u, handlers[u].next>>
    <3>1. recorded \in Seq(Tasks \X Nat) /\ handlers[u].next \in Nat
      BY DEF TypeInv, TypeOK, Handlers
    <3> QED  BY <2>1, <3>1
  <2>3. handlers[u].next \in Nat
    BY DEF TypeInv, TypeOK, Handlers
  <2>4. ~Recorded(u, handlers[u].next)
    BY <2>3 DEF PlansInv, TaskPlan, RecordsOf
  <2>5. RecordedOnce'
    BY <2>2, <2>4 DEF PlansInv, RecordedOnce, Recorded
  <2>6. Step(u)
    BY <1>2 DEF Step
  <2>7. ASSUME NEW t \in Tasks, ~Step(t), NEW n PROVE Recorded(t, n)' <=> Recorded(t, n)
    <3>1. <<t, n>> # <<u, handlers[u].next>>
      BY <2>6, <2>7
    <3> QED  BY <2>2, <3>1 DEF Recorded
  <2> QED  BY <2>5, <2>7
<1> QED  BY <1>1, <1>2 DEF Next, Step, Start, Store, Execute, Send, Awake, Aborted, handlerVars, vars

LEMMA PlansStep == TypeInv /\ TextsInv /\ RecordsInv /\ PlansInv /\ [Next]_vars => PlansInv'
<1> SUFFICES ASSUME TypeInv, TextsInv, RecordsInv, PlansInv, [Next]_vars PROVE PlansInv'
  OBVIOUS
<1>1. CallsFair' /\ RecordedOnce'
  BY CallsFairStep, RecordedStep DEF PlansInv
<1>2. ASSUME NEW t \in Tasks PROVE TaskPlan(t)'
  <2>1. CASE Step(t)
    BY <2>1, StartPlan, ExecutePlan DEF Step
  <2>2. CASE WritePayload(t)
    <3>1. ~UNCHANGED wire
      <4>1. wire' = Append(wire, [frame |-> calls[t].frame, part |-> "payload"]) /\ wire \in Seq(Pieces)
        BY <2>2 DEF WritePayload, TypeInv, TypeOK, ConnTypeOK
      <4>2. Len(wire') = Len(wire) + 1 /\ Len(wire) \in Nat
        BY <4>1
      <4> QED  BY <4>2
    <3>2. UNCHANGED handlerVars
      BY <3>1 DEF Next, Step, Start, Store, Execute, Send, Awake, Aborted, Returned, vars, connVars, writing
    <3> QED  BY <2>2, <3>2, PayloadPlan
  <2>3. CASE ~Step(t) /\ ~WritePayload(t)
    <3>1. handlers'[t] = handlers[t]
      <4>1. ASSUME NEW u \in Tasks, Step(u) PROVE handlers'[t] = handlers[t]
        <5>1. u # t
          BY <2>3, <4>1
        <5>2. handlers' = [handlers EXCEPT ![u] = handlers'[u]]
          BY <4>1 DEF Step, Start, StartMessage, StartOther, Store, Execute, Send, Awake, Aborted, Returned,
             At, Becomes, TypeInv, TypeOK
        <5> QED  BY <5>1, <5>2 DEF TypeInv, TypeOK
      <4> QED  BY <4>1 DEF Next, handlerVars, vars
    <3>2. Ends(t)' = Ends(t) /\ \A i \in Ends(t) : wire'[i] = wire[i]
      BY <2>3, EndsStep DEF PlansInv
    <3>3. calls[t].at = "ok" => calls'[t].at = "ok"
      BY <2>3, CallStep, Distinct
    <3>4. \A n : Recorded(t, n)' <=> Recorded(t, n)
      BY <2>3, RecordedStep
    <3> QED  BY <3>1, <3>2, <3>3, <3>4, SocketStep, TaskStays DEF PlansInv
  <2> QED  BY <2>1, <2>2, <2>3
<1> QED  BY <1>1, <1>2 DEF PlansInv

\* What the invariant says of the plans and the receipts.
LEMMA PlansInvKept == TypeInv /\ PlansInv => PlansKept /\ RecordsMatch
<1> SUFFICES ASSUME TypeInv, PlansInv PROVE PlansKept /\ RecordsMatch
  OBVIOUS
<1>1. ASSUME NEW t \in Tasks
      PROVE  /\ TaskPlan(t) /\ handlers[t].plan \in Seq(Requests) /\ Len(handlers[t].plan) \in Nat
             /\ DOMAIN handlers[t].plan = 1..Len(handlers[t].plan) /\ handlers[t].next \in Nat
  BY DEF PlansInv, TypeInv, TypeOK, Handlers
<1>2. PlansKept
  <2> SUFFICES ASSUME NEW t \in Tasks
               PROVE  /\ InOrder(t) /\ NoGaps(t)
                      /\ \A i \in Ends(t) : wire[i].frame.no \in DOMAIN handlers[t].plan
                      /\ handlers[t].at = "done" /\ socket = "open" =>
                             \A n \in DOMAIN handlers[t].plan : Whole(t, n) \/ GivenUp(t, n)
    BY DEF PlansKept, InOrder, NoGaps
  <2>1. InOrder(t) /\ NoGaps(t)
    BY <1>1 DEF TaskPlan
  <2>2. ASSUME NEW i \in Ends(t) PROVE wire[i].frame.no \in DOMAIN handlers[t].plan
    <3>1. PlanSound(t) /\ EndsSound(t)
      BY <1>1 DEF TaskPlan
    <3>2. wire[i].frame.no \in Nat /\ wire[i].frame.no >= 1
          /\ (wire[i].frame.no < handlers[t].next
                 \/ (wire[i].frame.no = handlers[t].next /\ handlers[t].at = "write"))
      BY <3>1 DEF EndsSound
    <3>3. handlers[t].next <= Len(handlers[t].plan) + 1
          /\ (handlers[t].at = "write" => handlers[t].next <= Len(handlers[t].plan))
      BY <1>1, <3>1 DEF PlanSound
    <3>4. wire[i].frame.no <= Len(handlers[t].plan)
      BY <1>1, <3>2, <3>3
    <3> QED  BY <1>1, <3>2, <3>4
  <2>3. ASSUME handlers[t].at = "done", socket = "open", NEW n \in DOMAIN handlers[t].plan
        PROVE  Whole(t, n) \/ GivenUp(t, n)
    <3>1. handlers[t].next = Len(handlers[t].plan) + 1
      BY <1>1, <2>3 DEF TaskPlan, PlanSound
    <3>2. n \in 1..(handlers[t].next - 1)
      BY <1>1, <2>3, <3>1
    <3> QED  BY <1>1, <2>3, <3>2 DEF TaskPlan, PassedSent
  <2> QED  BY <2>1, <2>2, <2>3
<1>3. RecordsMatch
  <2>1. ASSUME NEW t \in Tasks, NEW n \in DOMAIN handlers[t].plan, n < handlers[t].next
        PROVE  (\E k \in DOMAIN recorded : recorded[k] = <<t, n>>)
                   <=> Whole(t, n) /\ handlers[t].plan[n] # "emoji"
    <3>1. n \in 1..(handlers[t].next - 1)
      BY <1>1, <2>1
    <3> QED  BY <1>1, <3>1 DEF TaskPlan, RecordsOf, Recorded
  <2> QED  BY <2>1 DEF RecordsMatch, PlansInv, RecordedOnce
<1> QED  BY <1>2, <1>3

\* What a goroutine sends is its plan, in order and without gaps, and a receipt is expected
\* for exactly the messages that were sent; with the frames and with what is stored and
\* answered this is all that the handlers of a connection promise, for any number of them,
\* any payloads and any answers of the commands.
THEOREM RepliesSoundAlways == Spec => []RepliesSound
<1> DEFINE Inv == TypeInv /\ FramesInv /\ TextsInv /\ RecordsInv /\ PlansInv
<1>1. Init => Inv
  BY InitTypes, InitFrames, InitTexts, InitRecords, InitPlans
<1>2. Inv /\ [Next]_vars => Inv'
  BY TypeStep, FramesStep, TextsStep, RecordsStep, PlansStep
<1>3. Inv => RepliesSound
  BY PlansInvKept DEF FramesInv, TextsInv, RepliesSound
<1> HIDE DEF Inv
<1> QED  BY <1>1, <1>2, <1>3, PTL DEF Spec

------------------------------------------------------------------------------
(* The promise of RequestLog. *)

\* A receipt is about to be expected for the current request of t.
Noting(t) == handlers[t].at = "write" /\ calls[t].at = "ok" /\ This(t) # "emoji"

\* The requests on the wire are the ends of the goroutines' frames.
LEMMA SentEnds ==
    /\ \A r \in Sent : /\ r[1] \in Tasks /\ r = <<r[1], r[2]>>
                       /\ \E i \in Ends(r[1]) : wire[i].frame.no = r[2]
    /\ \A t \in Tasks : \A i \in Ends(t) : <<t, wire[i].frame.no>> \in Sent
BY DEF Sent, Ends

LEMMA SentStays ==
    ASSUME \A t \in Tasks : Ends(t)' = Ends(t) /\ \A i \in Ends(t) : wire'[i] = wire[i]
    PROVE  UNCHANGED Sent
<1>1. \A r \in Sent : r \in Sent'
  <2> TAKE r \in Sent
  <2>1. PICK i \in Ends(r[1]) : wire[i].frame.no = r[2] /\ r[1] \in Tasks /\ r = <<r[1], r[2]>>
    BY SentEnds
  <2>2. i \in Ends(r[1])' /\ wire'[i] = wire[i]
    BY <2>1
  <2> QED  BY <2>1, <2>2 DEF Sent, Ends
<1>2. \A r \in Sent' : r \in Sent
  <2> TAKE r \in Sent'
  <2>1. r[1] \in Tasks /\ r = <<r[1], r[2]>> /\ \E i \in Ends(r[1])' : wire'[i].frame.no = r[2]
    BY DEF Sent, Ends
  <2>2. PICK i \in Ends(r[1])' : wire'[i].frame.no = r[2]
    BY <2>1
  <2>3. i \in Ends(r[1]) /\ wire'[i] = wire[i]
    BY <2>1, <2>2
  <2> QED  BY <2>1, <2>2, <2>3, SentEnds
<1> QED  BY <1>1, <1>2

\* A call that has succeeded is left alone until its goroutine sees the result.
LEMMA CallKept ==
    ASSUME TypeInv, [Next]_vars, NEW t \in Tasks, ~WritePayload(t), ~Returned(t)
    PROVE  /\ calls'[t].at = "ok" <=> calls[t].at = "ok"
           /\ calls[t].at = "ok" => handlers'[t] = handlers[t]
<1> t \in Writers
  BY DEF Writers
<1>1. /\ TypeOK /\ CallsOK /\ handlers \in [Tasks -> Handlers]
      /\ calls \in [Writers -> [at : {"none", "header", "payload", "ok", "failed"}, frame : Frames]]
  BY DEF TypeInv, TypeOK, ConnTypeOK
<1>2. calls[t].at # "none" => /\ handlers[t].at = "write"
                              /\ calls[t].frame = [from |-> t, no |-> handlers[t].next, bare |-> FALSE]
  BY <1>1 DEF CallsOK
<1>3. calls[t].at = "ok" => handlers'[t] = handlers[t]
  <2> SUFFICES ASSUME calls[t].at = "ok", ~UNCHANGED handlers PROVE handlers'[t] = handlers[t]
    OBVIOUS
  <2>1. ~Step(t)
    BY <1>2 DEF Step, Start, Store, Execute, Send, Awake, Aborted
  <2>2. ASSUME NEW u \in Tasks, Step(u) PROVE handlers'[t] = handlers[t]
    <3>1. handlers' = [handlers EXCEPT ![u] = handlers'[u]]
      BY <1>1, <2>2 DEF Step, Start, StartMessage, StartOther, Store, Execute, Send, Awake, Aborted,
         Returned, At, Becomes
    <3> QED  BY <1>1, <2>1, <2>2, <3>1
  <2> QED  BY <2>2 DEF Next, handlerVars, vars
<1> SUFFICES calls'[t].at = "ok" <=> calls[t].at = "ok"
  BY <1>3
<1>4. ASSUME NEW o \in Writers, WriteFrame(o)
      PROVE  calls'[t].at = "ok" <=> calls[t].at = "ok"
  <2>1. CASE o # t
    BY <1>1, <1>4, <2>1, MovedType DEF WriteFrame, WriteHeader, WritePayload, WriteErr
  <2>2. CASE o = t
    <3>1. calls[t].at \in {"header", "payload"}
      BY <1>4, <2>2 DEF WriteFrame, WriteHeader, WritePayload, WriteErr
    <3>2. ~calls[t].frame.bare
      BY <1>2, <3>1
    <3>3. calls'[t].at \in {"payload", "failed"}
      BY <1>1, <1>4, <2>2, <3>2, MovedType DEF WriteFrame, WriteHeader, WriteErr
    <3> QED  BY <3>1, <3>3
  <2> QED  BY <2>1, <2>2
<1>5. ASSUME NEW w \in Writers \ {t}, NEW c, calls' = [calls EXCEPT ![w] = c]
      PROVE  calls'[t].at = "ok" <=> calls[t].at = "ok"
  BY <1>1, <1>5
<1>6. ASSUME NEW w \in Writers, NEW no, NEW bare, Called(w, no, bare), calls[w].at = "none"
      PROVE  calls'[t].at = "ok" <=> calls[t].at = "ok"
  BY <1>1, <1>6 DEF Called
<1>7. ASSUME NEW u \in Tasks, Step(u)
      PROVE  calls'[t].at = "ok" <=> calls[t].at = "ok"
  <2>1. u \in Writers /\ (handlers[u].at # "write" => calls[u].at = "none")
    BY <1>1 DEF CallsOK, Writers
  <2>2. CASE Send(u) \/ Awake(u)
    <3>1. handlers[u].at # "write"
      BY <2>2 DEF Send, Awake
    <3>2. UNCHANGED calls \/ Called(u, handlers[u].next, FALSE)
      BY <2>2 DEF Send, Awake
    <3> QED  BY <1>6, <2>1, <3>1, <3>2
  <2>3. CASE Returned(u)
    BY <1>5, <2>1, <2>3 DEF Returned, Moved
  <2>4. CASE UNCHANGED calls
    BY <2>4
  <2> QED  BY <1>7, <2>2, <2>3, <2>4 DEF Step, Start, Store, Execute, Aborted, connVars, writing
<1>8. CASE ReaderReturned
  BY <1>5, <1>8, Distinct DEF ReaderReturned, Moved
<1>9. CASE Receive
  <2>1. reader = "read" /\ calls[Reader].at = "none"
    BY <1>1, <1>9 DEF CallsOK, Receive, Read, ReadText, ReadPing, ReadOther, ReadContinuation, ReadClose
  <2>2. ASSUME NEW bare \in BOOLEAN, ReadPing(bare) PROVE calls'[t].at = "ok" <=> calls[t].at = "ok"
    BY <1>6, <2>1, <2>2, Distinct DEF ReadPing
  <2>3. CASE ReadClose
    BY <1>6, <2>1, <2>3, Distinct DEF ReadClose
  <2> QED  BY <1>9, <2>2, <2>3 DEF Receive, ReadText, ReadOther, ReadContinuation, writing
<1>10. CASE UNCHANGED calls
  BY <1>10
<1> QED
  BY <1>4, <1>7, <1>8, <1>9, <1>10 DEF Next, ConnNext, Handshake, HandshakeErr, ReadErr, Cancel,
     Close, vars, connVars, writing

\* What is being noted changes with the goroutine that writes or returns.
LEMMA NotedBut ==
    ASSUME NEW t \in Tasks,
           \A u \in Tasks \ {t} : (Noting(u)' <=> Noting(u)) /\ (Noting(u) => handlers'[u] = handlers[u])
    PROVE  \A r : r[1] # t => (r \in BeingNoted' <=> r \in BeingNoted)
BY DEF BeingNoted, Noting

\* A payload on the wire is a request sent: the goroutine's first with its number.
LEMMA PayloadLogged ==
    ASSUME TypeInv, PlansInv, [Next]_vars, NEW t \in Tasks, WritePayload(t)
    PROVE  Log!Next
<1> t \in Writers
  BY DEF Writers
<1>1. /\ calls[t].at = "payload" /\ handlers[t].at = "write" /\ wire \in Seq(Pieces)
      /\ calls[t].frame = [from |-> t, no |-> handlers[t].next, bare |-> FALSE]
      /\ wire' = Append(wire, [frame |-> calls[t].frame, part |-> "payload"])
  BY DEF WritePayload, TypeInv, TypeOK, ConnTypeOK, CallsOK
<1>2. UNCHANGED handlerVars
  <2>1. Len(wire') = Len(wire) + 1 /\ Len(wire) \in Nat
    BY <1>1
  <2>2. ~UNCHANGED wire
    BY <2>1
  <2> QED  BY <2>2 DEF Next, Step, Start, Store, Execute, Send, Awake, Aborted, Returned, vars, connVars,
              writing
<1> PICK r : r = <<t, handlers[t].next>>
  OBVIOUS
<1>3. Sent' = Sent \cup {r}
  <2>1. /\ DOMAIN wire' = DOMAIN wire \cup {Len(wire) + 1} /\ Len(wire) + 1 \notin DOMAIN wire
        /\ \A i \in DOMAIN wire : wire'[i] = wire[i]
        /\ wire'[Len(wire) + 1] = [frame |-> calls[t].frame, part |-> "payload"]
    BY <1>1
  <2> PICK last : last = Len(wire) + 1
    OBVIOUS
  <2>2. wire'[last].frame.from = t /\ wire'[last].frame.no = handlers[t].next /\ wire'[last].part = "payload"
    BY <1>1, <2>1
  <2> QED  BY <2>1, <2>2 DEF Sent
<1>4. \A q \in Sent : q[1] = t => q[2] < handlers[t].next
  <2> SUFFICES ASSUME NEW i \in Ends(t) PROVE wire[i].frame.no < handlers[t].next
    BY SentEnds
  <2> QED  BY <1>1 DEF PlansInv, TaskPlan, EndsSound
<1>5. handlers[t].next \in Nat
  BY DEF TypeInv, TypeOK, Handlers
<1>6. r \notin BeingNoted /\ \A q \in Sent : q[1] = t => q \notin BeingNoted
  <2>1. \A n : <<t, n>> \notin BeingNoted
    BY <1>1 DEF BeingNoted
  <2> QED  BY <2>1, SentEnds
<1>7. r \notin Sent
  BY <1>4, <1>5
<1>8. BeingNoted' \in {BeingNoted, BeingNoted \cup {r}}
  <2>1. \A u \in Tasks \ {t} : (Noting(u)' <=> Noting(u)) /\ (Noting(u) => handlers'[u] = handlers[u])
    <3> SUFFICES ASSUME NEW u \in Tasks \ {t} PROVE calls'[u] = calls[u]
      BY <1>2 DEF Noting, handlerVars, This
    <3> QED  BY MovedType, Distinct DEF WritePayload, TypeInv, Writers
  <2>2. \A q : q[1] # t => (q \in BeingNoted' <=> q \in BeingNoted)
    BY <2>1, NotedBut
  <2>3. \A q \in BeingNoted' : q[1] = t => q = r
    BY <1>2 DEF BeingNoted, handlerVars
  <2>4. \A q \in BeingNoted : q[1] # t
    BY <1>1 DEF BeingNoted
  <2> QED  BY <2>2, <2>3, <2>4
<1>9. UNCHANGED Expected
  BY <1>2 DEF Expected, handlerVars
<1>10. Log!Write(r)
  BY <1>3, <1>4, <1>6, <1>8, <1>9 DEF Log!Write
<1> QED  BY <1>3, <1>7, <1>10 DEF Log!Next

\* What a goroutine that has written a message does next is to expect its receipt.
LEMMA ReturnedLogged ==
    ASSUME TypeInv, PlansInv, [Next]_vars, NEW t \in Tasks, Returned(t),
           UNCHANGED Sent, \A u \in Tasks \ {t} : /\ calls'[u].at = "ok" <=> calls[u].at = "ok"
                                                  /\ handlers'[u] = handlers[u]
    PROVE  [Log!Next]_(Log!vars)
<1> PICK r : r = <<t, handlers[t].next>>
  OBVIOUS
<1>1. /\ handlers[t].at = "write" /\ handlers'[t].at = "send"
      /\ recorded \in Seq(Tasks \X Nat) /\ handlers[t].next \in Nat
  BY PassedType DEF Returned, TypeInv, TypeOK, Handlers
<1>2. \A u \in Tasks \ {t} : (Noting(u)' <=> Noting(u)) /\ (Noting(u) => handlers'[u] = handlers[u])
  BY DEF Noting, This
<1>3. \A q : q[1] # t => (q \in BeingNoted' <=> q \in BeingNoted)
  BY <1>2, NotedBut
<1>4. \A q \in BeingNoted' : q[1] # t
  BY <1>1 DEF BeingNoted
<1>5. \A q \in BeingNoted : q[1] = t => q = r /\ Noting(t)
  BY DEF BeingNoted, Noting
<1>6. CASE Noting(t)
  <2>1. recorded' = Append(recorded, r)
    BY <1>6 DEF Noting, Returned
  <2>2. /\ DOMAIN recorded' = DOMAIN recorded \cup {Len(recorded) + 1}
        /\ \A k \in DOMAIN recorded : recorded'[k] = recorded[k]
        /\ recorded'[Len(recorded) + 1] = r
    BY <1>1, <2>1
  <2>3. Expected' = Expected \cup {r}
    BY <2>2 DEF Expected
  <2>4. r \in BeingNoted
    BY <1>6 DEF BeingNoted, Noting
  <2>5. BeingNoted' = BeingNoted \ {r}
    BY <1>3, <1>4, <1>5
  <2>6. Log!Record(r)
    BY <2>3, <2>5 DEF Log!Record
  <2> QED  BY <2>4, <2>6 DEF Log!Next
<1>7. CASE ~Noting(t)
  <2>1. UNCHANGED recorded
    BY <1>1, <1>7 DEF Returned, Noting
  <2>2. BeingNoted' = BeingNoted
    BY <1>3, <1>4, <1>5, <1>7
  <2> QED  BY <2>1, <2>2 DEF Log!vars, Expected
<1> QED  BY <1>6, <1>7

LEMMA LogStep == TypeInv /\ PlansInv /\ [Next]_vars => [Log!Next]_(Log!vars)
<1> SUFFICES ASSUME TypeInv, PlansInv, [Next]_vars PROVE [Log!Next]_(Log!vars)
  OBVIOUS
<1>1. CASE \E t \in Tasks : WritePayload(t)
  BY <1>1, PayloadLogged
<1>2. CASE ~\E t \in Tasks : WritePayload(t)
  <2>1. UNCHANGED Sent
    <3>1. \A t \in Tasks : Ends(t)' = Ends(t) /\ \A i \in Ends(t) : wire'[i] = wire[i]
      BY <1>2, EndsStep DEF PlansInv
    <3> QED  BY <3>1, SentStays
  <2>2. \A t \in Tasks : ~Returned(t) => /\ calls'[t].at = "ok" <=> calls[t].at = "ok"
                                         /\ calls[t].at = "ok" => handlers'[t] = handlers[t]
    BY <1>2, CallKept
  <2>3. ASSUME NEW t \in Tasks, Returned(t) PROVE [Log!Next]_(Log!vars)
    <3>1. Others(t)
      BY <2>3, PassedType DEF Returned, TypeInv
    <3>2. ASSUME NEW u \in Tasks \ {t} PROVE calls'[u].at = "ok" <=> calls[u].at = "ok"
      BY <2>3, MovedType, Distinct DEF Returned, TypeInv, Finished, Writers
    <3> QED  BY <2>1, <2>3, <3>1, <3>2, ReturnedLogged DEF Others
  <2>4. CASE ~\E t \in Tasks : Returned(t)
    <3>1. UNCHANGED recorded
      BY <2>4 DEF Next, Step, Start, Store, Execute, Send, Awake, Aborted, handlerVars, vars
    <3>2. \A t \in Tasks : (Noting(t)' <=> Noting(t)) /\ (Noting(t) => handlers'[t] = handlers[t])
      <4> TAKE t \in Tasks
      <4>1. /\ calls'[t].at = "ok" <=> calls[t].at = "ok"
            /\ calls[t].at = "ok" => handlers'[t] = handlers[t]
        BY <2>2, <2>4
      <4> QED  BY <4>1 DEF Noting, This
    <3>3. BeingNoted' = BeingNoted
      BY <3>2 DEF BeingNoted, Noting
    <3> QED  BY <2>1, <3>1, <3>3 DEF Log!vars, Expected
  <2> QED  BY <2>3, <2>4
<1> QED  BY <1>1, <1>2

\* The handlers of a connection keep the promise of RequestLog, frame by frame: whatever
\* the mutex, the loop that reads and the network do, each request of a goroutine
\* reaches the peer after its earlier ones and once, and a receipt is expected once and
\* only for what has reached the peer.  (executeActions, WriteText, RecordPending.)
THEOREM LogRefinement == Spec => LogSpec
<1> DEFINE Inv == TypeInv /\ TextsInv /\ RecordsInv /\ PlansInv
<1>1. Init => Inv
  BY InitTypes, InitTexts, InitRecords, InitPlans
<1>2. Inv /\ [Next]_vars => Inv'
  BY TypeStep, TextsStep, RecordsStep, PlansStep
<1>3. Init => Log!Init
  BY DEF Init, ConnInit, Log!Init, Sent, BeingNoted, Expected
<1>4. Inv /\ [Next]_vars => [Log!Next]_(Log!vars)
  BY LogStep
<1> HIDE DEF Inv
<1> QED  BY <1>1, <1>2, <1>3, <1>4, PTL DEF Spec, LogSpec, Log!Spec
==============================================================================
