------------------------------- MODULE WsConn -------------------------------
(***************************************************************************)
(* One WebSocket connection of the server: the loop that reads frames and  *)
(* hands every text payload to a goroutine, and writeFrame, by which the   *)
(* loop (pongs, the close frame) and all those goroutines write to one     *)
(* socket under one mutex.  A frame is written in two pieces, its header   *)
(* and its payload, and either write may fail.                             *)
(***************************************************************************)
EXTENDS Integers, Sequences

CONSTANTS
    Payloads,   \* texts the peer may send, whole JSON values
    Part,       \* a text that is only the first part of one
    MaxTexts,   \* bound: text frames the peer sends
    MaxReads,   \* bound: frames the peer sends
    Faults,     \* may the network fail?
    Reader,     \* the goroutine of handleWebSocket
    Nobody

Tasks == 1..MaxTexts
Writers == Tasks \cup {Reader}

ASSUME ConnAssumption ==
    /\ MaxTexts \in Nat /\ MaxReads \in Nat /\ Faults \in BOOLEAN
    /\ Reader \notin Tasks /\ Nobody \notin Writers /\ Part \notin Payloads

VARIABLES
    socket,     \* state of the TCP connection
    reader,     \* where the loop is
    cancelled,  \* connCtx is cancelled
    fragmented, \* the peer is in the middle of a fragmented message
    reads,      \* frames read
    delivered,  \* the payloads ReadText has returned, the n-th to goroutine n
    calls,      \* what each goroutine's writeFrame is doing
    lock,       \* who holds writeMu
    wire        \* the pieces that have reached the peer, in order

reading == <<reader, cancelled, fragmented, reads, delivered>>
writing == <<calls, lock, wire>>
connVars == <<socket, reading, writing>>

\* A frame is known by who writes it and as the how manieth; a bare one has no payload.
Frames == [from : Writers, no : Nat, bare : BOOLEAN]
Pieces == [frame : Frames, part : {"header", "payload"}]
NoFrame == [from |-> Reader, no |-> 0, bare |-> TRUE]

\* Whoever is between its two writes holds the mutex, and nobody else does.
LockHeld == \A w \in Writers : calls[w].at = "payload" <=> lock = w

ConnTypeOK ==
    /\ socket \in {"open", "broken", "closed"}
    /\ reader \in {"handshake", "read", "pong", "close", "ending", "ended"}
    /\ cancelled \in BOOLEAN /\ fragmented \in BOOLEAN
    /\ reads \in 0..MaxReads
    /\ delivered \in Seq(Payloads \cup {Part}) /\ Len(delivered) <= MaxTexts
    /\ calls \in [Writers -> [at : {"none", "header", "payload", "ok", "failed"},
                              frame : Frames]]
    /\ lock \in Writers \cup {Nobody}
    /\ wire \in Seq(Pieces)
    /\ LockHeld

ConnInit ==
    /\ socket = "open"
    /\ reader = "handshake"
    /\ cancelled = FALSE
    /\ fragmented = FALSE
    /\ reads = 0
    /\ delivered = <<>>
    /\ calls = [w \in Writers |-> [at |-> "none", frame |-> NoFrame]]
    /\ lock = Nobody
    /\ wire = <<>>

------------------------------------------------------------------------------
(* writeFrame. *)

\* A goroutine calls it; the call is over when it is at "ok" or "failed".
Called(w, no, bare) ==
    calls' = [calls EXCEPT ![w] = [at |-> "header", frame |-> [from |-> w, no |-> no, bare |-> bare]]]
Moved(w, place) == calls' = [calls EXCEPT ![w] = [@ EXCEPT !.at = place]]
Finished(w) == calls[w].at \in {"ok", "failed"}

\* Taking the mutex, by the header's write (there is nothing to see between the two).
Acquire(w) == lock = Nobody /\ lock' = w

\* A write that succeeds; the one after which the frame is whole ends the call.
WriteHeader(w) ==
    /\ calls[w].at = "header" /\ socket = "open"
    /\ wire' = Append(wire, [frame |-> calls[w].frame, part |-> "header"])
    /\ IF calls[w].frame.bare
       THEN Moved(w, "ok") /\ lock = Nobody /\ UNCHANGED lock
       ELSE Moved(w, "payload") /\ Acquire(w)
    /\ UNCHANGED <<socket, reading>>

WritePayload(w) ==
    /\ calls[w].at = "payload" /\ socket = "open"
    /\ wire' = Append(wire, [frame |-> calls[w].frame, part |-> "payload"])
    /\ Moved(w, "ok")
    /\ lock' = Nobody
    /\ UNCHANGED <<socket, reading>>

\* Mutant of WriteErr: the error leaves the mutex locked.
WriteErrLocked(w) ==
    /\ calls[w].at = "payload" \/ (calls[w].at = "header" /\ lock = Nobody)
    /\ socket # "open" \/ Faults
    /\ socket' = IF socket = "open" THEN "broken" ELSE socket
    /\ Moved(w, "failed")
    /\ lock' = w
    /\ UNCHANGED <<reading, wire>>

\* A write that fails; a TCP connection that has failed does not recover.
WriteErr(w) ==
    /\ calls[w].at = "payload" \/ (calls[w].at = "header" /\ lock = Nobody)
    /\ socket # "open" \/ Faults
    /\ socket' = IF socket = "open" THEN "broken" ELSE socket
    /\ Moved(w, "failed")
    /\ lock' = Nobody
    /\ UNCHANGED <<reading, wire>>

WriteFrame(w) == WriteHeader(w) \/ WritePayload(w) \/ WriteErr(w)

------------------------------------------------------------------------------
(* handleWebSocket and ReadText. *)

\* The upgrade: refused if the request is not one, hijacked and answered otherwise.
Handshake ==
    /\ reader = "handshake"
    /\ reader' = "read"
    /\ UNCHANGED <<socket, cancelled, fragmented, reads, delivered, writing>>

HandshakeErr ==
    /\ reader = "handshake"
    /\ reader' = "ended"
    /\ socket' = "closed"
    /\ UNCHANGED <<cancelled, fragmented, reads, delivered, writing>>

\* A frame has been read: the peer keeps to the protocol, so between the parts of a
\* message it sends nothing but control frames.
Read ==
    /\ reader = "read" /\ socket # "closed" /\ reads < MaxReads
    /\ reads' = reads + 1
    /\ UNCHANGED <<socket, cancelled>>

\* A text frame is returned as it is, whether FIN is set or not.
ReadText(payload) ==
    /\ Read
    /\ Len(delivered) < MaxTexts /\ ~fragmented
    /\ delivered' = Append(delivered, payload)
    /\ fragmented' = (payload = Part)
    /\ UNCHANGED <<reader, writing>>

ReadPing(bare) ==
    /\ Read
    /\ reader' = "pong"
    /\ Called(Reader, reads + 1, bare)
    /\ UNCHANGED <<fragmented, delivered, lock, wire>>

\* A pong, a binary frame or the last part of a message: passed over.
ReadOther ==
    /\ Read
    /\ fragmented' \in {fragmented, FALSE}
    /\ UNCHANGED <<reader, delivered, writing>>

\* Another part of a message, which is not the last: an error.
ReadContinuation ==
    /\ Read
    /\ fragmented
    /\ reader' = "ending"
    /\ UNCHANGED <<fragmented, delivered, writing>>

ReadClose ==
    /\ Read
    /\ reader' = "close"
    /\ Called(Reader, reads + 1, TRUE)
    /\ UNCHANGED <<fragmented, delivered, lock, wire>>

\* The peer has gone or the network fails.
ReadErr ==
    /\ reader = "read" /\ (Faults \/ socket = "broken")
    /\ reader' = "ending"
    /\ UNCHANGED <<socket, cancelled, fragmented, reads, delivered, writing>>

\* Mutant of ReaderReturned: the error of a pong is dropped.
ReaderReturnedOk ==
    /\ reader \in {"pong", "close"} /\ calls[Reader].at = "ok"
    /\ reader' = IF reader = "pong" THEN "read" ELSE "ending"
    /\ Moved(Reader, "none")
    /\ UNCHANGED <<socket, cancelled, fragmented, reads, delivered, lock, wire>>

\* The pong or the close frame is written, or not.
ReaderReturned ==
    /\ reader \in {"pong", "close"} /\ Finished(Reader)
    /\ reader' = IF reader = "pong" /\ calls[Reader].at = "ok" THEN "read" ELSE "ending"
    /\ Moved(Reader, "none")
    /\ UNCHANGED <<socket, cancelled, fragmented, reads, delivered, lock, wire>>

\* The deferred function: cancel, then Close.
Cancel ==
    /\ reader = "ending" /\ ~cancelled
    /\ cancelled' = TRUE
    /\ UNCHANGED <<socket, reader, fragmented, reads, delivered, writing>>

Close ==
    /\ reader = "ending" /\ cancelled
    /\ socket' = "closed"
    /\ reader' = "ended"
    /\ UNCHANGED <<cancelled, fragmented, reads, delivered, writing>>

\* What the loop does without waiting for the peer.
ReaderStep == Handshake \/ ReaderReturned \/ Cancel \/ Close \/ (socket = "broken" /\ ReadErr)

Receive ==
    \/ \E payload \in Payloads \cup {Part} : ReadText(payload)
    \/ \E bare \in BOOLEAN : ReadPing(bare)
    \/ ReadOther \/ ReadContinuation \/ ReadClose

ConnNext ==
    \/ Handshake \/ HandshakeErr \/ Receive \/ ReadErr
    \/ ReaderReturned \/ Cancel \/ Close
    \/ \E w \in Writers : WriteFrame(w)

------------------------------------------------------------------------------

\* On the wire a header is followed by its own payload, whoever else is writing, and
\* nothing comes between the two; only the last frame may be without it.
\* (writeFrame: header and payload are two writes under writeMu.)
FramesWhole ==
    \A i \in DOMAIN wire :
        /\ wire[i].part = "payload" =>
               i > 1 /\ wire[i - 1] = [frame |-> wire[i].frame, part |-> "header"]
        /\ wire[i].part = "header" /\ ~wire[i].frame.bare /\ i < Len(wire) =>
               wire[i + 1] = [frame |-> wire[i].frame, part |-> "payload"]
=============================================================================
