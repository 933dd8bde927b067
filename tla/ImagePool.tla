------------------------------ MODULE ImagePool ------------------------------
(***************************************************************************)
(* .symmetric and .qtan: a command takes the images of the last messages   *)
(* and makes a picture of each, at most MaxConcurrency at a time.  The     *)
(* goroutine of the command takes a place before it starts a worker, a     *)
(* worker gives it back whatever happens, and the command waits for all of *)
(* them.  Each worker puts the URL of its file at the index of its image.  *)
(* The files live in one directory: os.Create empties the file and the     *)
(* picture is written afterwards, so commands at work on the same image    *)
(* meet there.                                                             *)
(***************************************************************************)
EXTENDS Integers, Sequences, FiniteSets

CONSTANTS
    Commands,   \* goroutines that run one of the commands
    Family,     \* "symmetric" or "qtan" of each command
    HasURL,     \* for each image row, in the order of the query, whether it has a URL
    RowsAsked,  \* of how many of the last rows each command makes a picture
    MaxConcurrency, \* symmetricImageMaxConcurrency, qtanMaxConcurrency
    NoURL       \* no URL, and no command

VARIABLES
    phase,      \* of each command
    idx,        \* the row its loop is at
    places,     \* how many places of its semaphore are taken
    worker,     \* the worker of each row
    outputURLs, \* what the workers have put
    reply,      \* the URLs of the answer
    file,       \* the pictures on disk
    open        \* who has a file open

poolVars == <<phase, idx, places, worker, outputURLs, reply, file, open>>

Rows == 1..Len(HasURL)
RowsOf(c) == (Len(HasURL) - RowsAsked[c] + 1)..Len(HasURL)
Names == {"symmetric", "qtan"} \X Rows

\* symmetricFileBase, qtanFileBase: the number of the row, unique by itself, and
\* a prefix for .qtan; the kind of mirroring does not occur.
NameOf(c, i) == <<Family[c], i>>

\* A query finds at most the rows there are.
PoolAssumption ==
    /\ HasURL \in Seq(BOOLEAN)
    /\ RowsAsked \in [Commands -> 0..Len(HasURL)]
    /\ Family \in [Commands -> {"symmetric", "qtan"}]
    /\ MaxConcurrency \in Nat \ {0}
    /\ NoURL \notin Names \cup Commands

Phases == {"new", "loop", "wait", "collect", "replied", "hinted"}
Workers == {"none", "make", "encode", "put", "release", "over"}

PoolTypeOK ==
    /\ phase \in [Commands -> Phases]
    /\ idx \in [Commands -> Nat]
    /\ places \in [Commands -> 0..MaxConcurrency]
    /\ worker \in [Commands -> [Rows -> Workers]]
    /\ outputURLs \in [Commands -> [Rows -> Names \cup {NoURL}]]
    /\ reply \in [Commands -> Seq(Names)]
    /\ file \in [Names -> [by : Commands \cup {NoURL}, is : {"absent", "partial", "whole", "mixed"}]]
    /\ open \in [Names -> SUBSET Commands]

PoolInit ==
    /\ phase = [c \in Commands |-> "new"]
    /\ idx = [c \in Commands |-> 1]
    /\ places = [c \in Commands |-> 0]
    /\ worker = [c \in Commands |-> [i \in Rows |-> "none"]]
    /\ outputURLs = [c \in Commands |-> [i \in Rows |-> NoURL]]
    /\ reply = [c \in Commands |-> <<>>]
    /\ file = [n \in Names |-> [by |-> NoURL, is |-> "absent"]]
    /\ open = [n \in Names |-> {}]

files == <<file, open>>
SetPhase(c, p) == phase' = [phase EXCEPT ![c] = p]
SetWorker(c, i, w) == worker' = [worker EXCEPT ![c][i] = w]

\* RecentMessageImages.
RecentMessageImages(c) ==
    /\ phase[c] = "new"
    /\ SetPhase(c, IF RowsOf(c) = {} THEN "hinted" ELSE "loop")
    /\ idx' = [idx EXCEPT ![c] = Len(HasURL) - RowsAsked[c] + 1]
    /\ UNCHANGED <<places, worker, outputURLs, reply, files>>

SkipRow(c) ==
    /\ phase[c] = "loop"
    /\ idx[c] \in Rows /\ ~HasURL[idx[c]]
    /\ idx' = [idx EXCEPT ![c] = @ + 1]
    /\ UNCHANGED <<phase, places, worker, outputURLs, reply, files>>

\* Mutant of Spawn: the worker does not wait for a place.
SpawnUnbounded(c) ==
    /\ phase[c] = "loop"
    /\ idx[c] \in Rows /\ HasURL[idx[c]]
    /\ places' = [places EXCEPT ![c] = IF @ < MaxConcurrency THEN @ + 1 ELSE @]
    /\ SetWorker(c, idx[c], "make")
    /\ idx' = [idx EXCEPT ![c] = @ + 1]
    /\ UNCHANGED <<phase, outputURLs, reply, files>>

\* sem <- struct{}{} waits for a place; then the worker is started.
Spawn(c) ==
    /\ phase[c] = "loop"
    /\ idx[c] \in Rows /\ HasURL[idx[c]]
    /\ places[c] < MaxConcurrency
    /\ places' = [places EXCEPT ![c] = @ + 1]
    /\ SetWorker(c, idx[c], "make")
    /\ idx' = [idx EXCEPT ![c] = @ + 1]
    /\ UNCHANGED <<phase, outputURLs, reply, files>>

LoopEnds(c) ==
    /\ phase[c] = "loop"
    /\ idx[c] \notin Rows
    /\ SetPhase(c, "wait")
    /\ UNCHANGED <<idx, places, worker, outputURLs, reply, files>>

\* The image is downloaded and the picture made in memory; os.Create empties the
\* file, or creates it.
\* If somebody else is writing it, bytes of both may end up in it.
Create(c, i) ==
    LET n == NameOf(c, i) IN
    /\ worker[c][i] = "make"
    /\ file' = [file EXCEPT ![n] = [by |-> c, is |-> IF open[n] = {} THEN "partial" ELSE "mixed"]]
    /\ open' = [open EXCEPT ![n] = @ \cup {c}]
    /\ SetWorker(c, i, "encode")
    /\ UNCHANGED <<phase, idx, places, outputURLs, reply>>

\* The encoder has written everything and the file is closed.
Encode(c, i) ==
    LET n == NameOf(c, i) IN
    /\ worker[c][i] = "encode"
    /\ file' = [file EXCEPT ![n].is = IF @ = "partial" THEN "whole" ELSE "mixed"]
    /\ open' = [open EXCEPT ![n] = @ \ {c}]
    /\ SetWorker(c, i, "put")
    /\ UNCHANGED <<phase, idx, places, outputURLs, reply>>

\* Mutant of EncodeErr: the error of the encoder is dropped.
EncodeErrIgnored(c, i) ==
    /\ worker[c][i] = "encode"
    /\ open' = [open EXCEPT ![NameOf(c, i)] = @ \ {c}]
    /\ SetWorker(c, i, "put")
    /\ UNCHANGED <<phase, idx, places, outputURLs, reply, file>>

\* Encoding fails half way; the file stays.
EncodeErr(c, i) ==
    /\ worker[c][i] = "encode"
    /\ open' = [open EXCEPT ![NameOf(c, i)] = @ \ {c}]
    /\ SetWorker(c, i, "release")
    /\ UNCHANGED <<phase, idx, places, outputURLs, reply, file>>

\* Mutant of Put: the worker uses the loop variable of the command.
PutAtLoopIndex(c, i) ==
    LET k == IF idx[c] \in Rows THEN idx[c] ELSE Len(HasURL) IN
    /\ worker[c][i] = "put"
    /\ outputURLs' = [outputURLs EXCEPT ![c][k] = NameOf(c, i)]
    /\ SetWorker(c, i, "release")
    /\ UNCHANGED <<phase, idx, places, reply, files>>

\* ReadImage only looks whether the file is there, and it is.
Put(c, i) ==
    /\ worker[c][i] = "put"
    /\ outputURLs' = [outputURLs EXCEPT ![c][i] = NameOf(c, i)]
    /\ SetWorker(c, i, "release")
    /\ UNCHANGED <<phase, idx, places, reply, files>>

\* Mutant of WorkerErr: a worker that fails early keeps its place.
WorkerErrKeepsPlace(c, i) ==
    /\ worker[c][i] = "make"
    /\ SetWorker(c, i, "over")
    /\ UNCHANGED <<phase, idx, places, outputURLs, reply, files>>

\* The download or the decoder fails, or os.Create does.
WorkerErr(c, i) ==
    /\ worker[c][i] = "make"
    /\ SetWorker(c, i, "release")
    /\ UNCHANGED <<phase, idx, places, outputURLs, reply, files>>

\* The deferred calls, last one first: the place, then the wait group.
Release(c, i) ==
    /\ worker[c][i] = "release"
    /\ places' = [places EXCEPT ![c] = @ - 1]
    /\ SetWorker(c, i, "over")
    /\ UNCHANGED <<phase, idx, outputURLs, reply, files>>

\* Mutant of Wait: the command does not wait for its workers.
WaitForNobody(c) ==
    /\ phase[c] = "wait"
    /\ SetPhase(c, "collect")
    /\ idx' = [idx EXCEPT ![c] = Len(HasURL) - RowsAsked[c] + 1]
    /\ UNCHANGED <<places, worker, outputURLs, reply, files>>

\* wg.Wait returns.
Wait(c) ==
    /\ phase[c] = "wait"
    /\ \A i \in Rows : worker[c][i] \in {"none", "over"}
    /\ SetPhase(c, "collect")
    /\ idx' = [idx EXCEPT ![c] = Len(HasURL) - RowsAsked[c] + 1]
    /\ UNCHANGED <<places, worker, outputURLs, reply, files>>

\* One round of compactStringsInOrder.
CompactStringsInOrder(c) ==
    /\ phase[c] = "collect"
    /\ idx[c] \in Rows
    /\ LET item == outputURLs[c][idx[c]] IN
       reply' = IF item = NoURL THEN reply ELSE [reply EXCEPT ![c] = Append(@, item)]
    /\ idx' = [idx EXCEPT ![c] = @ + 1]
    /\ UNCHANGED <<phase, places, worker, outputURLs, files>>

\* What there is is sent, a hint if there is nothing.
AnswerPictures(c) ==
    /\ phase[c] = "collect"
    /\ idx[c] \notin Rows
    /\ SetPhase(c, IF reply[c] = <<>> THEN "hinted" ELSE "replied")
    /\ UNCHANGED <<idx, places, worker, outputURLs, reply, files>>

CommandStep(c) ==
    \/ SkipRow(c) \/ Spawn(c) \/ LoopEnds(c) \/ Wait(c)
    \/ CompactStringsInOrder(c) \/ AnswerPictures(c)

WorkerStep(c, i) ==
    \/ Create(c, i) \/ Encode(c, i) \/ EncodeErr(c, i)
    \/ Put(c, i) \/ WorkerErr(c, i) \/ Release(c, i)

PoolNext ==
    \/ \E c \in Commands : RecentMessageImages(c) \/ CommandStep(c)
    \/ \E c \in Commands, i \in Rows : WorkerStep(c, i)

PoolSpec == PoolInit /\ [][PoolNext]_poolVars

\* Goroutines are scheduled, and downloads end because the client has a timeout.
PoolFairness ==
    /\ \A c \in Commands : WF_poolVars(CommandStep(c))
    /\ \A c \in Commands : \A i \in Rows : WF_poolVars(WorkerStep(c, i))

-----------------------------------------------------------------------------

AtWork(c) == {i \in Rows : worker[c][i] \notin {"none", "over"}}

\* No command works on more than MaxConcurrency images at once, and when it
\* answers all its places are free.  (The semaphore of handleSymmetricCommand,
\* handleQTanCommand.)
PlacesAreWorkers ==
    \A c \in Commands :
        /\ places[c] = Cardinality(AtWork(c))
        /\ phase[c] \in {"replied", "hinted"} => places[c] = 0

\* The answer holds the picture of every row whose worker came through and no
\* other, in the order of the rows and not of the workers.
RepliesInOrder ==
    \A c \in Commands :
        phase[c] = "replied" =>
            /\ \A i \in Rows :
                   outputURLs[c][i] # NoURL => \E k \in DOMAIN reply[c] : reply[c][k] = NameOf(c, i)
            /\ \A k \in DOMAIN reply[c] :
                   \E i \in Rows : outputURLs[c][i] # NoURL /\ reply[c][k] = NameOf(c, i)
            /\ \A k, l \in DOMAIN reply[c] : k < l => reply[c][k][2] < reply[c][l][2]

\* An answered picture is a whole file, by the command that answers it unless
\* another of its family worked on the same row.  (SYMMETRIC.md allows the last
\* one to win.)
AnsweredFilesWhole ==
    \A c \in Commands : \A i \in RowsOf(c) :
        phase[c] = "replied" /\ outputURLs[c][i] # NoURL =>
            LET n == outputURLs[c][i] IN
            \/ file[n] = [by |-> c, is |-> "whole"]
            \/ \E d \in Commands \ {c} : Family[d] = Family[c] /\ worker[d][i] \notin {"none", "make"}

\* All of these together.
PicturesSound == PlacesAreWorkers /\ RepliesInOrder /\ AnsweredFilesWhole

\* A command that has its images ends, in pictures or in a hint.
PoolCommandsEnd == \A c \in Commands : phase[c] = "loop" ~> phase[c] \in {"replied", "hinted"}
=============================================================================
