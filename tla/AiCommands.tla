----------------------------- MODULE AiCommands -----------------------------
(***************************************************************************)
(* The commands that let a model answer: a prompt over the last messages   *)
(* (.概括 and its kin), .ai, its continuation .aic, and the NJK reply.     *)
(* Each runs in the goroutine of its message, reads the message and image  *)
(* tables in several statements while other goroutines write them, waits   *)
(* for the model, and falls back from all images to the latest image to    *)
(* text alone.  .ai remembers where its history began; .aic goes on from   *)
(* there.  That memory, lastAI, is shared and is lost with the process.    *)
(***************************************************************************)
EXTENDS Integers, FiniteSets

CONSTANTS
    Handlers,   \* goroutines that run a command
    Newest,     \* the group's messages are 1..Newest, numbered by their time
    Url,        \* the URL of the image of each message, None if it has none
    Counts,     \* numbers of messages a command may ask for
    Offers,     \* the kinds of command each goroutine may be given
    MaxHistory, \* maxAIHistoryMessages
    Tries,      \* how many candidates GenerateNJKReply asks for
    None        \* no URL, no handler

Messages == 1..Newest

AiAssumption ==
    /\ Newest \in Nat /\ MaxHistory \in Nat /\ Tries \in Nat \ {0}
    /\ Counts \subseteq Nat
    /\ Offers \in [Handlers -> SUBSET {"prompt", "ai", "aic", "njk"}]
    /\ DOMAIN Url = Messages
    /\ None \notin Handlers

VARIABLES
    stored,     \* messages whose row is in the table
    pictured,   \* messages whose image row is in the table too
    lastAI,     \* lastAI of the group: a message, 0 before the first .ai
    setBy,      \* the handler that set it (history)
    job         \* the command of each goroutine

aiVars == <<stored, pictured, lastAI, setBy, job>>

AiKinds == {"prompt", "ai", "aic", "njk"}
Queries == {"history", "images", "lastAI", "since", "sinceAgain", "recent", "imagesSince"}
Calls == {"all", "latest", "text"}
AiPlaces == {"new", "answered", "hinted", "silent", "failed"} \cup Queries \cup Calls

\* text    the messages of the prompt
\* since   what messageImagesSince finds, and then the rows it takes images from
\* images  the messages whose images the queries found
\* seen    the table when the text was read (history)
\* after   the commands that had ended when this one began (history)
\* rejected  the model refused the content (history)
\* repeats   the candidate is a line of the prompt
Jobs == [at : AiPlaces, kind : AiKinds, count : Nat, start : 0..Newest,
         text : SUBSET Messages, since : SUBSET Messages, images : SUBSET Messages,
         tries : Nat, calls : Nat, repeats : BOOLEAN, rejected : BOOLEAN,
         seen : SUBSET Messages, after : SUBSET Handlers]

AiTypeOK ==
    /\ stored \subseteq Messages
    /\ pictured \subseteq stored
    /\ lastAI \in 0..Newest
    /\ setBy \in Handlers \cup {None}
    /\ job \in [Handlers -> Jobs]
    /\ \A h \in Handlers : job[h].at \in {"all", "latest"} => job[h].images # {}

Idle == [at |-> "new", kind |-> "prompt", count |-> 0, start |-> 0, text |-> {}, since |-> {},
         images |-> {}, tries |-> 0, calls |-> 0, repeats |-> FALSE, rejected |-> FALSE,
         seen |-> {}, after |-> {}]

AiInit ==
    /\ stored = {}
    /\ pictured = {}
    /\ lastAI = 0
    /\ setBy = None
    /\ job = [h \in Handlers |-> Idle]

Running(h) == job[h].at \in Queries \cup Calls
Ended(h) == job[h].at \in {"answered", "hinted", "silent", "failed"}

Earliest(M) == CHOOSE m \in M : \A o \in M : m <= o
Latest(M) == CHOOSE m \in M : \A o \in M : m >= o

\* RecentMessages: the last n messages by time.
RecentMessages(n) == {m \in stored : Cardinality({o \in stored : o > m}) < n}
MessagesSince(m) == {o \in stored : o >= m}
ImagesOf(M) == {m \in M \cap pictured : Url[m] # None}

ParseAIHistoryCount(n) == IF n > MaxHistory THEN MaxHistory ELSE n

\* The two sides of the tables that other goroutines write: a row, and later
\* its image.  Rows need not come in the order of the messages' times.
MessageStored(m) ==
    /\ m \notin stored
    /\ stored' = stored \cup {m}
    /\ UNCHANGED <<pictured, lastAI, setBy, job>>

ImageStored(m) ==
    /\ m \in stored \ pictured
    /\ Url[m] # None
    /\ pictured' = pictured \cup {m}
    /\ UNCHANGED <<stored, lastAI, setBy, job>>

\* The next state of a command; what it had read is forgotten at its end.
AiBecome(h, j) ==
    job' = [job EXCEPT ![h] =
        IF j.at \in Queries \cup Calls THEN j
        ELSE [j EXCEPT !.count = 0, !.start = 0, !.text = {}, !.since = {}, !.images = {},
                       !.seen = {}, !.after = IF j.kind = "ai" THEN @ ELSE {}]]

\* The command is matched and its handler called.
Begin(h, kind, n) ==
    /\ job[h].at = "new"
    /\ AiBecome(h, [Idle EXCEPT !.kind = kind,
                              !.count = IF kind = "njk" THEN n ELSE ParseAIHistoryCount(n),
                              !.at = IF kind = "aic" THEN "lastAI" ELSE "history",
                              !.after = IF kind = "ai" THEN {o \in Handlers : Ended(o)} ELSE {}])
    /\ UNCHANGED <<stored, pictured, lastAI, setBy>>

\* The first statement of RecentMessageAndImages.  Without history the
\* command answers so, and the NJK reply says nothing.
QueryHistory(h) ==
    /\ job[h].at = "history"
    /\ LET found == RecentMessages(job[h].count)
       IN AiBecome(h, [job[h] EXCEPT !.text = found, !.seen = stored,
                                   !.at = IF found # {} THEN "images"
                                          ELSE IF job[h].kind = "njk" THEN "silent" ELSE "hinted"])
    /\ UNCHANGED <<stored, pictured, lastAI, setBy>>

\* Mutant of FirstCall: the images are sent although there are none.
FirstCallImages(images) == "all"

\* Where completeWithMultimodalFallback starts.
FirstCall(images) == IF images = {} THEN "text" ELSE "all"

\* Its second statement, and buildMultimodalPrompt over the result.
QueryImages(h) ==
    /\ job[h].at = "images"
    /\ LET images == ImagesOf(job[h].text)
       IN AiBecome(h, [job[h] EXCEPT !.images = images, !.at = FirstCall(images)])
    /\ UNCHANGED <<stored, pictured, lastAI, setBy>>

GetLastAI(h) ==
    /\ job[h].at = "lastAI"
    /\ AiBecome(h, IF lastAI = 0 THEN [job[h] EXCEPT !.at = "hinted"]
                 ELSE [job[h] EXCEPT !.at = "since", !.start = lastAI])
    /\ UNCHANGED <<stored, pictured, lastAI, setBy>>

\* Mutant of QuerySince: the first message is left out.
QuerySinceAfter(h) ==
    /\ job[h].at = "since"
    /\ LET found == MessagesSince(job[h].start) \ {job[h].start}
       IN AiBecome(h, [job[h] EXCEPT !.text = found, !.seen = stored,
                                   !.at = IF found = {} THEN "hinted" ELSE "sinceAgain"])
    /\ UNCHANGED <<stored, pictured, lastAI, setBy>>

QuerySince(h) ==
    /\ job[h].at = "since"
    /\ LET found == MessagesSince(job[h].start)
       IN AiBecome(h, [job[h] EXCEPT !.text = found, !.seen = stored,
                                   !.at = IF found = {} THEN "hinted" ELSE "sinceAgain"])
    /\ UNCHANGED <<stored, pictured, lastAI, setBy>>

\* messageImagesSince asks again for what the text was made of ...
QuerySinceAgain(h) ==
    /\ job[h].at = "sinceAgain"
    /\ LET found == MessagesSince(job[h].start)
       IN AiBecome(h, [job[h] EXCEPT !.since = found,
                                   !.at = IF found = {} THEN "text" ELSE "recent"])
    /\ UNCHANGED <<stored, pictured, lastAI, setBy>>

\* ... and then for as many of the most recent messages, of which it keeps
\* those between the start and the last message found before.
QueryRecent(h) ==
    /\ job[h].at = "recent"
    /\ LET found == job[h].since
       IN AiBecome(h, [job[h] EXCEPT !.since = {m \in RecentMessages(Cardinality(found)) :
                                                 job[h].start <= m /\ m <= Latest(found)},
                                   !.at = "imagesSince"])
    /\ UNCHANGED <<stored, pictured, lastAI, setBy>>

QueryImagesSince(h) ==
    /\ job[h].at = "imagesSince"
    /\ LET images == ImagesOf(job[h].since)
       IN AiBecome(h, [job[h] EXCEPT !.images = images, !.at = FirstCall(images)])
    /\ UNCHANGED <<stored, pictured, lastAI, setBy>>

\* A statement fails and so does the command.
QueryErr(h) ==
    /\ job[h].at \in Queries \ {"lastAI"}
    /\ AiBecome(h, [job[h] EXCEPT !.at = "failed"])
    /\ UNCHANGED <<stored, pictured, lastAI, setBy>>

\* One more request to the model.
Asked(h) == [job[h] EXCEPT !.calls = @ + 1]

\* Mutant of Answer: only the first .ai is remembered.
AnswerUnlessSet(h, repeats) ==
    /\ job[h].at \in Calls
    /\ job[h].kind # "njk"
    /\ AiBecome(h, [Asked(h) EXCEPT !.at = "answered", !.repeats = repeats])
    /\ IF job[h].kind = "ai" /\ lastAI = 0
       THEN lastAI' = Earliest(job[h].text) /\ setBy' = h
       ELSE UNCHANGED <<lastAI, setBy>>
    /\ UNCHANGED <<stored, pictured>>

\* The model answers a command: .ai notes where its history began.
Answer(h, repeats) ==
    /\ job[h].at \in Calls
    /\ job[h].kind # "njk"
    /\ AiBecome(h, [Asked(h) EXCEPT !.at = "answered", !.repeats = repeats])
    /\ IF job[h].kind = "ai"
       THEN lastAI' = Earliest(job[h].text) /\ setBy' = h
       ELSE UNCHANGED <<lastAI, setBy>>
    /\ UNCHANGED <<stored, pictured>>

\* Mutant of AnswerNJK: the first candidate is taken.
AnswerNJKOnce(h, repeats) ==
    /\ job[h].at \in Calls
    /\ job[h].kind = "njk"
    /\ AiBecome(h, [Asked(h) EXCEPT !.tries = @ + 1, !.repeats = repeats, !.at = "answered"])
    /\ UNCHANGED <<stored, pictured, lastAI, setBy>>

\* The NJK reply asks again, with all images, for a candidate that only
\* repeats a line of the history; the last one it takes as it is.
AnswerNJK(h, repeats) ==
    /\ job[h].at \in Calls
    /\ job[h].kind = "njk"
    /\ AiBecome(h, [Asked(h) EXCEPT !.tries = @ + 1,
                                  !.repeats = repeats,
                                  !.at = IF repeats /\ job[h].tries + 1 < Tries
                                         THEN FirstCall(job[h].images) ELSE "answered"])
    /\ UNCHANGED <<stored, pictured, lastAI, setBy>>

\* An empty candidate is not among the lines, and an empty reply is none.
AnswerNJKEmpty(h) ==
    /\ job[h].at \in Calls
    /\ job[h].kind = "njk"
    /\ AiBecome(h, [Asked(h) EXCEPT !.tries = @ + 1, !.repeats = FALSE, !.at = "silent"])
    /\ UNCHANGED <<stored, pictured, lastAI, setBy>>

\* Mutant of Reject: a refused content is sent again without images.
RejectRetried(h) ==
    /\ job[h].at \in Calls
    /\ AiBecome(h, [Asked(h) EXCEPT !.rejected = TRUE,
                                  !.at = IF job[h].at = "text" THEN "failed" ELSE "text"])
    /\ UNCHANGED <<stored, pictured, lastAI, setBy>>

\* ErrHighRiskRejection ends the command at whatever stage.
Reject(h) ==
    /\ job[h].at \in Calls
    /\ AiBecome(h, [Asked(h) EXCEPT !.rejected = TRUE, !.at = "failed"])
    /\ UNCHANGED <<stored, pictured, lastAI, setBy>>

\* Any other error, a timeout of the client among them: the next stage.
CallErr(h) ==
    /\ job[h].at \in Calls
    /\ AiBecome(h, [Asked(h) EXCEPT !.at = CASE job[h].at = "all" -> "latest"
                                           [] job[h].at = "latest" -> "text"
                                           [] OTHER -> "failed"])
    /\ UNCHANGED <<stored, pictured, lastAI, setBy>>

\* The process dies and is started again.
Crash ==
    /\ \E h \in Handlers : Running(h)
    /\ lastAI' = 0
    /\ setBy' = None
    /\ job' = [h \in Handlers |-> IF Running(h) THEN [job[h] EXCEPT !.at = "failed"] ELSE job[h]]
    /\ UNCHANGED <<stored, pictured>>

Complete(h) ==
    \/ \E repeats \in BOOLEAN : Answer(h, repeats) \/ AnswerNJK(h, repeats)
    \/ AnswerNJKEmpty(h)
    \/ Reject(h)
    \/ CallErr(h)

\* What the goroutine does by itself.
AiStep(h) ==
    \/ QueryHistory(h) \/ QueryImages(h)
    \/ GetLastAI(h) \/ QuerySince(h) \/ QuerySinceAgain(h) \/ QueryRecent(h) \/ QueryImagesSince(h)
    \/ QueryErr(h)
    \/ Complete(h)

AiNext ==
    \/ \E m \in Messages : MessageStored(m) \/ ImageStored(m)
    \/ \E h \in Handlers, n \in Counts : \E kind \in Offers[h] : Begin(h, kind, n)
    \/ \E h \in Handlers : AiStep(h)
    \/ Crash

AiSpec == AiInit /\ [][AiNext]_aiVars

\* Goroutines are scheduled, statements return and the client gives up after
\* its timeout.  Messages and commands need not come.
AiFairness == \A h \in Handlers : WF_aiVars(AiStep(h))

-----------------------------------------------------------------------------

\* What .aic sends along although it was read by other statements than the
\* text: an image of a message that is not in the text belongs to one stored
\* since the text was read, and without such a message the images are taken
\* from just the messages of the text.  (handleAICCommand, messageImagesSince.)
AicPicturesMatch ==
    \A h \in Handlers :
        job[h].kind = "aic" /\ job[h].at \in Calls =>
            /\ job[h].images \cap job[h].seen \subseteq job[h].text
            /\ stored = job[h].seen => job[h].since = job[h].text

\* .aic never goes back to an .ai that had been answered when a later one,
\* answered as well, began.  (setLastAI comes after the wait for the model.)
AicContinuesTheLastAi ==
    \A h \in Handlers :
        job[h].kind = "ai" /\ job[h].at = "answered" => setBy \notin job[h].after

\* A content the model refused is not sent again in another form.
\* (ErrHighRiskRejection in completeWithMultimodalFallback.)
RefusedIsNotRetried ==
    [][\A h \in Handlers : job[h].rejected => job'[h].calls = job[h].calls]_aiVars

\* The bot repeats a line of the chat only if all its candidates did, and a
\* command costs at most three requests per candidate.  (GenerateNJKReply.)
Candidates(h) == IF job[h].kind = "njk" /\ job[h].at # "answered" /\ job[h].at # "silent"
                 THEN job[h].tries + 1 ELSE IF job[h].kind = "njk" THEN job[h].tries ELSE 1
RepeatsOnlyAfterAllTries ==
    \A h \in Handlers :
        /\ job[h].kind = "njk" /\ job[h].at = "answered" /\ job[h].repeats => job[h].tries = Tries
        /\ job[h].calls <= 3 * Candidates(h)

\* Every command ends, in an answer or without, whatever the model does.
AiCommandsEnd == \A h \in Handlers : Running(h) ~> Ended(h)
=============================================================================
