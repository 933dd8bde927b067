-------------------------- MODULE AiCommands_proofs --------------------------
(* Machine-checked facts about AiCommands, for all constants that satisfy AiAssumption. *)
EXTENDS AiCommands, FiniteSetTheorems, TLAPS

-----------------------------------------------------------------------------
(* Sets of message numbers. *)

\* A set of messages that is not empty has a first and a last one.
LEMMA EarliestExists ==
    ASSUME NEW M \in SUBSET Nat, M # {}
    PROVE  Earliest(M) \in M /\ \A o \in M : Earliest(M) <= o
<1>1. PICK R : IsWellFoundedOn(R, Nat) /\ \A x, y \in Nat : x < y => <<x, y>> \in R
  <2>1. \A x, y \in Nat : x < y => <<x, y>> \in OpToRel(<, Nat)
    BY DEF OpToRel
  <2> QED  BY <2>1, NatLessThanWellFounded
<1>2. PICK m \in M : \A o \in M : ~ (<<o, m>> \in R)
  <2>1. IsWellFoundedOn(R, Nat)
    BY <1>1
  <2> QED  BY <2>1, WFMin
<1>3. \A o \in M : m <= o
  <2> TAKE o \in M
  <2>1. ~ (o < m) /\ m \in Nat /\ o \in Nat
    BY <1>1, <1>2
  <2> QED  BY <2>1
<1> QED  BY <1>3 DEF Earliest

LEMMA LatestExists ==
    ASSUME AiAssumption, NEW M \in SUBSET Messages, M # {}
    PROVE  Latest(M) \in M /\ \A o \in M : o <= Latest(M)
<1>1. Newest \in Nat /\ \A m \in M : m \in Nat /\ Newest - m \in Nat
  BY DEF AiAssumption, Messages
<1> DEFINE T == {Newest - m : m \in M}
<1>2. T \in SUBSET Nat /\ T # {}
  BY <1>1
<1>3. Earliest(T) \in T /\ \A t \in T : Earliest(T) <= t
  <2> HIDE DEF T
  <2> QED  BY <1>2, EarliestExists
<1>4. PICK m \in M : Earliest(T) = Newest - m
  BY <1>3
<1>5. \A o \in M : m >= o
  <2> TAKE o \in M
  <2>1. Newest - m <= Newest - o
    BY <1>3, <1>4
  <2> QED  BY <1>1, <2>1
<1>6. Latest(M) \in M /\ \A o \in M : Latest(M) >= o
  BY <1>5 DEF Latest
<1> QED  BY <1>1, <1>6

\* When every message from a start on is known, the most recent ones, as many, are these.
LEMMA RecentAreSince ==
    ASSUME AiAssumption, stored \subseteq Messages, NEW start \in 0..Newest, MessagesSince(start) # {}
    PROVE  {m \in RecentMessages(Cardinality(MessagesSince(start))) :
                start <= m /\ m <= Latest(MessagesSince(start))} = MessagesSince(start)
<1> DEFINE found == MessagesSince(start)
<1>1. /\ Newest \in Nat /\ found \in SUBSET Messages /\ found \in SUBSET Nat
      /\ \A m \in found : m <= Newest
  <2>1. \A m \in Messages : m \in Nat /\ m <= Newest
    BY DEF AiAssumption, Messages
  <2>2. \A m \in found : m \in Messages
    BY DEF MessagesSince
  <2> QED  BY <2>1, <2>2 DEF AiAssumption
<1>2. IsFiniteSet(found)
  BY <1>1, FS_BoundedSetOfNaturals
<1>3. ASSUME NEW m \in found
      PROVE  m \in RecentMessages(Cardinality(found)) /\ start <= m /\ m <= Latest(found)
  <2> DEFINE later == {o \in stored : o > m}
  <2>1. later \in SUBSET found /\ m \notin later
    <3>1. start \in Int /\ m \in stored /\ m \in Int /\ m >= start
      BY <1>1, <1>3 DEF MessagesSince
    <3>2. \A o \in later : o \in stored /\ o \in Int /\ o > m
      BY DEF Messages
    <3>3. \A o \in later : o \in found
      BY <3>1, <3>2 DEF MessagesSince
    <3>4. m \notin later
      BY <3>1, <3>2
    <3> HIDE DEF later
    <3> QED  BY <3>3, <3>4
  <2>2. IsFiniteSet(later) /\ Cardinality(later) <= Cardinality(found)
        /\ (Cardinality(found) = Cardinality(later) => found = later)
    BY <1>2, <2>1, FS_Subset
  <2>3. Cardinality(later) < Cardinality(found)
    <3>1. Cardinality(later) \in Nat /\ Cardinality(found) \in Nat
      BY <1>2, <2>2, FS_CardinalityType
    <3>2. found # later
      BY <1>3, <2>1
    <3> QED  BY <2>2, <3>1, <3>2
  <2>4. m \in stored /\ start <= m
    BY <1>1, <1>3 DEF MessagesSince
  <2>5. m <= Latest(found)
    BY <1>1, <1>3, LatestExists
  <2> QED  BY <2>3, <2>4, <2>5 DEF RecentMessages
<1>4. ASSUME NEW m \in RecentMessages(Cardinality(found)), start <= m
      PROVE  m \in found
  BY <1>4, <1>1 DEF RecentMessages, MessagesSince, Messages, AiAssumption
<1> QED  BY <1>3, <1>4

-----------------------------------------------------------------------------
(* What is always so of a command. *)

AfterText == {"sinceAgain", "recent", "imagesSince"} \cup Calls
Stage == [all |-> 0, latest |-> 1, text |-> 2]

Shaped(j) == j \in Jobs /\ (j.at \in {"all", "latest"} => j.images # {})

\* A prompt has messages, and only .ai, the prompts and the NJK reply count them.
TextFound(j) ==
    /\ j.at \in {"images"} \cup AfterText => j.text # {}
    /\ j.kind = "aic" => j.at \notin {"history", "images"}

\* What .aic has found of the messages and of their images.
AicSound(j) ==
    j.kind = "aic" =>
        /\ j.at \in Queries => j.images = {}
        /\ j.at = "recent" => j.since # {}
        /\ j.at \in AfterText => j.seen \subseteq stored /\ j.text = {o \in j.seen : o >= j.start}
        /\ j.at \in AfterText \ {"sinceAgain"} =>
               (\A m \in j.since : m >= j.start) /\ (stored = j.seen => j.since = j.text)
        /\ j.at = "recent" /\ stored = j.seen => j.since = MessagesSince(j.start)
        /\ j.at \in Calls => j.images \subseteq j.since

\* A refusal ends a command, and a candidate costs a request at each stage.
Budget(j) ==
    /\ j.rejected => j.at = "failed"
    /\ j.kind # "njk" => j.tries = 0
    /\ j.at \in Queries \cup {"new"} => j.calls = 0 /\ j.tries = 0
    /\ j.at \in Calls => j.calls <= 3 * j.tries + Stage[j.at]
    /\ j.at \in Calls /\ j.kind = "njk" => j.tries < Tries
    /\ j.at \in {"answered", "silent"} /\ j.kind = "njk" => j.calls <= 3 * j.tries
    /\ j.at \in {"answered", "silent", "hinted", "failed"} /\ j.kind # "njk" => j.calls <= 3
    /\ j.at \in {"hinted", "failed"} => j.calls <= 3 * j.tries + 3
    /\ j.at = "answered" /\ j.kind = "njk" /\ j.repeats => j.tries = Tries

Good(j) == Shaped(j) /\ TextFound(j) /\ AicSound(j) /\ Budget(j)

\* The commands that had ended when this one began have.
AfterEnded ==
    \A h \in Handlers : \A o \in job[h].after : Ended(o)

TablesOK ==
    /\ stored \subseteq Messages /\ pictured \subseteq stored
    /\ lastAI \in 0..Newest /\ setBy \in Handlers \cup {None}
JobsInv == job = [h \in Handlers |-> job[h]] /\ \A h \in Handlers : Good(job[h])
IInv == TablesOK /\ JobsInv /\ AfterEnded /\ AicContinuesTheLastAi


LEMMA InitInv == ASSUME AiAssumption, AiInit PROVE IInv
<1>1. Newest \in Nat
  BY DEF AiAssumption
<1>2. Idle \in Jobs
  BY <1>1 DEF Idle, Jobs, AiPlaces, AiKinds
<1>3. Good(Idle)
  BY <1>2 DEF Good, Shaped, TextFound, AicSound, Budget, Idle, AfterText, Queries, Calls
<1>4. \A h \in Handlers : job[h] = Idle
  BY DEF AiInit
<1>5. JobsInv
  BY <1>3, <1>4 DEF JobsInv, AiInit
<1>6. TablesOK
  BY <1>1 DEF AiInit, TablesOK
<1>7. AfterEnded /\ AicContinuesTheLastAi
  BY <1>4 DEF AfterEnded, AicContinuesTheLastAi, Idle
<1> QED  BY <1>5, <1>6, <1>7 DEF IInv

LEMMA InvTypes == IInv => AiTypeOK
<1> SUFFICES ASSUME IInv PROVE AiTypeOK
  OBVIOUS
<1>1. job \in [Handlers -> Jobs] /\ \A h \in Handlers : job[h].at \in {"all", "latest"} => job[h].images # {}
  BY DEF IInv, JobsInv, Good, Shaped
<1> QED  BY <1>1 DEF IInv, TablesOK, AiTypeOK

\* Ending a command forgets what it read and keeps what its record counts.
Cleared(j) ==
    IF j.at \in Queries \cup Calls THEN j
    ELSE [j EXCEPT !.count = 0, !.start = 0, !.text = {}, !.since = {}, !.images = {},
                   !.seen = {}, !.after = IF j.kind = "ai" THEN @ ELSE {}]

LEMMA ClearedGood ==
    ASSUME AiAssumption, NEW j, Good(j)
    PROVE  /\ Good(Cleared(j))
           /\ Cleared(j).at = j.at /\ Cleared(j).kind = j.kind /\ Cleared(j).after \subseteq j.after
           /\ Cleared(j).calls = j.calls
<1>1. j \in Jobs
  BY DEF Good, Shaped
<1>2. CASE j.at \in Queries \cup Calls
  BY <1>2 DEF Cleared
<1>3. CASE j.at \notin Queries \cup Calls
  <2> DEFINE c == Cleared(j)
  <2>1. /\ c.at = j.at /\ c.kind = j.kind /\ c.tries = j.tries /\ c.calls = j.calls
        /\ c.repeats = j.repeats /\ c.rejected = j.rejected /\ c.after \subseteq j.after
    BY <1>1, <1>3 DEF Cleared, Jobs
  <2>2. c \in Jobs
    <3>1. 0 \in 0..Newest
      BY DEF AiAssumption
    <3> QED  BY <1>1, <1>3, <3>1 DEF Cleared, Jobs
  <2>3. c.at \notin AfterText /\ c.at # "images" /\ c.at # "history" /\ c.at \notin {"all", "latest"}
    BY <1>3, <2>1 DEF AfterText, Queries, Calls
  <2> HIDE DEF c
  <2>4. Shaped(c) /\ TextFound(c)
    BY <2>2, <2>3 DEF Shaped, TextFound
  <2>5. AicSound(c)
    BY <1>3, <2>1, <2>3 DEF AicSound, AfterText, Queries, Calls
  <2>6. Budget(c)
    BY <2>1 DEF Good, Budget
  <2> QED  BY <2>1, <2>4, <2>5, <2>6 DEF Good, c
<1> QED  BY <1>2, <1>3

\* A step of one command.
LEMMA BecomeInv ==
    ASSUME AiAssumption, IInv, NEW h \in Handlers, NEW j, Good(j), AiBecome(h, j),
           UNCHANGED <<stored, pictured>>, lastAI' \in 0..Newest,
           ~Ended(h),
           \A o \in j.after : Ended(o),
           setBy' = h \/ (setBy' = setBy /\ (j.kind = "ai" => j.at # "answered"))
    PROVE  IInv'
<1>1. job' = [job EXCEPT ![h] = Cleared(j)] /\ job = [o \in Handlers |-> job[o]]
  BY DEF AiBecome, Cleared, IInv, JobsInv
<1>2. job'[h] = Cleared(j) /\ \A o \in Handlers \ {h} : job'[o] = job[o]
  BY <1>1
<1>3. \A i : Good(i) => Good(i)'
  BY DEF Good, Shaped, TextFound, AicSound, Budget, MessagesSince
<1>4. JobsInv'
  <2>1. job' = [o \in Handlers |-> job'[o]]
    BY <1>1
  <2>2. \A o \in Handlers : Good(job'[o])
    BY <1>2, ClearedGood DEF IInv, JobsInv
  <2>3. \A o \in Handlers : Good(job[o])'
    <3> TAKE o \in Handlers
    <3>1. PICK i : i = job'[o]
      OBVIOUS
    <3>2. Good(i)'
      BY <1>3, <2>2, <3>1
    <3> QED  BY <3>1, <3>2
  <2> QED  BY <2>1, <2>3 DEF JobsInv
<1>5. TablesOK'
  BY DEF IInv, TablesOK
<1>6. \A o \in Handlers : Ended(o) => Ended(o)'
  BY <1>2 DEF Ended
<1>7. AfterEnded'
  BY <1>2, <1>6, ClearedGood DEF IInv, AfterEnded, JobsInv, Good, Shaped, Jobs
<1>8. AicContinuesTheLastAi'
  <2> SUFFICES ASSUME NEW o \in Handlers, job'[o].kind = "ai", job'[o].at = "answered"
               PROVE  setBy' \notin job'[o].after
    BY DEF AicContinuesTheLastAi
  <2>1. CASE o = h
    BY <1>2, <2>1, ClearedGood DEF IInv
  <2>2. CASE o # h
    BY <1>2, <2>2 DEF IInv, AfterEnded, AicContinuesTheLastAi
  <2> QED  BY <2>1, <2>2
<1> QED  BY <1>4, <1>5, <1>7, <1>8 DEF IInv

-----------------------------------------------------------------------------
(* The steps of a command. *)

\* A command that has ended has read nothing any more.
LEMMA EndGood ==
    ASSUME NEW j \in Jobs, j.at \in {"answered", "hinted", "silent", "failed"}, Budget(j)
    PROVE  Good(j)
  BY DEF Good, Shaped, TextFound, AicSound, AfterText, Queries, Calls

\* A statement that fails, or finds nothing.
LEMMA QueryEndGood ==
    ASSUME NEW i, Good(i), i.at \in Queries, NEW place \in {"hinted", "silent", "failed"}
    PROVE  Good([i EXCEPT !.at = place])
<1> DEFINE j == [i EXCEPT !.at = place]
<1>1. i \in Jobs /\ j \in Jobs
  BY DEF Good, Shaped, Jobs, AiPlaces
<1>2. /\ j.at = place /\ j.kind = i.kind /\ j.tries = i.tries /\ j.calls = i.calls
      /\ j.repeats = i.repeats /\ j.rejected = i.rejected
  BY <1>1 DEF Jobs
<1> HIDE DEF j
<1>3. Budget(j)
  <2>1. i.calls = 0 /\ i.tries = 0 /\ ~i.rejected
    BY <1>1 DEF Good, Budget, Queries
  <2> QED  BY <1>2, <2>1 DEF Budget, Queries, Calls
<1>4. Good(j)
  BY <1>1, <1>2, <1>3, EndGood
<1> QED  BY <1>4 DEF j

\* The facts about a command that its steps start from.
LEMMA JobFacts ==
    ASSUME IInv, NEW h \in Handlers
    PROVE  /\ Good(job[h]) /\ job[h] \in Jobs /\ \A o \in job[h].after : Ended(o)
           /\ job[h].at \in Queries \cup Calls => ~Ended(h)
           /\ stored \subseteq Messages /\ lastAI \in 0..Newest
  BY DEF IInv, JobsInv, Good, Shaped, AfterEnded, TablesOK, Ended, Queries, Calls

\* A command becomes a sound one that has not been answered.
LEMMA QuietBecome ==
    ASSUME AiAssumption, IInv, NEW h \in Handlers, job[h].at \in Queries \cup Calls,
           NEW j, Good(j), AiBecome(h, j), j.after = job[h].after,
           j.at # "answered" \/ j.kind # "ai", UNCHANGED <<stored, pictured, lastAI, setBy>>
    PROVE  IInv'
  BY JobFacts, BecomeInv

LEMMA QueryHistoryInv ==
    ASSUME AiAssumption, IInv, NEW h \in Handlers, QueryHistory(h)
    PROVE  IInv'
<1>1. PICK i : i = job[h]
  OBVIOUS
<1> DEFINE found == RecentMessages(i.count)
           place == IF found # {} THEN "images" ELSE IF i.kind = "njk" THEN "silent" ELSE "hinted"
           j == [i EXCEPT !.text = found, !.seen = stored, !.at = place]
<1>2. /\ i \in Jobs /\ Good(i) /\ i.at = "history" /\ AiBecome(h, j)
      /\ UNCHANGED <<stored, pictured, lastAI, setBy>> /\ stored \subseteq Messages
  BY <1>1, JobFacts DEF QueryHistory
<1>3. found \subseteq Messages
  BY <1>2 DEF RecentMessages
<1> HIDE DEF found
<1>4. place \in {"images", "silent", "hinted"} /\ (place = "images" => found # {})
  OBVIOUS
<1> HIDE DEF place
<1>5. /\ j \in Jobs /\ j.at = place /\ j.text = found /\ j.kind = i.kind /\ j.after = i.after
      /\ j.tries = i.tries /\ j.calls = i.calls /\ j.rejected = i.rejected
  BY <1>2, <1>3, <1>4 DEF Jobs, AiPlaces, Queries
<1> HIDE DEF j
<1>6. i.calls = 0 /\ i.tries = 0 /\ ~i.rejected /\ i.kind # "aic"
  BY <1>2 DEF Good, Budget, TextFound, Queries, Jobs
<1>7. Good(j)
  <2>1. Shaped(j) /\ TextFound(j) /\ AicSound(j)
    BY <1>4, <1>5, <1>6 DEF Shaped, TextFound, AicSound, AfterText, Calls
  <2>2. Budget(j)
    BY <1>4, <1>5, <1>6 DEF Budget, Queries, Calls
  <2> QED  BY <2>1, <2>2 DEF Good
<1> QED  BY <1>1, <1>2, <1>4, <1>5, <1>7, QuietBecome DEF Queries

\* The images of a prompt, and those of .aic, start the requests to the model.
LEMMA FirstCallInv ==
    ASSUME AiAssumption, IInv, NEW h \in Handlers, NEW M, NEW i, i = job[h],
           i.at = "images" \/ (i.at = "imagesSince" /\ M = i.since), M \subseteq Messages,
           AiBecome(h, [i EXCEPT !.images = ImagesOf(M), !.at = FirstCall(ImagesOf(M))]),
           UNCHANGED <<stored, pictured, lastAI, setBy>>
    PROVE  IInv'
<1> DEFINE images == ImagesOf(M)
           place == FirstCall(images)
           j == [i EXCEPT !.images = images, !.at = place]
<1>1. i \in Jobs /\ Good(i) /\ i.at \in {"images", "imagesSince"} /\ AiBecome(h, j)
  BY JobFacts
<1>2. images \subseteq M
  BY DEF ImagesOf
<1> HIDE DEF images
<1>3. place \in {"all", "text"} /\ (place = "all" => images # {})
  BY DEF FirstCall
<1> HIDE DEF place
<1>4. /\ j \in Jobs /\ j.at = place /\ j.images = images /\ j.text = i.text /\ j.since = i.since
      /\ j.seen = i.seen /\ j.start = i.start /\ j.kind = i.kind /\ j.after = i.after
      /\ j.tries = i.tries /\ j.calls = i.calls /\ j.rejected = i.rejected
  BY <1>1, <1>2, <1>3 DEF Jobs, AiPlaces, Calls
<1> HIDE DEF j
<1>5. /\ i.calls = 0 /\ i.tries = 0 /\ ~i.rejected /\ i.text # {}
      /\ i.kind = "aic" => i.at = "imagesSince" /\ M = i.since
  BY <1>1 DEF Good, Budget, TextFound, Queries, AfterText
<1>6. AicSound(j)
  <2>1. i.kind = "aic" => /\ i.seen \subseteq stored /\ i.text = {o \in i.seen : o >= i.start}
                          /\ \A m \in i.since : m >= i.start
                          /\ stored = i.seen => i.since = i.text
    BY <1>1, <1>5 DEF Good, AicSound, AfterText
  <2>2. j.at \notin Queries /\ j.at # "recent"
    BY <1>3, <1>4 DEF Queries
  <2> QED  BY <1>2, <1>4, <1>5, <2>1, <2>2 DEF AicSound
<1>7. Good(j)
  <2>1. Shaped(j) /\ TextFound(j)
    BY <1>3, <1>4, <1>5 DEF Shaped, TextFound
  <2>2. Budget(j)
    <3>1. j.at \in Calls /\ Stage[j.at] \in Nat /\ j.at \notin Queries \cup {"new"}
      BY <1>3, <1>4 DEF Calls, Stage, Queries
    <3>2. 0 < Tries
      BY DEF AiAssumption
    <3> QED  BY <1>3, <1>4, <1>5, <3>1, <3>2 DEF Budget
  <2> QED  BY <1>6, <2>1, <2>2 DEF Good
<1>8. j.at # "answered"
  BY <1>3, <1>4
<1> QED  BY <1>1, <1>4, <1>7, <1>8, QuietBecome DEF Queries

LEMMA GetLastAIInv ==
    ASSUME AiAssumption, IInv, NEW h \in Handlers, GetLastAI(h)
    PROVE  IInv'
<1>1. PICK i : i = job[h]
  OBVIOUS
<1>2. /\ i \in Jobs /\ Good(i) /\ i.at = "lastAI" /\ UNCHANGED <<stored, pictured, lastAI, setBy>>
      /\ lastAI \in 0..Newest
  BY <1>1, JobFacts DEF GetLastAI
<1>3. ASSUME NEW place \in {"hinted", "since"}, NEW start \in 0..Newest,
             AiBecome(h, [i EXCEPT !.at = place, !.start = start]), place = "since"
      PROVE  IInv'
  <2> DEFINE j == [i EXCEPT !.at = place, !.start = start]
  <2>1. /\ j \in Jobs /\ j.at = "since" /\ j.images = i.images
        /\ j.kind = i.kind /\ j.after = i.after
        /\ j.tries = i.tries /\ j.calls = i.calls /\ j.rejected = i.rejected
    BY <1>2, <1>3 DEF Jobs, AiPlaces, Queries
  <2>2. AiBecome(h, j)
    BY <1>3
  <2> HIDE DEF j
  <2>3. i.calls = 0 /\ i.tries = 0 /\ ~i.rejected /\ (i.kind = "aic" => i.images = {})
    BY <1>2 DEF Good, Budget, AicSound, Queries
  <2>4. Shaped(j) /\ TextFound(j) /\ AicSound(j) /\ Budget(j)
    BY <2>1, <2>3 DEF Shaped, TextFound, AicSound, Budget, Queries, Calls, AfterText
  <2> QED  BY <1>1, <1>2, <2>1, <2>2, <2>4, QuietBecome DEF Good, Queries
<1>4. CASE lastAI = 0
  <2>1. AiBecome(h, [i EXCEPT !.at = "hinted"])
    BY <1>1, <1>4 DEF GetLastAI
  <2>2. Good([i EXCEPT !.at = "hinted"])
    BY <1>2, QueryEndGood DEF Queries
  <2>3. [i EXCEPT !.at = "hinted"].at = "hinted" /\ [i EXCEPT !.at = "hinted"].after = i.after
    BY <1>2 DEF Jobs
  <2> QED  BY <1>1, <1>2, <2>1, <2>2, <2>3, QuietBecome DEF Queries
<1>5. CASE lastAI # 0
  BY <1>1, <1>2, <1>3, <1>5 DEF GetLastAI
<1> QED  BY <1>4, <1>5

LEMMA QuerySinceInv ==
    ASSUME AiAssumption, IInv, NEW h \in Handlers, QuerySince(h)
    PROVE  IInv'
<1>1. PICK i : i = job[h]
  OBVIOUS
<1> DEFINE found == MessagesSince(i.start)
           place == IF found = {} THEN "hinted" ELSE "sinceAgain"
           j == [i EXCEPT !.text = found, !.seen = stored, !.at = place]
<1>2. /\ i \in Jobs /\ Good(i) /\ i.at = "since" /\ AiBecome(h, j)
      /\ UNCHANGED <<stored, pictured, lastAI, setBy>> /\ stored \subseteq Messages
  BY <1>1, JobFacts DEF QuerySince
<1>3. found \subseteq Messages /\ found = {o \in stored : o >= i.start}
  BY <1>2 DEF MessagesSince
<1> HIDE DEF found
<1>4. place \in {"hinted", "sinceAgain"} /\ (place = "sinceAgain" => found # {})
  OBVIOUS
<1> HIDE DEF place
<1>5. /\ j \in Jobs /\ j.at = place /\ j.text = found /\ j.seen = stored /\ j.start = i.start
      /\ j.images = i.images /\ j.kind = i.kind /\ j.after = i.after
      /\ j.tries = i.tries /\ j.calls = i.calls /\ j.rejected = i.rejected
  BY <1>2, <1>3, <1>4 DEF Jobs, AiPlaces, Queries
<1> HIDE DEF j
<1>6. i.calls = 0 /\ i.tries = 0 /\ ~i.rejected /\ (i.kind = "aic" => i.images = {})
  BY <1>2 DEF Good, Budget, AicSound, Queries
<1>7. Good(j)
  <2>1. Shaped(j) /\ TextFound(j) /\ AicSound(j)
    BY <1>3, <1>4, <1>5, <1>6 DEF Shaped, TextFound, AicSound, AfterText, Queries, Calls
  <2>2. Budget(j)
    BY <1>4, <1>5, <1>6 DEF Budget, Queries, Calls
  <2> QED  BY <2>1, <2>2 DEF Good
<1> QED  BY <1>1, <1>2, <1>4, <1>5, <1>7, QuietBecome DEF Queries

LEMMA QuerySinceAgainInv ==
    ASSUME AiAssumption, IInv, NEW h \in Handlers, QuerySinceAgain(h)
    PROVE  IInv'
<1>1. PICK i : i = job[h]
  OBVIOUS
<1> DEFINE found == MessagesSince(i.start)
           place == IF found = {} THEN "text" ELSE "recent"
           j == [i EXCEPT !.since = found, !.at = place]
<1>2. /\ i \in Jobs /\ Good(i) /\ i.at = "sinceAgain" /\ AiBecome(h, j)
      /\ UNCHANGED <<stored, pictured, lastAI, setBy>> /\ stored \subseteq Messages
  BY <1>1, JobFacts DEF QuerySinceAgain
<1>3. found \subseteq Messages /\ found = {o \in stored : o >= i.start} /\ found = MessagesSince(i.start)
  BY <1>2 DEF MessagesSince
<1> HIDE DEF found
<1>4. place \in {"text", "recent"} /\ (place = "recent" => found # {})
  OBVIOUS
<1> HIDE DEF place
<1>5. /\ j \in Jobs /\ j.at = place /\ j.since = found /\ j.seen = i.seen /\ j.start = i.start
      /\ j.text = i.text /\ j.images = i.images /\ j.kind = i.kind /\ j.after = i.after
      /\ j.tries = i.tries /\ j.calls = i.calls /\ j.rejected = i.rejected
  BY <1>2, <1>3, <1>4 DEF Jobs, AiPlaces, Queries, Calls
<1> HIDE DEF j
<1>6. /\ i.calls = 0 /\ i.tries = 0 /\ ~i.rejected /\ i.text # {}
      /\ i.kind = "aic" => /\ i.images = {} /\ i.seen \subseteq stored
                           /\ i.text = {o \in i.seen : o >= i.start}
  BY <1>2 DEF Good, Budget, TextFound, AicSound, Queries, AfterText
<1>7. Good(j)
  <2>1. Shaped(j) /\ TextFound(j)
    BY <1>4, <1>5, <1>6 DEF Shaped, TextFound
  <2>2. AicSound(j)
    BY <1>3, <1>4, <1>5, <1>6 DEF AicSound
  <2>3. Budget(j)
    <3>1. 0 < Tries /\ Stage["text"] \in Nat
      BY DEF AiAssumption, Stage
    <3> QED  BY <1>4, <1>5, <1>6, <3>1 DEF Budget, Queries, Calls
  <2> QED  BY <2>1, <2>2, <2>3 DEF Good
<1> QED  BY <1>1, <1>2, <1>4, <1>5, <1>7, QuietBecome DEF Queries

LEMMA QueryRecentInv ==
    ASSUME AiAssumption, IInv, NEW h \in Handlers, QueryRecent(h)
    PROVE  IInv'
<1>1. PICK i : i = job[h]
  OBVIOUS
<1> DEFINE since == {m \in RecentMessages(Cardinality(i.since)) : i.start <= m /\ m <= Latest(i.since)}
           j == [i EXCEPT !.since = since, !.at = "imagesSince"]
<1>2. /\ i \in Jobs /\ Good(i) /\ i.at = "recent" /\ AiBecome(h, j)
      /\ UNCHANGED <<stored, pictured, lastAI, setBy>> /\ stored \subseteq Messages
  BY <1>1, JobFacts DEF QueryRecent
<1>3. since \subseteq Messages
  BY <1>2 DEF RecentMessages
<1>4. \A m \in since : m >= i.start
  BY <1>2, <1>3 DEF Messages, Jobs
<1>5. i.kind = "aic" => /\ i.since # {} /\ i.seen \subseteq stored /\ i.images = {}
                        /\ i.text = {o \in i.seen : o >= i.start}
                        /\ stored = i.seen => i.since = i.text /\ i.since = MessagesSince(i.start)
  BY <1>2 DEF Good, AicSound, AfterText, Queries
<1>6. i.kind = "aic" /\ stored = i.seen => since = i.text
  BY <1>2, <1>5, RecentAreSince DEF Jobs
<1> HIDE DEF since
<1>7. /\ j \in Jobs /\ j.at = "imagesSince" /\ j.since = since /\ j.seen = i.seen /\ j.start = i.start
      /\ j.text = i.text /\ j.images = i.images /\ j.kind = i.kind /\ j.after = i.after
      /\ j.tries = i.tries /\ j.calls = i.calls /\ j.rejected = i.rejected
  BY <1>2, <1>3 DEF Jobs, AiPlaces, Queries, Calls
<1> HIDE DEF j
<1>8. i.calls = 0 /\ i.tries = 0 /\ ~i.rejected /\ i.text # {}
  BY <1>2 DEF Good, Budget, TextFound, Queries, AfterText
<1>9. Good(j)
  <2>1. Shaped(j) /\ TextFound(j) /\ Budget(j)
    BY <1>7, <1>8 DEF Shaped, TextFound, Budget, Queries, Calls
  <2>2. AicSound(j)
    BY <1>4, <1>5, <1>6, <1>7 DEF AicSound, Calls
  <2> QED  BY <2>1, <2>2 DEF Good
<1> QED  BY <1>1, <1>2, <1>7, <1>9, QuietBecome DEF Queries

LEMMA QueryErrInv ==
    ASSUME AiAssumption, IInv, NEW h \in Handlers, QueryErr(h)
    PROVE  IInv'
<1>1. PICK i : i = job[h]
  OBVIOUS
<1>2. /\ i \in Jobs /\ Good(i) /\ i.at \in Queries /\ AiBecome(h, [i EXCEPT !.at = "failed"])
      /\ UNCHANGED <<stored, pictured, lastAI, setBy>>
  BY <1>1, JobFacts DEF QueryErr
<1>3. [i EXCEPT !.at = "failed"].at = "failed" /\ [i EXCEPT !.at = "failed"].after = i.after
  BY <1>2 DEF Jobs
<1> QED  BY <1>1, <1>2, <1>3, QueryEndGood, QuietBecome

LEMMA QueriesInv ==
    ASSUME AiAssumption, IInv, NEW h \in Handlers,
           \/ QueryHistory(h) \/ QueryImages(h) \/ GetLastAI(h) \/ QuerySince(h)
           \/ QuerySinceAgain(h) \/ QueryRecent(h) \/ QueryImagesSince(h) \/ QueryErr(h)
    PROVE  IInv'
<1>1. CASE QueryImages(h)
  <2>1. job[h].text \subseteq Messages
    BY JobFacts DEF Jobs
  <2> QED  BY <1>1, <2>1, FirstCallInv DEF QueryImages
<1>2. CASE QueryImagesSince(h)
  <2>1. job[h].since \subseteq Messages
    BY JobFacts DEF Jobs
  <2> QED  BY <1>2, <2>1, FirstCallInv DEF QueryImagesSince
<1> QED  BY <1>1, <1>2, QueryHistoryInv, GetLastAIInv, QuerySinceInv, QuerySinceAgainInv,
            QueryRecentInv, QueryErrInv

\* What a command that waits for the model has used up: calls is one more than that.
Used(i, calls, tries) ==
    /\ calls = i.calls + 1 /\ tries = i.tries
    /\ calls \in Nat \ {0} /\ calls <= 3 * tries + 3
    /\ i.at = "all" => calls <= 3 * tries + 1
    /\ i.at = "latest" => calls <= 3 * tries + 2
    /\ i.kind = "njk" => tries < Tries
    /\ i.kind # "njk" => tries = 0

LEMMA CallFacts ==
    ASSUME AiAssumption, IInv, NEW h \in Handlers, job[h].at \in Calls
    PROVE  /\ job[h] \in Jobs /\ Good(job[h]) /\ ~job[h].rejected /\ job[h].text # {}
           /\ \E calls \in Nat, tries \in Nat : Used(job[h], calls, tries)
<1>1. PICK i : i = job[h]
  OBVIOUS
<1>2. i \in Jobs /\ Good(i) /\ i.at \in Calls
  BY <1>1, JobFacts
<1>3. PICK calls \in Nat, tries \in Nat : calls = i.calls /\ tries = i.tries
  BY <1>2 DEF Jobs
<1>4. i.text # {} /\ ~i.rejected
  BY <1>2 DEF Good, TextFound, Budget, AfterText, Calls
<1>5. PICK stage \in {0, 1, 2} :
          /\ stage = Stage[i.at] /\ (i.at = "all" => stage = 0) /\ (i.at = "latest" => stage = 1)
  BY <1>2 DEF Calls, Stage
<1>6. calls <= 3 * tries + stage
  BY <1>2, <1>3, <1>5 DEF Good, Budget
<1>7. (i.kind = "njk" => tries < Tries) /\ (i.kind # "njk" => tries = 0)
  BY <1>2, <1>3 DEF Good, Budget
<1>8. calls + 1 \in Nat \ {0} /\ calls + 1 <= 3 * tries + 3
      /\ (stage = 0 => calls + 1 <= 3 * tries + 1) /\ (stage = 1 => calls + 1 <= 3 * tries + 2)
  BY <1>6
<1>9. Used(i, calls + 1, tries)
  BY <1>3, <1>5, <1>7, <1>8 DEF Used
<1> QED  BY <1>1, <1>2, <1>4, <1>8, <1>9

LEMMA AnswerInv ==
    ASSUME AiAssumption, IInv, NEW h \in Handlers, NEW repeats \in BOOLEAN, Answer(h, repeats)
    PROVE  IInv'
<1>1. PICK i : i = job[h]
  OBVIOUS
<1>2. /\ i \in Jobs /\ Good(i) /\ i.at \in Calls /\ i.kind # "njk" /\ UNCHANGED <<stored, pictured>>
      /\ i.text # {} /\ ~i.rejected /\ lastAI \in 0..Newest
  BY <1>1, JobFacts, CallFacts DEF Answer
<1>3. PICK calls \in Nat, tries \in Nat : Used(i, calls, tries)
  BY <1>1, <1>2, CallFacts
<1> DEFINE j == [i EXCEPT !.calls = calls, !.at = "answered", !.repeats = repeats]
<1>4. AiBecome(h, j)
  BY <1>1, <1>3 DEF Answer, Asked, Used
<1>5. /\ j \in Jobs /\ j.at = "answered" /\ j.calls = calls /\ j.kind = i.kind
      /\ j.after = i.after /\ j.tries = i.tries /\ j.rejected = i.rejected
  BY <1>2 DEF Jobs, AiPlaces
<1> HIDE DEF j
<1>6. Budget(j)
  <2>1. tries = 0 /\ i.tries = 0 /\ calls <= 3
    <3>1. tries = 0 /\ tries = i.tries /\ calls <= 3 * tries + 3
      BY <1>2, <1>3 DEF Used
    <3> QED  BY <3>1
  <2> QED  BY <1>2, <1>5, <2>1 DEF Budget, Queries, Calls
<1>7. Good(j)
  BY <1>5, <1>6, EndGood
<1>8. lastAI' \in 0..Newest
  <2>1. i.text \subseteq Messages /\ Messages \subseteq Nat /\ Messages \subseteq 0..Newest
    BY <1>2 DEF Jobs, Messages
  <2>2. Earliest(i.text) \in 0..Newest
    BY <1>2, <2>1, EarliestExists
  <2> QED  BY <1>1, <1>2, <2>2 DEF Answer
<1>9. setBy' = h \/ (setBy' = setBy /\ j.kind # "ai")
  BY <1>1, <1>5 DEF Answer
<1> QED  BY <1>1, <1>2, <1>4, <1>5, <1>7, <1>8, <1>9, JobFacts, BecomeInv

LEMMA AnswerNJKInv ==
    ASSUME AiAssumption, IInv, NEW h \in Handlers, NEW repeats \in BOOLEAN, AnswerNJK(h, repeats)
    PROVE  IInv'
<1>1. PICK i : i = job[h]
  OBVIOUS
<1>2. /\ i \in Jobs /\ Good(i) /\ i.at \in Calls /\ i.kind = "njk"
      /\ UNCHANGED <<stored, pictured, lastAI, setBy>> /\ i.text # {} /\ ~i.rejected
  BY <1>1, CallFacts DEF AnswerNJK
<1>3. PICK calls \in Nat, tries \in Nat : Used(i, calls, tries)
  BY <1>1, <1>2, CallFacts
<1>4. PICK next \in Nat : next = tries + 1 /\ next <= Tries /\ calls <= 3 * next
  <2>1. tries < Tries /\ calls <= 3 * tries + 3 /\ Tries \in Nat
    BY <1>2, <1>3 DEF Used, AiAssumption
  <2>2. tries + 1 \in Nat /\ tries + 1 <= Tries /\ calls <= 3 * (tries + 1)
    BY <2>1
  <2> QED  BY <2>2
<1>5. PICK place \in {"all", "text", "answered"} :
          /\ place = IF repeats /\ next < Tries THEN FirstCall(i.images) ELSE "answered"
          /\ place # "answered" => next < Tries
          /\ place = "answered" /\ repeats => next = Tries
          /\ place = "all" => i.images # {}
  <2>1. FirstCall(i.images) \in {"all", "text"} /\ (FirstCall(i.images) = "all" => i.images # {})
    BY DEF FirstCall
  <2>2. ~(next < Tries) => next = Tries
    BY <1>4 DEF AiAssumption
  <2> QED  BY <2>1, <2>2
<1> DEFINE j == [i EXCEPT !.calls = calls, !.tries = next, !.repeats = repeats, !.at = place]
<1>6. AiBecome(h, j)
  BY <1>1, <1>3, <1>4, <1>5 DEF AnswerNJK, Asked, Used
<1>7. /\ j \in Jobs /\ j.at = place /\ j.calls = calls /\ j.tries = next
      /\ j.repeats = repeats /\ j.text = i.text /\ j.images = i.images
      /\ j.kind = i.kind /\ j.after = i.after /\ j.rejected = i.rejected
  BY <1>2, <1>5 DEF Jobs, AiPlaces, Calls
<1> HIDE DEF j
<1>8. Good(j)
  <2>1. Shaped(j) /\ TextFound(j) /\ AicSound(j)
    BY <1>2, <1>5, <1>7 DEF Shaped, TextFound, AicSound
  <2>2. Budget(j)
    <3>1. \A stage \in Nat : calls <= 3 * next + stage
      BY <1>4
    <3>2. j.at \in Calls => Stage[j.at] \in Nat
      BY DEF Calls, Stage
    <3> QED  BY <1>2, <1>4, <1>5, <1>7, <3>1, <3>2 DEF Budget, Queries, Calls
  <2> QED  BY <2>1, <2>2 DEF Good
<1> QED  BY <1>1, <1>2, <1>6, <1>7, <1>8, QuietBecome

\* The ends without an answer: an empty candidate and a refusal.
LEMMA NoAnswerInv ==
    ASSUME AiAssumption, IInv, NEW h \in Handlers, AnswerNJKEmpty(h) \/ Reject(h)
    PROVE  IInv'
<1>1. PICK i : i = job[h]
  OBVIOUS
<1>2. /\ i \in Jobs /\ i.at \in Calls /\ UNCHANGED <<stored, pictured, lastAI, setBy>> /\ ~i.rejected
  BY <1>1, CallFacts DEF AnswerNJKEmpty, Reject
<1>3. PICK calls \in Nat, tries \in Nat : Used(i, calls, tries)
  BY <1>1, <1>2, CallFacts
<1>4. CASE AnswerNJKEmpty(h)
  <2>1. PICK next \in Nat : next = tries + 1 /\ calls <= 3 * next
    BY <1>3 DEF Used
  <2> DEFINE j == [i EXCEPT !.calls = calls, !.tries = next, !.repeats = FALSE, !.at = "silent"]
  <2>2. AiBecome(h, j) /\ i.kind = "njk"
    BY <1>1, <1>3, <1>4, <2>1 DEF AnswerNJKEmpty, Asked, Used
  <2>3. /\ j \in Jobs /\ j.at = "silent" /\ j.calls = calls /\ j.tries = next
        /\ j.kind = i.kind /\ j.after = i.after /\ j.rejected = i.rejected
    BY <1>2 DEF Jobs, AiPlaces
  <2> HIDE DEF j
  <2>4. Budget(j)
    BY <1>2, <2>1, <2>2, <2>3 DEF Budget, Queries, Calls
  <2> QED  BY <1>1, <1>2, <2>2, <2>3, <2>4, EndGood, QuietBecome
<1>5. CASE Reject(h)
  <2> DEFINE j == [i EXCEPT !.calls = calls, !.rejected = TRUE, !.at = "failed"]
  <2>1. AiBecome(h, j)
    BY <1>1, <1>3, <1>5 DEF Reject, Asked, Used
  <2>2. /\ j \in Jobs /\ j.at = "failed" /\ j.calls = calls /\ j.tries = i.tries
        /\ j.kind = i.kind /\ j.after = i.after
    BY <1>2 DEF Jobs, AiPlaces
  <2> HIDE DEF j
  <2>3. Budget(j)
    <3>1. tries = 0 => calls <= 3
      BY <1>3 DEF Used
    <3> QED  BY <1>3, <2>2, <3>1 DEF Budget, Queries, Calls, Used
  <2> QED  BY <1>1, <1>2, <2>1, <2>2, <2>3, EndGood, QuietBecome
<1> QED  BY <1>4, <1>5

LEMMA CallErrInv ==
    ASSUME AiAssumption, IInv, NEW h \in Handlers, CallErr(h)
    PROVE  IInv'
<1>1. PICK i : i = job[h]
  OBVIOUS
<1>2. /\ i \in Jobs /\ Good(i) /\ i.at \in Calls /\ UNCHANGED <<stored, pictured, lastAI, setBy>>
      /\ ~i.rejected /\ i.text # {}
  BY <1>1, CallFacts DEF CallErr
<1>3. PICK calls \in Nat, tries \in Nat : Used(i, calls, tries)
  BY <1>1, <1>2, CallFacts
<1>4. PICK place \in {"latest", "text", "failed"} :
          /\ place = CASE i.at = "all" -> "latest" [] i.at = "latest" -> "text" [] OTHER -> "failed"
          /\ place = "latest" => i.at = "all"
          /\ place = "text" => i.at = "latest"
  BY <1>2 DEF Calls
<1> DEFINE j == [i EXCEPT !.calls = calls, !.at = place]
<1>5. AiBecome(h, j)
  BY <1>1, <1>3, <1>4 DEF CallErr, Asked, Used
<1>6. /\ j \in Jobs /\ j.at = place /\ j.calls = calls /\ j.tries = i.tries
      /\ j.text = i.text /\ j.images = i.images /\ j.since = i.since /\ j.seen = i.seen
      /\ j.start = i.start /\ j.kind = i.kind /\ j.after = i.after /\ j.rejected = i.rejected
  BY <1>2, <1>4 DEF Jobs, AiPlaces, Calls
<1> HIDE DEF j
<1>7. Budget(j)
  <2>1. CASE place = "failed"
    <3>1. tries = 0 => calls <= 3
      BY <1>3 DEF Used
    <3> QED  BY <1>2, <1>3, <1>6, <2>1, <3>1 DEF Budget, Queries, Calls, Used
  <2>2. CASE place = "latest" \/ place = "text"
    <3>1. calls <= 3 * tries + Stage[place]
      BY <1>3, <1>4, <2>2 DEF Used, Stage
    <3> QED  BY <1>2, <1>3, <1>6, <2>2, <3>1 DEF Budget, Queries, Used
  <2> QED  BY <1>4, <2>1, <2>2
<1>8. Good(j)
  <2>1. CASE place = "failed"
    BY <1>6, <1>7, <2>1, EndGood
  <2>2. CASE place = "latest" \/ place = "text"
    <3>1. i.at \in {"all", "latest"} /\ i.images # {}
      BY <1>2, <1>4, <2>2 DEF Good, Shaped
    <3>2. Shaped(j) /\ TextFound(j)
      BY <1>2, <1>6, <2>2, <3>1 DEF Shaped, TextFound
    <3>3. AicSound(j)
      BY <1>2, <1>6, <2>2 DEF Good, AicSound, AfterText, Queries, Calls
    <3> QED  BY <1>7, <3>2, <3>3 DEF Good
  <2> QED  BY <1>4, <2>1, <2>2
<1>9. j.at # "answered"
  BY <1>4, <1>6
<1> QED  BY <1>1, <1>2, <1>5, <1>6, <1>8, <1>9, QuietBecome

LEMMA StepInv ==
    ASSUME AiAssumption, IInv, NEW h \in Handlers, AiStep(h)
    PROVE  IInv'
  BY QueriesInv, AnswerInv, AnswerNJKInv, NoAnswerInv, CallErrInv DEF AiStep, Complete

-----------------------------------------------------------------------------
(* The steps of others. *)

\* The tables grow.
LEMMA TablesInv ==
    ASSUME AiAssumption, IInv, NEW m \in Messages, MessageStored(m) \/ ImageStored(m)
    PROVE  IInv'
<1>1. /\ stored \subseteq stored' /\ stored' \subseteq Messages /\ UNCHANGED <<lastAI, setBy, job>>
      /\ pictured' \subseteq stored' /\ (stored' = stored \/ m \in stored' \ stored)
  BY DEF MessageStored, ImageStored, IInv, TablesOK
<1>2. \A i : Good(i) => Good(i)'
  <2> TAKE i
  <2> SUFFICES ASSUME Good(i) PROVE AicSound(i)'
    BY DEF Good, Shaped, TextFound, Budget
  <2>1. i.kind = "aic" /\ i.at \in AfterText => i.seen \subseteq stored' /\ (stored' = i.seen => stored' = stored)
    BY <1>1 DEF Good, AicSound
  <2> QED  BY <1>1, <2>1 DEF Good, AicSound, MessagesSince, AfterText
<1>3. JobsInv'
  <2>1. \A h \in Handlers : Good(job[h])'
    <3> TAKE h \in Handlers
    <3>1. PICK i : i = job[h] /\ i = job'[h]
      BY <1>1
    <3>2. Good(i)'
      BY <1>2, <3>1 DEF IInv, JobsInv
    <3> QED  BY <3>1, <3>2
  <2> QED  BY <1>1, <2>1 DEF IInv, JobsInv
<1>4. TablesOK' /\ AfterEnded' /\ AicContinuesTheLastAi'
  BY <1>1 DEF IInv, TablesOK, AfterEnded, Ended, AicContinuesTheLastAi
<1> QED  BY <1>3, <1>4 DEF IInv

\* A command begins; what has ended before it stays so.
LEMMA BeginInv ==
    ASSUME AiAssumption, IInv, NEW h \in Handlers, NEW n \in Counts, NEW kind \in Offers[h], Begin(h, kind, n)
    PROVE  IInv'
<1>1. PICK count \in Nat, place \in {"lastAI", "history"}, after \in SUBSET Handlers :
          /\ count = (IF kind = "njk" THEN n ELSE ParseAIHistoryCount(n))
          /\ place = IF kind = "aic" THEN "lastAI" ELSE "history"
          /\ after = IF kind = "ai" THEN {o \in Handlers : Ended(o)} ELSE {}
  BY DEF ParseAIHistoryCount, AiAssumption
<1> DEFINE j == [Idle EXCEPT !.kind = kind, !.count = count, !.at = place, !.after = after]
<1>2. AiBecome(h, j) /\ job[h].at = "new" /\ UNCHANGED <<stored, pictured, lastAI, setBy>>
  BY <1>1 DEF Begin
<1>3. kind \in AiKinds
  BY DEF AiAssumption, AiKinds
<1>4. 0 \in 0..Newest
  BY DEF AiAssumption
<1>5. /\ j \in Jobs /\ j.at = place /\ j.kind = kind /\ j.after = after /\ j.images = {}
      /\ j.calls = 0 /\ j.tries = 0 /\ ~j.rejected
  BY <1>3, <1>4 DEF Idle, Jobs, AiPlaces, Queries
<1> HIDE DEF j
<1>6. Good(j)
  <2>1. Shaped(j) /\ TextFound(j) /\ AicSound(j)
    BY <1>1, <1>5 DEF Shaped, TextFound, AicSound, AfterText, Calls
  <2>2. Budget(j)
    BY <1>1, <1>5 DEF Budget, Queries, Calls
  <2> QED  BY <2>1, <2>2 DEF Good
<1>7. lastAI \in 0..Newest /\ ~Ended(h)
  BY <1>2, JobFacts DEF Ended
<1>8. \A o \in j.after : Ended(o)
  BY <1>1, <1>5
<1>9. j.at # "answered"
  BY <1>5
<1> QED  BY <1>2, <1>6, <1>7, <1>8, <1>9, BecomeInv

\* With the process every running command fails.
LEMMA CrashInv == ASSUME AiAssumption, IInv, Crash PROVE IInv'
<1>1. /\ lastAI' = 0 /\ setBy' = None /\ UNCHANGED <<stored, pictured>>
      /\ job' = [h \in Handlers |-> IF Running(h) THEN [job[h] EXCEPT !.at = "failed"] ELSE job[h]]
  BY DEF Crash
<1>2. ASSUME NEW h \in Handlers
      PROVE  /\ Good(job'[h])
             /\ job'[h].after = job[h].after /\ (Ended(h) => Ended(h)')
  <2>1. PICK i : i = job[h] /\ Good(i) /\ i \in Jobs
    BY JobFacts
  <2>2. CASE Running(h)
    <3> DEFINE j == [i EXCEPT !.at = "failed"]
    <3>1. job'[h] = j
      BY <1>1, <2>1, <2>2
    <3>2. /\ j \in Jobs /\ j.at = "failed" /\ j.calls = i.calls /\ j.tries = i.tries
          /\ j.kind = i.kind /\ j.after = i.after
      BY <2>1 DEF Jobs, AiPlaces
    <3> HIDE DEF j
    <3>3. PICK calls \in Nat, tries \in Nat : calls = i.calls /\ tries = i.tries
      BY <2>1 DEF Jobs
    <3>4. calls <= 3 * tries + 3 /\ (i.kind # "njk" => tries = 0)
      <4>1. i.kind # "njk" => tries = 0
        BY <2>1, <3>3 DEF Good, Budget
      <4>2. CASE i.at \in Calls
        <5>1. calls + 1 <= 3 * tries + 3
          <6>1. PICK c \in Nat, t \in Nat : Used(i, c, t)
            BY <2>1, <4>2, CallFacts
          <6>2. c = calls + 1 /\ t = tries /\ c <= 3 * t + 3
            BY <3>3, <6>1 DEF Used
          <6> QED  BY <6>2
        <5> QED  BY <4>1, <5>1
      <4>3. CASE i.at \in Queries
        <5>1. calls = 0
          BY <2>1, <3>3, <4>3 DEF Good, Budget
        <5> QED  BY <4>1, <5>1
      <4> QED  BY <2>1, <2>2, <4>2, <4>3 DEF Running
    <3>5. Budget(j)
      <4>1. tries = 0 => calls <= 3
        BY <3>4
      <4> QED  BY <3>2, <3>3, <3>4, <4>1 DEF Budget, Queries, Calls
    <3>6. Good(j)
      BY <3>2, <3>5, EndGood
    <3>7. ~Ended(h)
      BY <2>1, <2>2, JobFacts DEF Running
    <3> QED  BY <2>1, <3>1, <3>2, <3>6, <3>7
  <2>3. CASE ~Running(h)
    BY <1>1, <2>1, <2>3 DEF Ended
  <2> QED  BY <2>2, <2>3
<1>3. \A i : Good(i) => Good(i)'
  BY <1>1 DEF Good, Shaped, TextFound, AicSound, Budget, MessagesSince
<1>4. JobsInv'
  <2>1. \A h \in Handlers : Good(job[h])'
    <3> TAKE h \in Handlers
    <3>1. PICK i : i = job'[h]
      OBVIOUS
    <3>2. Good(i)'
      BY <1>2, <1>3, <3>1
    <3> QED  BY <3>1, <3>2
  <2>2. job' = [h \in Handlers |-> job'[h]]
    BY <1>1
  <2> QED  BY <2>1, <2>2 DEF JobsInv
<1>5. \A h \in Handlers : job[h].after \subseteq Handlers
  BY JobFacts DEF Jobs
<1>6. AfterEnded'
  BY <1>2, <1>5 DEF IInv, AfterEnded
<1>7. AicContinuesTheLastAi' /\ TablesOK'
  <2>1. None \notin Handlers /\ 0 \in 0..Newest
    BY DEF AiAssumption
  <2> QED  BY <1>1, <1>2, <1>5, <2>1 DEF AicContinuesTheLastAi, IInv, TablesOK
<1> QED  BY <1>4, <1>6, <1>7 DEF IInv

LEMMA NextInv == ASSUME AiAssumption, IInv, [AiNext]_aiVars PROVE IInv'
<1>1. CASE UNCHANGED aiVars
  <2>1. UNCHANGED <<stored, pictured, lastAI, setBy, job>>
    BY <1>1 DEF aiVars
  <2> QED  BY <2>1 DEF IInv, TablesOK, JobsInv, Good, Shaped, TextFound, AicSound, Budget,
              MessagesSince, AfterEnded, Ended, AicContinuesTheLastAi
<1> QED  BY <1>1, TablesInv, BeginInv, StepInv, CrashInv DEF AiNext

\* What .aic may send along although it was read later than its text.
LEMMA PicturesMatch == IInv => AicPicturesMatch
<1> SUFFICES ASSUME IInv, NEW h \in Handlers, job[h].kind = "aic", job[h].at \in Calls
             PROVE  /\ job[h].images \cap job[h].seen \subseteq job[h].text
                    /\ stored = job[h].seen => job[h].since = job[h].text
  BY DEF AicPicturesMatch
<1>1. PICK i : i = job[h] /\ Good(i) /\ i.kind = "aic" /\ i.at \in Calls
  BY JobFacts
<1> QED  BY <1>1 DEF Good, AicSound, AfterText, Calls

LEMMA CandidatesBound == ASSUME AiAssumption, IInv PROVE RepeatsOnlyAfterAllTries
<1> SUFFICES ASSUME NEW h \in Handlers
             PROVE  /\ job[h].kind = "njk" /\ job[h].at = "answered" /\ job[h].repeats => job[h].tries = Tries
                    /\ job[h].calls <= 3 * Candidates(h)
  BY DEF RepeatsOnlyAfterAllTries
<1>1. PICK i : i = job[h] /\ Good(i) /\ i \in Jobs
  BY JobFacts
<1>2. i.kind = "njk" /\ i.at = "answered" /\ i.repeats => i.tries = Tries
  BY <1>1 DEF Good, Budget
<1>3. PICK calls \in Nat, tries \in Nat : calls = i.calls /\ tries = i.tries
  BY <1>1 DEF Jobs
<1>4. i.kind # "njk" => tries = 0
  BY <1>1, <1>3 DEF Good, Budget
<1>5. CASE i.at \in Calls
  <2>1. PICK c \in Nat, t \in Nat : Used(i, c, t)
    BY <1>1, <1>5, CallFacts
  <2>2. c = calls + 1 /\ t = tries /\ c <= 3 * t + 3
    BY <1>3, <2>1 DEF Used
  <2>3. calls <= 3 * (tries + 1) /\ (tries = 0 => calls <= 3 * 1)
    BY <2>2
  <2> QED  BY <1>1, <1>2, <1>3, <1>4, <1>5, <2>3 DEF Candidates, Calls
<1>6. CASE i.at \in Queries \cup {"new"}
  <2>1. calls = 0 /\ 0 <= 3 * (tries + 1)
    BY <1>1, <1>3, <1>6 DEF Good, Budget
  <2> QED  BY <1>1, <1>2, <1>3, <1>6, <2>1 DEF Candidates, Queries
<1>7. CASE i.at \in {"hinted", "failed"}
  <2>1. calls <= 3 * tries + 3
    BY <1>1, <1>3, <1>7 DEF Good, Budget
  <2>2. calls <= 3 * (tries + 1) /\ (tries = 0 => calls <= 3 * 1)
    BY <2>1
  <2> QED  BY <1>1, <1>2, <1>3, <1>4, <1>7, <2>2 DEF Candidates
<1>8. CASE i.at \in {"answered", "silent"}
  <2>1. (i.kind = "njk" => calls <= 3 * tries) /\ (i.kind # "njk" => calls <= 3 * 1)
    BY <1>1, <1>3, <1>8 DEF Good, Budget
  <2> QED  BY <1>1, <1>2, <1>3, <1>8, <2>1 DEF Candidates
<1> QED  BY <1>1, <1>5, <1>6, <1>7, <1>8 DEF Jobs, AiPlaces

-----------------------------------------------------------------------------
(* The theorems. *)

THEOREM Invariance == ASSUME AiAssumption PROVE AiSpec => []IInv
<1>1. AiInit => IInv
  BY InitInv
<1>2. IInv /\ [AiNext]_aiVars => IInv'
  BY NextInv
<1> QED  BY <1>1, <1>2, PTL DEF AiSpec

\* Every command has a record of its type, and images if it sends them.
THEOREM TypeCorrect == ASSUME AiAssumption PROVE AiSpec => []AiTypeOK
<1>1. IInv => AiTypeOK
  BY InvTypes
<1> QED  BY <1>1, Invariance, PTL

\* An image that .aic sends with its text is one of the text's messages, or came after it
\* was read; and when nothing came, images are looked for among just the text's messages.
THEOREM AicPicturesMatchAlways == ASSUME AiAssumption PROVE AiSpec => []AicPicturesMatch
<1>1. IInv => AicPicturesMatch
  BY PicturesMatch
<1> QED  BY <1>1, Invariance, PTL

\* However many .ai overlap, the group goes on from one that no other began after.
THEOREM AicContinuesTheLastAiAlways == ASSUME AiAssumption PROVE AiSpec => []AicContinuesTheLastAi
<1>1. IInv => AicContinuesTheLastAi
  BY DEF IInv
<1> QED  BY <1>1, Invariance, PTL

\* A repeated line is sent only when all tries gave one, and a candidate costs at most
\* three requests.
THEOREM RepeatsOnlyAfterAllTriesAlways ==
    ASSUME AiAssumption PROVE AiSpec => []RepeatsOnlyAfterAllTries
<1>1. IInv => RepeatsOnlyAfterAllTries
  BY CandidatesBound
<1> QED  BY <1>1, Invariance, PTL

\* Once the model has refused a content nothing more is sent for that command.
THEOREM RefusedIsNotRetriedAlways == ASSUME AiAssumption PROVE AiSpec => RefusedIsNotRetried
<1>1. IInv /\ [AiNext]_aiVars => [\A h \in Handlers : job[h].rejected => job'[h].calls = job[h].calls]_aiVars
  <2> SUFFICES ASSUME IInv, [AiNext]_aiVars, NEW h \in Handlers, job[h].rejected
               PROVE  job'[h].calls = job[h].calls
    OBVIOUS
  <2>1. job[h].at = "failed" /\ job = [o \in Handlers |-> job[o]]
    BY DEF IInv, JobsInv, Good, Budget
  <2>2. ASSUME NEW o \in Handlers, NEW j, AiBecome(o, j), o # h PROVE job'[h] = job[h]
    BY <2>1, <2>2 DEF AiBecome
  <2>3. ASSUME NEW o \in Handlers, AiStep(o) PROVE job'[h] = job[h]
    <3>1. job[o].at \in Queries \cup Calls /\ \E j : AiBecome(o, j)
      BY <2>3 DEF AiStep, Complete, QueryHistory, QueryImages, GetLastAI, QuerySince, QuerySinceAgain,
         QueryRecent, QueryImagesSince, QueryErr, Answer, AnswerNJK, AnswerNJKEmpty, Reject, CallErr, Queries
    <3>2. o # h
      BY <2>1, <3>1 DEF Queries, Calls
    <3> QED  BY <2>2, <3>1, <3>2
  <2>4. ASSUME NEW o \in Handlers, NEW n \in Counts, NEW kind \in Offers[o], Begin(o, kind, n)
        PROVE  job'[h] = job[h]
    <3>1. o # h /\ \E j : AiBecome(o, j)
      BY <2>1, <2>4 DEF Begin
    <3> QED  BY <2>2, <3>1
  <2>5. ASSUME Crash PROVE job'[h] = job[h]
    BY <2>1, <2>5 DEF Crash, Running, Queries, Calls
  <2> QED  BY <2>3, <2>4, <2>5 DEF AiNext, MessageStored, ImageStored, aiVars
<1> QED  BY <1>1, Invariance, PTL DEF AiSpec, RefusedIsNotRetried

=============================================================================
