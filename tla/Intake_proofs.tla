---------------------------- MODULE Intake_proofs ----------------------------
(* Machine-checked facts about Intake, for all constants: every invariant and the action     *)
(* property that its runs check.                                                              *)
EXTENDS Intake, TLAPS

-----------------------------------------------------------------------------
(* Types. *)

\* What an event holds, and that pictures are pairs of a message and a place in it.
LEMMA EventParts ==
    ASSUME event \in [Msgs -> Contents[overlap]], overlap \in BOOLEAN, NEW m \in Msgs
    PROVE  /\ event[m] \in Events
           /\ event[m].sender \in Users /\ event[m].at \subseteq Users
           /\ event[m].time \in Nat /\ event[m].own \in BOOLEAN
           /\ \E n \in Nat : ImagesOf(m) = 1..n
           /\ event[m].own => event[m].at = {} /\ ImagesOf(m) = {}
           /\ \A k \in ImagesOf(m) : HashOf(m, k) \in Hashes /\ <<m, k>> \in AllImages
<1>1. event[m] \in Contents[overlap] /\ Contents[overlap] \subseteq Events
  BY IntakeAssumption DEF IntakeAssumption
<1>2. event[m] \in Events
  BY <1>1
<1>3. event[m].images \in Seq(Images)
  BY <1>2 DEF Events
<1>4. event[m].own => event[m].at = {} /\ event[m].images = <<>>
  BY <1>1, IntakeAssumption DEF IntakeAssumption
<1>5. ASSUME NEW k \in ImagesOf(m)
      PROVE  HashOf(m, k) \in Hashes /\ <<m, k>> \in AllImages
  <2>1. event[m].images[k] \in Images
    BY <1>3 DEF ImagesOf
  <2> QED  BY <2>1 DEF HashOf, AllImages, Images
<1>6. \E n \in Nat : ImagesOf(m) = 1..n
  BY <1>3 DEF ImagesOf
<1>7. event[m].own => ImagesOf(m) = {}
  BY <1>4 DEF ImagesOf
<1> QED  BY <1>2, <1>4, <1>5, <1>6, <1>7 DEF Events

LEMMA ImageParts ==
    ASSUME NEW i \in AllImages
    PROVE  i[1] \in Msgs /\ i[2] \in ImagesOf(i[1]) /\ i = <<i[1], i[2]>>
BY DEF AllImages

\* The contents of events never change, and with them what depends on them.
LEMMA ContentsStay ==
    ASSUME UNCHANGED event
    PROVE  /\ AllImages' = AllImages
           /\ \A m : ImagesOf(m)' = ImagesOf(m)
           /\ \A m, k : HashOf(m, k)' = HashOf(m, k)
<1>1. \A m : ImagesOf(m)' = ImagesOf(m)
  BY DEF ImagesOf
<1>2. AllImages' = AllImages
  BY DEF AllImages, ImagesOf
<1> QED  BY <1>1, <1>2 DEF HashOf

LEMMA InitTypes == Init => TypeOK
<1> SUFFICES ASSUME Init PROVE TypeOK
  OBVIOUS
<1>1. users \subseteq Users
  BY IntakeAssumption DEF Init, IntakeAssumption
<1>2. report \in [AllImages -> Msgs \cup {None, Unchecked}]
  BY DEF Init
<1> QED  BY <1>1, <1>2 DEF Init, TypeOK, Steps

\* The steps that only move a goroutine.
Moves(m) ==
    \/ Start(m) \/ EnsureEmojiWhitelist(m) \/ SegmentsRead(m) \/ SaveMessageRefused(m)
    \/ (\E u \in Users : SaveAtUserRefused(m, u)) \/ MentionsSaved(m) \/ ImagesDone(m)

LEMMA MoveTypes ==
    ASSUME TypeOK, NEW m \in Msgs, Moves(m)
    PROVE  TypeOK'
<1>1. UNCHANGED <<fixed, atLeft, noticed, tables, report>>
  BY DEF Moves, Start, EnsureEmojiWhitelist, SegmentsRead, SaveMessageRefused,
         SaveAtUserRefused, MentionsSaved, ImagesDone, NextImage
<1>2. UNCHANGED event
  BY <1>1 DEF fixed
<1>3. /\ pc' \in [Msgs -> Steps] /\ idx' \in [Msgs -> Nat]
      /\ \A o \in Msgs : pc'[o] \in {"sticker", "listed", "similar"} => idx'[o] \in ImagesOf(o)
  BY DEF TypeOK, Steps, Moves, Start, EnsureEmojiWhitelist, SegmentsRead, SaveMessageRefused,
         SaveAtUserRefused, MentionsSaved, ImagesDone, NextImage, Goto
<1> QED  BY <1>1, <1>2, <1>3, ContentsStay DEF TypeOK, fixed, tables

LEMMA StoreTypes ==
    ASSUME TypeOK, NEW m \in Msgs,
           \/ UpsertUser(m) \/ AddWhitelistHash(m) \/ SaveMessage(m)
           \/ (\E u \in Users : SaveAtUser(m, u)) \/ SaveImage(m)
    PROVE  TypeOK'
<1> USE DEF TypeOK, Steps, Goto, NextImage, fixed
<1>0. UNCHANGED <<event, report>> => AllImages' = AllImages /\ \A o : ImagesOf(o)' = ImagesOf(o)
  BY ContentsStay
<1>1. CASE UpsertUser(m)
  <2>1. UNCHANGED event /\ users' \subseteq Users
    BY <1>1, EventParts DEF UpsertUser
  <2> QED  BY <1>0, <1>1, <2>1 DEF UpsertUser
<1>2. CASE AddWhitelistHash(m)
  <2>1. whitelist' \subseteq Hashes
    BY <1>2, EventParts DEF AddWhitelistHash
  <2> QED  BY <1>0, <1>2, <2>1 DEF AddWhitelistHash
<1>3. CASE SaveMessage(m)
  <2>1. message' \in [Msgs -> Rows \cup {None}] /\ atLeft' \in [Msgs -> SUBSET Users]
    BY <1>3, EventParts DEF SaveMessage, Rows
  <2> QED  BY <1>0, <1>3, <2>1 DEF SaveMessage
<1>4. CASE \E u \in Users : SaveAtUser(m, u)
  <2>1. PICK u \in Users : SaveAtUser(m, u)
    BY <1>4
  <2>2. atUser' \subseteq Msgs \X Users /\ atLeft' \in [Msgs -> SUBSET Users]
    BY <2>1 DEF SaveAtUser
  <2> QED  BY <1>0, <2>1, <2>2 DEF SaveAtUser
<1>5. CASE SaveImage(m)
  <2>1. images' \subseteq AllImages
    BY <1>5, EventParts DEF SaveImage
  <2> QED  BY <1>0, <1>5, <2>1 DEF SaveImage
<1> QED  BY <1>1, <1>2, <1>3, <1>4, <1>5

\* A report names the message of an image that is stored.
LEMMA SimilarImages ==
    ASSUME images \subseteq AllImages, NEW h, NEW left_out, NEW c \in Similar(h, left_out)
    PROVE  /\ c \in images /\ c[1] \in Msgs /\ c[1] \notin left_out
           /\ <<h, HashOf(c[1], c[2])>> \in Near
BY ImageParts DEF Similar

LEMMA CheckTypes ==
    ASSUME TypeOK, NEW m \in Msgs, IsHashWhitelisted(m) \/ GroupImageCandidates(m)
    PROVE  TypeOK'
<1>1. <<m, idx[m]>> \in AllImages
  BY EventParts DEF TypeOK, IsHashWhitelisted, GroupImageCandidates
<1>2. UNCHANGED <<fixed, atLeft, noticed, tables>>
  BY DEF IsHashWhitelisted, GroupImageCandidates
<1>3. report' \in [AllImages -> Msgs \cup {None, Unchecked}]
  <2>1. ASSUME NEW who \in Msgs \cup {None}, Answer(m, who)
        PROVE  report' \in [AllImages -> Msgs \cup {None, Unchecked}]
    BY <1>1, <2>1 DEF TypeOK, Answer
  <2>2. \A c \in Similar(HashOf(m, idx[m]), {m}) : c[1] \in Msgs
    BY SimilarImages DEF TypeOK
  <2>3. CASE IsHashWhitelisted(m)
    BY <2>1, <2>3 DEF TypeOK, IsHashWhitelisted
  <2>4. CASE GroupImageCandidates(m)
    BY <2>1, <2>2, <2>4 DEF GroupImageCandidates
  <2> QED  BY <2>3, <2>4
<1>4. /\ pc' \in [Msgs -> Steps] /\ idx' \in [Msgs -> Nat]
      /\ \A o \in Msgs : pc'[o] \in {"sticker", "listed", "similar"} => idx'[o] \in ImagesOf(o)
  BY DEF TypeOK, Steps, IsHashWhitelisted, GroupImageCandidates, Goto, NextImage
<1>5. UNCHANGED event
  BY <1>2 DEF fixed
<1> QED  BY <1>2, <1>3, <1>4, <1>5, ContentsStay DEF TypeOK, fixed, tables

LEMMA FaultTypes ==
    ASSUME TypeOK, NEW m \in Msgs, Fault(m)
    PROVE  TypeOK'
<1>1. UNCHANGED <<fixed, event, atLeft, noticed, message, atUser, images, whitelist, report>>
  BY DEF Fault, fixed
<1>2. users' \subseteq Users
  BY EventParts DEF TypeOK, Fault
<1>3. /\ pc' \in [Msgs -> Steps] /\ idx' \in [Msgs -> Nat]
      /\ \A o \in Msgs : pc'[o] \in {"sticker", "listed", "similar"} => idx'[o] \in ImagesOf(o)
  BY DEF TypeOK, Steps, Fault, Goto, NextImage
<1> QED  BY <1>1, <1>2, <1>3, ContentsStay DEF TypeOK, fixed

LEMMA NoticeTypes ==
    ASSUME TypeOK, NEW n \in Notices, NoticeStep(n)
    PROVE  TypeOK'
<1>1. UNCHANGED <<fixed, event, pc, idx, atLeft, atUser, images, whitelist, report>>
  BY DEF NoticeStep, EnsureNoticeMessage, EnsureNoticeMessageErr, SaveEmojiLike, fixed, tables
<1>2. n.msg \in Msgs /\ n.user \in Users
  BY IntakeAssumption DEF IntakeAssumption
<1>3. users' \subseteq Users /\ message' \in [Msgs -> Rows \cup {None}]
  BY <1>2 DEF TypeOK, NoticeStep, EnsureNoticeMessage, EnsureNoticeMessageErr, SaveEmojiLike,
              tables, Rows
<1>4. noticed' \in [Notices -> {"new", "like", "done"}]
  BY DEF TypeOK, NoticeStep, EnsureNoticeMessage, EnsureNoticeMessageErr, SaveEmojiLike
<1> QED  BY <1>1, <1>3, <1>4, ContentsStay DEF TypeOK, fixed

\* Every step is one of these.
LEMMA StepCases ==
    ASSUME NEW m \in Msgs, MessageStep(m)
    PROVE  \/ Moves(m)
           \/ UpsertUser(m) \/ AddWhitelistHash(m) \/ SaveMessage(m)
           \/ (\E u \in Users : SaveAtUser(m, u)) \/ SaveImage(m)
           \/ IsHashWhitelisted(m) \/ GroupImageCandidates(m) \/ Fault(m)
BY DEF MessageStep, Moves

LEMMA TypeStep == TypeOK /\ [Next]_vars => TypeOK'
<1> SUFFICES ASSUME TypeOK, [Next]_vars PROVE TypeOK'
  OBVIOUS
<1>1. ASSUME NEW m \in Msgs, MessageStep(m) PROVE TypeOK'
  BY <1>1, StepCases, MoveTypes, StoreTypes, CheckTypes, FaultTypes
<1>2. ASSUME NEW n \in Notices, NoticeStep(n) PROVE TypeOK'
  BY <1>2, NoticeTypes
<1>3. CASE UNCHANGED vars
  <2>1. UNCHANGED event
    BY <1>3 DEF vars, fixed
  <2> QED  BY <1>3, <2>1, ContentsStay DEF TypeOK, vars, fixed, tables
<1> QED  BY <1>1, <1>2, <1>3 DEF Next

\* Rows, mentions, images and answers are of the kinds the tables hold, and a goroutine at an
\* image is at one of its own message's.
THEOREM TypeCorrect == Spec => []TypeOK
<1> QED  BY InitTypes, TypeStep, PTL DEF Spec

-----------------------------------------------------------------------------
(* What a step may do to the tables. *)

TablesGrow ==
    /\ users \subseteq users' /\ whitelist \subseteq whitelist'
    /\ atUser \subseteq atUser' /\ images \subseteq images'
    /\ \A o \in Msgs : message[o] # None => message'[o] = message[o]

\* The goroutine of another message is where it was.
Undisturbed(o) == pc'[o] = pc[o] /\ idx'[o] = idx[o] /\ atLeft'[o] = atLeft[o]

\* A goroutine adds mentions and images of its own message only, and when it is at them.
LEMMA MessageEffect ==
    ASSUME TypeOK, NEW m \in Msgs, MessageStep(m)
    PROVE  /\ TablesGrow /\ UNCHANGED <<event, overlap>>
           /\ \A o \in Msgs \ {m} : Undisturbed(o)
           /\ atUser' # atUser => pc[m] = "at" /\ \E u \in Users : atUser' = atUser \cup {<<m, u>>}
           /\ images' # images => /\ pc[m] = "image" /\ images' = images \cup {<<m, idx[m]>>}
                                  /\ pc'[m] = "listed" /\ idx'[m] = idx[m]
           /\ whitelist' # whitelist => pc[m] = "sticker"
           /\ report' # report => IsHashWhitelisted(m) \/ GroupImageCandidates(m)
<1> USE DEF TypeOK, TablesGrow, Undisturbed, Goto, NextImage, fixed, tables
<1>1. CASE Moves(m)
  BY <1>1 DEF Moves, Start, EnsureEmojiWhitelist, SegmentsRead, SaveMessageRefused,
              SaveAtUserRefused, MentionsSaved, ImagesDone
<1>2. CASE UpsertUser(m)
  BY <1>2 DEF UpsertUser
<1>3. CASE AddWhitelistHash(m)
  BY <1>3 DEF AddWhitelistHash
<1>4. CASE SaveMessage(m)
  BY <1>4 DEF SaveMessage
<1>5. CASE \E u \in Users : SaveAtUser(m, u)
  BY <1>5 DEF SaveAtUser
<1>6. CASE SaveImage(m)
  BY <1>6 DEF SaveImage
<1>7. CASE IsHashWhitelisted(m)
  BY <1>7 DEF IsHashWhitelisted
<1>8. CASE GroupImageCandidates(m)
  BY <1>8 DEF GroupImageCandidates
<1>9. CASE Fault(m)
  BY <1>9 DEF Fault
<1> QED  BY <1>1, <1>2, <1>3, <1>4, <1>5, <1>6, <1>7, <1>8, <1>9, StepCases

LEMMA NoticeEffect ==
    ASSUME TypeOK, NEW n \in Notices, NoticeStep(n)
    PROVE  /\ TablesGrow
           /\ UNCHANGED <<event, overlap>> /\ UNCHANGED <<pc, idx, atLeft>>
           /\ UNCHANGED <<atUser, images, whitelist, report>>
           /\ \A o \in Msgs : message'[o] = message[o]
                              \/ (message'[o] # None /\ message'[o].by = "notice")
<1>1. n.msg \in Msgs
  BY IntakeAssumption DEF IntakeAssumption
<1>2. [by |-> "notice", sender |-> n.user] # None
  BY IntakeAssumption DEF IntakeAssumption
<1>3. CASE EnsureNoticeMessage(n)
  <2> DEFINE row == [by |-> "notice", sender |-> n.user]
  <2>1. message' = [message EXCEPT ![n.msg] = IF @ = None THEN row ELSE @]
    BY <1>3 DEF EnsureNoticeMessage
  <2>2. row.by = "notice" /\ row # None
    BY <1>2
  <2> HIDE DEF row
  <2>3. \A o \in Msgs : message'[o] = message[o] \/ (message[o] = None /\ message'[o] = row)
    BY <2>1 DEF TypeOK
  <2>4. /\ users \subseteq users'
        /\ UNCHANGED <<event, overlap>> /\ UNCHANGED <<pc, idx, atLeft>>
        /\ UNCHANGED <<atUser, images, whitelist, report>>
    BY <1>3 DEF EnsureNoticeMessage, fixed
  <2> QED  BY <2>2, <2>3, <2>4 DEF TablesGrow
<1>4. CASE EnsureNoticeMessageErr(n) \/ SaveEmojiLike(n)
  BY <1>4 DEF EnsureNoticeMessageErr, SaveEmojiLike, TablesGrow, fixed, tables
<1> QED  BY <1>3, <1>4 DEF NoticeStep

LEMMA RowsStep == TypeOK /\ [Next]_vars =>
                     [\A m \in Msgs : message[m] # None => message'[m] = message[m]]_message
BY MessageEffect, NoticeEffect DEF Next, TablesGrow, vars, tables

\* A row of the message table is never replaced, whoever comes second.
THEOREM RowsStay == Spec => RowsNeverChange
<1> QED  BY TypeCorrect, RowsStep, PTL DEF Spec, RowsNeverChange

-----------------------------------------------------------------------------
(* Mentions and images. *)

Storing == {"at", "image", "listed", "similar"}

\* Past the INSERT the row is the message's own; past the mentions all of them are stored.
PlaceOK(m) ==
    /\ pc[m] \in Storing => message[m] # None /\ message[m].by = "event"
    /\ pc[m] = "at" => \A u \in event[m].at \ atLeft[m] : <<m, u>> \in atUser
    /\ pc[m] \in Storing \ {"at"} => \A u \in event[m].at : <<m, u>> \in atUser
OrderInv == StoredInOrder /\ \A m \in Msgs : PlaceOK(m)

LEMMA InitOrder == Init => OrderInv
BY DEF Init, OrderInv, StoredInOrder, PlaceOK, Storing

\* The goroutine that takes the step keeps its own place.
LEMMA PlaceStep ==
    ASSUME TypeOK, OrderInv, NEW m \in Msgs, MessageStep(m)
    PROVE  PlaceOK(m)'
<1>0. TablesGrow /\ event' = event
  BY MessageEffect
<1> USE <1>0 DEF TypeOK, OrderInv, PlaceOK, TablesGrow, Storing, Goto, NextImage, tables
<1>1. CASE Moves(m)
  BY <1>1 DEF Moves, Start, EnsureEmojiWhitelist, SegmentsRead, SaveMessageRefused,
              SaveAtUserRefused, MentionsSaved, ImagesDone
<1>2. CASE UpsertUser(m)
  BY <1>2 DEF UpsertUser
<1>3. CASE AddWhitelistHash(m)
  BY <1>3 DEF AddWhitelistHash
<1>4. CASE SaveMessage(m)
  <2>1. CASE event[m].own
    BY <1>4, <2>1 DEF SaveMessage
  <2>2. CASE ~event[m].own
    <3>1. [by |-> "event", sender |-> event[m].sender] # None
      BY EventParts, IntakeAssumption DEF IntakeAssumption
    <3>2. message'[m] = [by |-> "event", sender |-> event[m].sender]
      BY <1>4, <2>2 DEF SaveMessage
    <3> QED  BY <1>4, <2>2, <3>1, <3>2 DEF SaveMessage
  <2> QED  BY <2>1, <2>2
<1>5. CASE \E u \in Users : SaveAtUser(m, u)
  BY <1>5 DEF SaveAtUser
<1>6. CASE SaveImage(m)
  BY <1>6 DEF SaveImage
<1>7. CASE IsHashWhitelisted(m)
  BY <1>7 DEF IsHashWhitelisted
<1>8. CASE GroupImageCandidates(m)
  BY <1>8 DEF GroupImageCandidates
<1>9. CASE Fault(m)
  BY <1>9 DEF Fault
<1> QED  BY <1>1, <1>2, <1>3, <1>4, <1>5, <1>6, <1>7, <1>8, <1>9, StepCases

LEMMA OrderStep == TypeOK /\ OrderInv /\ [Next]_vars => OrderInv'
<1> SUFFICES ASSUME TypeOK, OrderInv, [Next]_vars PROVE OrderInv'
  OBVIOUS
<1> USE DEF OrderInv, StoredInOrder
<1>1. ASSUME NEW m \in Msgs, MessageStep(m) PROVE OrderInv'
  <2>1. TablesGrow /\ event' = event /\ (\A o \in Msgs \ {m} : Undisturbed(o))
    BY <1>1, MessageEffect
  <2>2. ASSUME NEW o \in Msgs PROVE PlaceOK(o)'
    <3>1. CASE o = m
      BY <1>1, <3>1, PlaceStep
    <3>2. CASE o # m
      BY <2>1, <3>2 DEF PlaceOK, TablesGrow, Undisturbed
    <3> QED  BY <3>1, <3>2
  <2>3. ASSUME NEW a \in atUser' PROVE message'[a[1]] # None /\ message'[a[1]].by = "event"
    <3>1. CASE a \in atUser
      BY <2>1, <3>1 DEF TablesGrow, TypeOK
    <3>2. CASE a \notin atUser
      <4>1. a[1] = m /\ pc[m] = "at"
        BY <1>1, <3>2, MessageEffect
      <4> QED  BY <2>1, <4>1 DEF PlaceOK, Storing, TablesGrow
    <3> QED  BY <3>1, <3>2
  <2>4. ASSUME NEW i \in images'
        PROVE  /\ message'[i[1]] # None /\ message'[i[1]].by = "event"
               /\ \A u \in event'[i[1]].at : <<i[1], u>> \in atUser'
    <3>1. CASE i \in images
      <4>1. i[1] \in Msgs
        BY <3>1, ImageParts DEF TypeOK
      <4> QED  BY <2>1, <3>1, <4>1 DEF TablesGrow
    <3>2. CASE i \notin images
      <4>1. i[1] = m /\ pc[m] = "image"
        BY <1>1, <3>2, MessageEffect
      <4> QED  BY <2>1, <4>1 DEF PlaceOK, Storing, TablesGrow
    <3> QED  BY <3>1, <3>2
  <2> QED  BY <2>2, <2>3, <2>4
<1>2. ASSUME NEW n \in Notices, NoticeStep(n) PROVE OrderInv'
  <2>1. TablesGrow /\ UNCHANGED <<event, pc, atLeft, atUser, images>>
    BY <1>2, NoticeEffect
  <2>2. \A i \in images : i[1] \in Msgs
    BY ImageParts DEF TypeOK
  <2> QED  BY <2>1, <2>2 DEF TablesGrow, PlaceOK, TypeOK
<1>3. CASE UNCHANGED vars
  BY <1>3 DEF vars, tables, fixed, PlaceOK
<1> QED  BY <1>1, <1>2, <1>3 DEF Next

LEMMA OrderAlways == Spec => [](TypeOK /\ OrderInv)
<1> QED  BY InitOrder, OrderStep, InitTypes, TypeStep, PTL DEF Spec

\* A message is stored as a prefix of row, mentions and images, and nothing hangs on
\* a placeholder.
THEOREM StoredInOrderAlways == Spec => []StoredInOrder
<1> QED  BY OrderAlways, PTL DEF OrderInv

-----------------------------------------------------------------------------
(* Reports. *)

\* An image is stored before it is checked, and what is stored or checked belongs to a message
\* that has come so far.
Early == {"new", "user", "emoji", "sticker", "message"}
ChecksOK ==
    /\ \A m \in Msgs : pc[m] \in {"listed", "similar"} => <<m, idx[m]>> \in images
    /\ \A i \in AllImages : Checked(i) => i \in images
    /\ \A i \in images : pc[i[1]] \notin Early
ReportsInv == ChecksOK /\ ReportsAreGenuine /\ SomeoneReports

LEMMA InitReports == Init => ReportsInv
<1> SUFFICES ASSUME Init PROVE ReportsInv
  OBVIOUS
<1>1. \A i \in AllImages : report[i] = Unchecked
  BY DEF Init
<1> QED  BY <1>1 DEF Init, ReportsInv, ChecksOK, ReportsAreGenuine, SomeoneReports, Checked

\* What an answer can be: the hash is in the whitelist, or nothing alike is stored, or the first
\* of those that are.
LEMMA Answers ==
    ASSUME TypeOK, NEW m \in Msgs, IsHashWhitelisted(m) \/ GroupImageCandidates(m),
           report' # report
    PROVE  /\ pc[m] \in {"listed", "similar"} /\ <<m, idx[m]>> \in AllImages
           /\ report' \in [AllImages -> Msgs \cup {None, Unchecked}]
           /\ \A i \in AllImages \ {<<m, idx[m]>>} : report'[i] = report[i]
           /\ \/ /\ report'[<<m, idx[m]>>] = None /\ HashOf(m, idx[m]) \in whitelist
              \/ /\ report'[<<m, idx[m]>>] = None /\ Similar(HashOf(m, idx[m]), {m}) = {}
              \/ \E c \in Similar(HashOf(m, idx[m]), {m}) :
                     /\ report'[<<m, idx[m]>>] = c[1]
                     /\ \A d \in Similar(HashOf(m, idx[m]), {m}) :
                            event[c[1]].time <= event[d[1]].time
<1>1. pc[m] \in {"listed", "similar"} /\ <<m, idx[m]>> \in AllImages
  BY EventParts DEF TypeOK, IsHashWhitelisted, GroupImageCandidates
<1>2. report' \in [AllImages -> Msgs \cup {None, Unchecked}]
  BY CheckTypes, ContentsStay DEF TypeOK, IsHashWhitelisted, GroupImageCandidates, fixed
<1>3. ASSUME NEW who, Answer(m, who)
      PROVE  /\ report'[<<m, idx[m]>>] = who
             /\ \A i \in AllImages \ {<<m, idx[m]>>} : report'[i] = report[i]
  BY <1>1, <1>3 DEF TypeOK, Answer
<1>4. CASE IsHashWhitelisted(m)
  <2>1. HashOf(m, idx[m]) \in whitelist /\ Answer(m, None)
    BY <1>4 DEF IsHashWhitelisted
  <2> QED  BY <1>1, <1>2, <1>3, <2>1
<1>5. CASE GroupImageCandidates(m)
  <2> DEFINE near == Similar(HashOf(m, idx[m]), {m})
  <2>1. CASE near = {}
    <3>1. Answer(m, None)
      BY <1>5, <2>1 DEF GroupImageCandidates
    <3> QED  BY <1>1, <1>2, <1>3, <2>1, <3>1
  <2>2. CASE near # {}
    <3>1. PICK e \in {c[1] : c \in near} :
              /\ \A f \in {c[1] : c \in near} : event[e].time <= event[f].time
              /\ Answer(m, e)
      BY <1>5, <2>2 DEF GroupImageCandidates
    <3>2. PICK c \in near : c[1] = e
      OBVIOUS
    <3> HIDE DEF near
    <3>3. \A d \in near : event[c[1]].time <= event[d[1]].time
      BY <3>1, <3>2
    <3>4. report'[<<m, idx[m]>>] = c[1]
      BY <1>3, <3>1, <3>2
    <3>5. \A i \in AllImages \ {<<m, idx[m]>>} : report'[i] = report[i]
      BY <1>3, <3>1
    <3> QED  BY <1>1, <1>2, <3>3, <3>4, <3>5 DEF near
  <2> QED  BY <2>1, <2>2
<1> QED  BY <1>4, <1>5

LEMMA CheckPlaces ==
    ASSUME TypeOK, ChecksOK, NEW m \in Msgs, MessageStep(m)
    PROVE  ChecksOK'
<1>1. /\ TablesGrow /\ event' = event /\ (\A o \in Msgs \ {m} : Undisturbed(o))
      /\ AllImages' = AllImages
  BY MessageEffect, ContentsStay
<1>2. pc'[m] \in {"listed", "similar"} => <<m, idx'[m]>> \in images'
  BY <1>1 DEF TypeOK, ChecksOK, TablesGrow, MessageStep, Start, UpsertUser, EnsureEmojiWhitelist,
         AddWhitelistHash, SegmentsRead, SaveMessage, SaveMessageRefused, SaveAtUser,
         SaveAtUserRefused, MentionsSaved, SaveImage, IsHashWhitelisted, GroupImageCandidates,
         ImagesDone, Fault, Goto, NextImage, tables
<1>3. \A o \in Msgs : pc'[o] \in {"listed", "similar"} => <<o, idx'[o]>> \in images'
  BY <1>1, <1>2 DEF ChecksOK, TablesGrow, Undisturbed
<1>4. ASSUME NEW i \in AllImages, report'[i] # Unchecked PROVE i \in images'
  <2>1. CASE report'[i] = report[i]
    BY <1>1, <1>4, <2>1 DEF ChecksOK, Checked, TablesGrow
  <2>2. CASE report'[i] # report[i]
    <3>1. IsHashWhitelisted(m) \/ GroupImageCandidates(m)
      BY <2>2, MessageEffect
    <3>2. i = <<m, idx[m]>> /\ pc[m] \in {"listed", "similar"}
      BY <2>2, <3>1, Answers
    <3> QED  BY <1>1, <3>2 DEF ChecksOK, TablesGrow
  <2> QED  BY <2>1, <2>2
<1>5. pc'[m] \in Early => pc[m] \in Early
  BY DEF TypeOK, Early, MessageStep, Start, UpsertUser, EnsureEmojiWhitelist,
         AddWhitelistHash, SegmentsRead, SaveMessage, SaveMessageRefused, SaveAtUser,
         SaveAtUserRefused, MentionsSaved, SaveImage, IsHashWhitelisted, GroupImageCandidates,
         ImagesDone, Fault, Goto, NextImage
<1>6. ASSUME NEW i \in images' PROVE pc'[i[1]] \notin Early
  <2>1. CASE i \in images
    <3>1. i[1] \in Msgs /\ pc[i[1]] \notin Early
      BY <2>1, ImageParts DEF TypeOK, ChecksOK
    <3> QED  BY <1>1, <1>5, <3>1 DEF Undisturbed
  <2>2. CASE i \notin images
    <3>1. i[1] = m /\ pc'[m] = "listed"
      BY <2>2, MessageEffect
    <3> QED  BY <3>1 DEF Early
  <2> QED  BY <2>1, <2>2
<1> QED  BY <1>1, <1>3, <1>4, <1>6 DEF ChecksOK, Checked

LEMMA GenuineStep ==
    ASSUME TypeOK, ReportsInv, NEW m \in Msgs, MessageStep(m)
    PROVE  ReportsAreGenuine'
<1>1. /\ TablesGrow /\ event' = event /\ AllImages' = AllImages
      /\ \A o, k : HashOf(o, k)' = HashOf(o, k)
  BY MessageEffect, ContentsStay
<1>2. ASSUME NEW i \in AllImages, report'[i] \notin {None, Unchecked}
      PROVE  /\ report'[i] # i[1]
             /\ \E k \in images' : /\ k[1] = report'[i]
                                   /\ <<HashOf(i[1], i[2]), HashOf(k[1], k[2])>> \in Near
  <2>1. CASE report'[i] = report[i]
    BY <1>1, <1>2, <2>1 DEF ReportsInv, ReportsAreGenuine, TablesGrow
  <2>2. CASE report'[i] # report[i]
    <3>1. i = <<m, idx[m]>> /\ \E c \in Similar(HashOf(m, idx[m]), {m}) : report'[i] = c[1]
      BY <1>2, <2>2, MessageEffect, Answers
    <3>2. PICK c \in Similar(HashOf(m, idx[m]), {m}) : report'[i] = c[1]
      BY <3>1
    <3>3. c \in images /\ c[1] # m /\ <<HashOf(m, idx[m]), HashOf(c[1], c[2])>> \in Near
      BY SimilarImages DEF TypeOK
    <3> QED  BY <1>1, <3>1, <3>2, <3>3 DEF TablesGrow
  <2> QED  BY <2>1, <2>2
<1> QED  BY <1>1, <1>2 DEF ReportsAreGenuine

\* Of two images that are alike, the one that is answered second is answered with a message,
\* for the first is stored by then.
LEMMA SomeoneStep ==
    ASSUME TypeOK, ReportsInv, NEW m \in Msgs, MessageStep(m)
    PROVE  SomeoneReports'
<1>1. /\ TablesGrow /\ event' = event /\ AllImages' = AllImages
      /\ \A o, k : HashOf(o, k)' = HashOf(o, k)
  BY MessageEffect, ContentsStay
<1> DEFINE Alike(i, k) == <<HashOf(i[1], i[2]), HashOf(k[1], k[2])>> \in Near
<1>2. \A i, k \in AllImages : Alike(i, k) => Alike(k, i)
  BY IntakeAssumption DEF IntakeAssumption
<1>3. CASE report' = report
  BY <1>1, <1>3 DEF ReportsInv, SomeoneReports, TablesGrow, Checked
<1>4. CASE report' # report
  <2> DEFINE this == <<m, idx[m]>>
  <2>1. /\ this \in AllImages /\ (\A i \in AllImages \ {this} : report'[i] = report[i])
        /\ \/ HashOf(m, idx[m]) \in whitelist
           \/ Similar(HashOf(m, idx[m]), {m}) = {}
           \/ report'[this] \in Msgs
    <3>1. IsHashWhitelisted(m) \/ GroupImageCandidates(m)
      BY <1>4, MessageEffect
    <3>2. \A c \in Similar(HashOf(m, idx[m]), {m}) : c[1] \in Msgs
      BY SimilarImages DEF TypeOK
    <3> QED  BY <1>4, <3>1, <3>2, Answers
  <2>2. ASSUME NEW k \in AllImages, k[1] # m, Alike(this, k), report'[k] # Unchecked,
               HashOf(m, idx[m]) \notin whitelist'
        PROVE  report'[this] # None
    <3>1. k # this
      BY <2>2
    <3>2. k \in images
      BY <2>1, <2>2, <3>1 DEF ReportsInv, ChecksOK, Checked
    <3>3. k \in Similar(HashOf(m, idx[m]), {m})
      BY <2>2, <3>2 DEF Similar
    <3> QED  BY <1>1, <2>1, <2>2, <3>3, IntakeAssumption DEF TablesGrow, IntakeAssumption
  <2>3. ASSUME NEW i \in AllImages, NEW k \in AllImages, i[1] # k[1],
               report'[i] # Unchecked, report'[k] # Unchecked, Alike(i, k),
               {HashOf(i[1], i[2]), HashOf(k[1], k[2])} \cap whitelist' = {}
        PROVE  report'[i] # None \/ report'[k] # None
    <3>1. CASE i = this
      BY <2>2, <2>3, <3>1
    <3>2. CASE k = this
      BY <1>2, <2>2, <2>3, <3>2
    <3>3. CASE i # this /\ k # this
      BY <1>1, <2>1, <2>3, <3>3 DEF ReportsInv, SomeoneReports, TablesGrow, Checked
    <3> QED  BY <3>1, <3>2, <3>3
  <2> QED  BY <1>1, <2>3 DEF SomeoneReports, Checked
<1> QED  BY <1>3, <1>4

LEMMA ReportsStep == TypeOK /\ ReportsInv /\ [Next]_vars => ReportsInv'
<1> SUFFICES ASSUME TypeOK, ReportsInv, [Next]_vars PROVE ReportsInv'
  OBVIOUS
<1>1. ASSUME NEW m \in Msgs, MessageStep(m) PROVE ReportsInv'
  BY <1>1, CheckPlaces, GenuineStep, SomeoneStep DEF ReportsInv
<1>2. ASSUME UNCHANGED <<event, pc, idx, images, whitelist, report>> PROVE ReportsInv'
  <2>1. AllImages' = AllImages /\ \A o, k : HashOf(o, k)' = HashOf(o, k)
    BY <1>2, ContentsStay
  <2> QED  BY <1>2, <2>1 DEF ReportsInv, ChecksOK, ReportsAreGenuine, SomeoneReports, Checked
<1>3. ASSUME NEW n \in Notices, NoticeStep(n) PROVE ReportsInv'
  BY <1>2, <1>3, NoticeEffect
<1>4. CASE UNCHANGED vars
  BY <1>2, <1>4 DEF vars, fixed, tables
<1> QED  BY <1>1, <1>3, <1>4 DEF Next

LEMMA ReportsAlways == Spec => [](TypeOK /\ ReportsInv)
<1> QED  BY InitReports, ReportsStep, InitTypes, TypeStep, PTL DEF Spec

\* A report names another message, and one that shows a picture like it.
THEOREM ReportsAreGenuineAlways == Spec => []ReportsAreGenuine
<1> QED  BY ReportsAlways, PTL DEF ReportsInv

\* Of two messages with pictures alike one is reported, in whatever order they are handled.
THEOREM SomeoneReportsAlways == Spec => []SomeoneReports
<1> QED  BY ReportsAlways, PTL DEF ReportsInv

-----------------------------------------------------------------------------
(* Giving up. *)

\* Before the INSERT the place of the row is free or a notice's; the sender is in the table as soon
\* as the upserts are done; a mention is left until it is stored.
StartOK(m) ==
    /\ pc[m] \in Early => message[m] = None \/ message[m].by = "notice"
    /\ pc[m] \notin {"new", "user"} => event[m].sender \in users
    /\ pc[m] = "at" => /\ atLeft[m] \subseteq event[m].at
                       /\ \A u \in atLeft[m] : <<m, u>> \notin atUser
    /\ pc[m] \in Early => \A u \in Users : <<m, u>> \notin atUser
GivesUpInv == ~Faults => /\ Known \subseteq users
                         /\ \A m \in Msgs : StartOK(m)
                         /\ GivesUpOnlyWhen

LEMMA InitGivesUp == Init => GivesUpInv
BY DEF Init, GivesUpInv, GivesUpOnlyWhen, StartOK, Early

\* The goroutine that takes the step.
LEMMA StartStep ==
    ASSUME TypeOK, GivesUpInv, ~Faults, NEW m \in Msgs, MessageStep(m)
    PROVE  /\ StartOK(m)'
           /\ pc'[m] = "failed" => \/ message'[m] # None /\ message'[m].by = "notice"
                                   \/ \E u \in event'[m].at \ Known : <<m, u>> \notin atUser'
<1>0. TablesGrow /\ event' = event /\ event[m].at \subseteq Users
  BY MessageEffect, EventParts DEF TypeOK
<1>1. pc[m] \notin {"failed", "done"} /\ StartOK(m) /\ Known \subseteq users
  BY DEF MessageStep, Start, UpsertUser, EnsureEmojiWhitelist,
         AddWhitelistHash, SegmentsRead, SaveMessage, SaveMessageRefused, SaveAtUser,
         SaveAtUserRefused, MentionsSaved, SaveImage, IsHashWhitelisted, GroupImageCandidates,
         ImagesDone, Fault, GivesUpInv
<1> USE <1>0, <1>1 DEF TypeOK, StartOK, TablesGrow, Early, Goto, NextImage, tables
<1>2. CASE Start(m) \/ EnsureEmojiWhitelist(m) \/ SegmentsRead(m)
  BY <1>2 DEF Start, EnsureEmojiWhitelist, SegmentsRead
<1>3. CASE SaveMessageRefused(m)
  BY <1>3 DEF SaveMessageRefused
<1>4. CASE \E u \in Users : SaveAtUserRefused(m, u)
  <2>1. PICK u \in Users : SaveAtUserRefused(m, u)
    BY <1>4
  <2>2. u \in event[m].at \ Known /\ <<m, u>> \notin atUser
    BY <2>1 DEF SaveAtUserRefused
  <2> QED  BY <2>1, <2>2 DEF SaveAtUserRefused
<1>5. CASE MentionsSaved(m) \/ ImagesDone(m)
  BY <1>5 DEF MentionsSaved, ImagesDone
<1>6. CASE UpsertUser(m)
  BY <1>6 DEF UpsertUser
<1>7. CASE AddWhitelistHash(m)
  BY <1>7 DEF AddWhitelistHash
<1>8. CASE SaveMessage(m)
  BY <1>8 DEF SaveMessage
<1>9. CASE \E u \in Users : SaveAtUser(m, u)
  BY <1>9 DEF SaveAtUser
<1>10. CASE SaveImage(m)
  BY <1>10 DEF SaveImage
<1>11. CASE IsHashWhitelisted(m) \/ GroupImageCandidates(m)
  BY <1>11 DEF IsHashWhitelisted, GroupImageCandidates
<1>12. ~Fault(m)
  BY DEF Fault
<1> QED  BY <1>2, <1>3, <1>4, <1>5, <1>6, <1>7, <1>8, <1>9, <1>10, <1>11, <1>12, StepCases
         DEF Moves

\* Everybody else's affairs are as they were, but that a notice may have come first.
LEMMA StartStays ==
    ASSUME TypeOK, GivesUpInv, ~Faults, NEW o \in Msgs, TablesGrow, UNCHANGED event, Undisturbed(o),
           message'[o] = message[o] \/ (message'[o] # None /\ message'[o].by = "notice"),
           \A u \in Users : <<o, u>> \in atUser' => <<o, u>> \in atUser
    PROVE  /\ StartOK(o)'
           /\ pc'[o] = "failed" => \/ message'[o] # None /\ message'[o].by = "notice"
                                   \/ \E u \in event'[o].at \ Known : <<o, u>> \notin atUser'
<1>1. /\ StartOK(o) /\ event[o].at \subseteq Users
      /\ pc[o] = "failed" => \/ message[o] # None /\ message[o].by = "notice"
                             \/ \E u \in event[o].at \ Known : <<o, u>> \notin atUser
  BY EventParts DEF GivesUpInv, GivesUpOnlyWhen, TypeOK
<1> QED  BY <1>1 DEF StartOK, TablesGrow, Undisturbed, TypeOK

LEMMA GivesUpStep == TypeOK /\ GivesUpInv /\ [Next]_vars => GivesUpInv'
<1> SUFFICES ASSUME TypeOK, GivesUpInv, ~Faults, [Next]_vars PROVE GivesUpInv'
  BY DEF GivesUpInv
<1>1. ASSUME NEW m \in Msgs, MessageStep(m) PROVE GivesUpInv'
  <2>1. /\ TablesGrow /\ event' = event
        /\ (\A o \in Msgs \ {m} : Undisturbed(o) /\ message'[o] = message[o])
        /\ \A o \in Msgs \ {m}, u \in Users : <<o, u>> \in atUser' => <<o, u>> \in atUser
    <3>1. \A o \in Msgs \ {m} : message'[o] = message[o]
      BY <1>1 DEF TypeOK, MessageStep, Start, UpsertUser, EnsureEmojiWhitelist,
         AddWhitelistHash, SegmentsRead, SaveMessage, SaveMessageRefused, SaveAtUser,
         SaveAtUserRefused, MentionsSaved, SaveImage, IsHashWhitelisted, GroupImageCandidates,
         ImagesDone, Fault, tables
    <3> QED  BY <1>1, <3>1, MessageEffect
  <2>2. ASSUME NEW o \in Msgs
        PROVE  /\ StartOK(o)'
               /\ pc'[o] = "failed" => \/ message'[o] # None /\ message'[o].by = "notice"
                                       \/ \E u \in event'[o].at \ Known : <<o, u>> \notin atUser'
    <3>1. CASE o = m
      BY <1>1, <3>1, StartStep
    <3>2. CASE o # m
      BY <2>1, <3>2, StartStays
    <3> QED  BY <3>1, <3>2
  <2>3. Known \subseteq users'
    BY <2>1 DEF GivesUpInv, TablesGrow
  <2> QED  BY <2>2, <2>3 DEF GivesUpInv, GivesUpOnlyWhen
<1>2. ASSUME NEW n \in Notices, NoticeStep(n) PROVE GivesUpInv'
  <2>1. \A o \in Msgs :
            /\ TablesGrow /\ UNCHANGED event /\ Undisturbed(o) /\ atUser' = atUser
            /\ message'[o] = message[o] \/ (message'[o] # None /\ message'[o].by = "notice")
    BY <1>2, NoticeEffect DEF Undisturbed
  <2>2. Known \subseteq users'
    BY <1>2, NoticeEffect DEF GivesUpInv, TablesGrow
  <2> QED  BY <2>1, <2>2, StartStays DEF GivesUpInv, GivesUpOnlyWhen
<1>3. CASE UNCHANGED vars
  BY <1>3 DEF vars, tables, fixed, GivesUpInv, GivesUpOnlyWhen, StartOK
<1> QED  BY <1>1, <1>2, <1>3 DEF Next

\* A goroutine whose calls work gives up only because a notice has taken the message's id or
\* it mentions somebody nobody has heard of.
THEOREM GivesUpOnlyWhenAlways == Spec => []GivesUpOnlyWhen
<1>1. TypeOK /\ GivesUpInv => GivesUpOnlyWhen
  BY DEF GivesUpInv, GivesUpOnlyWhen
<1> QED  BY <1>1, InitGivesUp, GivesUpStep, InitTypes, TypeStep, PTL DEF Spec

-----------------------------------------------------------------------------
(* One after the other. *)

\* Without overlap one goroutine runs at a time, and they start in the order the messages were sent.
Ended == {"done", "failed"}
TurnsOK == ~overlap =>
    /\ \A a, b \in Msgs : Running(a) /\ Running(b) => a = b
    /\ \A a, b \in Msgs : pc[a] # "new" /\ pc[b] = "new" => event[a].time <= event[b].time
    /\ \A a, b \in Msgs : pc[a] \in Ended /\ Running(b) => event[a].time <= event[b].time

\* A sticker that has been looked at is whitelisted or nothing alike is stored.
Settled(m, k) == event[m].images[k].emoji =>
                     HashOf(m, k) \in whitelist \/ Similar(HashOf(m, k), {m}) = {}
SettledOK(m) ==
    /\ idx[m] >= 1 /\ (pc[m] \in {"new", "user"} => idx[m] = 1)
    /\ pc[m] \in {"emoji", "sticker"} => \A k \in ImagesOf(m) : k < idx[m] => Settled(m, k)
    /\ pc[m] \in {"message"} \cup Storing => \A k \in ImagesOf(m) : Settled(m, k)
    /\ pc[m] = "similar" => HashOf(m, idx[m]) \notin whitelist
StickersInv == ~overlap /\ ~Faults => StickersNotReported /\ \A m \in Msgs : SettledOK(m)

LEMMA InitTurns == Init => TurnsOK
BY DEF Init, TurnsOK, Running, Ended

LEMMA TurnsStep == TypeOK /\ TurnsOK /\ [Next]_vars => TurnsOK'
<1> SUFFICES ASSUME TypeOK, TurnsOK, [Next]_vars, ~overlap' PROVE TurnsOK'
  BY DEF TurnsOK
<1>1. ASSUME NEW m \in Msgs, MessageStep(m) PROVE TurnsOK'
  <2>1. /\ event' = event /\ ~overlap /\ (\A o \in Msgs \ {m} : pc'[o] = pc[o])
        /\ \A o \in Msgs : event[o].time \in Nat
    BY <1>1, MessageEffect, EventParts DEF Undisturbed, TypeOK
  <2>2. CASE Start(m)
    <3>1. /\ \A o \in Msgs : ~Running(o)
          /\ \A o \in Msgs : event[o].time < event[m].time => pc[o] # "new"
      BY <2>1, <2>2 DEF Start, InOrder, Idle
    <3>2. pc[m] = "new" /\ pc'[m] = "user"
      BY <2>2 DEF Start, Goto, TypeOK
    <3>3. \A o \in Msgs : pc[o] \in Ended \cup {"new"}
      BY <3>1 DEF Running, Ended
    <3>4. \A b \in Msgs : pc[b] = "new" => event[m].time <= event[b].time
      BY <2>1, <3>1
    <3>5. \A a, b \in Msgs : Running(a)' /\ Running(b)' => a = b
      BY <2>1, <3>1 DEF Running
    <3>6. \A a, b \in Msgs : pc'[a] # "new" /\ pc'[b] = "new" => event[a].time <= event[b].time
      BY <2>1, <3>2, <3>4 DEF TurnsOK
    <3>7. \A a, b \in Msgs : pc'[a] \in Ended /\ Running(b)' => event[a].time <= event[b].time
      BY <2>1, <3>1, <3>2 DEF TurnsOK, Running, Ended
    <3> QED  BY <2>1, <3>5, <3>6, <3>7 DEF TurnsOK
  <2>3. CASE ~Start(m)
    <3>1. Running(m) /\ pc'[m] # "new"
      BY <1>1, <2>3 DEF Running, TypeOK, MessageStep, UpsertUser, EnsureEmojiWhitelist,
         AddWhitelistHash, SegmentsRead, SaveMessage, SaveMessageRefused, SaveAtUser,
         SaveAtUserRefused, MentionsSaved, SaveImage, IsHashWhitelisted, GroupImageCandidates,
         ImagesDone, Fault, Goto
    <3>2. \A o \in Msgs \ {m} : ~Running(o)
      BY <2>1, <3>1 DEF TurnsOK
    <3>3. \A a, b \in Msgs : Running(a)' /\ Running(b)' => a = b
      BY <2>1, <3>2 DEF Running
    <3>4. \A a, b \in Msgs : pc'[a] # "new" /\ pc'[b] = "new" => event[a].time <= event[b].time
      BY <2>1, <3>1 DEF TurnsOK, Running
    <3>5. \A a, b \in Msgs : pc'[a] \in Ended /\ Running(b)' => event[a].time <= event[b].time
      BY <2>1, <3>1, <3>2 DEF TurnsOK, Running, Ended
    <3> QED  BY <2>1, <3>3, <3>4, <3>5 DEF TurnsOK
  <2> QED  BY <2>2, <2>3
<1>2. ASSUME NEW n \in Notices, NoticeStep(n) PROVE TurnsOK'
  BY <1>2, NoticeEffect DEF TurnsOK, Running
<1>3. CASE UNCHANGED vars
  BY <1>3 DEF vars, fixed, TurnsOK, Running
<1> QED  BY <1>1, <1>2, <1>3 DEF Next

\* An image that comes after a report is of the goroutine that runs, whose message is later.
LEMMA FirstStep ==
    TypeOK /\ TurnsOK /\ ReportsInv /\ ReportsFirst /\ [Next]_vars => ReportsFirst'
<1> SUFFICES ASSUME TypeOK, TurnsOK, ReportsInv, ReportsFirst, [Next]_vars, ~overlap'
             PROVE  ReportsFirst'
  BY DEF ReportsFirst
<1>1. ASSUME NEW m \in Msgs, MessageStep(m) PROVE ReportsFirst'
  <2>1. /\ event' = event /\ ~overlap /\ AllImages' = AllImages
        /\ \A o, k : HashOf(o, k)' = HashOf(o, k)
        /\ \A o \in Msgs : event[o].time \in Nat
    BY <1>1, MessageEffect, ContentsStay, EventParts DEF TypeOK
  <2>2. ASSUME NEW i \in AllImages, report'[i] \notin {None, Unchecked},
               NEW k \in images', k[1] # i[1], <<HashOf(i[1], i[2]), HashOf(k[1], k[2])>> \in Near
        PROVE  event[report'[i]].time <= event[k[1]].time
    <3>1. CASE report'[i] # report[i]
      <4>1. /\ i = <<m, idx[m]>>
            /\ \E c \in Similar(HashOf(m, idx[m]), {m}) :
                   /\ report'[i] = c[1]
                   /\ \A d \in Similar(HashOf(m, idx[m]), {m}) : event[c[1]].time <= event[d[1]].time
            /\ images' = images
        <5>1. IsHashWhitelisted(m) \/ GroupImageCandidates(m)
          BY <1>1, <3>1, MessageEffect
        <5>2. images' = images
          BY <5>1 DEF IsHashWhitelisted, GroupImageCandidates, tables
        <5> QED  BY <2>2, <3>1, <5>1, <5>2, Answers
      <4>2. k \in Similar(HashOf(m, idx[m]), {m})
        BY <2>2, <4>1 DEF Similar
      <4> QED  BY <4>1, <4>2
    <3>2. CASE report'[i] = report[i] /\ k \in images
      <4>1. k \in Similar(HashOf(i[1], i[2]), {i[1]})
        BY <2>2, <3>2 DEF Similar
      <4> QED  BY <2>1, <2>2, <3>2, <4>1 DEF ReportsFirst
    <3>3. CASE report'[i] = report[i] /\ k \notin images
      <4>1. k[1] = m /\ Running(m)
        BY <1>1, <2>2, <3>3, MessageEffect DEF Running
      <4>2. PICK c \in images : c[1] = report[i]
        BY <2>2, <3>3 DEF ReportsInv, ReportsAreGenuine
      <4>3. c[1] \in Msgs /\ pc[c[1]] # "new"
        BY ImageParts DEF TypeOK, ReportsInv, ChecksOK, Early
      <4>4. CASE c[1] = m
        BY <2>1, <3>3, <4>1, <4>2, <4>4
      <4>5. CASE c[1] # m
        <5>1. pc[c[1]] \in Ended
          BY <2>1, <4>1, <4>3, <4>5 DEF TurnsOK, Running, Ended
        <5> QED  BY <2>1, <3>3, <4>1, <4>2, <4>3, <5>1 DEF TurnsOK
      <4> QED  BY <4>4, <4>5
    <3> QED  BY <3>1, <3>2, <3>3
  <2>3. ASSUME NEW i \in AllImages, report'[i] \notin {None, Unchecked},
               NEW k \in Similar(HashOf(i[1], i[2]), {i[1]})'
        PROVE  event'[report'[i]].time <= event'[k[1]].time
    <3>1. /\ k \in images' /\ k[1] # i[1]
          /\ <<HashOf(i[1], i[2]), HashOf(k[1], k[2])>> \in Near
      BY <2>1, <2>3 DEF Similar
    <3> QED  BY <2>1, <2>2, <2>3, <3>1
  <2> QED  BY <2>1, <2>3 DEF ReportsFirst
<1>2. ASSUME UNCHANGED <<overlap, event, images, report>> PROVE ReportsFirst'
  BY <1>2, ContentsStay DEF ReportsFirst, Similar
<1>3. ASSUME NEW n \in Notices, NoticeStep(n) PROVE ReportsFirst'
  BY <1>2, <1>3, NoticeEffect
<1>4. CASE UNCHANGED vars
  BY <1>2, <1>4 DEF vars, fixed, tables
<1> QED  BY <1>1, <1>3, <1>4 DEF Next

\* Of messages handled in their order, the one a report names was the first.
THEOREM ReportsFirstAlways == Spec => []ReportsFirst
<1>1. Init => ReportsFirst
  BY DEF Init, ReportsFirst
<1> QED  BY <1>1, FirstStep, InitTurns, TurnsStep, InitReports, ReportsStep, InitTypes, TypeStep,
            PTL DEF Spec

LEMMA InitStickers == Init => StickersInv
BY DEF Init, StickersInv, StickersNotReported, SettledOK, Storing

\* What has been settled for a message stays so while no other message's image is added.
LEMMA SettledStays ==
    ASSUME NEW m \in Msgs, NEW k, Settled(m, k), UNCHANGED event, whitelist \subseteq whitelist',
           \A i \in images' : i \in images \/ i[1] = m
    PROVE  Settled(m, k)'
<1>1. \A o, j : HashOf(o, j)' = HashOf(o, j)
  BY ContentsStay
<1>2. Similar(HashOf(m, k), {m}) = {} => Similar(HashOf(m, k), {m})' = {}
  BY <1>1 DEF Similar
<1> QED  BY <1>1, <1>2 DEF Settled

LEMMA SettledStep ==
    ASSUME TypeOK, ~Faults, NEW m \in Msgs, SettledOK(m), MessageStep(m)
    PROVE  SettledOK(m)'
<1>1. /\ event' = event /\ whitelist \subseteq whitelist' /\ images \subseteq images'
      /\ \A i \in images' : i \in images \/ i[1] = m
  BY MessageEffect DEF TablesGrow
<1>2. \A k \in ImagesOf(m) : Settled(m, k) => Settled(m, k)'
  BY <1>1, SettledStays
<1>3. PICK n \in Nat : ImagesOf(m) = 1..n
  BY EventParts DEF TypeOK
<1>4. ImagesOf(m)' = 1..n /\ idx[m] \in Nat /\ idx[m] >= 1
  BY <1>1, <1>3, ContentsStay DEF TypeOK, SettledOK
<1> USE DEF TypeOK, SettledOK, Storing, Goto, NextImage
<1>5. CASE Start(m) \/ UpsertUser(m)
  <2>1. event[m].own => \A k : k \notin 1..n
    <3>1. event[m].own => ImagesOf(m) = {}
      BY EventParts DEF TypeOK
    <3> QED  BY <1>3, <3>1
  <2>2. CASE Start(m)
    BY <1>4, <2>2 DEF Start
  <2>3. CASE UpsertUser(m)
    <3>1. idx'[m] = 1 /\ pc'[m] = IF event[m].own THEN "message" ELSE "emoji"
      BY <2>3 DEF UpsertUser
    <3>2. CASE event[m].own
      BY <1>4, <2>1, <3>1, <3>2
    <3>3. CASE ~event[m].own
      <4>1. \A k \in 1..n : ~(k < idx'[m])
        BY <3>1
      <4> QED  BY <1>4, <3>1, <3>3, <4>1
    <3> QED  BY <3>2, <3>3
  <2> QED  BY <1>5, <2>2, <2>3
<1>6. CASE EnsureEmojiWhitelist(m)
  <2>1. pc[m] = "emoji" /\ idx[m] \in 1..n
    BY <1>3, <1>6 DEF EnsureEmojiWhitelist
  <2>2. CASE pc'[m] = "sticker"
    BY <1>2, <1>3, <1>4, <1>6, <2>1, <2>2 DEF EnsureEmojiWhitelist
  <2>3. CASE pc'[m] # "sticker"
    <3>1. /\ ~(event[m].images[idx[m]].emoji /\ Similar(HashOf(m, idx[m]), {}) # {})
          /\ pc'[m] = "emoji" /\ idx'[m] = idx[m] + 1
      BY <1>6, <2>1, <2>3 DEF EnsureEmojiWhitelist
    <3>2. Settled(m, idx[m])
      BY <3>1 DEF Settled, Similar
    <3>3. \A k \in 1..n : k < idx'[m] => Settled(m, k)
      BY <1>3, <1>4, <2>1, <3>1, <3>2
    <3> QED  BY <1>2, <1>3, <1>4, <3>1, <3>3
  <2> QED  BY <2>2, <2>3
<1>7. CASE AddWhitelistHash(m)
  <2>1. PICK j \in 1..n : j = idx[m]
    BY <1>3, <1>7 DEF AddWhitelistHash
  <2>2. pc[m] = "sticker" /\ pc'[m] = "emoji" /\ idx'[m] = j + 1 /\ HashOf(m, j) \in whitelist'
    BY <1>7, <2>1 DEF AddWhitelistHash
  <2>3. Settled(m, j)'
    BY <1>1, <2>2, ContentsStay DEF Settled
  <2>4. ASSUME NEW k \in 1..n, k < idx'[m] PROVE Settled(m, k)'
    <3>1. CASE k = j
      BY <2>3, <3>1
    <3>2. CASE k # j
      <4>1. k < idx[m]
        BY <2>1, <2>2, <2>4, <3>2
      <4> QED  BY <1>2, <1>3, <2>2, <4>1
    <3> QED  BY <3>1, <3>2
  <2> QED  BY <1>4, <2>2, <2>4
<1>8. CASE SegmentsRead(m)
  <2>1. idx[m] > n
    BY <1>3, <1>4, <1>8 DEF SegmentsRead
  <2> QED  BY <1>2, <1>3, <1>4, <1>8, <2>1 DEF SegmentsRead
<1>9. CASE SaveMessage(m)
  BY <1>2, <1>3, <1>4, <1>9 DEF SaveMessage
<1>10. CASE SaveMessageRefused(m) \/ (\E u \in Users : SaveAtUserRefused(m, u)) \/ ImagesDone(m)
  BY <1>4, <1>10 DEF SaveMessageRefused, SaveAtUserRefused, ImagesDone
<1>11. CASE MentionsSaved(m) \/ (\E u \in Users : SaveAtUser(m, u)) \/ SaveImage(m)
  BY <1>2, <1>3, <1>4, <1>11 DEF MentionsSaved, SaveAtUser, SaveImage
<1>12. CASE IsHashWhitelisted(m)
  BY <1>1, <1>2, <1>3, <1>4, <1>12 DEF IsHashWhitelisted, HashOf, tables
<1>13. CASE GroupImageCandidates(m)
  BY <1>2, <1>3, <1>4, <1>13 DEF GroupImageCandidates
<1>14. ~Fault(m)
  BY DEF Fault
<1> QED  BY <1>5, <1>6, <1>7, <1>8, <1>9, <1>10, <1>11, <1>12, <1>13, <1>14, StepCases DEF Moves

LEMMA StickersStep == TypeOK /\ TurnsOK /\ StickersInv /\ [Next]_vars => StickersInv'
<1> SUFFICES ASSUME TypeOK, TurnsOK, StickersInv, [Next]_vars, ~Faults, ~overlap'
             PROVE  StickersInv'
  BY DEF StickersInv
<1>1. ASSUME NEW m \in Msgs, MessageStep(m) PROVE StickersInv'
  <2>1. /\ event' = event /\ ~overlap /\ AllImages' = AllImages /\ TablesGrow
        /\ (\A o \in Msgs \ {m} : Undisturbed(o))
        /\ \A o : ImagesOf(o)' = ImagesOf(o)
    BY <1>1, MessageEffect, ContentsStay
  <2>2. StickersNotReported /\ \A o \in Msgs : SettledOK(o)
    BY <2>1 DEF StickersInv
  <2>3. ASSUME NEW o \in Msgs PROVE SettledOK(o)'
    <3>1. CASE o = m
      BY <1>1, <2>2, <3>1, SettledStep
    <3>2. CASE o # m /\ images' = images /\ whitelist' = whitelist
      <4>1. \A k \in ImagesOf(o) : Settled(o, k) => Settled(o, k)'
        BY <2>1, <3>2, SettledStays DEF TablesGrow
      <4> QED  BY <2>1, <2>2, <3>2, <4>1, ContentsStay DEF SettledOK, Undisturbed
    <3>3. CASE o # m /\ (images' # images \/ whitelist' # whitelist)
      <4>1. pc[m] \in {"image", "sticker"}
        BY <1>1, <3>3, MessageEffect
      <4>2. ~Running(o)
        BY <2>1, <3>3, <4>1 DEF TurnsOK, Running
      <4> QED  BY <2>1, <2>2, <3>3, <4>2 DEF SettledOK, Undisturbed, Running, Storing
    <3> QED  BY <3>1, <3>2, <3>3
  <2>4. ASSUME NEW i \in AllImages, event[i[1]].images[i[2]].emoji
        PROVE  report'[i] \in {None, Unchecked}
    <3>1. CASE report'[i] = report[i]
      BY <2>1, <2>2, <2>4, <3>1 DEF StickersNotReported
    <3>2. CASE report'[i] # report[i]
      <4>1. /\ IsHashWhitelisted(m) \/ GroupImageCandidates(m)
            /\ i = <<m, idx[m]>> /\ pc[m] \in Storing
        BY <1>1, <3>2, MessageEffect, Answers DEF Storing
      <4>2. Settled(m, idx[m])
        BY <2>2, <4>1, ImageParts DEF SettledOK
      <4>3. CASE IsHashWhitelisted(m)
        <5>1. report' = [report EXCEPT ![<<m, idx[m]>>] = None]
          BY <3>2, <4>3 DEF IsHashWhitelisted, Answer
        <5> QED  BY <4>1, <5>1 DEF TypeOK
      <4>4. CASE GroupImageCandidates(m)
        <5>1. Similar(HashOf(m, idx[m]), {m}) = {}
          BY <2>2, <2>4, <4>1, <4>2, <4>4 DEF GroupImageCandidates, SettledOK, Settled
        <5>2. report' = [report EXCEPT ![<<m, idx[m]>>] = None]
          BY <4>4, <5>1 DEF GroupImageCandidates, Answer
        <5> QED  BY <4>1, <5>2 DEF TypeOK
      <4> QED  BY <4>1, <4>3, <4>4
    <3> QED  BY <3>1, <3>2
  <2>5. StickersNotReported'
    BY <2>1, <2>4 DEF StickersNotReported
  <2> QED  BY <2>3, <2>5 DEF StickersInv
<1>2. ASSUME UNCHANGED <<overlap, event, pc, idx, images, whitelist, report>> PROVE StickersInv'
  BY <1>2, ContentsStay DEF StickersInv, StickersNotReported, SettledOK, Settled, Similar
<1>3. ASSUME NEW n \in Notices, NoticeStep(n) PROVE StickersInv'
  BY <1>2, <1>3, NoticeEffect
<1>4. CASE UNCHANGED vars
  BY <1>2, <1>4 DEF vars, fixed, tables
<1> QED  BY <1>1, <1>3, <1>4 DEF Next

\* Of messages handled in their order and with calls that work, no sticker is reported.
THEOREM StickersNotReportedAlways == ~Faults => (Spec => []StickersNotReported)
<1> SUFFICES ASSUME ~Faults PROVE Spec => []StickersNotReported
  OBVIOUS
<1>1. StickersInv => StickersNotReported
  BY DEF StickersInv, StickersNotReported
<1> QED  BY <1>1, InitStickers, StickersStep, InitTurns, TurnsStep, InitTypes, TypeStep, PTL DEF Spec

=============================================================================
