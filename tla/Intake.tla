------------------------------- MODULE Intake -------------------------------
(***************************************************************************)
(* How messages reach the database.  Three kinds of goroutine write the    *)
(* same tables at once: the handler of a group message                     *)
(* (SaveIncomingMessageAndCheckImages), the handler of a receipt           *)
(* (saveSelfMessage), and the handler of an emoji reaction notice, which   *)
(* inserts a placeholder row for a message it does not know                *)
(* (EnsureNoticeMessage).  Every store call is a statement or transaction  *)
(* of its own, so the goroutines interleave between calls.                 *)
(***************************************************************************)
EXTENDS Integers, Sequences, FiniteSets

CONSTANTS
    Msgs,     \* ids of the messages to store
    Contents, \* what a message may contain, sets of Events: Contents[TRUE] when several
              \* goroutines may run at once, in any order, Contents[FALSE] when they do not
    Notices,  \* emoji reactions, [msg, user] records
    Users,    \* user ids
    Hashes,   \* perceptual hashes
    Near,     \* pairs of hashes at Hamming distance <= duplicateImageThreshold
    Known,    \* users in the table at the start
    Faults,   \* may a store call or a download fail?
    None,     \* no value
    Unchecked \* no answer yet

Images == [hash : Hashes, emoji : BOOLEAN]
\* own    the bot's own message, stored by saveSelfMessage
\* time   the time stamp NapCat gave the message
Events == [own : BOOLEAN, sender : Users, time : Nat, at : SUBSET Users, images : Seq(Images)]

ASSUME IntakeAssumption ==
    /\ Contents \in [BOOLEAN -> SUBSET Events]
    /\ \A c \in Contents[TRUE] \cup Contents[FALSE] : c.own => c.at = {} /\ c.images = <<>>
    /\ \A n \in Notices : n.msg \in Msgs /\ n.user \in Users
    /\ Known \subseteq Users
    /\ \A h \in Hashes : <<h, h>> \in Near
    /\ \A p \in Near : <<p[2], p[1]>> \in Near
    /\ Faults \in BOOLEAN
    /\ None \notin Msgs /\ Unchecked \notin Msgs /\ None # Unchecked
    /\ None \notin [by : {"event", "self", "notice"}, sender : Users]

VARIABLES
    overlap,    \* do the goroutines overlap?  Fixed from the start, as is event
    event,      \* what each message contains
    pc,         \* the next store call of each message's goroutine
    idx,        \* the image it is at
    atLeft,     \* the mentions it has still to store
    noticed,    \* how far each notice handler is
    users,      \* table "user"
    message,    \* table message: id -> who wrote the row and its sender, or None
    atUser,     \* table at_user
    images,     \* table image: <<message, index>>
    whitelist,  \* table img_whitelist
    report      \* what each image's check answered: a message id, None, or Unchecked

tables == <<users, message, atUser, images, whitelist>>
fixed == <<overlap, event>>
vars == <<fixed, pc, idx, atLeft, noticed, tables, report>>

Steps == {"new", "user", "emoji", "sticker", "message", "at", "image", "listed", "similar",
          "done", "failed"}
Rows == [by : {"event", "self", "notice"}, sender : Users]
ImagesOf(m) == DOMAIN event[m].images
HashOf(m, k) == event[m].images[k].hash
AllImages == UNION {{<<m, k>> : k \in ImagesOf(m)} : m \in Msgs}

TypeOK ==
    /\ overlap \in BOOLEAN
    /\ event \in [Msgs -> Contents[overlap]]
    /\ pc \in [Msgs -> Steps]
    /\ idx \in [Msgs -> Nat]
    /\ \A m \in Msgs : pc[m] \in {"sticker", "listed", "similar"} => idx[m] \in ImagesOf(m)
    /\ atLeft \in [Msgs -> SUBSET Users]
    /\ noticed \in [Notices -> {"new", "like", "done"}]
    /\ users \subseteq Users
    /\ message \in [Msgs -> Rows \cup {None}]
    /\ atUser \subseteq (Msgs \X Users)
    /\ images \subseteq AllImages
    /\ whitelist \subseteq Hashes
    /\ report \in [AllImages -> Msgs \cup {None, Unchecked}]

Init ==
    /\ overlap \in BOOLEAN
    /\ event \in [Msgs -> Contents[overlap]]
    /\ pc = [m \in Msgs |-> "new"]
    /\ idx = [m \in Msgs |-> 1]
    /\ atLeft = [m \in Msgs |-> {}]
    /\ noticed = [n \in Notices |-> "new"]
    /\ users = Known
    /\ message = [m \in Msgs |-> None]
    /\ atUser = {}
    /\ images = {}
    /\ whitelist = {}
    /\ report = [i \in AllImages |-> Unchecked]

Running(m) == pc[m] \notin {"new", "done", "failed"}
Idle == /\ \A m \in Msgs : ~Running(m)
        /\ \A n \in Notices : noticed[n] # "like"
\* Without overlap the events also come in the order they were sent.
InOrder(m) == Idle /\ \A o \in Msgs : event[o].time < event[m].time => pc[o] # "new"

Goto(m, step) == pc' = [pc EXCEPT ![m] = step]

\* The event or the receipt arrives and its goroutine starts.
Start(m) ==
    /\ pc[m] = "new"
    /\ overlap \/ InOrder(m)
    /\ Goto(m, "user")
    /\ UNCHANGED <<fixed, idx, atLeft, noticed, tables, report>>

UpsertUserForgotten(m) ==
    /\ pc[m] = "user"
    /\ Goto(m, IF event[m].own THEN "message" ELSE "emoji")
    /\ UNCHANGED <<fixed, idx, atLeft, noticed, tables, report>>

\* UpsertUser and UpsertGroup: the sender and the group exist from here on.
UpsertUser(m) ==
    /\ pc[m] = "user"
    /\ users' = users \cup {event[m].sender}
    /\ Goto(m, IF event[m].own THEN "message" ELSE "emoji")
    /\ UNCHANGED <<fixed, idx, atLeft, noticed, message, atUser, images, whitelist, report>>

\* The images of the group that could be what hash h shows.
Similar(h, left_out) == {i \in images : i[1] \notin left_out /\ <<h, HashOf(i[1], i[2])>> \in Near}

NextImage(m) == idx' = [idx EXCEPT ![m] = @ + 1]

EnsureEmojiWhitelistExact(m) ==
    /\ pc[m] = "emoji"
    /\ idx[m] \in ImagesOf(m)
    /\ IF /\ event[m].images[idx[m]].emoji
          /\ \E i \in images : HashOf(i[1], i[2]) = HashOf(m, idx[m])
       THEN Goto(m, "sticker") /\ UNCHANGED idx
       ELSE NextImage(m) /\ UNCHANGED pc
    /\ UNCHANGED <<fixed, atLeft, noticed, tables, report>>

\* The loop over the segments: an emoji image similar to one already stored
\* will be whitelisted.  Other images do nothing here.
EnsureEmojiWhitelist(m) ==
    /\ pc[m] = "emoji"
    /\ idx[m] \in ImagesOf(m)
    /\ IF event[m].images[idx[m]].emoji /\ Similar(HashOf(m, idx[m]), {}) # {}
       THEN Goto(m, "sticker") /\ UNCHANGED idx
       ELSE NextImage(m) /\ UNCHANGED pc
    /\ UNCHANGED <<fixed, atLeft, noticed, tables, report>>

\* Its own hash goes into the whitelist, not the one it resembles.
AddWhitelistHash(m) ==
    /\ pc[m] = "sticker"
    /\ whitelist' = whitelist \cup {HashOf(m, idx[m])}
    /\ NextImage(m)
    /\ Goto(m, "emoji")
    /\ UNCHANGED <<fixed, atLeft, noticed, users, message, atUser, images, report>>

\* The loop ends; the row is built.
SegmentsRead(m) ==
    /\ pc[m] = "emoji"
    /\ idx[m] \notin ImagesOf(m)
    /\ Goto(m, "message")
    /\ UNCHANGED <<fixed, idx, atLeft, noticed, tables, report>>

SaveMessageIgnoringConflict(m) ==
    LET row == [by |-> IF event[m].own THEN "self" ELSE "event", sender |-> event[m].sender] IN
    /\ pc[m] = "message"
    /\ message' = [message EXCEPT ![m] = IF @ = None THEN row ELSE @]
    /\ Goto(m, IF event[m].own THEN "done" ELSE "at")
    /\ atLeft' = [atLeft EXCEPT ![m] = event[m].at]
    /\ idx' = [idx EXCEPT ![m] = 1]
    /\ UNCHANGED <<fixed, noticed, users, atUser, images, whitelist, report>>

\* SaveMessage is a plain INSERT.
SaveMessage(m) ==
    LET row == [by |-> IF event[m].own THEN "self" ELSE "event", sender |-> event[m].sender] IN
    /\ pc[m] = "message"
    /\ message[m] = None
    /\ event[m].sender \in users
    /\ message' = [message EXCEPT ![m] = row]
    /\ Goto(m, IF event[m].own THEN "done" ELSE "at")
    /\ atLeft' = [atLeft EXCEPT ![m] = event[m].at]
    /\ idx' = [idx EXCEPT ![m] = 1]
    /\ UNCHANGED <<fixed, noticed, users, atUser, images, whitelist, report>>

\* The primary key or the sender's foreign key refuses the row: the goroutine
\* returns, and neither mentions nor images are stored.
SaveMessageRefused(m) ==
    /\ pc[m] = "message"
    /\ message[m] # None \/ event[m].sender \notin users
    /\ Goto(m, "failed")
    /\ UNCHANGED <<fixed, idx, atLeft, noticed, tables, report>>

\* SaveAtUser for one mention; a user the table does not know is refused by the
\* foreign key, and the goroutine returns before it looks at the images.
SaveAtUser(m, u) ==
    /\ pc[m] = "at"
    /\ u \in atLeft[m]
    /\ u \in users
    /\ atUser' = atUser \cup {<<m, u>>}
    /\ atLeft' = [atLeft EXCEPT ![m] = @ \ {u}]
    /\ UNCHANGED <<fixed, pc, idx, noticed, users, message, images, whitelist, report>>

SaveAtUserRefused(m, u) ==
    /\ pc[m] = "at"
    /\ u \in atLeft[m]
    /\ u \notin users
    /\ Goto(m, "failed")
    /\ UNCHANGED <<fixed, idx, atLeft, noticed, tables, report>>

MentionsSavedEarly(m) ==
    /\ pc[m] = "at"
    /\ Goto(m, "image")
    /\ UNCHANGED <<fixed, idx, atLeft, noticed, tables, report>>

MentionsSaved(m) ==
    /\ pc[m] = "at"
    /\ atLeft[m] = {}
    /\ Goto(m, "image")
    /\ UNCHANGED <<fixed, idx, atLeft, noticed, tables, report>>

SaveImageBeyond(m) ==
    /\ pc[m] = "image"
    /\ idx[m] \in ImagesOf(m)
    /\ images' = images \cup {<<m, idx[m] + 1>>}
    /\ Goto(m, "listed")
    /\ UNCHANGED <<fixed, idx, atLeft, noticed, users, message, atUser, whitelist, report>>

\* SaveAndCheckDuplicate: the image is stored first ...
SaveImage(m) ==
    /\ pc[m] = "image"
    /\ idx[m] \in ImagesOf(m)
    /\ images' = images \cup {<<m, idx[m]>>}
    /\ Goto(m, "listed")
    /\ UNCHANGED <<fixed, idx, atLeft, noticed, users, message, atUser, whitelist, report>>

Answer(m, who) == report' = [report EXCEPT ![<<m, idx[m]>>] = who]

\* ... then its exact hash is looked up in the whitelist ...
IsHashWhitelisted(m) ==
    /\ pc[m] = "listed"
    /\ IF HashOf(m, idx[m]) \in whitelist
       THEN Answer(m, None) /\ NextImage(m) /\ Goto(m, "image")
       ELSE Goto(m, "similar") /\ UNCHANGED <<fixed, idx, report>>
    /\ UNCHANGED <<fixed, atLeft, noticed, tables>>

GroupImageCandidatesOwn(m) ==
    LET found == {c[1] : c \in Similar(HashOf(m, idx[m]), {})} IN
    /\ pc[m] = "similar"
    /\ IF found = {}
       THEN Answer(m, None)
       ELSE \E e \in found : /\ \A f \in found : event[e].time <= event[f].time
                             /\ Answer(m, e)
    /\ NextImage(m) /\ Goto(m, "image")
    /\ UNCHANGED <<fixed, atLeft, noticed, tables>>

GroupImageCandidatesEarlier(m) ==
    LET found == {c[1] : c \in {c \in Similar(HashOf(m, idx[m]), {m}) :
                                     event[c[1]].time < event[m].time}} IN
    /\ pc[m] = "similar"
    /\ IF found = {}
       THEN Answer(m, None)
       ELSE \E e \in found : /\ \A f \in found : event[e].time <= event[f].time
                             /\ Answer(m, e)
    /\ NextImage(m) /\ Goto(m, "image")
    /\ UNCHANGED <<fixed, atLeft, noticed, tables>>

GroupImageCandidatesLatest(m) ==
    LET found == {c[1] : c \in Similar(HashOf(m, idx[m]), {m})} IN
    /\ pc[m] = "similar"
    /\ IF found = {}
       THEN Answer(m, None)
       ELSE \E e \in found : /\ \A f \in found : event[e].time >= event[f].time
                             /\ Answer(m, e)
    /\ NextImage(m) /\ Goto(m, "image")
    /\ UNCHANGED <<fixed, atLeft, noticed, tables>>

\* ... then the similar images of other messages; the answer names the one with
\* the earliest time stamp, whatever its relation to this message's own time.
GroupImageCandidates(m) ==
    LET found == {c[1] : c \in Similar(HashOf(m, idx[m]), {m})} IN
    /\ pc[m] = "similar"
    /\ IF found = {}
       THEN Answer(m, None)
       ELSE \E e \in found : /\ \A f \in found : event[e].time <= event[f].time
                             /\ Answer(m, e)
    /\ NextImage(m) /\ Goto(m, "image")
    /\ UNCHANGED <<fixed, atLeft, noticed, tables>>

ImagesDone(m) ==
    /\ pc[m] = "image"
    /\ idx[m] \notin ImagesOf(m)
    /\ Goto(m, "done")
    /\ UNCHANGED <<fixed, idx, atLeft, noticed, tables, report>>

\* A failing call: image and emoji steps log and go on with the next image,
\* every other step ends the goroutine, UpsertGroup after UpsertUser has worked.
Fault(m) ==
    /\ Faults
    /\ Running(m)
    /\ pc[m] = "at" => atLeft[m] # {}
    /\ IF pc[m] \in {"emoji", "sticker", "image", "listed", "similar"}
       THEN /\ idx[m] \in ImagesOf(m)
            /\ NextImage(m)
            /\ Goto(m, IF pc[m] \in {"emoji", "sticker"} THEN "emoji" ELSE "image")
       ELSE /\ Goto(m, "failed")
            /\ UNCHANGED idx
    /\ \/ users' = users
       \/ pc[m] = "user" /\ users' = users \cup {event[m].sender}
    /\ UNCHANGED <<fixed, atLeft, noticed, message, atUser, images, whitelist, report>>

EnsureNoticeOverwrites(n) ==
    /\ noticed[n] = "new"
    /\ overlap \/ Idle
    /\ users' = users \cup {n.user}
    /\ message' = [message EXCEPT ![n.msg] = [by |-> "notice", sender |-> n.user]]
    /\ noticed' = [noticed EXCEPT ![n] = "like"]
    /\ UNCHANGED <<fixed, pc, idx, atLeft, atUser, images, whitelist, report>>

\* EnsureNoticeMessage: one transaction, ON CONFLICT DO NOTHING.
EnsureNoticeMessage(n) ==
    /\ noticed[n] = "new"
    /\ overlap \/ Idle
    /\ users' = users \cup {n.user}
    /\ message' = [message EXCEPT ![n.msg] =
                     IF @ = None THEN [by |-> "notice", sender |-> n.user] ELSE @]
    /\ noticed' = [noticed EXCEPT ![n] = "like"]
    /\ UNCHANGED <<fixed, pc, idx, atLeft, atUser, images, whitelist, report>>

\* The transaction fails and is only logged.
EnsureNoticeMessageErr(n) ==
    /\ Faults
    /\ noticed[n] = "new"
    /\ noticed' = [noticed EXCEPT ![n] = "like"]
    /\ UNCHANGED <<fixed, pc, idx, atLeft, tables, report>>

\* SaveEmojiLike: faces and emoji_like refer to no table above.
SaveEmojiLike(n) ==
    /\ noticed[n] = "like"
    /\ noticed' = [noticed EXCEPT ![n] = "done"]
    /\ UNCHANGED <<fixed, pc, idx, atLeft, tables, report>>

MessageStep(m) ==
    \/ Start(m) \/ UpsertUser(m) \/ EnsureEmojiWhitelist(m)
    \/ AddWhitelistHash(m) \/ SegmentsRead(m)
    \/ SaveMessage(m) \/ SaveMessageRefused(m)
    \/ \E u \in Users : SaveAtUser(m, u) \/ SaveAtUserRefused(m, u)
    \/ MentionsSaved(m) \/ SaveImage(m) \/ IsHashWhitelisted(m)
    \/ GroupImageCandidates(m) \/ ImagesDone(m) \/ Fault(m)

NoticeStep(n) == EnsureNoticeMessage(n) \/ EnsureNoticeMessageErr(n) \/ SaveEmojiLike(n)

Next == (\E m \in Msgs : MessageStep(m)) \/ (\E n \in Notices : NoticeStep(n))

Spec == Init /\ [][Next]_vars

-----------------------------------------------------------------------------
(* Properties. *)

\* A row of the message table never changes once it is there: a notice does not
\* replace a stored message, and a message does not replace a placeholder
\* (pgstore.go SaveMessage, EnsureNoticeMessage).
RowsNeverChange == [][\A m \in Msgs : message[m] # None => message'[m] = message[m]]_message

\* Without faults a message's goroutine gives up in two cases only: a notice has
\* taken its id first, or it mentions a user nobody has seen when the mention is
\* stored; it never trips over the foreign key of its own sender, or of a user known
\* since the start.
GivesUpOnlyWhen ==
    ~Faults => \A m \in Msgs : pc[m] = "failed" =>
        \/ message[m] # None /\ message[m].by = "notice"
        \/ \E u \in event[m].at \ Known : <<m, u>> \notin atUser

\* Mentions and images hang only on rows their own message wrote, never on a
\* placeholder, and images are stored only when all mentions are: a message is
\* stored as a prefix of (row, mentions, images).
StoredInOrder ==
    /\ \A a \in atUser : message[a[1]] # None /\ message[a[1]].by = "event"
    /\ \A i \in images : /\ message[i[1]] # None /\ message[i[1]].by = "event"
                         /\ \A u \in event[i[1]].at : <<i[1], u>> \in atUser

Checked(i) == report[i] # Unchecked

\* Two messages that show the same picture at the same time cannot both be taken
\* for the first: when both checks are answered and neither hash is whitelisted,
\* at least one of them was reported as a repetition (save_image.go saves
\* before it looks).
SomeoneReports ==
    \A i, k \in AllImages :
        /\ i[1] # k[1]
        /\ Checked(i) /\ Checked(k)
        /\ <<HashOf(i[1], i[2]), HashOf(k[1], k[2])>> \in Near
        /\ {HashOf(i[1], i[2]), HashOf(k[1], k[2])} \cap whitelist = {}
        => report[i] # None \/ report[k] # None

\* No message is reported as a repetition of itself or of an unlike picture.
ReportsAreGenuine ==
    \A i \in AllImages : report[i] \notin {None, Unchecked} =>
        /\ report[i] # i[1]
        /\ \E k \in images : /\ k[1] = report[i]
                             /\ <<HashOf(i[1], i[2]), HashOf(k[1], k[2])>> \in Near

\* Messages that are handled one after the other, in their order: an animated
\* sticker is never reported as a repeated picture
\* (GO_MIGRATION_PLAN.md:54; save_image.go EnsureEmojiWhitelist).
StickersNotReported ==
    ~overlap => \A i \in AllImages : event[i[1]].images[i[2]].emoji => report[i] \in {None, Unchecked}

\* Messages that are handled one after the other, in their order: the message named
\* as the one that "was first" really is the first in the group
\* to show the picture: nothing similar stored since then has an earlier time
\* (save_image.go:72-77).
ReportsFirst ==
    ~overlap => \A i \in AllImages : report[i] \notin {None, Unchecked} =>
        \A k \in Similar(HashOf(i[1], i[2]), {i[1]}) :
            event[report[i]].time <= event[k[1]].time

\* A stored group message holds what its sender sent
\* (GO_MIGRATION_PLAN.md:34, "group messages are stored").
EventsStored ==
    \A m \in Msgs : pc[m] \in {"done", "failed"} =>
        message[m] # None /\ message[m].by # "notice"
=============================================================================
