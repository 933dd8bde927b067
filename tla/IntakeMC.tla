------------------------------ MODULE IntakeMC ------------------------------
(* Instances of Intake for TLC. *)
EXTENDS Intake, TLC

CONSTANTS m1, m2, m3,          \* messages
          amy, bob, bot, eve   \* users; nobody ever hears of eve unless she reacts

MCMsgs == {m1, m2, m3}
TwoMsgs == {m1, m2}
MCUsers == {amy, bob, bot, eve}
MCKnown == {amy}
\* Similarity is not transitive: 1 and 2 are similar, and so are 2 and 3.
MCHashes == 1..3
MCNear == {p \in MCHashes \X MCHashes : p[1] - p[2] \in {-1, 0, 1}}

Pic(h) == [hash |-> h, emoji |-> FALSE]
Sticker(h) == [hash |-> h, emoji |-> TRUE]
Msg(sender, time, at, pictures) ==
    [own |-> FALSE, sender |-> sender, time |-> time, at |-> at, images |-> pictures]
OwnMsg(time) == [own |-> TRUE, sender |-> bot, time |-> time, at |-> {}, images |-> <<>>]

\* Pictures, mentions of a user known, not yet known and never known, and the
\* bot's own message; amy reacts to one message, eve to the other.
CrowdContents == [o \in BOOLEAN |-> IF ~o THEN {} ELSE {
    Msg(amy, 1, {bob}, <<Pic(1), Pic(2)>>),
    Msg(bob, 2, {amy, eve}, <<Sticker(2)>>),
    Msg(eve, 2, {}, <<Sticker(2)>>),
    OwnMsg(3)}]
CrowdNotices == {[msg |-> m1, user |-> amy], [msg |-> m2, user |-> eve]}
NoNotices == {}

\* Pictures and stickers of all similarities, more of them when nothing overlaps.
Shown == {
    Msg(amy, 1, {bob}, <<Pic(1)>>),
    Msg(bob, 2, {amy}, <<Sticker(2)>>),
    Msg(bob, 2, {}, <<Pic(3), Pic(2)>>),
    Msg(amy, 3, {}, <<Sticker(1)>>)}
PictureContents == [o \in BOOLEAN |-> IF o THEN Shown ELSE Shown \cup {
    Msg(amy, 1, {}, <<Sticker(1), Pic(3)>>),
    Msg(bob, 2, {amy}, <<Sticker(2), Sticker(1)>>),
    Msg(bot, 3, {}, <<Pic(2), Sticker(2)>>)}]

Symmetry == Permutations(MCMsgs)
=============================================================================
