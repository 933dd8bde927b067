---------------------------- MODULE MemoryStoreMC ----------------------------
(* An instance of MemoryStore for TLC: three messages of one group, the     *)
(* second from somebody else; text 2 is like 1 and like 3, those two not.   *)
EXTENDS MemoryStore

CONSTANTS g1, s1, s2, s3, amy, bob

MCSources == {s1, s2, s3}
MCGroupOf == [s \in MCSources |-> g1]
MCUserOf == [s \in MCSources |-> IF s = s2 THEN bob ELSE amy]
Fact(user, text) == [type |-> "fact", user |-> user, text |-> text]
Impression(user, text) == [type |-> "impression", user |-> user, text |-> text]
MCAnswers == {
    <<Fact(NoUser, 1), Fact(NoUser, 3)>>,
    <<Fact(amy, 1), Impression(NoUser, 3)>>,
    <<Impression(NoUser, 1), Impression(amy, 2)>>}
MCAlike == [t \in Types |-> {<<a, b>> \in Texts \X Texts : a - b \in -1..1}]

FairSpec == Spec /\ Fairness
=============================================================================
