----------------------------- MODULE OutboundMC -----------------------------
(* Instances of Outbound for TLC. *)
EXTENDS Outbound, TLC

\* A reaction before a reply; a duplicate-image notice on its own.
MCScripts == {<<"emoji", "reply">>, <<"plain">>}
QuietScripts == {<<"plain", "reply">>, <<"reply", "emoji">>, <<"emoji", "reply">>, <<"reply", "reply">>}
ReplyOnly == {<<"reply">>}

AllEvents == EnvEvents
NoEvents == {}
FailOnly == {"fail"}
RaceOnly == {"overlap"}

Symmetry == Permutations(Handlers) \cup Permutations(Conns)
=============================================================================
