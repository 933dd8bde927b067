------------------------------ MODULE ServerMC ------------------------------
(* An instance of GroupMessage for TLC: two frames, texts among them. *)
EXTENDS GroupMessage

P(kind, banned, match, mentions) ==
    [kind |-> kind, banned |-> banned, match |-> match, mentions |-> mentions]
MCPayloads == {
    P("message", FALSE, "none", TRUE), P("message", FALSE, "send", FALSE), P("message", FALSE, "command", FALSE),
    P("message", TRUE, "none", FALSE), P("poke", FALSE, "none", FALSE)}
MCPart == P("error", FALSE, "none", FALSE)
MCAnswers == {<<"emoji", "emoji">>}
=============================================================================
