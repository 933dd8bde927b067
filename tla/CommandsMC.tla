------------------------------ MODULE CommandsMC ------------------------------
(***************************************************************************)
(* The commands of the bot on small instances.  buildCommandHandler gives  *)
(* every command to one family of handlers; the families share no state,   *)
(* so each behaviour follows one of them and the others stay as they are   *)
(* when the process starts.  The components that are proved about are      *)
(* extended and their properties checked under their own names.            *)
(***************************************************************************)
EXTENDS AiCommands, BbhAppend, ImagePool, QTanAnimation, QTanPalette

VARIABLES
    family,                                       \* the family of the command
    task, id, answer, table, seen                 \* SmallCommands

\* Two messages with a picture each; one goroutine may be given any command.
MCUrl == <<"a", "b">>
MCOffers == [h \in Handlers |-> IF h = "h1" THEN {"ai", "njk"} ELSE {"ai", "aic", "prompt"}]

\* No book, an empty one and one of one paragraph; a range for each outcome.
MCBooks == {<<>>, <<"h", "t">>, <<"h", "first", "t">>}
MCRanges == {<<1, 1>>, <<1, 2>>, <<2, 1>>, <<0, 1>>}

\* Two commands on the same rows, so that they write the same files.
MCFamily == [c \in Commands |-> "symmetric"]
MCHasURL == <<TRUE, TRUE, FALSE, TRUE>>
MCRowsAsked == [c \in Commands |-> IF c = "h1" THEN 4 ELSE 1]

\* Stills of all shapes; animations whose frames cover parts of the canvas, with
\* each disposal, longer and shorter than the limit; one picture too large.
StillOf(w, h) == [width |-> w, height |-> h, delays |-> <<>>, areas |-> <<>>, disposals |-> <<>>]
AnimationOf(delays, disposals) ==
    [width |-> 30, height |-> 20, delays |-> delays, disposals |-> disposals,
     areas |-> [k \in DOMAIN delays |-> << {1, 2}, {2}, {2, 3}, {1} >>[k]]]
MCPictures ==
    {StillOf(0, 5), StillOf(1, 1), StillOf(3, 400), StillOf(400, 3), StillOf(640, 480), StillOf(199, 81)}
    \cup {AnimationOf(<<500, 10, 100>>, <<a, b, "none">>) : a \in Disposals, b \in Disposals}
    \cup {AnimationOf(<<30, 30, 30, 30>>, <<a, b, c, "none">>) :
              a \in Disposals, b \in Disposals, c \in Disposals}
    \cup {AnimationOf(<<5000, 4000, 10>>, <<"none", "none", "none">>),
          [AnimationOf(<<10>>, <<"none">>) EXCEPT !.width = 67108865, !.height = 1]}
OptionOf(scale, bpm) == [scale |-> scale, bpm |-> bpm]
MCOptions ==
    {OptionOf(NotGiven, NotGiven), OptionOf(3, 1000), OptionOf(20, 1000), OptionOf(NotGiven, 400),
     OptionOf(2, NotGiven), OptionOf(NotGiven, 9), OptionOf(21, 130)}

\* Five colours, two more than the palette holds.
MCColours == {<<0, 0, 0>>, <<0, 0, 3>>, <<0, 1, 3>>, <<2, 0, 0>>, <<2, 2, 3>>}

\* Face ids with and without a number, two of them with the same; texts of up to
\* six parts, of which codes are made that hold others, follow each other or do
\* not end; every small picture and mode.
FaceOf(val, alt) == [val |-> val, alt |-> alt]
Reversed == <<FaceOf(2, 0), FaceOf(1, 0), FaceOf(1, 0)>>
TextsOf(parts, n) == {FlattenSeq(t) : t \in UNION {[1..k -> parts] : k \in 0..n}}
Code == <<"open", "[", "]", "close">>
WithPictures(text, pictures) == [text |-> text, pictures |-> pictures]
\* A day has four parts and the second of them begins at five: two messages of the
\* first day, two of the second, one of them at its last moment, and one of the third.
SaidAt(time, at) == [time |-> time, at |-> at]
Said == {SaidAt(3, "u"), SaidAt(4, None), SaidAt(5, "u"), SaidAt(8, "v"), SaidAt(9, None)}
Modes == ({"low", "high"} \X {"low", "high", "none"}) \cup ({"none"} \X {"low", "high"})
Tasks ==
    [key : {"dice"}, count : 0..3, sides : {0, 1, 2, 3, 7}]
    \cup [key : {"faceid"}, left : {0, 1, 2, 6}, right : {0, 1, 2, 4, 6, 7}]
    \cup [key : {"allface", "sendallface"},
          ids : SUBSET {FaceOf(1, 0), FaceOf(1, 1), FaceOf(2, 0), FaceOf(3, 0), FaceOf(5, 0),
                        FaceOf(-1, 0), FaceOf(-1, 1)}]
    \cup [key : {"face"}, limit : {0, 2, 3},
          messages : {<<>>, << <<"g">>, <<"f", "f">>, None, <<"f", "g", None, "f">> >>, << <<None>> >>}]
    \cup [key : {"getfaceid"}, limit : 0..3, later : 0..1,
          messages : {<<>>} \cup {<<[faces |-> f, likes |-> l], [faces |-> None, likes |-> Reversed],
                                   [faces |-> Reversed, likes |-> m]>> :
                                  f \in {<<>>, Reversed}, l, m \in {<<>>, <<FaceOf(3, 0)>>}}]
    \cup [key : {"json"}, limit : 0..2,
          messages : {<<>>, << <<"x">>, None, <<"\\n", "[", "CQ:", "[", "]", "]">> >>}]
    \cup [key : {"report"}, dayNum : 0..2, now : {8}, messages : {Said}]
    \cup [key : {"send"}, typed : TextsOf({<<"&">>, <<"#91;">>, <<"amp;">>, <<"]">>, <<"[", "CQ:">>, Code}, 4)]
    \cup [key : {"send_json"}, valid : BOOLEAN, typed : TextsOf({<<"&">>, <<"#91;">>, <<"amp;">>, <<"[">>}, 3)]
    \cup [key : {"text"}, text : TextsOf({<<"[", "CQ:">>, <<"[">>, <<"]">>, <<"\\n">>}, 6)]
    \cup [key : {"file", "generate"}, limit : {0, 2, 3}, later : 0..1,
          messages : {<<>>} \cup {<<WithPictures("a", p), WithPictures(t, <<None>>), WithPictures(None, q)>> :
                                  t \in {None, "b"}, p, q \in {<<>>, <<"u", None>>, <<"v", "w">>}}]
    \cup [key : {"mirror"}, mode : Modes, width : 1..5, height : 1..4]
Small == INSTANCE SmallCommands WITH MaxInt <- 7, MaxDice <- 2, MaxFaces <- 3, MaxStickers <- 2,
    MaxRanks <- 2, Day <- 4, Five <- 1, MaxArrivals <- 2

ASSUME CommandsAssumption ==
    /\ AiAssumption /\ BbhAssumption /\ PoolAssumption
    /\ QTanAssumption /\ PaletteAssumption /\ Small!SmallAssumption

Families == {"ai", "bbh", "pool", "qtan", "palette", "small"}
smallVars == <<task, id, answer, table, seen>>
vars == <<family, aiVars, bbhVars, poolVars, qtanVars, paletteVars, smallVars>>

Init ==
    /\ family \in Families
    /\ AiInit
    /\ BbhInit
    /\ family # "bbh" => book = <<>> /\ \A h \in Authors : turn[h].kind = "book"
    /\ PoolInit
    /\ QTanInit
    /\ family # "qtan" => picture = StillOf(1, 1) /\ option = OptionOf(NotGiven, NotGiven)
    /\ IF family = "palette" THEN PaletteInit ELSE counts = None /\ boxes = None /\ palette = None
    /\ IF family = "small" THEN Small!SmallInit ELSE /\ task = None /\ id = None /\ answer = None
                                                     /\ table = None /\ seen = None

Next ==
    /\ UNCHANGED family
    /\ \/ family = "ai" /\ AiNext
          /\ UNCHANGED <<bbhVars, poolVars, qtanVars, paletteVars, smallVars>>
       \/ family = "bbh" /\ BbhNext
          /\ UNCHANGED <<aiVars, poolVars, qtanVars, paletteVars, smallVars>>
       \/ family = "pool" /\ PoolNext
          /\ UNCHANGED <<aiVars, bbhVars, qtanVars, paletteVars, smallVars>>
       \/ family = "qtan" /\ QTanNext
          /\ UNCHANGED <<aiVars, bbhVars, poolVars, paletteVars, smallVars>>
       \/ family = "palette" /\ PaletteNext
          /\ UNCHANGED <<aiVars, bbhVars, poolVars, qtanVars, smallVars>>
       \/ family = "small" /\ Small!SmallNext
          /\ UNCHANGED <<aiVars, bbhVars, poolVars, qtanVars, paletteVars>>

Fairness == AiFairness /\ PoolFairness

Spec == Init /\ [][Next]_vars /\ Fairness

------------------------------------------------------------------------------

\* The types of the family that runs.
TypeOK ==
    /\ family \in Families
    /\ family = "ai" => AiTypeOK
    /\ family = "bbh" => BbhTypeOK
    /\ family = "pool" => PoolTypeOK
    /\ family = "qtan" => QTanTypeOK
    /\ family = "palette" => PaletteTypeOK
    /\ family = "small" => Small!SmallTypeOK

\* Every AI and every picture command ends, whatever the services do
\* (handleAICommand and its kin, handleSymmetricCommand, handleQTanCommand).
CommandsEnd == AiCommandsEnd /\ PoolCommandsEnd

\* Dice add up, face ids are those asked for, ranges stand for the ids of the table,
\* ids, reactions and pictures are those of the messages asked for, though rows are
\* stored between two queries (RecentFaceIDRows, handleFaceCommand,
\* handleGenerateImageCommand), a report is whole though rows are stored between its
\* five (ReportStats), a text is sent as it was typed (UnescapeCQText) and nothing
\* but the brackets inside its codes is escaped (sendGroupText), what the mirror
\* makes is symmetric (mirroredSourcePoint), and a palette leaves no entry unused
\* that a colour of the picture could have (qtanQuantizeEntries).
AnswersExact ==
    /\ family = "small" =>
           /\ Small!DiceAddUp /\ Small!FacesAsAsked /\ Small!RangesAreTheIDs
           /\ Small!ReactionsFollow /\ Small!RowsOfOneMessage /\ Small!PicturesOfTheLast
           /\ Small!ReportIsWhole /\ Small!SentAsTyped /\ Small!CodesStayWhole
           /\ Small!MirrorIsSymmetric
    /\ family = "palette" => PaletteFilled
=============================================================================
