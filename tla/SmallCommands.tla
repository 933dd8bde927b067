---------------------------- MODULE SmallCommands ----------------------------
(***************************************************************************)
(* The commands that answer out of their arguments and the database: dice, *)
(* face ids, all faces, reactions, texts sent as they are, stored JSON,    *)
(* the report, files and generated pictures; and two conversions, of the   *)
(* texts that are sent (sendGroupText) and of a picture that is mirrored.  *)
(* Each behaviour is one command with one input; where a command asks the  *)
(* database more than once, every statement is a step and other goroutines *)
(* may store rows before the next.                                         *)
(***************************************************************************)
EXTENDS Integers, SequencesExt

CONSTANTS
    Tasks,       \* records with the command "key" and what it works on
    MaxInt,      \* the largest int; the smallest is -MaxInt - 1
    MaxDice,     \* how many dice are thrown at most
    MaxFaces,    \* maxFaceIDSegments
    MaxStickers, \* maxFaceStickers
    MaxRanks,    \* the limit of the report's rankings
    Day,         \* the length of a day
    Five,        \* five o'clock, when the report's day begins
    MaxArrivals, \* how many rows are stored during a report (bound of the model)
    None         \* no URL, no text, no user

VARIABLES
    task,        \* the command and its input
    id,          \* the loop variable of .faceid
    answer,      \* the action it returns, as far as it has been built
    table,       \* the rows of the group's messages and mentions (.report)
    seen         \* the table when the command first asked (history)

smallVars == <<task, id, answer, table, seen>>

\* A day is of some length and five comes in it; the limits are far below the
\* greatest int.  Arguments are ints, a picture has two sides.
SmallAssumption ==
    /\ MaxInt \in Nat \ {0} /\ Day \in Nat \ {0} /\ Five \in 0..(Day - 1)
    /\ MaxDice \in Nat /\ MaxFaces \in 0..(MaxInt - 1) /\ MaxStickers \in Nat /\ MaxRanks \in Nat
    /\ MaxArrivals \in Nat
    /\ \A t \in Tasks :
           /\ t.key = "dice" => t.count \in Int /\ t.sides \in Int
           /\ t.key = "faceid" => {t.left, t.right} \subseteq (-MaxInt - 1)..MaxInt
           /\ t.key = "report" => /\ t.now \in Int /\ t.dayNum \in Int
                                  /\ IsFiniteSet(t.messages)
                                  /\ \A m \in t.messages : m.time \in Int
           /\ t.key \in {"send", "send_json"} => t.typed \in Seq(STRING)
           /\ t.key = "mirror" => /\ t.width \in Nat /\ t.height \in Nat
                                  /\ {t.mode[1], t.mode[2]} \subseteq {"low", "high", "none"}

\* faces: Segments; stickers: EmojiLikeIDs; text: Message; urls: ImageURLs.
\* "at" is "running" until the first step and while the loop of .faceid runs,
\* then the statement that comes next.
Statements == {"likes", "pictures", "group", "days", "nights", "atted"}
Empty == [at |-> "running", faces |-> <<>>, stickers |-> <<>>, text |-> <<>>, urls |-> <<>>]
Hint == [Empty EXCEPT !.at = "hint"]
Answered(field, value) == [Empty EXCEPT !.at = "answered", ![field] = value]

NoRows == [messages |-> {}, mentions |-> {}]

SmallTypeOK ==
    /\ task \in Tasks
    /\ id \in (-MaxInt - 1)..MaxInt
    /\ answer.at \in {"running", "answered", "hint", "silent", "failed"} \cup Statements
    /\ seen.messages \subseteq table.messages /\ seen.mentions \subseteq table.mentions
    /\ table.mentions \subseteq {m \in table.messages : m.at # None}
    /\ task.key = "report" => table.messages \subseteq task.messages

\* Of a group of which a report is asked, any messages are in the table already
\* and some of their mentions.
SmallInit ==
    /\ task \in Tasks
    /\ id = 0
    /\ answer = Empty
    /\ seen = NoRows
    /\ IF task.key = "report"
       THEN \E messages \in SUBSET task.messages :
                \E mentions \in SUBSET {m \in messages : m.at # None} :
                    table = [messages |-> messages, mentions |-> mentions]
       ELSE table = NoRows

New(key) == task.key = key /\ answer = Empty /\ id = 0

\* A statement fails and so does the command.
QueryErr ==
    /\ UNCHANGED <<task, id, table, seen>>
    /\ \/ New("allface") \/ New("sendallface") \/ New("report")
       \/ /\ New("face") \/ New("getfaceid") \/ New("json") \/ New("file") \/ New("generate")
          /\ task.limit > 0
       \/ answer.at \in Statements
    /\ answer' = [Empty EXCEPT !.at = "failed"]

\* An int of the machine: sums and increments wrap.
Wrap(n) == ((n + MaxInt + 1) % (2 * (MaxInt + 1))) - MaxInt - 1
sum(results) ==
    LET total[k \in 0..Len(results)] == IF k = 0 THEN 0 ELSE Wrap(total[k - 1] + results[k])
    IN  total[Len(results)]

minInt(left, right) == IF left < right THEN left ELSE right
maxInt(left, right) == IF left > right THEN left ELSE right

------------------------------------------------------------------------------

\* handleDiceCommand: every die is urand.Range(1, sides).
Dice ==
    /\ New("dice")
    /\ UNCHANGED <<task, id, table, seen>>
    /\ IF task.count < 1 \/ task.sides < 1 \/ task.count > MaxDice
       THEN answer' = Hint
       ELSE \E results \in [1..task.count -> 1..task.sides] :
                answer' = Answered("text", results \o <<sum(results)>>)

\* handleFaceIDCommand before its loop.
FaceID ==
    /\ New("faceid")
    /\ UNCHANGED <<task, table, seen>>
    /\ IF \/ task.left <= 0 \/ task.right <= 0 \/ task.left > task.right
          \/ Wrap(task.right - task.left + 1) > MaxFaces
       THEN answer' = Hint /\ UNCHANGED id
       ELSE id' = task.left /\ UNCHANGED answer

\* Mutant of AddFace: the loop stops before the last face.
AddFaceShort ==
    /\ task.key = "faceid" /\ answer.at = "running" /\ id # 0
    /\ UNCHANGED <<task, table, seen>>
    /\ IF id >= task.right
       THEN answer' = [answer EXCEPT !.at = "answered"] /\ UNCHANGED id
       ELSE /\ id' = id + 1
            /\ answer' = [answer EXCEPT !.faces = Append(@, id)]

\* One turn of the loop "for id <= right".  The model stops one segment past
\* the limit, which the program does not.
AddFace ==
    /\ task.key = "faceid" /\ answer.at = "running" /\ id # 0
    /\ Len(answer.faces) <= MaxFaces
    /\ UNCHANGED <<task, table, seen>>
    /\ IF id > task.right
       THEN answer' = [answer EXCEPT !.at = "answered"] /\ UNCHANGED id
       ELSE /\ id' = Wrap(id + 1)
            /\ answer' = [answer EXCEPT !.faces = Append(@, id),
                   !.stickers = IF Wrap(id - task.left + 1) <= MaxStickers THEN Append(@, id) ELSE @]

\* An id is a record [val, alt]: its number, -1 if it is none, and which of the
\* strings with that number it is.  SortIntStrings: numbers first.
Before(a, b) ==
    IF a.val = b.val THEN a.alt < b.alt
    ELSE IF a.val = -1 \/ b.val = -1 THEN b.val = -1 ELSE a.val < b.val

\* uslice.CompressIntRanges over a sorted sequence: pairs <<start, end>>.
CompressIntRanges(items) ==
    FoldLeft(LAMBDA ranges, cur :
        IF ranges = <<>> THEN << <<cur, cur>> >>
        ELSE LET start == Last(ranges)[1]
                 prev == Last(ranges)[2]
             IN  IF prev.val # -1 /\ cur.val = prev.val THEN ranges
                 ELSE IF prev.val # -1 /\ cur.val = prev.val + 1
                 THEN Append(Front(ranges), <<start, cur>>)
                 ELSE Append(ranges, <<cur, cur>>),
        <<>>, items)

\* handleAllFaceCommand with AllFaceIDs, and the same for .sendallface, which sends
\* every id with its face.
AllFaces ==
    /\ New("allface")
    /\ UNCHANGED <<task, id, table, seen>>
    /\ answer' = Answered("text", CompressIntRanges(SetToSortSeq(task.ids, Before)))

SendAllFaces ==
    /\ New("sendallface")
    /\ UNCHANGED <<task, id, table, seen>>
    /\ answer' = IF task.ids = {} THEN Hint
                 ELSE Answered("faces", SetToSortSeq(task.ids, Before))

\* uface.FaceIDsFromSegments: the ids of one message, each once, blanks left out.
FaceIDsFromSegments(segments) ==
    FoldLeft(LAMBDA ids, s : IF s = None \/ Contains(ids, s) THEN ids ELSE Append(ids, s),
             <<>>, segments)

\* The group's messages are task.messages, oldest first, and those asked for the
\* last of them: RecentMessages of the first "count", and their places.
Recent(count) == {k \in 1..count : k > count - task.limit}
Places(count) == LET n == minInt(count, task.limit) IN [k \in 1..n |-> count - n + k]
RecentMessages(count) == [k \in DOMAIN Places(count) |-> task.messages[Places(count)[k]]]
All == Len(task.messages)

\* handleFaceCommand: a reaction for every face of the last messages; a message
\* whose JSON cannot be read (None) is passed over.
Face ==
    /\ New("face")
    /\ UNCHANGED <<task, id, table, seen>>
    /\ LET read == SelectSeq(RecentMessages(All), LAMBDA m : m # None)
           ids == FoldLeft(LAMBDA all, m : all \o FaceIDsFromSegments(m), <<>>, read)
       IN  answer' = IF Recent(All) = {} THEN Hint
                     ELSE IF ids = <<>> THEN [Empty EXCEPT !.at = "silent"]
                     ELSE Answered("stickers", ids)

\* RecentFaceIDRows: a message has its faces and the reactions to it; the last
\* "later" messages are stored between the two queries.  The first query, and the
\* faces of every row from its JSON.
GetFaceID ==
    /\ New("getfaceid")
    /\ UNCHANGED <<task, id, table, seen>>
    /\ LET recent == Places(All - task.later)
           Faces(m) == IF m = None THEN <<>> ELSE SortSeq(FaceIDsFromSegments(m), Before)
       IN  answer' = IF recent = <<>> THEN Hint
                     ELSE [Empty EXCEPT !.at = "likes",
                               !.text = [k \in DOMAIN recent |->
                                   [message |-> recent[k], likes |-> <<>>,
                                    faces |-> Faces(task.messages[recent[k]].faces)]]]

\* Mutant of LikesOf: the reactions go to the rows by their places.
LikesOfPlace(row) ==
    LET recent == Places(All)
        k == SelectInSeq(answer.text, LAMBDA r : r = row)
    IN  IF k \in DOMAIN recent THEN SortSeq(task.messages[recent[k]].likes, Before) ELSE <<>>

\* The second query finds the reactions to the messages that are the last by then;
\* those of messages without a row are passed over.
LikesOf(row) ==
    IF row.message \in Recent(All)
    THEN SortSeq(task.messages[row.message].likes, Before) ELSE <<>>

\* formatGetFaceIDRows.
GetLikes ==
    /\ task.key = "getfaceid" /\ answer.at = "likes"
    /\ UNCHANGED <<task, id, table, seen>>
    /\ LET rows == [k \in DOMAIN answer.text |-> [answer.text[k] EXCEPT !.likes = LikesOf(answer.text[k])]]
           lines == SelectSeq(rows, LAMBDA row : row.faces # <<>> \/ row.likes # <<>>)
       IN  answer' = IF lines = <<>> THEN Hint ELSE Answered("text", lines)

\* The URLs of RecentMessageImages, None where a row has none.
RecentImageURLs == FlattenSeq([k \in DOMAIN RecentMessages(All) |-> RecentMessages(All)[k].pictures])

\* handleImageToFileCommand and imageToFileSourceURLsFromRecords.
File ==
    /\ New("file")
    /\ UNCHANGED <<task, id, table, seen>>
    /\ LET urls == SelectSeq(RecentImageURLs, LAMBDA u : u # None)
       IN  answer' = IF urls = <<>> THEN Hint ELSE Answered("urls", urls)

\* handleGenerateImageCommand asks for the messages and makes a prompt of their
\* texts, those left out that are nothing but codes (None).  An argument that is
\* no count ends it (here: the limit 0).
Prompt ==
    /\ New("generate")
    /\ UNCHANGED <<task, id, table, seen>>
    /\ LET texts == [k \in DOMAIN RecentMessages(All - task.later) |->
                        RecentMessages(All - task.later)[k].text]
       IN  answer' = IF task.limit = 0 THEN Hint
                     ELSE [Empty EXCEPT !.at = "pictures",
                               !.text = SelectSeq(texts, LAMBDA text : text # None)]

\* Mutant of latestImageURL: the first picture there is.
firstImageURL(images) ==
    LET urls == SelectSeq(images, LAMBDA u : u # None) IN IF urls = <<>> THEN None ELSE Head(urls)

latestImageURL(images) ==
    LET urls == SelectSeq(images, LAMBDA u : u # None) IN IF urls = <<>> THEN None ELSE Last(urls)

\* It asks for the pictures, the last "later" messages being stored by now, and
\* has a picture made, which fails or not.  The default prompt stands in for
\* a missing text.
GenerateImage ==
    /\ task.key = "generate" /\ answer.at = "pictures"
    /\ UNCHANGED <<task, id, table, seen>>
    /\ LET imageURL == latestImageURL(RecentImageURLs)
           prompt == IF answer.text = <<>> THEN <<"default">> ELSE answer.text
       IN  \/ answer' = Hint
           \/ /\ answer.text # <<>> \/ imageURL # None
              /\ answer' = Answered("urls", << [prompt |-> prompt, of |-> imageURL] >>)

------------------------------------------------------------------------------

\* The MaxRanks of the domain with the greatest values, the greatest first: what is
\* equal comes in any order.
Ranked(value) ==
    {rank \in UNION {SetToSeqs(T) : T \in kSubset(minInt(MaxRanks, Cardinality(DOMAIN value)),
                                                   DOMAIN value)} :
        /\ \A j, k \in DOMAIN rank : j < k => value[rank[j]] >= value[rank[k]]
        /\ \A k \in DOMAIN rank, left \in DOMAIN value :
               left \in Range(rank) \/ value[rank[k]] >= value[left]}

\* Mutant of StartOfReport: so many times 24 hours before now.
StartOfReportAgo(now, dayNum) == now - dayNum * Day

\* utime.StartOfReport: five o'clock of this day, so many days ago.
StartOfReport(now, dayNum) == (now \div Day) * Day + Five - dayNum * Day

DayOf(m) == (m.time - Five) \div Day
offsetTime(m) == (m.time - Five) % Day

\* The rows a report counts, each under its day or the user it mentions.
Counted(rows) == {m \in rows : m.time >= StartOfReport(task.now, task.dayNum)}
ByDay(rows) == {<<DayOf(m), m>> : m \in rows}
ByUser(rows) == {<<m.at, m>> : m \in rows}

\* GROUP BY, ORDER BY count DESC, LIMIT.
Tally(pairs) ==
    [key \in {p[1] : p \in pairs} |-> Cardinality({p \in pairs : p[1] = key})]
Tops(pairs) ==
    {[k \in DOMAIN rank |-> <<rank[k], Tally(pairs)[rank[k]]>>] : rank \in Ranked(Tally(pairs))}

\* Mutant of LastOfDays: the first message of every day.
FirstOfDays(rows) ==
    {S \in SUBSET rows : \A n \in rows : \E m \in S :
        {l \in S : DayOf(l) = DayOf(n)} = {m} /\ m.time <= n.time}

\* The sets with the last message of every day: of messages at the same time any.
LastOfDays(rows) ==
    {S \in SUBSET rows : \A n \in rows : \E m \in S :
        {l \in S : DayOf(l) = DayOf(n)} = {m} /\ n.time <= m.time}

\* ReportStats: five statements, and no transaction around them.
CountMessages ==
    /\ New("report")
    /\ seen' = table
    /\ answer' = [Empty EXCEPT !.at = "group",
           !.text = [total |-> Cardinality(Counted(table.messages)),
                     days |-> <<>>, latest |-> <<>>, atted |-> <<>>]]
    /\ UNCHANGED <<task, id, table>>

\* The name of the group, which the table may lack.
NameGroup ==
    /\ task.key = "report" /\ answer.at = "group"
    /\ answer' = [answer EXCEPT !.at = "days"]
    /\ UNCHANGED <<task, id, table, seen>>

RankDays ==
    /\ task.key = "report" /\ answer.at = "days"
    /\ \E days \in Tops(ByDay(Counted(table.messages))) :
           answer' = [answer EXCEPT !.at = "nights", !.text.days = days]
    /\ UNCHANGED <<task, id, table, seen>>

\* The last message of every day, and rankNightRows.
RankNights ==
    /\ task.key = "report" /\ answer.at = "nights"
    /\ \E nights \in LastOfDays(Counted(table.messages)) :
           \E latest \in Ranked([m \in nights |-> offsetTime(m)]) :
               answer' = [answer EXCEPT !.at = "atted", !.text.latest = latest]
    /\ UNCHANGED <<task, id, table, seen>>

\* Whoever was mentioned most often; formatReport has nothing to tell where the
\* first statement found no message.
RankAtted ==
    /\ task.key = "report" /\ answer.at = "atted"
    /\ \E atted \in Tops(ByUser(Counted(table.mentions))) :
           answer' = IF answer.text.total = 0 THEN Hint
                     ELSE [answer EXCEPT !.at = "answered", !.text.atted = atted]
    /\ UNCHANGED <<task, id, table, seen>>

\* Meanwhile other goroutines store messages, and their mentions after them.
Arrives == Cardinality(table.messages \ seen.messages)
           + Cardinality(table.mentions \ seen.mentions) < MaxArrivals
MessageStored ==
    /\ task.key = "report" /\ answer.at \in Statements /\ Arrives
    /\ \E m \in task.messages \ table.messages : table' = [table EXCEPT !.messages = @ \cup {m}]
    /\ UNCHANGED <<task, id, answer, seen>>
MentionStored ==
    /\ task.key = "report" /\ answer.at \in Statements /\ Arrives
    /\ \E m \in table.messages \ table.mentions :
           m.at # None /\ table' = [table EXCEPT !.mentions = @ \cup {m}]
    /\ UNCHANGED <<task, id, answer, seen>>

------------------------------------------------------------------------------

\* A text is a sequence of pieces: "[", "]", "CQ:", "&", "amp;" and others.
\* In a raw message OneBot writes the brackets of its own codes, here the pieces
\* "open" and "close", as they are and all others by references.
Reference(piece) == CASE piece = "[" -> "#91;" [] piece = "]" -> "#93;" [] OTHER -> "amp;"
Spelled(piece, escaped) ==
    IF piece \in escaped THEN <<"&", Reference(piece)>>
    ELSE IF piece = "open" THEN <<"[", "CQ:">>
    ELSE IF piece = "close" THEN <<"]">>
    ELSE <<piece>>
Written(text, escaped) ==
    LET from[k \in 1..(Len(text) + 1)] ==
            IF k > Len(text) THEN <<>> ELSE Spelled(text[k], escaped) \o from[k + 1]
    IN from[1]
Encoded(text) == Written(text, {"&", "[", "]"})
Plain(text) == Written(text, {})

\* strings.ReplaceAll of the reference to a piece by the piece.
Refers(text, rest, k) == k < Len(text) /\ text[k] = "&" /\ text[k + 1] = rest
ReplaceReference(text, rest, by) ==
    LET from[k \in 1..(Len(text) + 1)] ==
            IF k > Len(text) THEN <<>>
            ELSE IF Refers(text, rest, k) THEN <<by>> \o from[k + 2]
            ELSE <<text[k]>> \o from[k + 1]
    IN from[1]

\* Mutant of UnescapeCQText: ampersands first.
UnescapeCQTextFirst(text) ==
    ReplaceReference(ReplaceReference(ReplaceReference(text, "amp;", "&"), "#91;", "["), "#93;", "]")

UnescapeCQText(text) ==
    ReplaceReference(ReplaceReference(ReplaceReference(text, "#91;", "["), "#93;", "]"), "amp;", "&")

\* Line ends and tabs that are written out become what they stand for.
NormalizeOutboundText(text) ==
    [k \in DOMAIN text |-> IF text[k] \in {"\r\n", "\\r\\n", "\\n"} THEN "\n"
                          ELSE IF text[k] = "\\t" THEN "\t" ELSE text[k]]

\* A code opens at the place i and ends where its brackets are closed.
OpensCode(text, i) == i < Len(text) /\ text[i] = "[" /\ text[i + 1] = "CQ:"
Depth(text, i, k) == Cardinality({j \in i..k : text[j] = "["}) - Cardinality({j \in i..k : text[j] = "]"})
CodeEnds(text, i) == {k \in i..Len(text) : Depth(text, i, k) = 0}

\* Mutant of Inner: only the brackets that open are escaped.
InnerOpening(text) == Written(text, {"["})

Inner(text) == Written(text, {"[", "]"})

\* Mutant of EscapeCQAnimatedSummary: only the first code is escaped.
EscapeFirstSummary(text) ==
    LET from[i \in 1..(Len(text) + 1)] ==
            IF i > Len(text) THEN <<>>
            ELSE IF ~OpensCode(text, i) THEN <<text[i]>> \o from[i + 1]
            ELSE IF CodeEnds(text, i) = {} THEN SubSeq(text, i, Len(text))
            ELSE LET end == Min(CodeEnds(text, i))
                 IN  <<"[">> \o Inner(SubSeq(text, i + 1, end - 1)) \o SubSeq(text, end, Len(text))
    IN from[1]

\* The brackets inside every code that ends; what follows one that does not is
\* left as it is.
EscapeCQAnimatedSummary(text) ==
    LET from[i \in 1..(Len(text) + 1)] ==
            IF i > Len(text) THEN <<>>
            ELSE IF ~OpensCode(text, i) THEN <<text[i]>> \o from[i + 1]
            ELSE IF CodeEnds(text, i) = {} THEN SubSeq(text, i, Len(text))
            ELSE LET end == Min(CodeEnds(text, i))
                 IN  <<"[">> \o Inner(SubSeq(text, i + 1, end - 1)) \o <<"]">> \o from[end + 1]
    IN from[1]

\* Mutant of sendGroupText: PreserveText is forgotten.
sendGroupTextAlways(text, PreserveText) == EscapeCQAnimatedSummary(NormalizeOutboundText(text))

\* What sendGroupText makes of a message before it is written.
sendGroupText(text, PreserveText) ==
    IF PreserveText THEN text ELSE EscapeCQAnimatedSummary(NormalizeOutboundText(text))

\* .send: the text comes as OneBot spells it and goes the way of all answers.
Send ==
    /\ New("send")
    /\ UNCHANGED <<task, id, table, seen>>
    /\ answer' = Answered("text", sendGroupText(UnescapeCQText(Encoded(task.typed)), FALSE))

\* handleSendJSONCommand, with a JSON object or anything else; the segment is
\* sent without a further conversion.
SendJSON ==
    /\ New("send_json")
    /\ UNCHANGED <<task, id, table, seen>>
    /\ answer' = IF ~task.valid THEN Hint ELSE Answered("text", UnescapeCQText(Encoded(task.typed)))

\* handleJSONCommand: what is stored, "null" where nothing is, and as a string
\* where it is no JSON.
Stored(json) == IF json = None THEN <<"null">> ELSE json
JSON ==
    /\ New("json")
    /\ UNCHANGED <<task, id, table, seen>>
    /\ LET history == RecentMessages(All)
       IN  answer' = IF history = <<>> THEN Hint
                     ELSE Answered("text", sendGroupText(
                              FlattenSeq([k \in DOMAIN history |-> Stored(history[k])]), TRUE))

\* Any other answer, the reply of a model for one.
SendText ==
    /\ New("text")
    /\ UNCHANGED <<task, id, table, seen>>
    /\ answer' = Answered("text", sendGroupText(task.text, FALSE))

------------------------------------------------------------------------------

\* Mutant of Along: the middle line is left out of the mirrored half.
AlongShifted(half, size, at) ==
    CASE half = "low"  -> IF at < size \div 2 THEN at ELSE size - at
      [] half = "high" -> IF at < size \div 2 THEN size - 1 - at ELSE at
      [] OTHER         -> at

\* mirroredSourcePoint for a picture with the corner <<0, 0>>: along each axis the
\* mode takes the "low" half, the "high" half or neither.
Along(half, size, at) ==
    CASE half = "low"  -> minInt(at, size - 1 - at)
      [] half = "high" -> maxInt(at, size - 1 - at)
      [] OTHER         -> at

mirroredSourcePoint(t, x, y) == <<Along(t.mode[1], t.width, x), Along(t.mode[2], t.height, y)>>

\* makeSymmetricStatic, and makeSymmetricGIF for each frame by its own bounds.
Pixels(t) == (0..(t.width - 1)) \X (0..(t.height - 1))
Mirror ==
    /\ New("mirror")
    /\ UNCHANGED <<task, id, table, seen>>
    /\ answer' = Answered("text", [p \in Pixels(task) |-> mirroredSourcePoint(task, p[1], p[2])])

SmallNext ==
    \/ Dice \/ FaceID \/ AddFace \/ AllFaces \/ SendAllFaces \/ Face \/ GetFaceID \/ GetLikes
    \/ File \/ Prompt \/ GenerateImage
    \/ CountMessages \/ NameGroup \/ RankDays \/ RankNights \/ RankAtted
    \/ MessageStored \/ MentionStored
    \/ Send \/ SendJSON \/ JSON \/ SendText \/ Mirror
    \/ QueryErr

SmallSpec == SmallInit /\ [][SmallNext]_smallVars

------------------------------------------------------------------------------

Together(dice) ==
    LET total[k \in 0..Len(dice)] == IF k = 0 THEN 0 ELSE total[k - 1] + dice[k]
    IN  total[Len(dice)]

\* handleDiceCommand adds what it shows: the total is the sum of the dice whenever
\* the largest total of such a throw is an int.
DiceAddUp ==
    task.key = "dice" /\ answer.at = "answered" /\ task.count * task.sides <= MaxInt =>
        LET dice == Front(answer.text)
        IN  /\ Len(dice) = task.count
            /\ Last(answer.text) = Together(dice)

\* handleFaceIDCommand answers with the faces it was asked for, each once, never
\* more than the limit it announces, and with the first of them as reactions.
\* It is so for every range but those that end at the largest int, where the
\* loop variable wraps around before it passes the end.
FacesAsAsked ==
    task.key = "faceid" /\ task.right < MaxInt =>
        /\ Len(answer.faces) <= MaxFaces
        /\ answer.at = "answered" =>
            /\ answer.faces = [k \in 1..(task.right - task.left + 1) |-> task.left + k - 1]
            /\ answer.stickers = SubSeq(answer.faces, 1, minInt(MaxStickers, Len(answer.faces)))

\* The ranges formatAllFaceIDs shows stand for the ids of the table and no others,
\* ascending, and no two of them could be one; what is no number is shown as it is.
\* .sendallface sends every id of the table once, ascending.
RangesAreTheIDs ==
    /\ task.key = "allface" /\ answer.at = "answered" =>
        LET ranges == answer.text
            Numbers == {k \in DOMAIN ranges : ranges[k][1].val # -1}
            Covered(k) == ranges[k][1].val..ranges[k][2].val
        IN  /\ UNION {Covered(k) : k \in Numbers} = {i.val : i \in task.ids} \ {-1}
            /\ \A k \in Numbers : \A j \in 1..(k - 1) : ranges[j][2].val + 1 < ranges[k][1].val
            /\ {ranges[k] : k \in DOMAIN ranges \ Numbers}
                    = {<<i, i>> : i \in {w \in task.ids : w.val = -1}}
    /\ task.key = "sendallface" /\ answer.at = "answered" =>
        /\ Range(answer.faces) = task.ids
        /\ \A j, k \in DOMAIN answer.faces : j < k => Before(answer.faces[j], answer.faces[k])

\* .face reacts with the faces of the last messages, message by message, with
\* every face of a message and with none of them twice (handleFaceCommand).
ReactionsFollow ==
    task.key = "face" /\ answer.at = "answered" =>
        LET Faces(m) == IF task.messages[m] = None THEN {} ELSE Range(task.messages[m]) \ {None}
        IN  \E message \in [DOMAIN answer.stickers -> Recent(All)] :
                /\ \A j, k \in DOMAIN message : j < k =>
                       \/ message[j] < message[k]
                       \/ message[j] = message[k] /\ answer.stickers[j] # answer.stickers[k]
                /\ \A m \in Recent(All) :
                       {answer.stickers[k] : k \in {j \in DOMAIN message : message[j] = m}} = Faces(m)

\* .getfaceid shows under every message its own ids, ascending, and every reaction
\* to it (RecentFaceIDRows): a message that arrives between the two queries may
\* only take the reactions of a message that is not among the last any more.
RowsOfOneMessage ==
    task.key = "getfaceid" /\ answer.at = "answered" =>
        LET Rising(ids) == \A k \in 2..Len(ids) : ~Before(ids[k], ids[k - 1])
        IN  \A k \in DOMAIN answer.text :
                LET row == answer.text[k]
                    message == task.messages[row.message]
                IN  /\ Rising(row.faces) /\ Rising(row.likes)
                    /\ Range(row.faces) = IF message.faces = None THEN {}
                                          ELSE Range(message.faces) \ {None}
                    /\ \/ /\ row.likes = <<>>
                          /\ row.message <= Len(task.messages) - task.limit
                       \/ /\ Len(row.likes) = Len(message.likes)
                          /\ Range(row.likes) = Range(message.likes)

\* .file sends the pictures of the last messages.  What .generate makes a picture
\* of is the latest picture of the group, which is one of the messages whose texts
\* are the prompt or one stored since they were read; without a picture there is
\* none in these messages either (handleGenerateImageCommand, latestImageURL).
PicturesOfTheLast ==
    LET Pictured(M) == UNION {Range(task.messages[m].pictures) : m \in M} \ {None}
    IN  /\ task.key = "file" /\ answer.at = "answered" => Range(answer.urls) = Pictured(Recent(All))
        /\ task.key = "generate" /\ answer.at = "answered" =>
            LET url == answer.urls[1].of
                read == Recent(All - task.later)
                since == (All - task.later + 1)..All
            IN  IF url = None THEN Pictured(Recent(All)) = {}
                ELSE \E m \in read \cup since : /\ url \in Pictured({m})
                                              /\ Pictured((m + 1)..All) = {}

\* A ranking made between two states of a table: what it names has been counted,
\* between what there was before and what there is now, the greatest first, and
\* what it leaves out is no greater than what it names, of which there are as
\* many as there may be.
TopsBetween(tops, before, now) ==
    LET Rows(pairs, key) == {p \in pairs : p[1] = key}
    IN  /\ \A k \in DOMAIN tops :
               /\ 0 < tops[k][2]
               /\ Cardinality(Rows(before, tops[k][1])) <= tops[k][2]
               /\ tops[k][2] <= Cardinality(Rows(now, tops[k][1]))
               /\ \A j \in 1..(k - 1) : tops[j][1] # tops[k][1] /\ tops[j][2] >= tops[k][2]
        /\ \A p \in before :
               \/ \E k \in DOMAIN tops : tops[k][1] = p[1]
               \/ /\ Len(tops) = MaxRanks
                  /\ \A k \in DOMAIN tops : tops[k][2] >= Cardinality(Rows(before, p[1]))

\* The same of the nights: the last message of a day comes after all there were
\* before, and a day left out has none that comes nearer to five.
NightsBetween(latest, before, now) ==
    /\ \A k \in DOMAIN latest :
           /\ latest[k] \in now
           /\ \A m \in before : DayOf(m) = DayOf(latest[k]) => m.time <= latest[k].time
           /\ \A j \in 1..(k - 1) : DayOf(latest[j]) # DayOf(latest[k])
    /\ \A m \in before :
           \/ \E k \in DOMAIN latest : DayOf(latest[k]) = DayOf(m)
           \/ /\ Len(latest) = MaxRanks
              /\ \A k \in DOMAIN latest : offsetTime(latest[k]) >= offsetTime(m)

\* The rows of the days a report is about: from dayNum days before the calendar day.
Reported(rows) == {m \in rows : DayOf(m) >= (task.now \div Day) - task.dayNum}

\* A report misses nothing that was in the table when it was asked for and tells of
\* nothing that is not there when it is given, though its statements read the table
\* at different times: the total, the days (each from five to five, and whole), the
\* nights and the users mentioned.  A day it ranks has its night among the latest
\* unless these are full; that there is nothing to tell it says only where there
\* was nothing (ReportStats, rankNightRows, StartOfReport, formatReport).
ReportIsWhole ==
    task.key = "report" =>
        LET report == answer.text
            before == Reported(seen.messages)
        IN  /\ answer.at = "answered" =>
                   /\ report.total = Cardinality(before)
                   /\ TopsBetween(report.days, ByDay(before), ByDay(Reported(table.messages)))
                   /\ NightsBetween(report.latest, before, Reported(table.messages))
                   /\ TopsBetween(report.atted, ByUser(Reported(seen.mentions)),
                                  ByUser(Reported(table.mentions)))
                   /\ \A k \in DOMAIN report.days :
                          \/ Len(report.latest) = MaxRanks
                          \/ \E j \in DOMAIN report.latest : DayOf(report.latest[j]) = report.days[k][1]
            /\ answer.at = "hint" => before = {}

\* What is sent is what was typed, references like "&#91;" and the codes of OneBot
\* included ("Decode ampersands last so a literal "&#91;" remains literal after one
\* pass."): .sendjson sends just that, .send what sendGroupText makes of it, and
\* .json shows what is stored as it is stored.
SentAsTyped ==
    answer.at = "answered" =>
        /\ task.key = "send" => answer.text = sendGroupText(Plain(task.typed), FALSE)
        /\ task.key = "send_json" => answer.text = Plain(task.typed)
        /\ task.key = "json" =>
               answer.text = FlattenSeq([k \in DOMAIN Places(All) |-> Stored(RecentMessages(All)[k])])

\* What the receiving side takes for codes: from where one opens to the first "]".
Codes(text) ==
    LET from[i \in 1..(Len(text) + 1)] ==
            LET ends == {k \in i..Len(text) : text[k] = "]"}
            IN  IF i > Len(text) THEN <<>>
                ELSE IF ~OpensCode(text, i) THEN from[i + 1]
                ELSE IF ends = {} THEN <<>>
                ELSE <<SubSeq(text, i, Min(ends))>> \o from[Min(ends) + 1]
    IN  from[1]

\* sendGroupText changes no text but line ends and tabs that are written out and,
\* place by place, the brackets inside codes, those that follow one that does not
\* end excepted; a second pass over its result changes nothing ("Plain text and
\* existing CQ escapes remain untouched."); and in a text whose codes all end the
\* receiving side finds every code whole and nothing else.
CodesStayWhole ==
    task.key \in {"send", "text"} /\ answer.at = "answered" =>
        LET text == NormalizeOutboundText(IF task.key = "send" THEN Plain(task.typed) ELSE task.text)
            opened == {i \in DOMAIN text : OpensCode(text, i)}
            Ended(i) == CodeEnds(text, i) # {}
            End(i) == Min(CodeEnds(text, i))
            codes == {i \in opened : Ended(i) /\ \A h \in opened : h < i => Ended(h) /\ End(h) < i}
            Inside(k) == \E i \in codes : i < k /\ k < End(i)
            Sent(i, j) == FlattenSeq([k \in 1..(j - i + 1) |->
                LET at == i + k - 1
                IN  IF Inside(at) /\ text[at] \in {"[", "]"} THEN <<"&", Reference(text[at])>>
                    ELSE <<text[at]>>])
        IN  /\ answer.text = Sent(1, Len(text))
            /\ EscapeCQAnimatedSummary(answer.text) = answer.text
            /\ (\A i \in opened : Ended(i)) =>
                   LET order == SetToSortSeq(codes, <)
                   IN  Codes(answer.text) = [k \in DOMAIN order |-> Sent(order[k], End(order[k]))]

\* The pixel each pixel is taken from, one inside the picture.
Symmetric(t, from) ==
    LET Other(p) == <<IF t.mode[1] = "none" THEN p[1] ELSE t.width - 1 - p[1],
                      IF t.mode[2] = "none" THEN p[2] ELSE t.height - 1 - p[2]>>
        Kept(half, size, at) == /\ half = "low" => 2 * at <= size - 1
                                /\ half = "high" => 2 * at >= size - 1
    IN  \A p \in Pixels(t) :
            /\ from[p] \in Pixels(t) /\ from[from[p]] = from[p] /\ from[Other(p)] = from[p]
            /\ Kept(t.mode[1], t.width, p[1]) /\ Kept(t.mode[2], t.height, p[2]) => from[p] = p

\* A mirrored picture (makeSymmetricStatic, one frame of makeSymmetricGIF) takes
\* every pixel from inside the picture, is symmetric along each axis of its mode,
\* keeps the half it mirrors, middle line included, and mirroring it again
\* changes nothing.
MirrorIsSymmetric ==
    task.key = "mirror" /\ answer.at = "answered" => Symmetric(task, answer.text)

=============================================================================
