------------------------------ MODULE BbhAppend ------------------------------
(***************************************************************************)
(* The .bbh commands on one book of the novel site.  A book is a sequence  *)
(* of paragraphs between two boundary paragraphs.  An append reads the     *)
(* book, may wait for a model to write the text, and asks the site to put  *)
(* the new paragraph behind the one before the end boundary; meanwhile     *)
(* other handlers and the readers of the site change the book.  The site   *)
(* itself is not in the repository: InsertAfter and Removed are what the   *)
(* client assumes of it.                                                   *)
(***************************************************************************)
EXTENDS Integers, Sequences, SequencesExt

CONSTANTS
    Authors,    \* goroutines that run a .bbh command, and their paragraphs
    Web,        \* paragraphs the site's own users write
    Old,        \* paragraphs that may be there at the start
    Books,      \* what the book may be at the start, sequences of paragraphs
    Ranges,     \* paragraph ranges asked for
    Opening, Closing  \* the boundary paragraphs

Unique(paras) == \A i, j \in DOMAIN paras : paras[i] = paras[j] => i = j

\* The site knows a paragraph by its id, and a book has both boundaries or is not there.
BbhAssumption ==
    /\ Authors \cap Web = {}
    /\ (Authors \cup Web) \cap (Old \cup {Opening, Closing}) = {}
    /\ Opening # Closing
    /\ Ranges \subseteq Int \X Int
    /\ \A b \in Books :
           /\ b \in Seq(Old \cup {Opening, Closing}) /\ Unique(b)
           /\ b # <<>> => Len(b) >= 2 /\ b[1] = Opening /\ b[Len(b)] = Closing

VARIABLES
    book,       \* the paragraphs on the site
    used,       \* paragraphs of the site's users that have been written
    turn        \* the command of each goroutine

bbhVars == <<book, used, turn>>

BbhKinds == {"book", "range", "add", "ai"}
BbhPlaces == {"new", "paragraphs", "complete", "post", "replied", "hinted", "failed"}
Paragraphs == Authors \cup Web \cup Old \cup {Opening, Closing}

\* paras   what GET /book/{id}/paragraphs answered
\* shown   the paragraph numbers of the reply
Turns == [at : BbhPlaces, kind : BbhKinds, range : Ranges, paras : Seq(Paragraphs), shown : SUBSET Int]

BbhTypeOK ==
    /\ book \in Seq(Paragraphs)
    /\ used \subseteq Web
    /\ turn \in [Authors -> Turns]

BbhInit ==
    /\ book \in Books
    /\ used = {}
    /\ turn \in [Authors -> {[at |-> "new", kind |-> kind, range |-> range, paras |-> <<>>,
                              shown |-> {}] : kind \in BbhKinds, range \in Ranges}]
    /\ \A h \in Authors : turn[h].kind # "range" => turn[h].range = CHOOSE r \in Ranges : TRUE

\* trimBoundaryParagraphs.
TrimBoundary(paras) == IF Len(paras) <= 2 THEN <<>> ELSE SubSeq(paras, 2, Len(paras) - 1)

BbhBecome(h, place, paras, shown) ==
    turn' = [turn EXCEPT ![h] = [@ EXCEPT !.at = place, !.paras = paras, !.shown = shown]]
Leave(h, place) == BbhBecome(h, place, <<>>, {}) /\ UNCHANGED <<book, used>>

\* The command is matched; .bbh with a number alone asks for the book first.
Match(h) ==
    /\ turn[h].at = "new"
    /\ BbhBecome(h, "paragraphs", <<>>, {})
    /\ UNCHANGED <<book, used>>

\* Mutant of InRange: left and right are not compared.
RangeUnordered(paras, r) == ~(r[1] < 1 \/ r[2] > Len(TrimBoundary(paras)))

InRange(paras, r) ==
    LET n == Len(TrimBoundary(paras))
    IN ~(r[1] < 1 \/ r[2] < 1 \/ r[1] > n \/ r[2] > n \/ r[1] > r[2])

\* The paragraphs arrive: a reply for who only reads, and for who writes the
\* text to continue.
ParagraphsArrive(h) ==
    /\ turn[h].at = "paragraphs"
    /\ LET kind == turn[h].kind  r == turn[h].range IN
       \/ /\ kind = "book"
          /\ BbhBecome(h, "replied", book, 1..Len(TrimBoundary(book)))
       \/ /\ kind = "range" /\ InRange(book, r)
          /\ BbhBecome(h, "replied", book, r[1]..r[2])
       \/ /\ kind = "range" /\ ~InRange(book, r)
          /\ BbhBecome(h, "hinted", <<>>, {})
       \/ /\ kind \in {"add", "ai"} /\ Len(book) < 2
          /\ BbhBecome(h, "hinted", <<>>, {})
       \/ /\ kind \in {"add", "ai"} /\ Len(book) >= 2
          /\ BbhBecome(h, IF kind = "ai" THEN "complete" ELSE "post", book, {})
    /\ UNCHANGED <<book, used>>

\* The site refuses (Success is false), or a call fails; an unusable answer of
\* the model is a hint too.
Hint(h) == turn[h].at \in {"paragraphs", "complete", "post"} /\ Leave(h, "hinted")
Err(h) == turn[h].at \in {"paragraphs", "complete", "post"} /\ Leave(h, "failed")

\* The model has written a paragraph with author and content.
Generated(h) ==
    /\ turn[h].at = "complete"
    /\ BbhBecome(h, "post", turn[h].paras, {})
    /\ UNCHANGED <<book, used>>

\* The site puts a paragraph right behind another one, if that is still there.
InsertAfter(prev, para) == InsertAt(book, SelectInSeq(book, LAMBDA p : p = prev) + 1, para)

\* Mutant of PrevPara: the end boundary itself.
PrevParaTail(paras) == paras[Len(paras)]

PrevPara(paras) == paras[Len(paras) - 1]

\* Mutant of AddParagraph: the paragraph is posted again after the answer.
AddParagraphRepeated(h) ==
    /\ turn[h].at = "post"
    /\ LET prev == PrevPara(turn[h].paras) IN
       /\ Contains(book, prev)
       /\ book' = InsertAfter(prev, h)
    /\ UNCHANGED <<used, turn>>

\* AddParagraph, answered.  The number in the reply counts the paragraphs read.
AddParagraph(h) ==
    /\ turn[h].at = "post"
    /\ LET prev == PrevPara(turn[h].paras) IN
       /\ Contains(book, prev)
       /\ book' = InsertAfter(prev, h)
    /\ BbhBecome(h, "replied", turn[h].paras, {Len(turn[h].paras) - 1})
    /\ UNCHANGED used

\* AddParagraph, done by the site but not heard of within the client's timeout.
AddParagraphUnheard(h) ==
    /\ turn[h].at = "post"
    /\ LET prev == PrevPara(turn[h].paras) IN
       /\ Contains(book, prev)
       /\ book' = InsertAfter(prev, h)
    /\ BbhBecome(h, "failed", <<>>, {})
    /\ UNCHANGED used

\* Users of the site write and remove paragraphs between the boundaries.
Written(w, k) ==
    /\ w \notin used
    /\ k \in 2..Len(book)
    /\ book' = InsertAt(book, k, w)
    /\ used' = used \cup {w}
    /\ UNCHANGED turn

Removed(k) ==
    /\ k \in 2..(Len(book) - 1)
    /\ book[k] \in Web
    /\ book' = RemoveAt(book, k)
    /\ UNCHANGED <<used, turn>>

BbhStep(h) ==
    \/ Match(h) \/ ParagraphsArrive(h) \/ Hint(h) \/ Err(h)
    \/ Generated(h) \/ AddParagraph(h) \/ AddParagraphUnheard(h)

BbhNext ==
    \/ \E h \in Authors : BbhStep(h)
    \/ \E w \in Web, k \in 1..(Len(book) + 1) : Written(w, k)
    \/ \E k \in 1..Len(book) : Removed(k)

BbhSpec == BbhInit /\ [][BbhNext]_bbhVars

-----------------------------------------------------------------------------

Where(p) == SelectInSeq(book, LAMBDA q : q = p)
Writes(h) == turn[h].kind \in {"add", "ai"}

\* A command adds at most one paragraph, between the boundaries, and it is there
\* whenever the command said so; a command that only reads adds none.  (Nothing
\* is tried again after a lost answer: handleBBHAddParagraph, handleBBHAI.)
AddedOnce ==
    \A h \in Authors :
        /\ \A i, j \in DOMAIN book : book[i] = h /\ book[j] = h => i = j
        /\ Where(h) # 0 => Writes(h) /\ Where(h) \in 2..(Len(book) - 1)
        /\ Writes(h) /\ turn[h].at = "replied" => Where(h) # 0

\* What a writer had read and is still there stands before its paragraph,
\* whatever the others wrote or removed meanwhile.  (PrevParaID.)
WrittenAfterRead ==
    \A h \in Authors :
        Writes(h) /\ turn[h].at = "replied" =>
            \A i \in 1..(Len(turn[h].paras) - 1) :
                LET p == turn[h].paras[i] IN Where(p) # 0 => Where(p) < Where(h)

\* A reply names only paragraphs that were between the boundaries when the book
\* was read, and something in any case if a range was asked for.
\* (handleBBHParagraphs indexes a slice without further checks.)
ShowsWhatIsThere ==
    \A h \in Authors :
        turn[h].at = "replied" /\ ~Writes(h) =>
            /\ turn[h].shown \subseteq DOMAIN TrimBoundary(turn[h].paras)
            /\ turn[h].kind = "range" => turn[h].shown # {}

\* All of these together.
ParagraphsSound == AddedOnce /\ WrittenAfterRead /\ ShowsWhatIsThere
=============================================================================
