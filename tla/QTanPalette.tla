----------------------------- MODULE QTanPalette -----------------------------
(***************************************************************************)
(* The palette of a .qtan picture.  Its colours are counted and, if there  *)
(* are more than the palette holds, put into boxes: the box that spans the *)
(* widest range of one channel is split where both sides weigh about the   *)
(* same, until there are enough boxes or none can be split.  A box becomes *)
(* the mean of its colours, and each pixel the entry nearest to it.        *)
(***************************************************************************)
EXTENDS Integers, Sequences, FiniteSets, FiniteSetsExt

CONSTANTS
    Colours,    \* triples <<red, green, blue>>
    Weights,    \* how often a colour may occur
    MaxColors   \* entries of the palette but the transparent one

VARIABLES
    counts,     \* counts: how often each colour of the picture occurs
    boxes,      \* the boxes, a sequence of sets of colours
    palette     \* the colours of the entries 1..; <<>> until they are made

paletteVars == <<counts, boxes, palette>>

Byte == 0..255
Channels == {1, 2, 3}
Picture == DOMAIN counts

PaletteAssumption ==
    /\ Colours \subseteq Byte \X Byte \X Byte
    /\ Weights \subseteq Nat \ {0}
    /\ MaxColors \in Nat \ {0}

PaletteTypeOK ==
    /\ Picture \subseteq Colours /\ counts \in [Picture -> Weights]
    /\ boxes \in Seq(SUBSET Colours)
    /\ palette \in Seq(Byte \X Byte \X Byte)

PaletteInit ==
    /\ \E P \in SUBSET Colours : counts \in [P -> Weights]
    /\ boxes = <<DOMAIN counts>>
    /\ palette = <<>>

\* qtanColorKey.
Key(c) == 256 * (256 * c[1] + c[2]) + c[3]

\* The members of a set, sorted by a rank that no two of them share.
Ascending(S, rank) ==
    CHOOSE s \in [1..Cardinality(S) -> S] : \A i, j \in DOMAIN s : i < j => rank[s[i]] < rank[s[j]]

\* The sums of the first, the first two, ... of a sequence of numbers.
Sums(values) ==
    LET sum[k \in 0..Len(values)] == IF k = 0 THEN 0 ELSE sum[k - 1] + values[k] IN sum
SumOf(values) == Sums(values)[Len(values)]

------------------------------------------------------------------------------
(* Splitting the boxes. *)

\* qtanBoxBounds, and the widest channel, red before green before blue.
BoxRange(box, ch) == Max({c[ch] : c \in box}) - Min({c[ch] : c \in box})
BestRange(box) == Max({BoxRange(box, ch) : ch \in Channels})
Channel(box) == Min({ch \in Channels : BoxRange(box, ch) = BestRange(box)})

Splittable == {i \in DOMAIN boxes : Cardinality(boxes[i]) >= 2 /\ BestRange(boxes[i]) > 0}
\* The first of the boxes that span most.
BoxIndex == Min({i \in Splittable : \A j \in Splittable : BestRange(boxes[i]) >= BestRange(boxes[j])})

\* A box sorted along its widest channel, and by the key where that is the same.
Sorted(box) ==
    LET ch == Channel(box) IN Ascending(box, [c \in box |-> 256 * 256 * 256 * c[ch] + Key(c)])

CountsOf(seq) == [k \in DOMAIN seq |-> counts[seq[k]]]
Imbalance(seq, i) ==
    LET d == 2 * Sums(CountsOf(seq))[i] - SumOf(CountsOf(seq)) IN IF d < 0 THEN -d ELSE d

\* Mutant of Split, the form the comment in the code warns of: a side may come out
\* empty, and then nothing is split at all.
SplitAtHalf(seq) ==
    Max({i \in 0..(Len(seq) - 1) : 2 * Sums(CountsOf(seq))[i] <= SumOf(CountsOf(seq))})

\* The first position at which the two sides differ least.
Split(seq) ==
    Min({i \in 1..(Len(seq) - 1) : \A j \in 1..(Len(seq) - 1) : Imbalance(seq, i) <= Imbalance(seq, j)})

MoreToSplit == Cardinality(Picture) > MaxColors /\ Len(boxes) < MaxColors /\ Splittable # {}

\* One round of the loop of qtanQuantizeEntries.
SplitBox ==
    /\ palette = <<>>
    /\ MoreToSplit
    /\ LET seq == Sorted(boxes[BoxIndex])
           cut == Split(seq) IN
       /\ cut > 0
       /\ boxes' = Append([boxes EXCEPT ![BoxIndex] = {seq[k] : k \in 1..cut}],
                          {seq[k] : k \in (cut + 1)..Len(seq)})
    /\ UNCHANGED <<counts, palette>>

------------------------------------------------------------------------------
(* Making the entries. *)

\* The mean of a box along a channel, each colour as often as it occurs.
MeanAlong(seq, ch) == SumOf([k \in DOMAIN seq |-> seq[k][ch] * counts[seq[k]]]) \div SumOf(CountsOf(seq))
Mean(box) == <<MeanAlong(Sorted(box), 1), MeanAlong(Sorted(box), 2), MeanAlong(Sorted(box), 3)>>

\* The means of the boxes, sorted by their keys; two that are the same in any order.
Means ==
    LET order == Ascending(DOMAIN boxes,
                           [i \in DOMAIN boxes |-> Key(Mean(boxes[i])) * (Len(boxes) + 1) + i])
    IN [k \in DOMAIN order |-> Mean(boxes[order[k]])]

\* The colours themselves if there are few, the means of the boxes else.  A picture
\* without an opaque pixel has black as its only colour.
MakePalette ==
    /\ palette = <<>>
    /\ MoreToSplit => Split(Sorted(boxes[BoxIndex])) = 0
    /\ palette' = IF Picture = {} THEN <<<<0, 0, 0>>>>
                  ELSE IF Cardinality(Picture) <= MaxColors
                  THEN Ascending(Picture, [c \in Picture |-> Key(c)])
                  ELSE Means
    /\ UNCHANGED <<counts, boxes>>

PaletteNext == SplitBox \/ MakePalette

PaletteSpec == PaletteInit /\ [][PaletteNext]_paletteVars

------------------------------------------------------------------------------

Distance(c, d) == (c[1] - d[1]) * (c[1] - d[1]) + (c[2] - d[2]) * (c[2] - d[2])
                  + (c[3] - d[3]) * (c[3] - d[3])

\* qtanNearestColor: the first entry at the least distance.
NearestColor(c) ==
    Min({i \in DOMAIN palette : \A j \in DOMAIN palette : Distance(c, palette[i]) <= Distance(c, palette[j])})

\* No colour is lost or counted twice while the boxes are split, and a picture with
\* more colours than the palette holds fills it, no less and no more: one dominant
\* colour does not end the splitting early, and the index of an entry is a byte.
\* With few colours each pixel keeps its own.
\* (The comment in qtanQuantizeEntries about the split.)
PaletteFilled ==
    /\ UNION {boxes[i] : i \in DOMAIN boxes} = Picture
    /\ \A i, j \in DOMAIN boxes : i # j => boxes[i] \cap boxes[j] = {}
    /\ palette # <<>> =>
        IF Cardinality(Picture) > MaxColors THEN Len(palette) = MaxColors
        ELSE Len(palette) <= MaxColors /\ \A c \in Picture : palette[NearestColor(c)] = c
=============================================================================
