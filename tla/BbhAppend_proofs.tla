--------------------------- MODULE BbhAppend_proofs ---------------------------
(* Machine-checked facts about BbhAppend, for all constants that satisfy BbhAssumption. *)
EXTENDS BbhAppend, WellFoundedInduction, TLAPS

-----------------------------------------------------------------------------
(* Places in a book. *)

\* The least of some numbers.
LEMMA LeastExists ==
    ASSUME NEW S \in SUBSET Nat, S # {}
    PROVE  Min(S) \in S /\ \A i \in S : Min(S) <= i
<1>1. PICK R : IsWellFoundedOn(R, Nat) /\ \A x, y \in Nat : x < y => <<x, y>> \in R
  <2>1. \A x, y \in Nat : x < y => <<x, y>> \in OpToRel(<, Nat)
    BY DEF OpToRel
  <2> QED  BY <2>1, NatLessThanWellFounded
<1>2. PICK x \in S : \A y \in S : ~ (<<y, x>> \in R)
  <2>1. IsWellFoundedOn(R, Nat)
    BY <1>1
  <2> QED  BY <2>1, WFMin
<1>3. \A y \in S : x <= y
  <2> TAKE y \in S
  <2>1. ~ (y < x) /\ x \in Nat /\ y \in Nat
    BY <1>1, <1>2
  <2> QED  BY <2>1
<1>4. \E x0 \in S : \A y \in S : x0 =< y
  BY <1>3
<1> QED  BY <1>4 DEF Min

\* Where is a place of the paragraph, and 0 if it has none.
LEMMA WherePlace ==
    ASSUME NEW S, book \in Seq(S), NEW p
    PROVE  /\ (\E i \in DOMAIN book : book[i] = p) => Where(p) \in DOMAIN book /\ book[Where(p)] = p
           /\ (\A i \in DOMAIN book : book[i] # p) => Where(p) = 0
<1> DEFINE I == {i \in 1..Len(book) : book[i] = p}
<1>1. Where(p) = IF I # {} THEN Min(I) ELSE 0
  BY DEF Where, SelectInSeq
<1>2. DOMAIN book = 1..Len(book) /\ I \in SUBSET Nat
  OBVIOUS
<1>3. I # {} => Min(I) \in I
  <2> HIDE DEF I
  <2> QED  BY <1>2, LeastExists
<1> QED  BY <1>1, <1>2, <1>3

LEMMA JoinPlaces ==
    ASSUME NEW S, NEW s \in Seq(S), NEW r \in Seq(S)
    PROVE  /\ s \o r \in Seq(S) /\ Len(s \o r) = Len(s) + Len(r)
           /\ \A i \in 1..(Len(s) + Len(r)) :
                  (s \o r)[i] = IF i <= Len(s) THEN s[i] ELSE r[i - Len(s)]
OBVIOUS

LEMMA InsertAtPlaces ==
    ASSUME NEW S, NEW s \in Seq(S), NEW k \in 1..(Len(s) + 1), NEW e \in S
    PROVE  /\ InsertAt(s, k, e) \in Seq(S) /\ Len(InsertAt(s, k, e)) = Len(s) + 1
           /\ \A i \in 1..(Len(s) + 1) :
                  InsertAt(s, k, e)[i] = IF i < k THEN s[i] ELSE IF i = k THEN e ELSE s[i - 1]
<1> DEFINE front == SubSeq(s, 1, k - 1)
           back == SubSeq(s, k, Len(s))
<1>1. k \in Nat /\ k >= 1 /\ k <= Len(s) + 1 /\ Len(s) \in Nat
  OBVIOUS
<1>2. /\ front \in Seq(S) /\ Len(front) = k - 1 /\ \A i \in 1..(k - 1) : front[i] = s[i]
      /\ back \in Seq(S) /\ Len(back) = Len(s) - k + 1
      /\ \A i \in 1..(Len(s) - k + 1) : back[i] = s[i + k - 1]
  BY <1>1
<1> HIDE DEF front, back
<1>3. InsertAt(s, k, e) = front \o <<e>> \o back
  BY DEF InsertAt, front, back
<1>4. /\ front \o <<e>> \in Seq(S) /\ Len(front \o <<e>>) = k
      /\ \A i \in 1..k : (front \o <<e>>)[i] = IF i < k THEN s[i] ELSE e
  BY <1>1, <1>2
<1>5. PICK t : t = front \o <<e>>
  OBVIOUS
<1>6. /\ t \o back \in Seq(S) /\ Len(t \o back) = Len(s) + 1
      /\ \A i \in 1..(Len(s) + 1) : (t \o back)[i] = IF i <= k THEN t[i] ELSE back[i - k]
  BY <1>1, <1>2, <1>4, <1>5
<1>7. PICK u : u = t \o back
  OBVIOUS
<1>8. ASSUME NEW i \in 1..(Len(s) + 1)
      PROVE  u[i] = IF i < k THEN s[i] ELSE IF i = k THEN e ELSE s[i - 1]
  <2>1. i \in Nat /\ i >= 1 /\ i <= Len(s) + 1 /\ k \in Nat
    BY <1>1
  <2>2. ASSUME i <= k
        PROVE  u[i] = IF i < k THEN s[i] ELSE e
    <3>1. i \in 1..k
      BY <2>1, <2>2
    <3>2. u[i] = t[i]
      BY <1>6, <1>7, <2>2
    <3> QED  BY <1>4, <1>5, <3>1, <3>2
  <2>3. ASSUME i > k
        PROVE  u[i] = s[i - 1]
    <3>1. i - k \in 1..(Len(s) - k + 1) /\ (i - k) + k - 1 = i - 1
      BY <1>1, <2>3
    <3>2. back[i - k] = s[i - 1]
      BY <1>2, <3>1
    <3>3. ~ (i <= k)
      BY <2>1, <2>3
    <3>4. u[i] = back[i - k]
      BY <1>6, <1>7, <3>3
    <3> QED  BY <3>2, <3>4
  <2> QED  BY <2>1, <2>2, <2>3
<1> QED  BY <1>3, <1>5, <1>6, <1>7, <1>8

LEMMA RemoveAtPlaces ==
    ASSUME NEW S, NEW s \in Seq(S), NEW k \in 1..Len(s)
    PROVE  /\ RemoveAt(s, k) \in Seq(S) /\ Len(RemoveAt(s, k)) = Len(s) - 1
           /\ \A i \in 1..(Len(s) - 1) : RemoveAt(s, k)[i] = IF i < k THEN s[i] ELSE s[i + 1]
<1> DEFINE front == SubSeq(s, 1, k - 1)
           back == SubSeq(s, k + 1, Len(s))
<1>1. k \in Nat /\ k >= 1 /\ k <= Len(s) /\ Len(s) \in Nat
  OBVIOUS
<1>2. /\ front \in Seq(S) /\ Len(front) = k - 1 /\ \A i \in 1..(k - 1) : front[i] = s[i]
      /\ back \in Seq(S) /\ Len(back) = Len(s) - k
      /\ \A i \in 1..(Len(s) - k) : back[i] = s[i + k]
  BY <1>1
<1> HIDE DEF front, back
<1>3. RemoveAt(s, k) = front \o back
  BY DEF RemoveAt, front, back
<1>4. PICK u : u = front \o back
  OBVIOUS
<1>5. /\ u \in Seq(S) /\ Len(u) = Len(front) + Len(back)
      /\ \A i \in 1..(Len(front) + Len(back)) :
             u[i] = IF i <= Len(front) THEN front[i] ELSE back[i - Len(front)]
  BY <1>2, <1>4, JoinPlaces
<1>6. Len(front) + Len(back) = Len(s) - 1
  BY <1>1, <1>2
<1>7. ASSUME NEW i \in 1..(Len(s) - 1)
      PROVE  u[i] = IF i < k THEN s[i] ELSE s[i + 1]
  <2>1. i \in Nat /\ i >= 1 /\ i <= Len(s) - 1 /\ k \in Nat
    BY <1>1
  <2>2. ASSUME i < k
        PROVE  u[i] = s[i]
    <3>1. i \in 1..(k - 1) /\ i <= Len(front)
      BY <1>1, <1>2, <2>1, <2>2
    <3> QED  BY <1>2, <1>5, <1>6, <3>1
  <2>3. ASSUME ~ (i < k)
        PROVE  u[i] = s[i + 1]
    <3>1. i - (k - 1) \in 1..(Len(s) - k) /\ (i - (k - 1)) + k = i + 1
      BY <1>1, <2>1, <2>3
    <3>2. back[i - (k - 1)] = s[i + 1]
      BY <1>2, <3>1
    <3>3. ~ (i <= Len(front)) /\ i - Len(front) = i - (k - 1)
      BY <1>1, <1>2, <2>1, <2>3
    <3>4. u[i] = back[i - Len(front)]
      BY <1>5, <1>6, <3>3
    <3> QED  BY <3>2, <3>3, <3>4
  <2> QED  BY <2>2, <2>3
<1> QED  BY <1>3, <1>4, <1>5, <1>6, <1>7

-----------------------------------------------------------------------------
(* What an insertion and a removal between the boundaries leave as it was. *)

Has(b, p) == \E i \in DOMAIN b : b[i] = p

\* p is not behind q, if both are there.
Before(b, p, q) == \A i, j \in DOMAIN b : b[i] = p /\ b[j] = q => i < j

\* A book is empty or between its boundaries.
Framed(b) == b # <<>> => Len(b) >= 2 /\ b[1] = Opening /\ b[Len(b)] = Closing

LEMMA InsertKeeps ==
    ASSUME NEW S, NEW b \in Seq(S), NEW k \in 2..Len(b), NEW e \in S,
           Unique(b), Framed(b), ~ Has(b, e)
    PROVE  LET c == InsertAt(b, k, e) IN
           /\ c \in Seq(S) /\ c # <<>>
           /\ Unique(c) /\ Framed(c)
           /\ \A p : Has(c, p) <=> Has(b, p) \/ p = e
           /\ \A p, q : p # e /\ q # e /\ Before(b, p, q) => Before(c, p, q)
           /\ \A p : (\A i \in DOMAIN b : b[i] = p => i < k) => p = e \/ Before(c, p, e)
<1>1. PICK c : c = InsertAt(b, k, e)
  OBVIOUS
<1>2. k \in Nat /\ k >= 2 /\ k <= Len(b) /\ Len(b) \in Nat
  OBVIOUS
<1>3. /\ c \in Seq(S) /\ Len(c) = Len(b) + 1
      /\ \A i \in 1..(Len(b) + 1) : c[i] = IF i < k THEN b[i] ELSE IF i = k THEN e ELSE b[i - 1]
  <2>1. k \in 1..(Len(b) + 1)
    BY <1>2
  <2>2. /\ InsertAt(b, k, e) \in Seq(S) /\ Len(InsertAt(b, k, e)) = Len(b) + 1
        /\ \A i \in 1..(Len(b) + 1) :
               InsertAt(b, k, e)[i] = IF i < k THEN b[i] ELSE IF i = k THEN e ELSE b[i - 1]
    BY <2>1, InsertAtPlaces
  <2> QED  BY <1>1, <2>2
<1>4. DOMAIN b = 1..Len(b) /\ DOMAIN c = 1..(Len(b) + 1)
  BY <1>3
\* The place in the old book of what is not new.
<1> DEFINE From(i) == IF i < k THEN i ELSE i - 1
<1>5. ASSUME NEW i \in DOMAIN c, i # k
      PROVE  From(i) \in DOMAIN b /\ c[i] = b[From(i)]
  <2>1. i \in Nat /\ i >= 1 /\ i <= Len(b) + 1
    BY <1>4, <1>2
  <2>2. CASE i < k
    BY <1>2, <1>3, <1>4, <2>1, <2>2
  <2>3. CASE i > k
    BY <1>2, <1>3, <1>4, <2>1, <2>3
  <2> QED  BY <1>2, <1>5, <2>1, <2>2, <2>3
<1>6. k \in DOMAIN c /\ c[k] = e
  BY <1>2, <1>3, <1>4
<1>7. ASSUME NEW i \in DOMAIN c, NEW j \in DOMAIN c, i # k, j # k
      PROVE  (From(i) = From(j) => i = j) /\ (From(i) < From(j) => i < j)
  <2>1. i \in Nat /\ j \in Nat
    BY <1>4, <1>2
  <2> QED  BY <1>2, <1>7, <2>1
<1>8. \A i \in DOMAIN c : i # k => c[i] # e
  BY <1>5 DEF Has
<1>9. Unique(c)
  <2> SUFFICES ASSUME NEW i \in DOMAIN c, NEW j \in DOMAIN c, c[i] = c[j]
               PROVE  i = j
    BY DEF Unique
  <2>1. CASE i = k
    BY <1>6, <1>8, <2>1
  <2>2. CASE j = k
    BY <1>6, <1>8, <2>2
  <2>3. CASE i # k /\ j # k
    <3>1. From(i) = From(j)
      BY <1>5, <2>3 DEF Unique
    <3> QED  BY <1>7, <2>3, <3>1
  <2> QED  BY <2>1, <2>2, <2>3
<1>10. Framed(c)
  <2>1. b # <<>>
    BY <1>2
  <2>2. c[1] = b[1] /\ c[Len(b) + 1] = b[Len(b)]
    <3>1. 1 < k /\ 1 \in 1..(Len(b) + 1)
      BY <1>2
    <3>2. ~ (Len(b) + 1 < k) /\ Len(b) + 1 # k /\ Len(b) + 1 \in 1..(Len(b) + 1) /\ (Len(b) + 1) - 1 = Len(b)
      BY <1>2
    <3> QED  BY <1>3, <3>1, <3>2
  <2> QED  BY <1>2, <1>3, <2>1, <2>2 DEF Framed
<1>11. ASSUME NEW p
       PROVE  Has(c, p) <=> Has(b, p) \/ p = e
  <2>1. ASSUME NEW i \in DOMAIN b
        PROVE  \E j \in DOMAIN c : c[j] = b[i]
    <3>1. i \in Nat /\ i >= 1 /\ i <= Len(b)
      BY <1>4, <1>2
    <3>2. CASE i < k
      BY <1>2, <1>3, <1>4, <3>1, <3>2
    <3>3. CASE i >= k
      <4>1. i + 1 \in 1..(Len(b) + 1) /\ ~ (i + 1 < k) /\ i + 1 # k /\ (i + 1) - 1 = i
        BY <1>2, <3>1, <3>3
      <4> QED  BY <1>3, <1>4, <4>1
    <3> QED  BY <1>2, <3>1, <3>2, <3>3
  <2> QED  BY <1>5, <1>6, <2>1 DEF Has
<1>12. ASSUME NEW p, NEW q, p # e, q # e, Before(b, p, q)
       PROVE  Before(c, p, q)
  <2> SUFFICES ASSUME NEW i \in DOMAIN c, NEW j \in DOMAIN c, c[i] = p, c[j] = q
               PROVE  i < j
    BY DEF Before
  <2>1. i # k /\ j # k
    BY <1>6, <1>12
  <2>2. From(i) < From(j)
    BY <1>5, <1>12, <2>1 DEF Before
  <2> QED  BY <1>7, <2>1, <2>2
<1>13. ASSUME NEW p, \A i \in DOMAIN b : b[i] = p => i < k, p # e
       PROVE  Before(c, p, e)
  <2> SUFFICES ASSUME NEW i \in DOMAIN c, NEW j \in DOMAIN c, c[i] = p, c[j] = e
               PROVE  i < j
    BY DEF Before
  <2>1. j = k /\ i # k
    BY <1>6, <1>8, <1>13
  <2>2. From(i) < k
    BY <1>5, <1>13, <2>1
  <2>3. i \in Nat
    BY <1>4, <1>2
  <2> QED  BY <1>2, <2>1, <2>2, <2>3
<1>14. c # <<>>
  BY <1>6
<1> QED  BY <1>1, <1>3, <1>9, <1>10, <1>11, <1>12, <1>13, <1>14

LEMMA RemoveKeeps ==
    ASSUME NEW S, NEW b \in Seq(S), NEW k \in 2..(Len(b) - 1), Unique(b), Framed(b)
    PROVE  LET c == RemoveAt(b, k) IN
           /\ c \in Seq(S) /\ Unique(c) /\ Framed(c)
           /\ \A p : Has(c, p) => Has(b, p)
           /\ \A p : Has(b, p) => Has(c, p) \/ p = b[k]
           /\ \A p, q : Before(b, p, q) => Before(c, p, q)
<1>1. PICK c : c = RemoveAt(b, k)
  OBVIOUS
<1>2. k \in Nat /\ k >= 2 /\ k <= Len(b) - 1 /\ Len(b) \in Nat
  OBVIOUS
<1>3. /\ c \in Seq(S) /\ Len(c) = Len(b) - 1
      /\ \A i \in 1..(Len(b) - 1) : c[i] = IF i < k THEN b[i] ELSE b[i + 1]
  <2>1. k \in 1..Len(b)
    BY <1>2
  <2> QED  BY <1>1, <2>1, RemoveAtPlaces
<1>4. DOMAIN b = 1..Len(b) /\ DOMAIN c = 1..(Len(b) - 1)
  BY <1>3
<1> DEFINE From(i) == IF i < k THEN i ELSE i + 1
<1>5. ASSUME NEW i \in DOMAIN c
      PROVE  From(i) \in DOMAIN b /\ c[i] = b[From(i)]
  <2>1. i \in Nat /\ i >= 1 /\ i <= Len(b) - 1
    BY <1>4, <1>2
  <2>2. CASE i < k
    BY <1>2, <1>3, <1>4, <2>1, <2>2
  <2>3. CASE i >= k
    BY <1>2, <1>3, <1>4, <2>1, <2>3
  <2> QED  BY <1>2, <2>1, <2>2, <2>3
<1>6. ASSUME NEW i \in DOMAIN c, NEW j \in DOMAIN c
      PROVE  (From(i) = From(j) => i = j) /\ (From(i) < From(j) => i < j)
  <2>1. i \in Nat /\ j \in Nat
    BY <1>4, <1>2
  <2> QED  BY <1>2, <2>1
<1>7. Unique(c)
  <2> SUFFICES ASSUME NEW i \in DOMAIN c, NEW j \in DOMAIN c, c[i] = c[j]
               PROVE  i = j
    BY DEF Unique
  <2>1. From(i) = From(j)
    BY <1>5 DEF Unique
  <2> QED  BY <1>6, <2>1
<1>8. Framed(c)
  <2>1. b # <<>>
    BY <1>2
  <2>2. c[1] = b[1]
    <3>1. 1 < k /\ 1 \in 1..(Len(b) - 1)
      BY <1>2
    <3> QED  BY <1>3, <3>1
  <2>3. c[Len(b) - 1] = b[Len(b)]
    <3>1. ~ (Len(b) - 1 < k) /\ Len(b) - 1 \in 1..(Len(b) - 1) /\ (Len(b) - 1) + 1 = Len(b)
      BY <1>2
    <3> QED  BY <1>3, <3>1
  <2> QED  BY <1>2, <1>3, <2>1, <2>2, <2>3 DEF Framed
<1>9. ASSUME NEW p, Has(b, p), p # b[k]
      PROVE  Has(c, p)
  <2>1. PICK i \in DOMAIN b : b[i] = p
    BY <1>9 DEF Has
  <2>2. i \in Nat /\ i >= 1 /\ i <= Len(b) /\ i # k
    BY <1>2, <1>4, <1>9, <2>1
  <2>3. CASE i < k
    <3>1. i \in 1..(Len(b) - 1)
      BY <1>2, <2>2, <2>3
    <3> QED  BY <1>3, <1>4, <2>1, <2>3, <3>1 DEF Has
  <2>4. CASE i > k
    <3>1. i - 1 \in 1..(Len(b) - 1) /\ ~ (i - 1 < k) /\ (i - 1) + 1 = i
      BY <1>2, <2>2, <2>4
    <3> QED  BY <1>3, <1>4, <2>1, <3>1 DEF Has
  <2> QED  BY <1>2, <2>2, <2>3, <2>4
<1>10. \A p : Has(c, p) => Has(b, p)
  BY <1>5 DEF Has
<1>11. ASSUME NEW p, NEW q, Before(b, p, q)
       PROVE  Before(c, p, q)
  <2> SUFFICES ASSUME NEW i \in DOMAIN c, NEW j \in DOMAIN c, c[i] = p, c[j] = q
               PROVE  i < j
    BY DEF Before
  <2>1. From(i) < From(j)
    BY <1>5, <1>11 DEF Before
  <2> QED  BY <1>6, <2>1
<1> QED  BY <1>1, <1>3, <1>7, <1>8, <1>9, <1>10, <1>11

-----------------------------------------------------------------------------
(* The inductive invariant. *)

\* What has come to the site once: no command will add any of these any more.
Settled ==
    Old \cup {Opening, Closing} \cup used
    \cup {h \in Authors : turn[h].at \in {"replied", "failed"}}

\* The site knows no paragraph twice, and the boundaries hold.
BookSound == Unique(book) /\ Framed(book) /\ \A p : Has(book, p) => p \in Settled

\* Only a writer adds, its paragraph on the site is its own, and a writer that
\* said so has one there.
Added(h) ==
    /\ turn[h].at \in {"complete", "post"} => Writes(h)
    /\ Has(book, h) => Writes(h)
    /\ Writes(h) /\ turn[h].at = "replied" => Has(book, h)

\* A book that was read at some time.
Known(paras) ==
    /\ Unique(paras) /\ Framed(paras) /\ paras # <<>>
    /\ \A i \in DOMAIN paras : paras[i] \in Settled

\* A writer goes by a book whose order still holds, and once it is done its own
\* paragraph is behind all it had read.
Reading(h) ==
    Writes(h) /\ turn[h].at \in {"complete", "post", "replied"} =>
        /\ Known(turn[h].paras)
        /\ turn[h].at # "replied" =>
               \A i, j \in DOMAIN turn[h].paras :
                   i < j => Before(book, turn[h].paras[i], turn[h].paras[j])
        /\ turn[h].at = "replied" =>
               \A i \in 1..(Len(turn[h].paras) - 1) : Before(book, turn[h].paras[i], h)

Shown(h) ==
    turn[h].at = "replied" /\ ~ Writes(h) =>
        /\ turn[h].shown \subseteq DOMAIN TrimBoundary(turn[h].paras)
        /\ turn[h].kind = "range" => turn[h].shown # {}

IInv ==
    /\ BbhTypeOK
    /\ BookSound
    /\ \A h \in Authors : Added(h) /\ Reading(h) /\ Shown(h)

-----------------------------------------------------------------------------
(* The steps of a command. *)

\* What BbhBecome changes and what it keeps.
LEMMA Becomes ==
    ASSUME BbhTypeOK, NEW h \in Authors, NEW place \in BbhPlaces, NEW paras \in Seq(Paragraphs),
           NEW shown \in SUBSET Int, BbhBecome(h, place, paras, shown)
    PROVE  /\ turn' \in [Authors -> Turns]
           /\ turn'[h].at = place /\ turn'[h].paras = paras /\ turn'[h].shown = shown
           /\ turn'[h].kind = turn[h].kind
           /\ \A g \in Authors \ {h} : turn'[g] = turn[g]
<1>1. PICK t : t = turn[h]
  OBVIOUS
<1>2. t \in Turns /\ turn \in [Authors -> Turns]
  BY <1>1 DEF BbhTypeOK
<1> DEFINE u == [t EXCEPT !.at = place, !.paras = paras, !.shown = shown]
<1>3. u \in Turns /\ u.at = place /\ u.paras = paras /\ u.shown = shown /\ u.kind = t.kind
  BY <1>2 DEF Turns
<1>4. turn' = [turn EXCEPT ![h] = u]
  BY <1>1 DEF BbhBecome
<1> HIDE DEF u
<1> QED  BY <1>1, <1>2, <1>3, <1>4

\* What a goroutine that does not move keeps, when no known order is lost.
LEMMA OthersKept ==
    ASSUME BbhTypeOK, NEW g \in Authors, Reading(g), Shown(g), turn'[g] = turn[g], Settled \subseteq Settled',
           \A p, q \in Settled : Before(book, p, q) => Before(book', p, q)
    PROVE  Reading(g)' /\ Shown(g)'
<1>1. PICK t : t = turn[g]
  OBVIOUS
<1>2. Writes(g)' <=> Writes(g)
  BY DEF Writes
<1>3. Shown(g)'
  BY <1>2 DEF Shown
<1>4. Reading(g)'
  <2>1. CASE Writes(g) /\ t.at \in {"complete", "post", "replied"}
    <3>1. Known(t.paras)
      BY <1>1, <2>1 DEF Reading
    <3>2. Known(turn[g].paras)'
      BY <1>1, <3>1 DEF Known
    <3>3. ASSUME t.at # "replied", NEW i \in DOMAIN t.paras, NEW j \in DOMAIN t.paras, i < j
          PROVE  Before(book', t.paras[i], t.paras[j])
      <4>1. Before(book, t.paras[i], t.paras[j])
        BY <1>1, <2>1, <3>3 DEF Reading
      <4> QED  BY <3>1, <4>1 DEF Known
    <3>4. ASSUME t.at = "replied", NEW i \in 1..(Len(t.paras) - 1)
          PROVE  Before(book', t.paras[i], g)
      <4>1. Before(book, t.paras[i], g)
        BY <1>1, <2>1, <3>4 DEF Reading
      <4>2. g \in Settled
        BY <1>1, <3>4 DEF Settled
      <4>3. i \in DOMAIN t.paras
        <5>1. t.paras \in Seq(Paragraphs)
          BY <1>1 DEF BbhTypeOK, Turns
        <5> QED  BY <5>1
      <4> QED  BY <3>1, <4>1, <4>2, <4>3 DEF Known
    <3> QED  BY <1>1, <1>2, <3>2, <3>3, <3>4 DEF Reading
  <2> QED  BY <1>1, <1>2, <2>1 DEF Reading
<1> QED  BY <1>3, <1>4

\* A step that leaves the book alone.
LEMMA ReadStep ==
    ASSUME IInv, NEW h \in Authors, NEW place \in BbhPlaces, NEW paras \in Seq(Paragraphs),
           NEW shown \in SUBSET Int, BbhBecome(h, place, paras, shown), UNCHANGED <<book, used>>,
           turn[h].at \notin {"replied", "failed"},
           Writes(h) => place # "replied",
           place \in {"complete", "post"} =>
               /\ Writes(h) /\ Known(paras)
               /\ \A i, j \in DOMAIN paras : i < j => Before(book, paras[i], paras[j]),
           ~ Writes(h) /\ place = "replied" =>
               /\ shown \subseteq DOMAIN TrimBoundary(paras)
               /\ turn[h].kind = "range" => shown # {}
    PROVE  IInv'
<1>1. /\ turn' \in [Authors -> Turns]
      /\ turn'[h].at = place /\ turn'[h].paras = paras /\ turn'[h].shown = shown
      /\ turn'[h].kind = turn[h].kind
      /\ \A g \in Authors \ {h} : turn'[g] = turn[g]
  BY Becomes DEF IInv
<1>2. BbhTypeOK'
  BY <1>1 DEF IInv, BbhTypeOK
<1>3. Settled \subseteq Settled'
  <2>1. \A g \in Authors : turn[g].at \in {"replied", "failed"} => turn'[g] = turn[g]
    BY <1>1
  <2> QED  BY <2>1 DEF Settled
<1>4. BookSound'
  BY <1>3 DEF IInv, BookSound
<1>5. \A g \in Authors : Writes(g)' <=> Writes(g)
  BY <1>1 DEF Writes
<1>6. Added(h)' /\ Reading(h)' /\ Shown(h)'
  <2>1. Added(h)'
    BY <1>1, <1>5 DEF IInv, Added
  <2>2. Reading(h)'
    <3>1. Known(paras) => Known(turn[h].paras)'
      BY <1>1, <1>3 DEF Known
    <3> QED  BY <1>1, <1>5, <3>1 DEF Reading
  <2>3. Shown(h)'
    BY <1>1, <1>5 DEF Shown
  <2> QED  BY <2>1, <2>2, <2>3
<1>7. ASSUME NEW g \in Authors, g # h
      PROVE  Added(g)' /\ Reading(g)' /\ Shown(g)'
  <2>1. turn'[g] = turn[g]
    BY <1>1, <1>7
  <2>2. Reading(g)' /\ Shown(g)'
    BY <1>3, <2>1, OthersKept DEF IInv
  <2>3. Added(g)'
    BY <1>5, <2>1 DEF IInv, Added
  <2> QED  BY <2>2, <2>3
<1> QED  BY <1>2, <1>4, <1>6, <1>7 DEF IInv

\* The paragraph is put on the site, and the command replies or fails.
LEMMA AddStep ==
    ASSUME BbhAssumption, IInv, NEW h \in Authors, NEW place \in {"replied", "failed"},
           NEW paras \in Seq(Paragraphs), NEW shown \in SUBSET Int,
           turn[h].at = "post", Writes(h),
           Contains(book, PrevPara(turn[h].paras)),
           book' = InsertAfter(PrevPara(turn[h].paras), h),
           BbhBecome(h, place, paras, shown), place = "replied" => paras = turn[h].paras,
           UNCHANGED used
    PROVE  IInv'
<1>1. /\ turn' \in [Authors -> Turns]
      /\ turn'[h].at = place /\ turn'[h].paras = paras /\ turn'[h].shown = shown
      /\ turn'[h].kind = turn[h].kind
      /\ \A g \in Authors \ {h} : turn'[g] = turn[g]
  <2>1. place \in BbhPlaces
    BY DEF BbhPlaces
  <2> QED  BY <2>1, Becomes DEF IInv
<1>2. \A g \in Authors : Writes(g)' <=> Writes(g)
  BY <1>1 DEF Writes
<1>3. Settled' = Settled \cup {h}
  <2>1. \A g \in Authors : turn'[g].at \in {"replied", "failed"} <=>
                                turn[g].at \in {"replied", "failed"} \/ g = h
    BY <1>1
  <2> QED  BY <2>1 DEF Settled
<1>4. h \notin Settled
  <2>1. h \notin used /\ h \notin Old \cup {Opening, Closing}
    BY DEF BbhAssumption, IInv, BbhTypeOK
  <2> QED  BY <2>1 DEF Settled
<1>5. book \in Seq(Paragraphs) /\ h \in Paragraphs /\ ~ Has(book, h)
  BY <1>4 DEF IInv, BbhTypeOK, BookSound, Paragraphs
<1>6. PICK r : r = turn[h].paras
  OBVIOUS
<1>7. PICK prev : prev = PrevPara(r)
  OBVIOUS
<1>8. PICK k : k = Where(prev)
  OBVIOUS
<1>9. /\ r \in Seq(Paragraphs) /\ Known(r)
      /\ \A i, j \in DOMAIN r : i < j => Before(book, r[i], r[j])
  <2>1. r \in Seq(Paragraphs)
    BY <1>6 DEF IInv, BbhTypeOK, Turns
  <2> QED  BY <1>6, <2>1 DEF IInv, Reading
<1>10. k \in DOMAIN book /\ book[k] = prev
  <2>1. \E i \in DOMAIN book : book[i] = prev
    BY <1>5, <1>6, <1>7 DEF Contains
  <2> QED  BY <1>5, <1>8, <2>1, WherePlace
<1>11. /\ Len(r) \in Nat /\ Len(r) >= 2 /\ Len(r) - 1 \in DOMAIN r /\ Len(r) \in DOMAIN r
       /\ prev = r[Len(r) - 1] /\ r[Len(r)] = Closing
  <2>1. Len(r) \in Nat /\ Len(r) >= 2 /\ r[Len(r)] = Closing
    BY <1>9 DEF Known, Framed
  <2>2. DOMAIN r = 1..Len(r)
    BY <1>9
  <2> QED  BY <1>7, <2>1, <2>2 DEF PrevPara
<1>12. prev # Closing
  <2>1. Len(r) - 1 # Len(r)
    BY <1>11
  <2> QED  BY <1>9, <1>11, <2>1 DEF Known, Unique
<1>13. k + 1 \in 2..Len(book)
  <2>1. k \in 1..Len(book)
    BY <1>5, <1>10
  <2>2. book # <<>>
    BY <1>5, <1>10
  <2>3. k # Len(book)
    BY <1>10, <1>12, <2>2 DEF IInv, BookSound, Framed
  <2> QED  BY <1>5, <2>1, <2>3
<1>14. book' = InsertAt(book, k + 1, h)
  BY <1>6, <1>7, <1>8 DEF InsertAfter, Where
<1>15. /\ book' \in Seq(Paragraphs) /\ Unique(book') /\ Framed(book')
       /\ \A p : Has(book', p) <=> Has(book, p) \/ p = h
       /\ \A p, q : p # h /\ q # h /\ Before(book, p, q) => Before(book', p, q)
       /\ \A p : (\A i \in DOMAIN book : book[i] = p => i < k + 1) => p = h \/ Before(book', p, h)
  <2>1. PICK n : n = k + 1
    OBVIOUS
  <2>2. n \in 2..Len(book) /\ book' = InsertAt(book, n, h)
    BY <1>13, <1>14, <2>1
  <2>3. Unique(book) /\ Framed(book)
    BY DEF IInv, BookSound
  <2> QED  BY <1>5, <2>1, <2>2, <2>3, InsertKeeps
<1>16. BbhTypeOK'
  BY <1>1, <1>15 DEF IInv, BbhTypeOK
<1>17. BookSound'
  BY <1>3, <1>15 DEF IInv, BookSound
<1>18. Added(h)' /\ Reading(h)' /\ Shown(h)'
  <2>1. Added(h)'
    BY <1>2, <1>15 DEF Added
  <2>2. Reading(h)'
    <3>1. CASE place = "replied"
      <4>1. Known(turn[h].paras)'
        BY <1>1, <1>3, <1>6, <1>9, <3>1 DEF Known
      <4>2. ASSUME NEW i \in 1..(Len(r) - 1)
            PROVE  Before(book', r[i], h)
        <5>1. i \in DOMAIN r
          BY <1>9, <1>11
        <5>2. r[i] # h
          BY <1>4, <1>9, <5>1 DEF Known
        <5>3. ASSUME NEW m \in DOMAIN book, book[m] = r[i]
              PROVE  m < k + 1
          <6>1. m \in Nat /\ k \in Nat
            BY <1>5, <1>10
          <6>2. CASE i = Len(r) - 1
            <7>1. m = k
              BY <1>10, <1>11, <5>3, <6>2 DEF IInv, BookSound, Unique
            <7> QED  BY <6>1, <7>1
          <6>3. CASE i # Len(r) - 1
            <7>1. i < Len(r) - 1
              BY <1>11, <6>3
            <7>2. Before(book, r[i], prev)
              BY <1>9, <1>11, <5>1, <7>1
            <7>3. m < k
              BY <1>10, <5>3, <7>2 DEF Before
            <7> QED  BY <6>1, <7>3
          <6> QED  BY <6>2, <6>3
        <5> QED  BY <1>15, <5>2, <5>3
      <4> QED  BY <1>1, <1>6, <3>1, <4>1, <4>2 DEF Reading
    <3>2. CASE place = "failed"
      BY <1>1, <3>2 DEF Reading
    <3> QED  BY <3>1, <3>2
  <2>3. Shown(h)'
    BY <1>2 DEF Shown
  <2> QED  BY <2>1, <2>2, <2>3
<1>19. ASSUME NEW g \in Authors, g # h
       PROVE  Added(g)' /\ Reading(g)' /\ Shown(g)'
  <2>1. turn'[g] = turn[g]
    BY <1>1, <1>19
  <2>2. \A p, q \in Settled : Before(book, p, q) => Before(book', p, q)
    BY <1>4, <1>15
  <2>3. Settled \subseteq Settled'
    BY <1>3
  <2>4. Reading(g)' /\ Shown(g)'
    BY <2>1, <2>2, <2>3, OthersKept DEF IInv
  <2>5. Added(g)'
    BY <1>2, <1>15, <1>19, <2>1 DEF IInv, Added
  <2> QED  BY <2>4, <2>5
<1> QED  BY <1>16, <1>17, <1>18, <1>19 DEF IInv

-----------------------------------------------------------------------------
(* The steps of the site's users, and every step. *)

LEMMA WrittenStep ==
    ASSUME BbhAssumption, IInv, NEW w \in Web, NEW k, Written(w, k)
    PROVE  IInv'
<1>1. /\ w \notin used /\ k \in 2..Len(book) /\ book' = InsertAt(book, k, w)
      /\ used' = used \cup {w} /\ turn' = turn
  BY DEF Written
<1>2. Settled' = Settled \cup {w} /\ w \notin Settled
  <2>1. w \notin Authors /\ w \notin Old \cup {Opening, Closing}
    BY DEF BbhAssumption
  <2> QED  BY <1>1, <2>1 DEF Settled
<1>3. book \in Seq(Paragraphs) /\ w \in Paragraphs /\ ~ Has(book, w)
  BY <1>2 DEF IInv, BbhTypeOK, BookSound, Paragraphs
<1>4. /\ book' \in Seq(Paragraphs) /\ Unique(book') /\ Framed(book')
      /\ \A p : Has(book', p) <=> Has(book, p) \/ p = w
      /\ \A p, q : p # w /\ q # w /\ Before(book, p, q) => Before(book', p, q)
  <2>1. Unique(book) /\ Framed(book)
    BY DEF IInv, BookSound
  <2> QED  BY <1>1, <1>3, <2>1, InsertKeeps
<1>5. BbhTypeOK'
  BY <1>1, <1>4 DEF IInv, BbhTypeOK
<1>6. BookSound'
  BY <1>2, <1>4 DEF IInv, BookSound
<1>7. ASSUME NEW g \in Authors
      PROVE  Added(g)' /\ Reading(g)' /\ Shown(g)'
  <2>1. \A p, q \in Settled : Before(book, p, q) => Before(book', p, q)
    BY <1>2, <1>4
  <2>2. Settled \subseteq Settled' /\ turn'[g] = turn[g]
    BY <1>1, <1>2
  <2>3. Reading(g)' /\ Shown(g)'
    BY <2>1, <2>2, OthersKept DEF IInv
  <2>4. g # w
    BY DEF BbhAssumption
  <2>5. Added(g)'
    BY <1>1, <1>4, <2>4 DEF IInv, Added, Writes
  <2> QED  BY <2>3, <2>5
<1> QED  BY <1>5, <1>6, <1>7 DEF IInv

LEMMA RemovedStep ==
    ASSUME BbhAssumption, IInv, NEW k, Removed(k)
    PROVE  IInv'
<1>1. /\ k \in 2..(Len(book) - 1) /\ book[k] \in Web /\ book' = RemoveAt(book, k)
      /\ used' = used /\ turn' = turn
  BY DEF Removed
<1>2. Settled' = Settled
  BY <1>1 DEF Settled
<1>3. /\ book' \in Seq(Paragraphs) /\ Unique(book') /\ Framed(book')
      /\ \A p : Has(book', p) => Has(book, p)
      /\ \A p : Has(book, p) => Has(book', p) \/ p = book[k]
      /\ \A p, q : Before(book, p, q) => Before(book', p, q)
  <2>1. Unique(book) /\ Framed(book) /\ book \in Seq(Paragraphs)
    BY DEF IInv, BookSound, BbhTypeOK
  <2> QED  BY <1>1, <2>1, RemoveKeeps
<1>4. BbhTypeOK'
  BY <1>1, <1>3 DEF IInv, BbhTypeOK
<1>5. BookSound'
  BY <1>2, <1>3 DEF IInv, BookSound
<1>6. ASSUME NEW g \in Authors
      PROVE  Added(g)' /\ Reading(g)' /\ Shown(g)'
  <2>1. Reading(g)' /\ Shown(g)'
    BY <1>1, <1>2, <1>3, OthersKept DEF IInv
  <2>2. g # book[k]
    BY <1>1 DEF BbhAssumption
  <2>3. Added(g)'
    BY <1>1, <1>3, <2>2 DEF IInv, Added, Writes
  <2> QED  BY <2>1, <2>3
<1> QED  BY <1>4, <1>5, <1>6 DEF IInv

LEMMA StartsSound == ASSUME BbhAssumption, BbhInit PROVE IInv
<1>1. book \in Seq(Old \cup {Opening, Closing}) /\ Unique(book) /\ Framed(book)
  BY DEF BbhInit, BbhAssumption, Framed
<1>2. book \in Seq(Paragraphs)
  BY <1>1 DEF Paragraphs
<1>3. \A h \in Authors :
          \E kind \in BbhKinds, range \in Ranges :
              turn[h] = [at |-> "new", kind |-> kind, range |-> range, paras |-> <<>>, shown |-> {}]
  BY DEF BbhInit
<1>4. \A h \in Authors : turn[h] \in Turns /\ turn[h].at = "new"
  <2> TAKE h \in Authors
  <2>1. PICK kind \in BbhKinds, range \in Ranges :
            turn[h] = [at |-> "new", kind |-> kind, range |-> range, paras |-> <<>>, shown |-> {}]
    BY <1>3
  <2>2. <<>> \in Seq(Paragraphs) /\ {} \in SUBSET Int /\ "new" \in BbhPlaces
    BY DEF BbhPlaces
  <2> QED  BY <2>1, <2>2 DEF Turns
<1>5. BbhTypeOK
  <2>1. turn \in [Authors -> Turns]
    BY <1>4 DEF BbhInit
  <2> QED  BY <1>2, <2>1 DEF BbhInit, BbhTypeOK
<1>6. BookSound
  <2>1. \A i \in DOMAIN book : book[i] \in Old \cup {Opening, Closing}
    BY <1>1
  <2> QED  BY <1>1, <2>1 DEF BookSound, Has, Settled
<1>7. ASSUME NEW h \in Authors
      PROVE  Added(h) /\ Reading(h) /\ Shown(h)
  <2>1. ~ Has(book, h)
    <3>1. \A i \in DOMAIN book : book[i] \in Old \cup {Opening, Closing}
      BY <1>1
    <3> QED  BY <3>1 DEF Has, BbhAssumption
  <2> QED  BY <1>4, <2>1 DEF Added, Reading, Shown
<1> QED  BY <1>5, <1>6, <1>7 DEF IInv

\* What a handler reads is known and in the order of the book.
LEMMA BookKnown ==
    ASSUME IInv, book # <<>>
    PROVE  /\ Known(book)
           /\ \A i, j \in DOMAIN book : i < j => Before(book, book[i], book[j])
<1>1. Unique(book) /\ Framed(book) /\ \A i \in DOMAIN book : book[i] \in Settled
  BY DEF IInv, BookSound, Has
<1>2. \A i, j \in DOMAIN book : i < j => Before(book, book[i], book[j])
  BY <1>1 DEF Before, Unique
<1> QED  BY <1>1, <1>2 DEF Known

LEMMA TrimmedPlaces ==
    ASSUME NEW S, NEW paras \in Seq(S)
    PROVE  /\ TrimBoundary(paras) \in Seq(S) /\ Len(TrimBoundary(paras)) \in Nat
           /\ DOMAIN TrimBoundary(paras) = 1..Len(TrimBoundary(paras))
<1>1. TrimBoundary(paras) \in Seq(S)
  <2>1. CASE Len(paras) <= 2
    BY <2>1 DEF TrimBoundary
  <2>2. CASE ~ (Len(paras) <= 2)
    <3>1. SubSeq(paras, 2, Len(paras) - 1) \in Seq(S)
      BY <2>2
    <3> QED  BY <2>2, <3>1 DEF TrimBoundary
  <2> QED  BY <2>1, <2>2
<1> QED  BY <1>1

LEMMA ArrivalStep ==
    ASSUME BbhAssumption, IInv, NEW h \in Authors, ParagraphsArrive(h)
    PROVE  IInv'
<1>1. book \in Seq(Paragraphs) /\ turn[h] \in Turns
  BY DEF IInv, BbhTypeOK
<1>2. turn[h].at = "paragraphs" /\ UNCHANGED <<book, used>>
  BY DEF ParagraphsArrive
<1>3. turn[h].at \notin {"replied", "failed"} /\ <<>> \in Seq(Paragraphs) /\ {} \in SUBSET Int
  BY <1>2
<1>4. {"hinted", "replied", "complete", "post"} \subseteq BbhPlaces
  BY DEF BbhPlaces
<1>5. PICK n \in Nat : n = Len(TrimBoundary(book)) /\ DOMAIN TrimBoundary(book) = 1..n
  BY <1>1, TrimmedPlaces
<1>6. PICK kind : kind = turn[h].kind
  OBVIOUS
<1>7. PICK r : r = turn[h].range
  OBVIOUS
<1>8. r[1] \in Int /\ r[2] \in Int
  BY <1>1, <1>7 DEF Turns, BbhAssumption
<1>9. \/ kind = "book" /\ BbhBecome(h, "replied", book, 1..n)
      \/ kind = "range" /\ InRange(book, r) /\ BbhBecome(h, "replied", book, r[1]..r[2])
      \/ BbhBecome(h, "hinted", <<>>, {})
      \/ /\ kind \in {"add", "ai"} /\ Len(book) >= 2
         /\ BbhBecome(h, IF kind = "ai" THEN "complete" ELSE "post", book, {})
  BY <1>5, <1>6, <1>7 DEF ParagraphsArrive
<1>10. CASE kind = "book" /\ BbhBecome(h, "replied", book, 1..n)
  <2>1. ~ Writes(h) /\ turn[h].kind # "range"
    BY <1>6, <1>10 DEF Writes
  <2>2. 1..n \in SUBSET Int /\ 1..n \subseteq DOMAIN TrimBoundary(book)
    BY <1>5
  <2> QED  BY <1>1, <1>2, <1>3, <1>4, <1>10, <2>1, <2>2, ReadStep
<1>11. CASE kind = "range" /\ InRange(book, r) /\ BbhBecome(h, "replied", book, r[1]..r[2])
  <2>1. ~ Writes(h)
    BY <1>6, <1>11 DEF Writes
  <2>2. PICK from \in Int, to \in Int : from = r[1] /\ to = r[2]
    BY <1>8
  <2>3. from >= 1 /\ to <= n /\ from <= to
    BY <1>5, <1>11, <2>2 DEF InRange
  <2>4. from..to \in SUBSET Int /\ from..to \subseteq DOMAIN TrimBoundary(book) /\ from..to # {}
    BY <1>5, <2>3
  <2> QED  BY <1>1, <1>2, <1>3, <1>4, <1>11, <2>1, <2>2, <2>4, ReadStep
<1>12. CASE BbhBecome(h, "hinted", <<>>, {})
  BY <1>2, <1>3, <1>4, <1>12, ReadStep
<1>13. CASE /\ kind \in {"add", "ai"} /\ Len(book) >= 2
            /\ BbhBecome(h, IF kind = "ai" THEN "complete" ELSE "post", book, {})
  <2>1. Writes(h)
    BY <1>6, <1>13 DEF Writes
  <2>2. PICK place \in {"complete", "post"} : BbhBecome(h, place, book, {})
    BY <1>13
  <2>3. book # <<>>
    BY <1>13
  <2>4. place \in BbhPlaces /\ place # "replied"
    BY <1>4
  <2> QED  BY <1>1, <1>2, <1>3, <2>1, <2>2, <2>3, <2>4, BookKnown, ReadStep
<1> QED  BY <1>9, <1>10, <1>11, <1>12, <1>13

LEMMA CommandStep ==
    ASSUME BbhAssumption, IInv, NEW h \in Authors, BbhStep(h)
    PROVE  IInv'
<1>1. <<>> \in Seq(Paragraphs) /\ {} \in SUBSET Int /\ BbhPlaces = {"new", "paragraphs", "complete",
          "post", "replied", "hinted", "failed"}
  BY DEF BbhPlaces
<1>2. PICK r : r = turn[h].paras
  OBVIOUS
<1>3. turn[h] \in Turns /\ r \in Seq(Paragraphs)
  BY <1>2 DEF IInv, BbhTypeOK, Turns
<1>4. CASE Match(h)
  BY <1>1, <1>4, ReadStep DEF Match
<1>5. CASE ParagraphsArrive(h)
  BY <1>5, ArrivalStep
<1>6. CASE Hint(h)
  BY <1>1, <1>6, ReadStep DEF Hint, Leave
<1>7. CASE Err(h)
  BY <1>1, <1>7, ReadStep DEF Err, Leave
<1>8. CASE Generated(h)
  <2>1. turn[h].at = "complete" /\ BbhBecome(h, "post", r, {}) /\ UNCHANGED <<book, used>>
    BY <1>2, <1>8 DEF Generated
  <2>2. /\ Writes(h) /\ Known(r)
        /\ \A i, j \in DOMAIN r : i < j => Before(book, r[i], r[j])
    BY <1>2, <2>1 DEF IInv, Added, Reading
  <2> QED  BY <1>1, <1>3, <2>1, <2>2, ReadStep
<1>9. CASE AddParagraph(h)
  <2>1. /\ turn[h].at = "post" /\ Contains(book, PrevPara(turn[h].paras))
        /\ book' = InsertAfter(PrevPara(turn[h].paras), h)
        /\ BbhBecome(h, "replied", r, {Len(r) - 1}) /\ UNCHANGED used
    BY <1>2, <1>9 DEF AddParagraph
  <2>2. Writes(h)
    BY <2>1 DEF IInv, Added
  <2>3. {Len(r) - 1} \in SUBSET Int
    BY <1>3
  <2> QED  BY <1>2, <1>3, <2>1, <2>2, <2>3, AddStep
<1>10. CASE AddParagraphUnheard(h)
  <2>1. /\ turn[h].at = "post" /\ Contains(book, PrevPara(turn[h].paras))
        /\ book' = InsertAfter(PrevPara(turn[h].paras), h)
        /\ BbhBecome(h, "failed", <<>>, {}) /\ UNCHANGED used
    BY <1>10 DEF AddParagraphUnheard
  <2>2. Writes(h)
    BY <2>1 DEF IInv, Added
  <2> QED  BY <1>1, <2>1, <2>2, AddStep
<1> QED  BY <1>4, <1>5, <1>6, <1>7, <1>8, <1>9, <1>10 DEF BbhStep

\* Nothing of the invariant depends on anything but the variables.
LEMMA StutterStep == ASSUME IInv, UNCHANGED bbhVars PROVE IInv'
<1>1. book' = book /\ used' = used /\ turn' = turn
  BY DEF bbhVars
<1>2. Settled' = Settled
  BY <1>1 DEF Settled
<1>3. BbhTypeOK' /\ BookSound'
  BY <1>1, <1>2 DEF IInv, BbhTypeOK, BookSound
<1>4. ASSUME NEW g \in Authors
      PROVE  Added(g)' /\ Reading(g)' /\ Shown(g)'
  <2>1. Reading(g)' /\ Shown(g)'
    BY <1>1, <1>2, OthersKept DEF IInv
  <2> QED  BY <1>1, <2>1 DEF IInv, Added, Writes
<1> QED  BY <1>3, <1>4 DEF IInv

LEMMA StepsSound == ASSUME BbhAssumption, IInv, [BbhNext]_bbhVars PROVE IInv'
<1>1. CASE \E h \in Authors : BbhStep(h)
  BY <1>1, CommandStep
<1>2. CASE \E w \in Web, k \in 1..(Len(book) + 1) : Written(w, k)
  BY <1>2, WrittenStep
<1>3. CASE \E k \in 1..Len(book) : Removed(k)
  BY <1>3, RemovedStep
<1>4. CASE UNCHANGED bbhVars
  BY <1>4, StutterStep
<1> QED  BY <1>1, <1>2, <1>3, <1>4 DEF BbhNext

\* The invariant holds in every state, whatever the commands and the users of the
\* site do and in whatever order.
THEOREM Invariance == ASSUME BbhAssumption PROVE BbhSpec => []IInv
<1>1. BbhInit => IInv
  BY StartsSound
<1>2. IInv /\ [BbhNext]_bbhVars => IInv'
  BY StepsSound
<1> QED  BY <1>1, <1>2, PTL DEF BbhSpec

\* Every variable keeps its type.
THEOREM TypeCorrect == ASSUME BbhAssumption PROVE BbhSpec => []BbhTypeOK
<1>1. IInv => BbhTypeOK
  BY DEF IInv
<1> QED  BY <1>1, Invariance, PTL

LEMMA OneInPlace ==
    ASSUME BbhAssumption, IInv
    PROVE  AddedOnce
<1>1. book \in Seq(Paragraphs) /\ Unique(book) /\ Framed(book) /\ DOMAIN book = 1..Len(book)
  BY DEF IInv, BbhTypeOK, BookSound
<1> SUFFICES ASSUME NEW h \in Authors
             PROVE  /\ \A i, j \in DOMAIN book : book[i] = h /\ book[j] = h => i = j
                    /\ Where(h) # 0 => Writes(h) /\ Where(h) \in 2..(Len(book) - 1)
                    /\ Writes(h) /\ turn[h].at = "replied" => Where(h) # 0
  BY DEF AddedOnce
<1>2. PICK k : k = Where(h)
  OBVIOUS
<1>3. /\ Has(book, h) => k \in 1..Len(book) /\ book[k] = h
      /\ ~ Has(book, h) => k = 0
  BY <1>1, <1>2, WherePlace DEF Has
<1>4. ASSUME Has(book, h)
      PROVE  k \in 2..(Len(book) - 1)
  <2>1. h # Opening /\ h # Closing
    BY DEF BbhAssumption
  <2>2. book # <<>>
    BY <1>1, <1>3, <1>4
  <2>3. k # 1 /\ k # Len(book)
    BY <1>1, <1>3, <1>4, <2>1, <2>2 DEF Framed
  <2> QED  BY <1>1, <1>3, <1>4, <2>3
<1>5. Added(h)
  BY DEF IInv
<1> QED  BY <1>1, <1>2, <1>3, <1>4, <1>5 DEF Unique, Added

LEMMA BehindWhatWasRead ==
    ASSUME IInv
    PROVE  WrittenAfterRead
<1>1. book \in Seq(Paragraphs)
  BY DEF IInv, BbhTypeOK
<1> SUFFICES ASSUME NEW h \in Authors, Writes(h), turn[h].at = "replied",
                    NEW i \in 1..(Len(turn[h].paras) - 1), Where(turn[h].paras[i]) # 0
             PROVE  Where(turn[h].paras[i]) < Where(h)
  BY DEF WrittenAfterRead
<1>2. PICK p : p = turn[h].paras[i]
  OBVIOUS
<1>3. Before(book, p, h) /\ Has(book, h)
  BY <1>2 DEF IInv, Reading, Added
<1>4. Where(p) \in DOMAIN book /\ book[Where(p)] = p
  BY <1>1, <1>2, WherePlace
<1>5. Where(h) \in DOMAIN book /\ book[Where(h)] = h
  BY <1>1, <1>3, WherePlace DEF Has
<1> QED  BY <1>2, <1>3, <1>4, <1>5 DEF Before

\* A paragraph is added once and only by a writer that then says so, behind all
\* the writer had read, and a reply names only paragraphs that were there, for
\* any number of commands and users of the site.  (handleBBHAddParagraph,
\* handleBBHAI, handleBBHParagraphs.)
THEOREM ParagraphsSoundAlways == ASSUME BbhAssumption PROVE BbhSpec => []ParagraphsSound
<1>1. ASSUME IInv
      PROVE  ShowsWhatIsThere
  BY <1>1 DEF IInv, Shown, ShowsWhatIsThere
<1>2. IInv => ParagraphsSound
  BY <1>1, OneInPlace, BehindWhatWasRead DEF ParagraphsSound
<1> QED  BY <1>2, Invariance, PTL

=============================================================================
