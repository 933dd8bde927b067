--------------------------- MODULE Commands_proofs ---------------------------
(* Machine-checked facts about the commands other than the AI and BBH ones: ImagePool, for all
   constants that satisfy PoolAssumption, QTanAnimation, for all that satisfy QTanAssumption,
   QTanPalette, for all that satisfy PaletteAssumption, and SmallCommands, for all that satisfy
   SmallAssumption. *)
EXTENDS ImagePool, QTanAnimation, QTanPalette, SmallCommands, FiniteSetTheorems, NaturalsInduction,
        SequenceTheorems, WellFoundedInduction, TLAPS

-----------------------------------------------------------------------------
(* The inductive invariant. *)

First(c) == Len(HasURL) - RowsAsked[c] + 1

\* A row has a worker only once the loop is past it, and none is at work when the
\* results are collected.
LoopSound(c) ==
    /\ phase[c] = "new" => \A i \in Rows : worker[c][i] = "none"
    /\ phase[c] = "loop" =>
           /\ idx[c] >= First(c)
           /\ \A i \in Rows : i >= idx[c] => worker[c][i] = "none"
    /\ phase[c] \in {"collect", "replied", "hinted"} =>
           \A i \in Rows : worker[c][i] \in {"none", "over"}
    /\ \A i \in Rows : worker[c][i] # "none" => i >= First(c)

\* A result is the row's own file, put by a worker that has come through.
PutSound(c) ==
    \A i \in Rows :
        outputURLs[c][i] # NoURL =>
            outputURLs[c][i] = NameOf(c, i) /\ worker[c][i] \in {"release", "over"}

\* What has been collected are the results of the rows the second loop is past.
Collected(c, n) ==
    /\ \A i \in Rows :
           i < n /\ outputURLs[c][i] # NoURL => \E k \in DOMAIN reply[c] : reply[c][k] = NameOf(c, i)
    /\ \A k \in DOMAIN reply[c] :
           \E i \in Rows : i < n /\ outputURLs[c][i] # NoURL /\ reply[c][k] = NameOf(c, i)
    /\ \A k, l \in DOMAIN reply[c] : k < l => reply[c][k][2] < reply[c][l][2]

CollectSound(c) ==
    /\ phase[c] \in {"new", "loop", "wait"} => reply[c] = <<>>
    /\ phase[c] = "collect" => idx[c] >= First(c) /\ Collected(c, idx[c])
    /\ phase[c] = "replied" => Collected(c, Len(HasURL) + 1)

\* Another command of the family has opened the file of the row.
Met(c, i) ==
    \E d \in Commands \ {c} : Family[d] = Family[c] /\ worker[d][i] \notin {"none", "make"}

FilesSound(c) ==
    \A i \in Rows :
        /\ worker[c][i] = "encode" => file[NameOf(c, i)] = [by |-> c, is |-> "partial"] \/ Met(c, i)
        /\ worker[c][i] = "put" \/ outputURLs[c][i] # NoURL =>
               file[NameOf(c, i)] = [by |-> c, is |-> "whole"] \/ Met(c, i)

\* Who has a file open is encoding it.
OpenSound ==
    \A n \in Names : \A d \in open[n] : Family[d] = n[1] /\ worker[d][n[2]] = "encode"

PlacesSound(c) == places[c] = Cardinality(AtWork(c))

IInv ==
    /\ PoolTypeOK
    /\ OpenSound
    /\ \A c \in Commands :
           LoopSound(c) /\ PutSound(c) /\ CollectSound(c) /\ FilesSound(c) /\ PlacesSound(c)

-----------------------------------------------------------------------------
(* What the goroutine of a command does while the workers stand still. *)

\* Numbers that the assumptions fix.
LEMMA Numbers ==
    ASSUME PoolAssumption, NEW c \in Commands
    PROVE  /\ Len(HasURL) \in Nat /\ RowsAsked[c] \in Nat /\ RowsAsked[c] <= Len(HasURL)
           /\ First(c) \in Nat /\ First(c) >= 1
           /\ Rows \subseteq Nat /\ RowsOf(c) \subseteq Rows
<1>1. Len(HasURL) \in Nat /\ RowsAsked[c] \in 0..Len(HasURL)
  BY DEF PoolAssumption
<1> QED  BY <1>1 DEF First, Rows, RowsOf

\* A command whose own state stays keeps what is true of it, except of its files.
LEMMA OwnKept ==
    ASSUME NEW d \in Commands, LoopSound(d), PutSound(d), CollectSound(d), PlacesSound(d),
           phase'[d] = phase[d], idx'[d] = idx[d], reply'[d] = reply[d], places'[d] = places[d],
           worker'[d] = worker[d], outputURLs'[d] = outputURLs[d]
    PROVE  (LoopSound(d) /\ PutSound(d) /\ CollectSound(d) /\ PlacesSound(d))'
<1>1. LoopSound(d)'
  BY DEF LoopSound
<1>2. PutSound(d)'
  BY DEF PutSound
<1>3. CollectSound(d)'
  BY DEF CollectSound, Collected
<1>4. PlacesSound(d)'
  BY DEF PlacesSound, AtWork
<1> QED  BY <1>1, <1>2, <1>3, <1>4

LEMMA QuietStep ==
    ASSUME IInv, NEW c \in Commands, UNCHANGED <<places, worker, outputURLs, files>>,
           NEW p \in Phases, NEW n \in Nat, NEW r \in Seq(Names),
           phase' = [phase EXCEPT ![c] = p], idx' = [idx EXCEPT ![c] = n],
           reply' = [reply EXCEPT ![c] = r],
           LoopSound(c)', CollectSound(c)'
    PROVE  IInv'
<1>1. PoolTypeOK /\ places' = places /\ worker' = worker /\ outputURLs' = outputURLs /\ file' = file /\ open' = open
  BY DEF IInv, files
<1>2. PoolTypeOK'
  BY <1>1 DEF PoolTypeOK
<1>3. OpenSound'
  BY <1>1 DEF IInv, OpenSound
<1>4. ASSUME NEW d \in Commands
      PROVE  FilesSound(d)' /\ PutSound(d)' /\ PlacesSound(d)'
  BY <1>1 DEF IInv, FilesSound, Met, PutSound, PlacesSound, AtWork
<1>5. ASSUME NEW d \in Commands, d # c
      PROVE  LoopSound(d)' /\ CollectSound(d)'
  <2>1. phase'[d] = phase[d] /\ idx'[d] = idx[d] /\ reply'[d] = reply[d]
    BY <1>1, <1>5 DEF PoolTypeOK
  <2> QED  BY <1>1, <2>1, OwnKept DEF IInv
<1> QED  BY <1>2, <1>3, <1>4, <1>5 DEF IInv

LEMMA QueryStep ==
    ASSUME PoolAssumption, IInv, NEW c \in Commands, RecentMessageImages(c)
    PROVE  IInv'
<1>1. PICK p \in {"hinted", "loop"} : phase' = [phase EXCEPT ![c] = p]
  BY DEF RecentMessageImages, SetPhase
<1>2. /\ phase[c] = "new" /\ idx' = [idx EXCEPT ![c] = First(c)]
      /\ UNCHANGED <<places, worker, outputURLs, reply, files>>
  BY DEF RecentMessageImages, First
<1>3. PoolTypeOK /\ First(c) \in Nat /\ p \in Phases /\ reply[c] \in Seq(Names)
  BY Numbers DEF IInv, PoolTypeOK, Phases
<1>4. reply' = [reply EXCEPT ![c] = reply[c]] /\ reply[c] = <<>>
  BY <1>2, <1>3 DEF IInv, PoolTypeOK, CollectSound
<1>5. phase'[c] = p /\ idx'[c] = First(c) /\ worker' = worker /\ reply' = reply
  BY <1>1, <1>2, <1>3 DEF PoolTypeOK
<1>6. \A i \in Rows : worker[c][i] = "none"
  BY <1>2 DEF IInv, LoopSound
<1>7. LoopSound(c)'
  <2>1. \A i \in Rows : worker'[c][i] = "none"
    BY <1>5, <1>6
  <2>2. idx'[c] >= First(c)
    BY <1>3, <1>5
  <2> QED  BY <1>5, <2>1, <2>2 DEF LoopSound, First
<1>8. CollectSound(c)'
  BY <1>4, <1>5 DEF CollectSound
<1> QED  BY <1>1, <1>2, <1>3, <1>4, <1>7, <1>8, QuietStep

LEMMA SkipStep ==
    ASSUME PoolAssumption, IInv, NEW c \in Commands, SkipRow(c)
    PROVE  IInv'
<1>1. PICK n \in Nat : n = idx[c]
  BY DEF IInv, PoolTypeOK
<1>2. /\ phase[c] = "loop" /\ n \in Rows /\ idx' = [idx EXCEPT ![c] = n + 1]
      /\ UNCHANGED <<phase, places, worker, outputURLs, reply, files>>
  BY <1>1 DEF SkipRow
<1>3. PoolTypeOK /\ "loop" \in Phases /\ reply[c] \in Seq(Names) /\ n + 1 \in Nat
  BY DEF IInv, PoolTypeOK, Phases
<1>4. reply' = [reply EXCEPT ![c] = reply[c]] /\ phase' = [phase EXCEPT ![c] = "loop"]
  BY <1>2, <1>3 DEF PoolTypeOK
<1>5. /\ phase'[c] = "loop" /\ idx'[c] = n + 1 /\ worker' = worker /\ reply' = reply
  BY <1>2, <1>3 DEF PoolTypeOK
<1>6. LoopSound(c)'
  <2>1. n >= First(c) /\ \A i \in Rows : i >= n => worker[c][i] = "none"
    BY <1>1, <1>2 DEF IInv, LoopSound
  <2>2. n + 1 >= First(c) /\ \A i \in Rows : i >= n + 1 => i >= n
    BY <2>1, Numbers
  <2>3. \A i \in Rows : worker[c][i] # "none" => i >= First(c)
    BY DEF IInv, LoopSound
  <2> QED  BY <1>5, <2>1, <2>2, <2>3 DEF LoopSound, First
<1>7. CollectSound(c)'
  <2>1. reply[c] = <<>>
    BY <1>2 DEF IInv, CollectSound
  <2> QED  BY <1>5, <2>1 DEF CollectSound
<1> QED  BY <1>2, <1>3, <1>4, <1>6, <1>7, QuietStep

LEMMA LoopEndsStep ==
    ASSUME IInv, NEW c \in Commands, LoopEnds(c)
    PROVE  IInv'
<1>1. /\ phase[c] = "loop" /\ phase' = [phase EXCEPT ![c] = "wait"]
      /\ UNCHANGED <<idx, places, worker, outputURLs, reply, files>>
  BY DEF LoopEnds, SetPhase
<1>2. PoolTypeOK /\ "wait" \in Phases /\ reply[c] \in Seq(Names) /\ idx[c] \in Nat
  BY DEF IInv, PoolTypeOK, Phases
<1>3. reply' = [reply EXCEPT ![c] = reply[c]] /\ idx' = [idx EXCEPT ![c] = idx[c]]
  BY <1>1, <1>2 DEF PoolTypeOK
<1>4. phase'[c] = "wait" /\ worker' = worker /\ reply' = reply
  BY <1>1, <1>2 DEF PoolTypeOK
<1>5. LoopSound(c)'
  BY <1>4 DEF IInv, LoopSound, First
<1>6. CollectSound(c)'
  BY <1>1, <1>4 DEF IInv, CollectSound
<1> QED  BY <1>1, <1>2, <1>3, <1>5, <1>6, QuietStep

LEMMA WaitStep ==
    ASSUME PoolAssumption, IInv, NEW c \in Commands, Wait(c)
    PROVE  IInv'
<1>1. /\ phase[c] = "wait" /\ phase' = [phase EXCEPT ![c] = "collect"]
      /\ \A i \in Rows : worker[c][i] \in {"none", "over"}
      /\ idx' = [idx EXCEPT ![c] = First(c)]
      /\ UNCHANGED <<places, worker, outputURLs, reply, files>>
  BY DEF Wait, SetPhase, First
<1>2. PoolTypeOK /\ "collect" \in Phases /\ reply[c] \in Seq(Names) /\ First(c) \in Nat
  BY Numbers DEF IInv, PoolTypeOK, Phases
<1>3. reply' = [reply EXCEPT ![c] = reply[c]] /\ reply[c] = <<>>
  BY <1>1, <1>2 DEF IInv, PoolTypeOK, CollectSound
<1>4. /\ phase'[c] = "collect" /\ idx'[c] = First(c) /\ worker' = worker /\ reply' = reply
      /\ outputURLs' = outputURLs
  BY <1>1, <1>2 DEF PoolTypeOK
<1>5. LoopSound(c)'
  BY <1>1, <1>4 DEF IInv, LoopSound, First
<1>6. CollectSound(c)'
  <2>1. ASSUME NEW i \in Rows, i < First(c)
        PROVE  outputURLs[c][i] = NoURL
    <3>1. worker[c][i] = "none" \/ i >= First(c)
      BY DEF IInv, LoopSound
    <3>2. i \in Nat /\ First(c) \in Nat
      BY Numbers
    <3>3. worker[c][i] = "none"
      BY <2>1, <3>1, <3>2
    <3> QED  BY <3>3 DEF IInv, PutSound
  <2>2. Collected(c, First(c))'
    <3>1. First(c)' = First(c)
      BY DEF First
    <3> QED  BY <1>3, <1>4, <2>1, <3>1 DEF Collected
  <2>3. idx'[c] >= First(c)
    BY <1>2, <1>4
  <2>4. Collected(c, idx[c])'
    BY <1>4, <2>2 DEF Collected, First
  <2> QED  BY <1>4, <2>3, <2>4 DEF CollectSound, First
<1> QED  BY <1>1, <1>2, <1>3, <1>5, <1>6, QuietStep

\* The results of one more row, appended or skipped.
LEMMA CollectedOneMore ==
    ASSUME PoolAssumption, NEW c \in Commands, reply[c] \in Seq(Names), NEW n \in Rows,
           Collected(c, n), PutSound(c), NEW r \in Seq(Names), reply'[c] = r,
           outputURLs'[c] = outputURLs[c],
           r = IF outputURLs[c][n] = NoURL THEN reply[c] ELSE Append(reply[c], NameOf(c, n))
    PROVE  Collected(c, n + 1)'
<1>1. PICK s \in Seq(Names) : s = reply[c]
  OBVIOUS
<1>2. PICK out : out = outputURLs[c]
  OBVIOUS
<1>3. n \in Nat /\ \A i \in Rows : i \in Nat
  BY Numbers
<1>4. \A i \in Rows : NameOf(c, i)[2] = i
  BY DEF NameOf
<1>5. /\ \A i \in Rows : i < n /\ out[i] # NoURL => \E k \in DOMAIN s : s[k] = NameOf(c, i)
      /\ \A k \in DOMAIN s : \E i \in Rows : i < n /\ out[i] # NoURL /\ s[k] = NameOf(c, i)
      /\ \A k, l \in DOMAIN s : k < l => s[k][2] < s[l][2]
  BY <1>1, <1>2 DEF Collected
<1>6. /\ \A i \in Rows : i < n + 1 /\ out[i] # NoURL => \E k \in DOMAIN r : r[k] = NameOf(c, i)
      /\ \A k \in DOMAIN r : \E i \in Rows : i < n + 1 /\ out[i] # NoURL /\ r[k] = NameOf(c, i)
      /\ \A k, l \in DOMAIN r : k < l => r[k][2] < r[l][2]
  <2>1. CASE out[n] = NoURL
    <3>1. r = s
      BY <1>1, <1>2, <2>1
    <3>2. \A i \in Rows : i < n + 1 /\ out[i] # NoURL <=> i < n /\ out[i] # NoURL
      BY <1>3, <2>1
    <3> QED  BY <1>5, <3>1, <3>2
  <2>2. CASE out[n] # NoURL
    <3> DEFINE e == NameOf(c, n)
               m == Len(s) + 1
    <3>1. /\ m \in Nat /\ DOMAIN s = 1..(m - 1) /\ DOMAIN r = 1..m
          /\ r[m] = e /\ \A k \in 1..(m - 1) : r[k] = s[k]
      <4>1. r = Append(s, e)
        BY <1>1, <1>2, <2>2
      <4> QED  BY <4>1
    <3>2. e[2] = n
      BY <1>4
    <3> HIDE DEF e, m
    <3>3. ASSUME NEW i \in Rows, i < n + 1, out[i] # NoURL
          PROVE  \E k \in DOMAIN r : r[k] = NameOf(c, i)
      <4>1. CASE i = n
        <5>1. m \in DOMAIN r
          <6>1. m >= 1
            BY DEF m
          <6> QED  BY <3>1, <6>1
        <5> QED  BY <3>1, <4>1, <5>1 DEF e
      <4>2. CASE i # n
        <5>1. i < n
          BY <1>3, <3>3, <4>2
        <5>2. PICK k \in DOMAIN s : s[k] = NameOf(c, i)
          BY <1>5, <3>3, <5>1
        <5> QED  BY <3>1, <5>2
      <4> QED  BY <4>1, <4>2
    <3>4. ASSUME NEW k \in DOMAIN r
          PROVE  \E i \in Rows : i < n + 1 /\ out[i] # NoURL /\ r[k] = NameOf(c, i)
      <4>1. CASE k = m
        <5>1. n < n + 1 /\ r[k] = NameOf(c, n)
          BY <1>3, <3>1, <4>1 DEF e
        <5> QED  BY <2>2, <5>1
      <4>2. CASE k # m
        <5>1. k \in DOMAIN s /\ r[k] = s[k]
          BY <3>1, <4>2
        <5>2. PICK i \in Rows : i < n /\ out[i] # NoURL /\ s[k] = NameOf(c, i)
          BY <1>5, <5>1
        <5>3. i < n + 1
          <6>1. i \in Nat /\ n \in Nat /\ i < n
            BY <1>3, <5>2
          <6> QED  BY <6>1
        <5> QED  BY <5>1, <5>2, <5>3
      <4> QED  BY <4>1, <4>2
    <3>5. ASSUME NEW k \in DOMAIN r, NEW l \in DOMAIN r, k < l
          PROVE  r[k][2] < r[l][2]
      <4>1. k \in DOMAIN s /\ r[k] = s[k]
        BY <3>1, <3>5
      <4>2. CASE l = m
        <5>1. PICK i \in Rows : i < n /\ s[k] = NameOf(c, i)
          BY <1>5, <4>1
        <5>2. r[k][2] = i
          BY <1>4, <4>1, <5>1
        <5> QED  BY <3>1, <3>2, <4>2, <5>1, <5>2
      <4>3. CASE l # m
        <5>1. l \in DOMAIN s /\ r[l] = s[l]
          BY <3>1, <4>3
        <5> QED  BY <1>5, <3>5, <4>1, <5>1
      <4> QED  BY <4>2, <4>3
    <3> QED  BY <3>3, <3>4, <3>5
  <2> QED  BY <2>1, <2>2
<1>7. reply'[c] = r /\ outputURLs'[c] = out
  BY <1>2
<1>8. ASSUME NEW i \in Rows, i < n + 1, outputURLs'[c][i] # NoURL
      PROVE  \E k \in DOMAIN reply'[c] : reply'[c][k] = NameOf(c, i)
  BY <1>6, <1>7, <1>8
<1>9. ASSUME NEW k \in DOMAIN reply'[c]
      PROVE  \E i \in Rows : i < n + 1 /\ outputURLs'[c][i] # NoURL /\ reply'[c][k] = NameOf(c, i)
  BY <1>6, <1>7, <1>9
<1>10. ASSUME NEW k \in DOMAIN reply'[c], NEW l \in DOMAIN reply'[c], k < l
       PROVE  reply'[c][k][2] < reply'[c][l][2]
  BY <1>6, <1>7, <1>10
<1> QED  BY <1>8, <1>9, <1>10 DEF Collected, NameOf

LEMMA CollectStep ==
    ASSUME PoolAssumption, IInv, NEW c \in Commands, CompactStringsInOrder(c)
    PROVE  IInv'
<1>1. PICK n \in Nat : n = idx[c]
  BY DEF IInv, PoolTypeOK
<1>2. PICK item : item = outputURLs[c][n]
  OBVIOUS
<1>3. /\ phase[c] = "collect" /\ n \in Rows /\ idx' = [idx EXCEPT ![c] = n + 1]
      /\ reply' = IF item = NoURL THEN reply ELSE [reply EXCEPT ![c] = Append(reply[c], item)]
      /\ UNCHANGED <<phase, places, worker, outputURLs, files>>
  BY <1>1, <1>2 DEF CompactStringsInOrder
<1>4. /\ PoolTypeOK /\ "collect" \in Phases /\ reply[c] \in Seq(Names) /\ n + 1 \in Nat
      /\ item \in Names \cup {NoURL}
  BY <1>2, <1>3 DEF IInv, PoolTypeOK, Phases
<1>5. item # NoURL => item = NameOf(c, n)
  BY <1>2, <1>3 DEF IInv, PutSound
<1>6. PICK r : r = IF item = NoURL THEN reply[c] ELSE Append(reply[c], item)
  OBVIOUS
<1>7. r \in Seq(Names)
  <2>1. CASE item = NoURL
    BY <1>4, <1>6, <2>1
  <2>2. CASE item # NoURL
    <3>1. item \in Names
      BY <1>4, <2>2
    <3> QED  BY <1>4, <1>6, <2>2, <3>1
  <2> QED  BY <2>1, <2>2
<1>8. reply' = [reply EXCEPT ![c] = r]
  <2>1. [reply EXCEPT ![c] = reply[c]] = reply
    BY <1>4 DEF PoolTypeOK
  <2> QED  BY <1>3, <1>6, <2>1
<1>9. /\ phase' = [phase EXCEPT ![c] = "collect"] /\ phase'[c] = "collect" /\ idx'[c] = n + 1
      /\ reply'[c] = r /\ worker' = worker /\ outputURLs' = outputURLs
  BY <1>3, <1>4, <1>8 DEF PoolTypeOK
<1>10. LoopSound(c)'
  BY <1>3, <1>9 DEF IInv, LoopSound, First
<1>11. CollectSound(c)'
  <2>1. Collected(c, n) /\ n >= First(c) /\ PutSound(c)
    BY <1>1, <1>3 DEF IInv, CollectSound
  <2>2. r = IF outputURLs[c][n] = NoURL THEN reply[c] ELSE Append(reply[c], NameOf(c, n))
    BY <1>2, <1>5, <1>6
  <2>3. Collected(c, n + 1)'
    BY <1>3, <1>4, <1>7, <1>9, <2>1, <2>2, CollectedOneMore
  <2>4. Collected(c, idx[c])'
    BY <1>9, <2>3 DEF Collected
  <2>5. First(c)' = First(c) /\ n + 1 >= First(c)
    <3>1. First(c) \in Nat
      BY Numbers
    <3> QED  BY <2>1, <3>1 DEF First
  <2> QED  BY <1>9, <2>4, <2>5 DEF CollectSound
<1> QED  BY <1>3, <1>4, <1>7, <1>8, <1>9, <1>10, <1>11, QuietStep

LEMMA AnswerStep ==
    ASSUME PoolAssumption, IInv, NEW c \in Commands, AnswerPictures(c)
    PROVE  IInv'
<1>1. PICK p \in {"hinted", "replied"} : phase' = [phase EXCEPT ![c] = p]
  BY DEF AnswerPictures, SetPhase
<1>2. /\ phase[c] = "collect" /\ idx[c] \notin Rows
      /\ UNCHANGED <<idx, places, worker, outputURLs, reply, files>>
  BY DEF AnswerPictures
<1>3. PoolTypeOK /\ p \in Phases /\ reply[c] \in Seq(Names) /\ idx[c] \in Nat
  BY DEF IInv, PoolTypeOK, Phases
<1>4. reply' = [reply EXCEPT ![c] = reply[c]] /\ idx' = [idx EXCEPT ![c] = idx[c]]
  BY <1>2, <1>3 DEF PoolTypeOK
<1>5. /\ phase'[c] = p /\ worker' = worker /\ reply' = reply /\ outputURLs' = outputURLs
  BY <1>1, <1>2, <1>3 DEF PoolTypeOK
<1>6. LoopSound(c)'
  BY <1>2, <1>5 DEF IInv, LoopSound, First
<1>7. CollectSound(c)'
  <2>1. idx[c] >= First(c) /\ Collected(c, idx[c])
    BY <1>2 DEF IInv, CollectSound
  <2>2. PICK n \in Nat : n = idx[c]
    BY <1>3
  <2>3. \A i \in Rows : i < n /\ i < Len(HasURL) + 1
    <3>1. n >= 1 /\ ~ (n <= Len(HasURL)) /\ Len(HasURL) \in Nat
      BY <1>2, <2>1, <2>2, Numbers DEF Rows
    <3> QED  BY <3>1 DEF Rows
  <2>4. Collected(c, n)
    BY <2>1, <2>2
  <2>5. Collected(c, Len(HasURL) + 1)
    BY <2>3, <2>4 DEF Collected
  <2>6. Collected(c, Len(HasURL) + 1)'
    BY <1>5, <2>5 DEF Collected
  <2> QED  BY <1>5, <2>6 DEF CollectSound
<1> QED  BY <1>1, <1>2, <1>3, <1>4, <1>6, <1>7, QuietStep

-----------------------------------------------------------------------------
(* What the workers do. *)

\* SetWorker changes one worker.
LEMMA OneWorker ==
    ASSUME PoolTypeOK, NEW c \in Commands, NEW i \in Rows, NEW w \in Workers, SetWorker(c, i, w)
    PROVE  /\ worker' \in [Commands -> [Rows -> Workers]]
           /\ worker'[c][i] = w
           /\ \A j \in Rows \ {i} : worker'[c][j] = worker[c][j]
           /\ \A d \in Commands \ {c} : worker'[d] = worker[d]
<1>1. worker \in [Commands -> [Rows -> Workers]]
  BY DEF PoolTypeOK
<1>2. PICK f \in [Rows -> Workers] : f = worker[c]
  BY <1>1
<1>3. [f EXCEPT ![i] = w] \in [Rows -> Workers]
  BY <1>2
<1>4. worker' = [worker EXCEPT ![c] = [f EXCEPT ![i] = w]]
  BY <1>2 DEF SetWorker
<1> QED  BY <1>1, <1>2, <1>3, <1>4

\* No worker forgets that it has opened its file.
LEMMA MetKept ==
    ASSUME NEW c \in Commands, NEW j \in Rows, Met(c, j),
           \A d \in Commands, k \in Rows :
               worker[d][k] \notin {"none", "make"} => worker'[d][k] \notin {"none", "make"}
    PROVE  Met(c, j)'
BY DEF Met

\* A worker that goes on leaves its command where it is.
LEMMA WorkerLoop ==
    ASSUME PoolAssumption, IInv, NEW c \in Commands, NEW i \in Rows, NEW w \in Workers \ {"none"},
           SetWorker(c, i, w), worker[c][i] \notin {"none", "over"}, UNCHANGED <<phase, idx, reply>>
    PROVE  /\ LoopSound(c)' /\ CollectSound(c)'
           /\ phase[c] \in {"loop", "wait"}
<1>1. /\ worker'[c][i] = w
      /\ \A j \in Rows \ {i} : worker'[c][j] = worker[c][j]
      /\ phase'[c] = phase[c] /\ idx'[c] = idx[c] /\ reply'[c] = reply[c]
  BY OneWorker DEF IInv
<1>2. LoopSound(c) /\ CollectSound(c)
  BY DEF IInv
<1>3. phase[c] \in {"loop", "wait"}
  BY <1>2 DEF IInv, PoolTypeOK, Phases, LoopSound
<1>4. LoopSound(c)'
  <2>1. ASSUME phase[c] = "loop", NEW j \in Rows, j >= idx[c]
        PROVE  worker'[c][j] = "none"
    <3>1. worker[c][j] = "none"
      BY <1>2, <2>1 DEF LoopSound
    <3>2. j # i
      BY <3>1
    <3> QED  BY <1>1, <3>1, <3>2
  <2>2. ASSUME NEW j \in Rows, worker'[c][j] # "none"
        PROVE  j >= First(c)
    <3>1. worker[c][j] # "none"
      BY <1>1, <2>2
    <3> QED  BY <1>2, <3>1 DEF LoopSound
  <2> QED  BY <1>1, <1>2, <1>3, <2>1, <2>2 DEF LoopSound, First
<1>5. CollectSound(c)'
  BY <1>1, <1>2, <1>3 DEF CollectSound
<1> QED  BY <1>3, <1>4, <1>5

\* A step of a worker, from what it does to its own row, its places and the files.
LEMMA WorkerMoves ==
    ASSUME PoolAssumption, IInv, PoolTypeOK', NEW c \in Commands, NEW i \in Rows,
           NEW w \in Workers \ {"none"},
           SetWorker(c, i, w), worker[c][i] \notin {"none", "over"}, UNCHANGED <<phase, idx, reply>>,
           worker[c][i] # "make" => w # "make",
           \A d \in Commands \ {c} : places'[d] = places[d] /\ outputURLs'[d] = outputURLs[d],
           OpenSound', PutSound(c)', PlacesSound(c)', FilesSound(c)',
           \A d \in Commands \ {c}, j \in Rows :
               file'[NameOf(d, j)] = file[NameOf(d, j)] \/ (Met(d, j))'
    PROVE  IInv'
<1>1. /\ worker'[c][i] = w
      /\ \A j \in Rows \ {i} : worker'[c][j] = worker[c][j]
      /\ \A d \in Commands \ {c} : worker'[d] = worker[d]
  BY OneWorker DEF IInv
<1>2. \A d \in Commands, k \in Rows :
          worker[d][k] \notin {"none", "make"} => worker'[d][k] \notin {"none", "make"}
  BY <1>1
<1>3. LoopSound(c)' /\ CollectSound(c)'
  BY WorkerLoop
<1>4. ASSUME NEW d \in Commands, d # c
      PROVE  (LoopSound(d) /\ PutSound(d) /\ CollectSound(d) /\ FilesSound(d) /\ PlacesSound(d))'
  <2>1. (LoopSound(d) /\ PutSound(d) /\ CollectSound(d) /\ PlacesSound(d))'
    BY <1>1, <1>4, OwnKept DEF IInv
  <2>2. FilesSound(d)'
    <3>1. worker'[d] = worker[d] /\ outputURLs'[d] = outputURLs[d] /\ FilesSound(d)
      BY <1>1, <1>4 DEF IInv
    <3>2. ASSUME NEW j \in Rows
          PROVE  /\ Met(d, j) => Met(d, j)'
                 /\ file'[NameOf(d, j)] = file[NameOf(d, j)] \/ Met(d, j)'
      BY <1>2, <1>4, MetKept
    <3>3. ASSUME NEW j \in Rows
          PROVE  NameOf(d, j)' = NameOf(d, j)
      BY DEF NameOf
    <3> QED  BY <3>1, <3>2, <3>3 DEF FilesSound
  <2> QED  BY <2>1, <2>2
<1> QED  BY <1>3, <1>4 DEF IInv

LEMMA OwnNames ==
    ASSUME PoolAssumption, NEW c \in Commands, NEW i \in Rows
    PROVE  /\ NameOf(c, i) \in Names /\ NameOf(c, i)[1] = Family[c] /\ NameOf(c, i)[2] = i
           /\ NameOf(c, i) # NoURL
           /\ \A d \in Commands, j \in Rows :
                  NameOf(d, j) = NameOf(c, i) => Family[d] = Family[c] /\ j = i
           /\ \A n \in Names : n[1] = Family[c] /\ n[2] = i => n = NameOf(c, i)
<1>1. Family[c] \in {"symmetric", "qtan"}
  BY DEF PoolAssumption
<1>2. NameOf(c, i) \in Names
  BY <1>1 DEF NameOf, Names
<1>3. NameOf(c, i) # NoURL
  BY <1>2 DEF PoolAssumption
<1> QED  BY <1>2, <1>3 DEF NameOf, Names

\* What a step on the file of one row means for all files.
LEMMA FileStep ==
    ASSUME PoolAssumption, IInv, NEW c \in Commands, NEW i \in Rows,
           NEW w \in Workers \ {"none", "make"}, SetWorker(c, i, w), worker[c][i] # "none",
           NEW v, file' = [file EXCEPT ![NameOf(c, i)] = v],
           \A j \in Rows \ {i} : outputURLs'[c][j] = outputURLs[c][j],
           w = "encode" => v = [by |-> c, is |-> "partial"] \/ Met(c, i),
           w = "put" \/ outputURLs'[c][i] # NoURL => v = [by |-> c, is |-> "whole"] \/ Met(c, i)
    PROVE  /\ FilesSound(c)'
           /\ \A d \in Commands \ {c}, j \in Rows :
                  file'[NameOf(d, j)] = file[NameOf(d, j)] \/ (Met(d, j))'
<1>1. /\ worker'[c][i] = w
      /\ \A j \in Rows \ {i} : worker'[c][j] = worker[c][j]
      /\ \A d \in Commands \ {c} : worker'[d] = worker[d]
  BY OneWorker DEF IInv
<1>2. \A d \in Commands, k \in Rows :
          worker[d][k] \notin {"none", "make"} => worker'[d][k] \notin {"none", "make"}
  BY <1>1
<1>3. \A j \in Rows : Met(c, j) => Met(c, j)'
  BY <1>2, MetKept
<1>4. \A d \in Commands, j \in Rows : NameOf(d, j) \in Names
  BY OwnNames
<1>5. file'[NameOf(c, i)] = v /\ \A n \in Names : n # NameOf(c, i) => file'[n] = file[n]
  BY <1>4 DEF IInv, PoolTypeOK
<1>6. ASSUME NEW j \in Rows
      PROVE  NameOf(c, j)' = NameOf(c, j)
  BY DEF NameOf
<1>7. FilesSound(c)'
  <2>1. ASSUME NEW j \in Rows
        PROVE  /\ worker'[c][j] = "encode" =>
                      file'[NameOf(c, j)] = [by |-> c, is |-> "partial"] \/ Met(c, j)'
               /\ worker'[c][j] = "put" \/ outputURLs'[c][j] # NoURL =>
                      file'[NameOf(c, j)] = [by |-> c, is |-> "whole"] \/ Met(c, j)'
    <3>1. CASE j = i
      BY <1>1, <1>3, <1>5, <3>1
    <3>2. CASE j # i
      <4>1. NameOf(c, j) \in Names /\ NameOf(c, j) # NameOf(c, i)
        BY <3>2, OwnNames
      <4>2. file'[NameOf(c, j)] = file[NameOf(c, j)]
        BY <1>5, <4>1
      <4>3. worker'[c][j] = worker[c][j] /\ outputURLs'[c][j] = outputURLs[c][j]
        BY <1>1, <3>2
      <4>4. FilesSound(c)
        BY DEF IInv
      <4> QED  BY <1>3, <4>2, <4>3, <4>4 DEF FilesSound
    <3> QED  BY <3>1, <3>2
  <2> QED  BY <1>6, <2>1 DEF FilesSound
<1>8. ASSUME NEW d \in Commands \ {c}, NEW j \in Rows
      PROVE  file'[NameOf(d, j)] = file[NameOf(d, j)] \/ (Met(d, j))'
  <2>1. CASE NameOf(d, j) = NameOf(c, i)
    <3>1. Family[d] = Family[c] /\ j = i
      BY <2>1, OwnNames
    <3> QED  BY <1>1, <3>1 DEF Met
  <2>2. CASE NameOf(d, j) # NameOf(c, i)
    BY <1>4, <1>5, <2>2
  <2> QED  BY <2>1, <2>2
<1> QED  BY <1>7, <1>8

\* A worker at work stays there until it gives its place back.
LEMMA PlaceKept ==
    ASSUME IInv, NEW c \in Commands, NEW i \in Rows, NEW w \in Workers \ {"none", "over"},
           SetWorker(c, i, w), worker[c][i] \notin {"none", "over"}, places' = places
    PROVE  PlacesSound(c)'
<1>1. /\ worker'[c][i] = w
      /\ \A j \in Rows \ {i} : worker'[c][j] = worker[c][j]
  BY OneWorker DEF IInv
<1>2. AtWork(c)' = AtWork(c)
  BY <1>1 DEF AtWork
<1> QED  BY <1>2 DEF IInv, PlacesSound

\* Files that nobody opens or closes.
LEMMA OpenKept ==
    ASSUME PoolAssumption, IInv, NEW c \in Commands, NEW i \in Rows, NEW w \in Workers,
           SetWorker(c, i, w),
           \/ worker[c][i] # "encode" /\ open' = open
           \/ open' = [open EXCEPT ![NameOf(c, i)] = @ \ {c}]
           \/ w = "encode" /\ worker[c][i] # "encode"
              /\ open' = [open EXCEPT ![NameOf(c, i)] = @ \cup {c}]
    PROVE  OpenSound' /\ open' \in [Names -> SUBSET Commands]
<1>1. /\ worker'[c][i] = w
      /\ \A j \in Rows \ {i} : worker'[c][j] = worker[c][j]
      /\ \A d \in Commands \ {c} : worker'[d] = worker[d]
  BY OneWorker DEF IInv
<1>2. /\ open \in [Names -> SUBSET Commands] /\ NameOf(c, i) \in Names
      /\ NameOf(c, i)[1] = Family[c] /\ NameOf(c, i)[2] = i
  BY OwnNames DEF IInv, PoolTypeOK
<1>3. open' \in [Names -> SUBSET Commands]
  BY <1>2
<1>4. \A n \in Names : n[2] \in Rows
  BY DEF Names
<1>5. ASSUME NEW n \in Names, NEW d \in open'[n]
      PROVE  Family[d] = n[1] /\ worker'[d][n[2]] = "encode"
  <2>1. CASE n = NameOf(c, i) /\ d = c
    <3>1. w = "encode" \/ (d \in open[n] /\ worker[c][i] # "encode")
      BY <1>2, <1>5, <2>1
    <3>2. w = "encode"
      BY <1>2, <2>1, <3>1 DEF IInv, OpenSound
    <3> QED  BY <1>1, <1>2, <2>1, <3>2
  <2>2. CASE ~ (n = NameOf(c, i) /\ d = c)
    <3>1. d \in open[n] /\ d \in Commands
      BY <1>2, <1>3, <1>5, <2>2
    <3>2. Family[d] = n[1] /\ worker[d][n[2]] = "encode"
      BY <3>1 DEF IInv, OpenSound
    <3>3. d = c => n[2] # i
      BY <2>2, <3>2, OwnNames
    <3> QED  BY <1>1, <1>4, <3>1, <3>2, <3>3
  <2> QED  BY <2>1, <2>2
<1>6. OpenSound'
  BY <1>5 DEF OpenSound
<1> QED  BY <1>3, <1>6

\* The types after a step of a worker on its file.
LEMMA WorkerTypes ==
    ASSUME IInv, NEW c \in Commands, NEW i \in Rows, NEW w \in Workers, SetWorker(c, i, w),
           UNCHANGED <<phase, idx, reply>>,
           places' \in [Commands -> 0..MaxConcurrency],
           outputURLs' \in [Commands -> [Rows -> Names \cup {NoURL}]],
           file' \in [Names -> [by : Commands \cup {NoURL}, is : {"absent", "partial", "whole", "mixed"}]],
           open' \in [Names -> SUBSET Commands]
    PROVE  PoolTypeOK'
<1>1. worker' \in [Commands -> [Rows -> Workers]]
  BY OneWorker DEF IInv
<1> QED  BY <1>1 DEF IInv, PoolTypeOK

LEMMA CreateStep ==
    ASSUME PoolAssumption, IInv, NEW c \in Commands, NEW i \in Rows, Create(c, i)
    PROVE  IInv'
<1>1. PICK n : n = NameOf(c, i)
  OBVIOUS
<1>2. PICK v : v = [by |-> c, is |-> IF open[n] = {} THEN "partial" ELSE "mixed"]
  OBVIOUS
<1>3. /\ worker[c][i] = "make" /\ SetWorker(c, i, "encode")
      /\ file' = [file EXCEPT ![n] = v] /\ open' = [open EXCEPT ![n] = @ \cup {c}]
      /\ UNCHANGED <<phase, idx, places, outputURLs, reply>>
  BY <1>1, <1>2 DEF Create
<1>4. "encode" \in Workers \ {"none", "make", "over"} /\ PoolTypeOK /\ n \in Names
  BY <1>1, OwnNames DEF Workers, IInv
<1>5. OpenSound' /\ open' \in [Names -> SUBSET Commands]
  BY <1>1, <1>3, <1>4, OpenKept
<1>6. v = [by |-> c, is |-> "partial"] \/ Met(c, i)
  <2>1. ASSUME open[n] # {}
        PROVE  Met(c, i)
    <3>1. PICK d \in open[n] : d \in Commands
      BY <1>4, <2>1 DEF PoolTypeOK
    <3>2. Family[d] = n[1] /\ worker[d][n[2]] = "encode"
      BY <1>4 DEF IInv, OpenSound
    <3>3. Family[d] = Family[c] /\ worker[d][i] = "encode"
      BY <1>1, <3>2, OwnNames
    <3> QED  BY <1>3, <3>1, <3>3 DEF Met
  <2> QED  BY <1>2, <2>1
<1>7. outputURLs[c][i] = NoURL
  BY <1>3 DEF IInv, PutSound
<1>8. /\ FilesSound(c)'
      /\ \A d \in Commands \ {c}, j \in Rows :
             file'[NameOf(d, j)] = file[NameOf(d, j)] \/ (Met(d, j))'
  <2>1. PICK w \in Workers \ {"none", "make"} : w = "encode"
    BY <1>4
  <2>2. /\ SetWorker(c, i, w) /\ worker[c][i] # "none" /\ file' = [file EXCEPT ![NameOf(c, i)] = v]
        /\ \A j \in Rows \ {i} : outputURLs'[c][j] = outputURLs[c][j]
        /\ w # "put" /\ outputURLs'[c][i] = NoURL
    BY <1>1, <1>3, <1>7, <2>1
  <2> QED  BY <1>6, <2>2, FileStep
<1>9. PoolTypeOK'
  <2>1. v \in [by : Commands \cup {NoURL}, is : {"absent", "partial", "whole", "mixed"}]
    BY <1>2
  <2>2. file' \in [Names -> [by : Commands \cup {NoURL}, is : {"absent", "partial", "whole", "mixed"}]]
    BY <1>3, <1>4, <2>1 DEF PoolTypeOK
  <2>3. places' \in [Commands -> 0..MaxConcurrency] /\ outputURLs' \in [Commands -> [Rows -> Names \cup {NoURL}]]
    BY <1>3, <1>4 DEF PoolTypeOK
  <2> QED  BY <1>3, <1>4, <1>5, <2>2, <2>3, WorkerTypes
<1>10. PutSound(c)'
  <2>1. \A j \in Rows : outputURLs[c][j] # NoURL => j # i
    BY <1>7
  <2>2. \A j \in Rows \ {i} : worker'[c][j] = worker[c][j]
    BY <1>3, <1>4, OneWorker
  <2> QED  BY <1>3, <2>1, <2>2 DEF IInv, PutSound, NameOf
<1>11. PlacesSound(c)'
  BY <1>3, <1>4, PlaceKept
<1> QED  BY <1>3, <1>4, <1>5, <1>8, <1>9, <1>10, <1>11, WorkerMoves

LEMMA EncodeStep ==
    ASSUME PoolAssumption, IInv, NEW c \in Commands, NEW i \in Rows, Encode(c, i)
    PROVE  IInv'
<1>1. PICK n : n = NameOf(c, i)
  OBVIOUS
<1>2. PoolTypeOK /\ n \in Names /\ "put" \in Workers \ {"none", "make", "over"}
  BY <1>1, OwnNames DEF Workers, IInv
<1>3. PICK f \in [by : Commands \cup {NoURL}, is : {"absent", "partial", "whole", "mixed"}] : f = file[n]
  BY <1>2 DEF PoolTypeOK
<1>4. PICK v : v = [f EXCEPT !.is = IF @ = "partial" THEN "whole" ELSE "mixed"]
  OBVIOUS
<1>5. /\ worker[c][i] = "encode" /\ SetWorker(c, i, "put")
      /\ file' = [file EXCEPT ![n] = v] /\ open' = [open EXCEPT ![n] = @ \ {c}]
      /\ UNCHANGED <<phase, idx, places, outputURLs, reply>>
  BY <1>1, <1>3, <1>4 DEF Encode
<1>6. OpenSound' /\ open' \in [Names -> SUBSET Commands]
  BY <1>1, <1>2, <1>5, OpenKept
<1>7. v = [by |-> c, is |-> "whole"] \/ Met(c, i)
  <2>1. f = [by |-> c, is |-> "partial"] \/ Met(c, i)
    BY <1>1, <1>3, <1>5 DEF IInv, FilesSound
  <2> QED  BY <1>4, <2>1
<1>8. outputURLs[c][i] = NoURL
  BY <1>5 DEF IInv, PutSound
<1>9. /\ FilesSound(c)'
      /\ \A d \in Commands \ {c}, j \in Rows :
             file'[NameOf(d, j)] = file[NameOf(d, j)] \/ (Met(d, j))'
  <2>1. PICK w \in Workers \ {"none", "make"} : w = "put"
    BY <1>2
  <2>2. /\ SetWorker(c, i, w) /\ worker[c][i] # "none" /\ file' = [file EXCEPT ![NameOf(c, i)] = v]
        /\ \A j \in Rows \ {i} : outputURLs'[c][j] = outputURLs[c][j]
        /\ w # "encode"
    BY <1>1, <1>5, <2>1
  <2> QED  BY <1>7, <2>2, FileStep
<1>10. PoolTypeOK'
  <2>1. v \in [by : Commands \cup {NoURL}, is : {"absent", "partial", "whole", "mixed"}]
    BY <1>3, <1>4
  <2>2. file' \in [Names -> [by : Commands \cup {NoURL}, is : {"absent", "partial", "whole", "mixed"}]]
    BY <1>2, <1>5, <2>1 DEF PoolTypeOK
  <2>3. places' \in [Commands -> 0..MaxConcurrency] /\ outputURLs' \in [Commands -> [Rows -> Names \cup {NoURL}]]
    BY <1>2, <1>5 DEF PoolTypeOK
  <2> QED  BY <1>2, <1>5, <1>6, <2>2, <2>3, WorkerTypes
<1>11. PutSound(c)'
  <2>1. \A j \in Rows : outputURLs[c][j] # NoURL => j # i
    BY <1>8
  <2>2. \A j \in Rows \ {i} : worker'[c][j] = worker[c][j]
    BY <1>2, <1>5, OneWorker
  <2> QED  BY <1>5, <2>1, <2>2 DEF IInv, PutSound, NameOf
<1>12. PlacesSound(c)'
  BY <1>2, <1>5, PlaceKept
<1> QED  BY <1>2, <1>5, <1>6, <1>9, <1>10, <1>11, <1>12, WorkerMoves

\* A worker that fails: at the encoder, or before it has a file.
LEMMA ErrStep ==
    ASSUME PoolAssumption, IInv, NEW c \in Commands, NEW i \in Rows,
           EncodeErr(c, i) \/ WorkerErr(c, i)
    PROVE  IInv'
<1>1. /\ worker[c][i] \in {"make", "encode"} /\ SetWorker(c, i, "release")
      /\ UNCHANGED <<phase, idx, places, outputURLs, reply, file>>
  BY DEF EncodeErr, WorkerErr, files
<1>2. \/ worker[c][i] # "encode" /\ open' = open
      \/ open' = [open EXCEPT ![NameOf(c, i)] = @ \ {c}]
  BY DEF EncodeErr, WorkerErr, files
<1>3. "release" \in Workers \ {"none", "make", "over"} /\ PoolTypeOK /\ NameOf(c, i) \in Names
  BY OwnNames DEF Workers, IInv
<1>4. OpenSound' /\ open' \in [Names -> SUBSET Commands]
  BY <1>1, <1>2, <1>3, OpenKept
<1>5. outputURLs[c][i] = NoURL
  BY <1>1 DEF IInv, PutSound
<1>6. file' = [file EXCEPT ![NameOf(c, i)] = file[NameOf(c, i)]]
  BY <1>1, <1>3 DEF PoolTypeOK
<1>7. /\ FilesSound(c)'
      /\ \A d \in Commands \ {c}, j \in Rows :
             file'[NameOf(d, j)] = file[NameOf(d, j)] \/ (Met(d, j))'
  <2>1. PICK w \in Workers \ {"none", "make"} : w = "release"
    BY <1>3
  <2>2. /\ SetWorker(c, i, w) /\ worker[c][i] # "none"
        /\ \A j \in Rows \ {i} : outputURLs'[c][j] = outputURLs[c][j]
        /\ w # "encode" /\ w # "put" /\ outputURLs'[c][i] = NoURL
    BY <1>1, <1>5, <2>1
  <2> QED  BY <1>6, <2>2, FileStep
<1>8. PoolTypeOK'
  <2>1. /\ places' \in [Commands -> 0..MaxConcurrency]
        /\ outputURLs' \in [Commands -> [Rows -> Names \cup {NoURL}]]
        /\ file' \in [Names -> [by : Commands \cup {NoURL}, is : {"absent", "partial", "whole", "mixed"}]]
    BY <1>1, <1>3 DEF PoolTypeOK
  <2> QED  BY <1>1, <1>3, <1>4, <2>1, WorkerTypes
<1>9. PutSound(c)'
  <2>1. \A j \in Rows : outputURLs[c][j] # NoURL => j # i
    BY <1>5
  <2>2. \A j \in Rows \ {i} : worker'[c][j] = worker[c][j]
    BY <1>1, <1>3, OneWorker
  <2> QED  BY <1>1, <2>1, <2>2 DEF IInv, PutSound, NameOf
<1>10. PlacesSound(c)'
  BY <1>1, <1>3, PlaceKept
<1> QED  BY <1>1, <1>3, <1>4, <1>7, <1>8, <1>9, <1>10, WorkerMoves

LEMMA PutStep ==
    ASSUME PoolAssumption, IInv, NEW c \in Commands, NEW i \in Rows, Put(c, i)
    PROVE  IInv'
<1>1. PICK n : n = NameOf(c, i)
  OBVIOUS
<1>2. PICK f : f = outputURLs[c]
  OBVIOUS
<1>3. "release" \in Workers \ {"none", "make", "over"} /\ PoolTypeOK /\ n \in Names /\ n # NoURL
  BY <1>1, OwnNames DEF Workers, IInv
<1>4. /\ worker[c][i] = "put" /\ SetWorker(c, i, "release")
      /\ outputURLs' = [outputURLs EXCEPT ![c] = [f EXCEPT ![i] = n]]
      /\ UNCHANGED <<phase, idx, places, reply, file, open>>
  BY <1>1, <1>2 DEF Put, files
<1>5. f \in [Rows -> Names \cup {NoURL}]
  BY <1>2, <1>3 DEF PoolTypeOK
<1>6. [f EXCEPT ![i] = n] \in [Rows -> Names \cup {NoURL}]
  BY <1>3, <1>5
<1>7. /\ outputURLs' \in [Commands -> [Rows -> Names \cup {NoURL}]]
      /\ outputURLs'[c][i] = n
      /\ \A j \in Rows \ {i} : outputURLs'[c][j] = outputURLs[c][j]
      /\ \A d \in Commands \ {c} : outputURLs'[d] = outputURLs[d]
  BY <1>2, <1>3, <1>4, <1>5, <1>6 DEF PoolTypeOK
<1>8. OpenSound' /\ open' \in [Names -> SUBSET Commands]
  BY <1>3, <1>4, OpenKept
<1>9. file[n] = [by |-> c, is |-> "whole"] \/ Met(c, i)
  BY <1>1, <1>4 DEF IInv, FilesSound
<1>10. file' = [file EXCEPT ![n] = file[n]]
  BY <1>3, <1>4 DEF PoolTypeOK
<1>11. /\ FilesSound(c)'
       /\ \A d \in Commands \ {c}, j \in Rows :
              file'[NameOf(d, j)] = file[NameOf(d, j)] \/ (Met(d, j))'
  <2>1. PICK w \in Workers \ {"none", "make"} : w = "release"
    BY <1>3
  <2>2. PICK v : v = file[n]
    OBVIOUS
  <2>3. /\ SetWorker(c, i, w) /\ worker[c][i] # "none" /\ file' = [file EXCEPT ![NameOf(c, i)] = v]
        /\ \A j \in Rows \ {i} : outputURLs'[c][j] = outputURLs[c][j]
        /\ w # "encode"
    BY <1>1, <1>4, <1>7, <1>10, <2>1, <2>2
  <2>4. v = [by |-> c, is |-> "whole"] \/ Met(c, i)
    BY <1>9, <2>2
  <2> QED  BY <2>3, <2>4, FileStep
<1>12. PoolTypeOK'
  <2>1. /\ places' \in [Commands -> 0..MaxConcurrency]
        /\ file' \in [Names -> [by : Commands \cup {NoURL}, is : {"absent", "partial", "whole", "mixed"}]]
    BY <1>3, <1>4 DEF PoolTypeOK
  <2> QED  BY <1>3, <1>4, <1>7, <1>8, <2>1, WorkerTypes
<1>13. PutSound(c)'
  <2>1. worker'[c][i] = "release" /\ \A j \in Rows \ {i} : worker'[c][j] = worker[c][j]
    BY <1>3, <1>4, OneWorker
  <2>2. ASSUME NEW j \in Rows, outputURLs'[c][j] # NoURL
        PROVE  outputURLs'[c][j] = NameOf(c, j) /\ worker'[c][j] \in {"release", "over"}
    <3>1. CASE j = i
      BY <1>1, <1>7, <2>1, <3>1
    <3>2. CASE j # i
      BY <1>7, <2>1, <2>2, <3>2 DEF IInv, PutSound
    <3> QED  BY <3>1, <3>2
  <2> QED  BY <2>2 DEF PutSound, NameOf
<1>14. PlacesSound(c)'
  BY <1>3, <1>4, PlaceKept
<1> QED  BY <1>3, <1>4, <1>7, <1>8, <1>11, <1>12, <1>13, <1>14, WorkerMoves

LEMMA WorkersFew ==
    ASSUME PoolAssumption, NEW c \in Commands
    PROVE  IsFiniteSet(AtWork(c)) /\ Cardinality(AtWork(c)) \in Nat
<1>1. IsFiniteSet(Rows)
  <2>1. 1 \in Int /\ Len(HasURL) \in Int
    BY DEF PoolAssumption
  <2> QED  BY <2>1, FS_Interval DEF Rows
<1>2. AtWork(c) \subseteq Rows
  BY DEF AtWork
<1> QED  BY <1>1, <1>2, FS_Subset, FS_CardinalityType

LEMMA ReleaseStep ==
    ASSUME PoolAssumption, IInv, NEW c \in Commands, NEW i \in Rows, Release(c, i)
    PROVE  IInv'
<1>1. PICK p \in 0..MaxConcurrency : p = places[c]
  BY DEF IInv, PoolTypeOK
<1>2. PICK w \in Workers \ {"none", "make"} : w = "over"
  BY DEF Workers
<1>3. /\ worker[c][i] = "release" /\ SetWorker(c, i, w)
      /\ places' = [places EXCEPT ![c] = p - 1]
      /\ UNCHANGED <<phase, idx, outputURLs, reply, file, open>>
  BY <1>1, <1>2 DEF Release, files
<1>4. PoolTypeOK /\ NameOf(c, i) \in Names /\ MaxConcurrency \in Nat
  BY OwnNames DEF IInv, PoolAssumption
<1>5. /\ worker'[c][i] = w
      /\ \A j \in Rows \ {i} : worker'[c][j] = worker[c][j]
  BY <1>3, <1>4, OneWorker
<1>6. PICK A : A = AtWork(c)
  OBVIOUS
<1>7. IsFiniteSet(A) /\ Cardinality(A) = p /\ i \in A
  BY <1>1, <1>3, <1>6, WorkersFew DEF IInv, PlacesSound, AtWork
<1>8. Cardinality(A \ {i}) = p - 1 /\ p - 1 \in 0..MaxConcurrency
  <2>1. Cardinality(A \ {i}) = Cardinality(A) - 1 /\ Cardinality(A \ {i}) \in Nat
    BY <1>7, FS_RemoveElement, FS_CardinalityType
  <2> QED  BY <1>4, <1>7, <2>1
<1>9. /\ places' \in [Commands -> 0..MaxConcurrency] /\ places'[c] = p - 1
      /\ \A d \in Commands \ {c} : places'[d] = places[d]
  BY <1>3, <1>4, <1>8 DEF PoolTypeOK
<1>10. PlacesSound(c)'
  <2>1. AtWork(c)' = A \ {i}
    BY <1>2, <1>5, <1>6 DEF AtWork
  <2> QED  BY <1>8, <1>9, <2>1 DEF PlacesSound
<1>11. OpenSound' /\ open' \in [Names -> SUBSET Commands]
  BY <1>3, OpenKept
<1>12. /\ FilesSound(c)'
       /\ \A d \in Commands \ {c}, j \in Rows :
              file'[NameOf(d, j)] = file[NameOf(d, j)] \/ (Met(d, j))'
  <2>1. PICK v : v = file[NameOf(c, i)]
    OBVIOUS
  <2>2. file' = [file EXCEPT ![NameOf(c, i)] = v]
    BY <1>3, <1>4, <2>1 DEF PoolTypeOK
  <2>3. outputURLs'[c][i] # NoURL => v = [by |-> c, is |-> "whole"] \/ Met(c, i)
    BY <1>3, <2>1 DEF IInv, FilesSound
  <2>4. worker[c][i] # "none" /\ w # "encode" /\ w # "put"
    BY <1>2, <1>3
  <2> QED  BY <1>3, <2>2, <2>3, <2>4, FileStep
<1>13. PoolTypeOK'
  <2>1. /\ outputURLs' \in [Commands -> [Rows -> Names \cup {NoURL}]]
        /\ file' \in [Names -> [by : Commands \cup {NoURL}, is : {"absent", "partial", "whole", "mixed"}]]
    BY <1>3, <1>4 DEF PoolTypeOK
  <2> QED  BY <1>3, <1>9, <1>11, <2>1, WorkerTypes
<1>14. PutSound(c)'
  <2>1. \A j \in Rows : worker[c][j] \in {"release", "over"} => worker'[c][j] \in {"release", "over"}
    BY <1>2, <1>5
  <2> QED  BY <1>3, <2>1 DEF IInv, PutSound, NameOf
<1>15. w # "none" /\ worker[c][i] \notin {"none", "over"} /\ worker[c][i] # "make"
  BY <1>2, <1>3
<1> QED  BY <1>3, <1>9, <1>10, <1>11, <1>12, <1>13, <1>14, <1>15, WorkerMoves

LEMMA SpawnStep ==
    ASSUME PoolAssumption, IInv, NEW c \in Commands, Spawn(c)
    PROVE  IInv'
<1>1. PICK n \in Nat : n = idx[c]
  BY DEF IInv, PoolTypeOK
<1>2. PICK p \in 0..MaxConcurrency : p = places[c]
  BY DEF IInv, PoolTypeOK
<1>3. /\ phase[c] = "loop" /\ n \in Rows /\ p < MaxConcurrency
      /\ places' = [places EXCEPT ![c] = p + 1]
      /\ SetWorker(c, n, "make") /\ idx' = [idx EXCEPT ![c] = n + 1]
      /\ UNCHANGED <<phase, outputURLs, reply, file, open>>
  BY <1>1, <1>2 DEF Spawn, files
<1>4. PoolTypeOK /\ MaxConcurrency \in Nat /\ "make" \in Workers
  BY DEF IInv, PoolAssumption, Workers
<1>5. /\ worker' \in [Commands -> [Rows -> Workers]] /\ worker'[c][n] = "make"
      /\ \A j \in Rows \ {n} : worker'[c][j] = worker[c][j]
      /\ \A d \in Commands \ {c} : worker'[d] = worker[d]
  BY <1>3, <1>4, OneWorker
<1>6. n >= First(c) /\ \A j \in Rows : j >= n => worker[c][j] = "none"
  BY <1>1, <1>3 DEF IInv, LoopSound
<1>7. worker[c][n] = "none"
  BY <1>3, <1>6
<1>8. /\ p + 1 \in 0..MaxConcurrency
      /\ places' \in [Commands -> 0..MaxConcurrency] /\ places'[c] = p + 1
      /\ \A d \in Commands \ {c} : places'[d] = places[d]
  <2>1. p + 1 \in 0..MaxConcurrency
    BY <1>3, <1>4
  <2> QED  BY <1>3, <1>4, <2>1 DEF PoolTypeOK
<1>9. /\ idx' \in [Commands -> Nat] /\ idx'[c] = n + 1
      /\ \A d \in Commands \ {c} : idx'[d] = idx[d]
  BY <1>3, <1>4 DEF PoolTypeOK
<1>10. PoolTypeOK'
  BY <1>3, <1>4, <1>5, <1>8, <1>9 DEF PoolTypeOK
<1>11. OpenSound'
  <2>1. ASSUME NEW m \in Names, NEW d \in open[m]
        PROVE  Family[d] = m[1] /\ worker'[d][m[2]] = "encode"
    <3>1. Family[d] = m[1] /\ worker[d][m[2]] = "encode" /\ d \in Commands /\ m[2] \in Rows
      BY <1>4, <2>1 DEF IInv, OpenSound, PoolTypeOK, Names
    <3>2. ~ (d = c /\ m[2] = n)
      BY <1>7, <3>1
    <3> QED  BY <1>5, <3>1, <3>2
  <2> QED  BY <1>3, <2>1 DEF OpenSound
<1>12. \A d \in Commands, k \in Rows :
           /\ worker[d][k] \notin {"none", "make"} => worker'[d][k] \notin {"none", "make"}
           /\ worker'[d][k] \in {"encode", "put"} => worker'[d][k] = worker[d][k]
  BY <1>5, <1>7
<1>13. ASSUME NEW d \in Commands
       PROVE  FilesSound(d)'
  <2>1. \A j \in Rows : Met(d, j) => Met(d, j)'
    BY <1>12, MetKept
  <2>2. FilesSound(d)
    BY DEF IInv
  <2>3. \A j \in Rows : NameOf(d, j)' = NameOf(d, j)
    BY DEF NameOf
  <2>4. outputURLs' = outputURLs /\ file' = file
    BY <1>3
  <2> QED  BY <1>12, <2>1, <2>2, <2>3, <2>4 DEF FilesSound
<1>14. LoopSound(c)'
  <2>1. phase'[c] = "loop"
    BY <1>3
  <2>2. \A j \in Rows : j \in Nat
    BY Numbers
  <2>3. n + 1 >= First(c) /\ \A j \in Rows : j >= n + 1 => j # n /\ j >= n
    BY <1>6, <2>2, Numbers
  <2>4. \A j \in Rows : j >= n + 1 => worker'[c][j] = "none"
    BY <1>5, <1>6, <2>3
  <2>5. \A j \in Rows : worker'[c][j] # "none" => j >= First(c)
    <3>1. \A j \in Rows : worker[c][j] # "none" => j >= First(c)
      BY DEF IInv, LoopSound
    <3> QED  BY <1>5, <1>6, <3>1
  <2> QED  BY <1>9, <2>1, <2>3, <2>4, <2>5 DEF LoopSound, First
<1>15. PutSound(c)'
  <2>1. \A j \in Rows : outputURLs[c][j] # NoURL => j # n
    BY <1>7 DEF IInv, PutSound
  <2> QED  BY <1>3, <1>5, <2>1 DEF IInv, PutSound, NameOf
<1>16. CollectSound(c)'
  <2>1. reply[c] = <<>>
    BY <1>3 DEF IInv, CollectSound
  <2> QED  BY <1>3, <2>1 DEF CollectSound
<1>17. PlacesSound(c)'
  <2>1. PICK A : A = AtWork(c)
    OBVIOUS
  <2>2. IsFiniteSet(A) /\ Cardinality(A) = p /\ n \notin A
    BY <1>2, <1>7, <2>1, WorkersFew DEF IInv, PlacesSound, AtWork
  <2>3. Cardinality(A \cup {n}) = p + 1
    BY <2>2, FS_AddElement
  <2>4. AtWork(c)' = A \cup {n}
    BY <1>3, <1>5, <2>1 DEF AtWork
  <2> QED  BY <1>8, <2>3, <2>4 DEF PlacesSound
<1>18. ASSUME NEW d \in Commands, d # c
       PROVE  (LoopSound(d) /\ PutSound(d) /\ CollectSound(d) /\ PlacesSound(d))'
  BY <1>3, <1>5, <1>8, <1>9, <1>18, OwnKept DEF IInv
<1> QED  BY <1>10, <1>11, <1>13, <1>14, <1>15, <1>16, <1>17, <1>18 DEF IInv

-----------------------------------------------------------------------------
(* Every step, and what follows from the invariant. *)

LEMMA StartsSound == ASSUME PoolAssumption, PoolInit PROVE IInv
<1>1. /\ phase = [c \in Commands |-> "new"] /\ idx = [c \in Commands |-> 1]
      /\ places = [c \in Commands |-> 0]
      /\ worker = [c \in Commands |-> [i \in Rows |-> "none"]]
      /\ outputURLs = [c \in Commands |-> [i \in Rows |-> NoURL]]
      /\ reply = [c \in Commands |-> <<>>]
      /\ file = [n \in Names |-> [by |-> NoURL, is |-> "absent"]]
      /\ open = [n \in Names |-> {}]
  BY DEF PoolInit
<1>2. PoolTypeOK
  <2>1. "new" \in Phases /\ "none" \in Workers /\ 0 \in 0..MaxConcurrency /\ <<>> \in Seq(Names)
    BY DEF Phases, Workers, PoolAssumption
  <2>2. worker \in [Commands -> [Rows -> Workers]] /\ phase \in [Commands -> Phases]
    BY <1>1, <2>1
  <2>3. places \in [Commands -> 0..MaxConcurrency] /\ idx \in [Commands -> Nat]
    BY <1>1, <2>1
  <2>4. reply \in [Commands -> Seq(Names)] /\ outputURLs \in [Commands -> [Rows -> Names \cup {NoURL}]]
    BY <1>1, <2>1
  <2>5. /\ open \in [Names -> SUBSET Commands]
        /\ file \in [Names -> [by : Commands \cup {NoURL}, is : {"absent", "partial", "whole", "mixed"}]]
    BY <1>1
  <2> QED  BY <2>2, <2>3, <2>4, <2>5 DEF PoolTypeOK
<1>3. OpenSound
  BY <1>1 DEF OpenSound
<1>4. ASSUME NEW c \in Commands
      PROVE  LoopSound(c) /\ PutSound(c) /\ CollectSound(c) /\ FilesSound(c) /\ PlacesSound(c)
  <2>1. LoopSound(c) /\ PutSound(c) /\ CollectSound(c) /\ FilesSound(c)
    BY <1>1 DEF LoopSound, PutSound, CollectSound, FilesSound
  <2>2. AtWork(c) = {}
    BY <1>1 DEF AtWork
  <2> QED  BY <1>1, <2>1, <2>2, FS_EmptySet DEF PlacesSound
<1> QED  BY <1>2, <1>3, <1>4 DEF IInv

LEMMA StutterStep == ASSUME IInv, UNCHANGED poolVars PROVE IInv'
<1>1. /\ phase' = phase /\ idx' = idx /\ places' = places /\ worker' = worker
      /\ outputURLs' = outputURLs /\ reply' = reply /\ file' = file /\ open' = open
  BY DEF poolVars
<1>2. PoolTypeOK' /\ OpenSound'
  BY <1>1 DEF IInv, PoolTypeOK, OpenSound
<1>3. ASSUME NEW d \in Commands
      PROVE  (LoopSound(d) /\ PutSound(d) /\ CollectSound(d) /\ FilesSound(d) /\ PlacesSound(d))'
  <2>1. (LoopSound(d) /\ PutSound(d) /\ CollectSound(d) /\ PlacesSound(d))'
    BY <1>1, OwnKept DEF IInv
  <2>2. FilesSound(d)'
    BY <1>1 DEF IInv, FilesSound, Met, NameOf
  <2> QED  BY <2>1, <2>2
<1> QED  BY <1>2, <1>3 DEF IInv

LEMMA StepsSound == ASSUME PoolAssumption, IInv, [PoolNext]_poolVars PROVE IInv'
<1>1. CASE \E c \in Commands : RecentMessageImages(c)
  BY <1>1, QueryStep
<1>2. CASE \E c \in Commands : CommandStep(c)
  <2>1. PICK c \in Commands : CommandStep(c)
    BY <1>2
  <2>2. CASE SkipRow(c)
    BY <2>2, SkipStep
  <2>3. CASE Spawn(c)
    BY <2>3, SpawnStep
  <2>4. CASE LoopEnds(c)
    BY <2>4, LoopEndsStep
  <2>5. CASE Wait(c)
    BY <2>5, WaitStep
  <2>6. CASE CompactStringsInOrder(c)
    BY <2>6, CollectStep
  <2>7. CASE AnswerPictures(c)
    BY <2>7, AnswerStep
  <2> QED  BY <2>1, <2>2, <2>3, <2>4, <2>5, <2>6, <2>7 DEF CommandStep
<1>3. CASE \E c \in Commands, i \in Rows : WorkerStep(c, i)
  <2>1. PICK c \in Commands, i \in Rows : WorkerStep(c, i)
    BY <1>3
  <2>2. CASE Create(c, i)
    BY <2>2, CreateStep
  <2>3. CASE Encode(c, i)
    BY <2>3, EncodeStep
  <2>4. CASE EncodeErr(c, i) \/ WorkerErr(c, i)
    BY <2>4, ErrStep
  <2>5. CASE Put(c, i)
    BY <2>5, PutStep
  <2>6. CASE Release(c, i)
    BY <2>6, ReleaseStep
  <2> QED  BY <2>1, <2>2, <2>3, <2>4, <2>5, <2>6 DEF WorkerStep
<1>4. CASE UNCHANGED poolVars
  BY <1>4, StutterStep
<1> QED  BY <1>1, <1>2, <1>3, <1>4 DEF PoolNext

\* The invariant holds in every state, however the workers are scheduled and
\* whichever of them fail.
THEOREM Invariance == ASSUME PoolAssumption PROVE PoolSpec => []IInv
<1>1. PoolInit => IInv
  BY StartsSound
<1>2. IInv /\ [PoolNext]_poolVars => IInv'
  BY StepsSound
<1> QED  BY <1>1, <1>2, PTL DEF PoolSpec

\* Every variable keeps its type; in particular no more places are taken than there are.
THEOREM TypeCorrect == ASSUME PoolAssumption PROVE PoolSpec => []PoolTypeOK
<1>1. IInv => PoolTypeOK
  BY DEF IInv
<1> QED  BY <1>1, Invariance, PTL

\* A command has as many places as workers, and none of either when it has answered.
LEMMA PlacesHeld == ASSUME IInv PROVE PlacesAreWorkers
<1> SUFFICES ASSUME NEW c \in Commands
             PROVE  /\ places[c] = Cardinality(AtWork(c))
                    /\ phase[c] \in {"replied", "hinted"} => places[c] = 0
  BY DEF PlacesAreWorkers
<1>1. places[c] = Cardinality(AtWork(c))
  BY DEF IInv, PlacesSound
<1>2. phase[c] \in {"replied", "hinted"} => AtWork(c) = {}
  BY DEF IInv, LoopSound, AtWork
<1> QED  BY <1>1, <1>2, FS_EmptySet

LEMMA AnswersOrdered == ASSUME PoolAssumption, IInv PROVE RepliesInOrder
<1>1. \A c \in Commands, i \in Rows : i < Len(HasURL) + 1
  <2>1. Len(HasURL) \in Nat
    BY DEF PoolAssumption
  <2> QED  BY <2>1 DEF Rows
<1>2. ASSUME NEW c \in Commands, phase[c] = "replied"
      PROVE  Collected(c, Len(HasURL) + 1)
  BY <1>2 DEF IInv, CollectSound
<1> QED  BY <1>1, <1>2 DEF RepliesInOrder, Collected

LEMMA AnswersWhole == ASSUME PoolAssumption, IInv PROVE AnsweredFilesWhole
<1> SUFFICES ASSUME NEW c \in Commands, NEW i \in RowsOf(c), phase[c] = "replied",
                    outputURLs[c][i] # NoURL
             PROVE  \/ file[outputURLs[c][i]] = [by |-> c, is |-> "whole"]
                    \/ \E d \in Commands \ {c} :
                           Family[d] = Family[c] /\ worker[d][i] \notin {"none", "make"}
  BY DEF AnsweredFilesWhole
<1>1. i \in Rows
  BY Numbers
<1>2. outputURLs[c][i] = NameOf(c, i)
  BY <1>1 DEF IInv, PutSound
<1>3. file[NameOf(c, i)] = [by |-> c, is |-> "whole"] \/ Met(c, i)
  BY <1>1 DEF IInv, FilesSound
<1> QED  BY <1>2, <1>3 DEF Met

\* However many images and commands there are and whichever workers fail: places
\* and workers agree, the answer holds the finished pictures in the order of their
\* rows, and each is a whole file of the command unless another of its family
\* opened it.  (handleSymmetricCommand, handleQTanCommand.)
THEOREM PicturesSoundAlways == ASSUME PoolAssumption PROVE PoolSpec => []PicturesSound
<1>1. IInv => PicturesSound
  BY PlacesHeld, AnswersOrdered, AnswersWhole DEF PicturesSound
<1> QED  BY <1>1, Invariance, PTL

-----------------------------------------------------------------------------
(* Natural numbers: least elements, induction over a set, division. *)

\* A set of numbers has a least one: the order of the numbers is well-founded.
LEMMA LeastNumber ==
    ASSUME NEW S \in SUBSET Nat, S # {}
    PROVE  \E x \in S : \A y \in S : x <= y
<1>1. PICK R : IsWellFoundedOn(R, Nat) /\ \A x, y \in Nat : x < y => <<x, y>> \in R
  <2>1. \A x, y \in Nat : x < y => <<x, y>> \in OpToRel(<, Nat)
    BY DEF OpToRel
  <2> QED  BY <2>1, NatLessThanWellFounded
<1>2. PICK x \in S : \A y \in S : ~ (<<y, x>> \in R)
  <2>1. IsWellFoundedOn(R, Nat)
    BY <1>1
  <2> QED  BY <2>1, WFMin
<1>3. \A y \in S : x <= y
  <2> TAKE y \in S
  <2>1. ~ (y < x) /\ x \in Nat /\ y \in Nat
    BY <1>1, <1>2
  <2> QED  BY <2>1
<1> QED  BY <1>3

\* A set with 0 and the successor of each of its members holds every number.
LEMMA AllNumbers ==
    ASSUME NEW S \in SUBSET Nat, 0 \in S, \A n \in S : n + 1 \in S
    PROVE  S = Nat
<1> SUFFICES ASSUME Nat \ S # {}
             PROVE  FALSE
  OBVIOUS
<1>1. PICK x \in Nat \ S : \A y \in Nat \ S : x <= y
  BY LeastNumber
<1>2. x - 1 \in Nat /\ x - 1 \in S
  BY <1>1
<1> QED  BY <1>2, <1>1

\* The quotient and the remainder of a division.
LEMMA Division ==
    ASSUME NEW a \in Nat, NEW b \in Nat \ {0}
    PROVE  /\ a \div b \in Nat /\ a % b \in 0..(b - 1)
           /\ a = b * (a \div b) + (a % b)
OBVIOUS

\* There is one quotient and one remainder.
LEMMA DivisionUnique ==
    ASSUME NEW b \in Nat \ {0}, NEW q \in Nat, NEW r \in 0..(b - 1)
    PROVE  (b * q + r) \div b = q /\ (b * q + r) % b = r
OBVIOUS

\* A multiple of b divided by b.
LEMMA Multiples ==
    ASSUME NEW b \in Nat \ {0}, NEW q \in Nat
    PROVE  (q * b) \div b = q /\ (q * b) % b = 0
<1>1. q * b = b * q + 0
  OBVIOUS
<1> QED  BY <1>1, DivisionUnique

\* What leaves no remainder is a multiple.
LEMMA MultipleOf ==
    ASSUME NEW a \in Nat, NEW b \in Nat \ {0}, a % b = 0
    PROVE  a = (a \div b) * b
<1>1. a = b * (a \div b) + 0
  BY Division
<1> QED  BY <1>1, Division

-----------------------------------------------------------------------------
(* What the Euclidean algorithm keeps, and the first common multiple. *)

\* d goes into n, and n is a sum of multiples of s and b.
Divides(d, n) == \E q \in Int : n = q * d
Combines(n, s, b) == \E x, y \in Int : n = x * s + y * b

\* A round of qtanGCD keeps the common divisors.
LEMMA DividesRound ==
    ASSUME NEW a \in Nat, NEW b \in Nat \ {0}, NEW d \in Nat, Divides(d, b), Divides(d, a % b)
    PROVE  Divides(d, a)
<1>1. PICK q \in Int : b = q * d
  BY DEF Divides
<1>2. PICK r \in Int : a % b = r * d
  BY DEF Divides
<1> DEFINE k == a \div b
<1>3. k \in Nat /\ a = b * k + (a % b)
  BY Division
<1> HIDE DEF k
<1>4. a = (q * d) * k + r * d
  BY <1>1, <1>2, <1>3
<1>5. (q * d) * k = (q * k) * d
  BY <1>3
<1>6. (q * k) * d + r * d = (q * k + r) * d /\ q * k + r \in Int
  BY <1>3
<1> QED  BY <1>4, <1>5, <1>6 DEF Divides

\* A round of qtanGCD keeps the numbers sums of multiples of the two it began with.
LEMMA CombinesRound ==
    ASSUME NEW a \in Nat, NEW c \in Nat \ {0}, NEW s \in Nat, NEW b \in Nat,
           Combines(a, s, b), Combines(c, s, b)
    PROVE  Combines(a % c, s, b)
<1>1. PICK k \in Nat, r \in Nat : a = c * k + r /\ r = a % c
  <2>1. /\ a \div c \in Nat /\ a % c \in 0..(c - 1)
        /\ a = c * (a \div c) + (a % c)
    BY Division, Zenon
  <2> QED  BY <2>1
<1>2. PICK x \in Int, y \in Int : a = x * s + y * b
  BY DEF Combines
<1>3. PICK u \in Int, v \in Int : c = u * s + v * b
  BY DEF Combines
<1>4. c * k = (u * k) * s + (v * k) * b
  <2>1. (u * s + v * b) * k = (u * s) * k + (v * b) * k
    BY <1>1
  <2>2. (u * s) * k = (u * k) * s /\ (v * b) * k = (v * k) * b
    BY <1>1
  <2> QED  BY <2>1, <2>2, <1>3
<1> DEFINE uk == u * k
           vk == v * k
<1>5. uk \in Int /\ vk \in Int
  BY <1>1
<1> HIDE DEF uk, vk
<1>6. c * k = uk * s + vk * b
  BY <1>4 DEF uk, vk
<1>7. r = (x * s + y * b) - (uk * s + vk * b)
  BY <1>1, <1>2, <1>6
<1>8. (x * s + y * b) - (uk * s + vk * b) = (x - uk) * s + (y - vk) * b
  BY <1>5
<1>9. x - uk \in Int /\ y - vk \in Int
  BY <1>5
<1>10. \E i, j \in Int : r = i * s + j * b
  BY <1>7, <1>8, <1>9
<1> QED  BY <1>1, <1>10 DEF Combines

\* The first multiple of b that is one of s.
LEMMA FirstCommon ==
    ASSUME NEW s \in Nat \ {0}, NEW b \in Nat \ {0}, NEW g \in Nat \ {0},
           Divides(g, s), Divides(g, b), Combines(g, s, b)
    PROVE  /\ s \div g \in Nat \ {0}
           /\ (((s \div g) * b) % s) = 0
           /\ \A n \in Nat \ {0} : (n * b) % s = 0 => s \div g <= n
<1>1. PICK t \in Int : s = t * g
  BY DEF Divides
<1>2. PICK c \in Int : b = c * g
  BY DEF Divides
<1>3. t \in Nat \ {0} /\ c \in Nat \ {0}
  BY <1>1, <1>2
<1>4. s \div g = t
  BY <1>1, <1>3, Multiples
<1>5. (t * b) % s = 0
  <2>1. t * b = t * (c * g)
    BY <1>2
  <2>2. t * (c * g) = c * (t * g)
    BY <1>3
  <2>3. t * b = c * s
    BY <2>1, <2>2, <1>1
  <2> QED  BY <2>3, <1>3, Multiples
<1>6. ASSUME NEW n \in Nat \ {0}, (n * b) % s = 0
      PROVE  t <= n
  <2>1. PICK q \in Nat : n * b = q * s
    <3>1. n * b \in Nat
      OBVIOUS
    <3>2. n * b = ((n * b) \div s) * s /\ (n * b) \div s \in Nat
      BY <3>1, <1>6, MultipleOf, Division
    <3> QED  BY <3>2
  <2>2. PICK x \in Int, y \in Int : g = x * s + y * b
    BY DEF Combines
  <2>3. n * g = n * (x * s) + n * (y * b)
    BY <2>2
  <2>4. n * (x * s) = (n * x) * s /\ n * (y * b) = y * (n * b)
    OBVIOUS
  <2>5. y * (n * b) = (y * q) * s
    BY <2>1
  <2>6. n * g = (n * x) * s + (y * q) * s
    BY <2>3, <2>4, <2>5
  <2>7. PICK k \in Int : n * g = k * s
    <3>1. (n * x) * s + (y * q) * s = (n * x + y * q) * s /\ n * x + y * q \in Int
      OBVIOUS
    <3> QED  BY <3>1, <2>6
  <2>8. n * g = (k * t) * g
    BY <2>7, <1>1, <1>3
  <2>9. n = k * t
    BY <2>8, <1>3
  <2>10. k >= 1
    BY <2>9, <1>3
  <2> QED  BY <2>9, <2>10, <1>3
<1> QED  BY <1>3, <1>4, <1>5, <1>6

-----------------------------------------------------------------------------
(* The operators of QTanAnimation: the options, the size of a source, the clock of a picture. *)

\* qtanMotion: the scale in halves, and a beat of whole frames (parseQTanAnimationOptions).
LEMMA MotionSound ==
    ASSUME QTanAssumption, NEW bpm \in 10..1000
    PROVE  \E m \in Nat \ {0} : QTanMotion(bpm) = m * FrameInterval
<1>1. FrameInterval \in Nat \ {0}
  BY DEF QTanAssumption
<1> DEFINE d == bpm * FrameInterval
<1>2. d \in Nat \ {0}
  BY <1>1
<1> HIDE DEF d
<1>3. Round(60000, d) \in Nat
  <2> DEFINE a == 2 * 60000 + d
             b == 2 * d
  <2>1. a \in Nat /\ b \in Nat \ {0}
    BY <1>2
  <2> HIDE DEF a, b
  <2>2. a \div b \in Nat
    BY <2>1, Division
  <2> QED  BY <2>2 DEF Round, a, b
<1>4. Greatest(1, Round(60000, d)) \in Nat \ {0}
  BY <1>3 DEF Greatest
<1>5. QTanMotion(bpm) = Greatest(1, Round(60000, d)) * FrameInterval
  BY DEF QTanMotion, d
<1> QED  BY <1>4, <1>5

\* A source that is made smaller keeps both of its sides (qtanBaseSize).
LEMMA ShrunkIn ==
    ASSUME NEW m \in Nat, NEW w \in Nat \ {0}, NEW h \in Nat \ {0}, NEW s \in Nat \ {0},
           MaxPixels = m, 4 * m < s * s * w * h
    PROVE  Shrunk(w, h, s) \in 0..w
<1> DEFINE big(r) == 16 * m * w < (2 * r + 1) * (2 * r + 1) * s * s * h
           S == {r \in Nat : big(r)}
<1>1. big(w)
  <2> DEFINE c == s * s * h
  <2>1. c \in Nat \ {0}
    OBVIOUS
  <2>2. s * s * w * h = c * w
    OBVIOUS
  <2>3. (2 * w + 1) * (2 * w + 1) * s * s * h = ((2 * w + 1) * (2 * w + 1)) * c
    OBVIOUS
  <2> HIDE DEF c
  <2>4. 4 * m < c * w
    BY <2>2
  <2>5. (2 * w + 1) * (2 * w + 1) = 4 * (w * w) + (4 * w + 1)
    OBVIOUS
  <2>6. ((2 * w + 1) * (2 * w + 1)) * c = 4 * (w * w) * c + (4 * w + 1) * c
    BY <2>5, <2>1
  <2>7. (4 * w + 1) * c >= 0
    BY <2>1
  <2>8. 4 * (w * w) * c = (4 * w) * (c * w)
    BY <2>1
  <2>9. (4 * w) * (4 * m) < (4 * w) * (c * w)
    <3> DEFINE a == 4 * w
               p == 4 * m
               q == c * w
    <3>1. a \in Nat \ {0} /\ p \in Nat /\ q \in Nat /\ p < q
      BY <2>4, <2>1
    <3> HIDE DEF a, p, q
    <3>2. a * p < a * q
      BY <3>1
    <3> QED  BY <3>2 DEF a, p, q
  <2>10. 16 * m * w = (4 * w) * (4 * m)
    OBVIOUS
  <2>11. (4 * w) * (c * w) \in Int /\ (4 * w + 1) * c \in Int
    BY <2>1
  <2>12. (4 * w) * (c * w) <= ((2 * w + 1) * (2 * w + 1)) * c
    BY <2>6, <2>7, <2>8, <2>11
  <2>13. 16 * m * w < ((2 * w + 1) * (2 * w + 1)) * c
    BY <2>9, <2>10, <2>12, <2>11, <2>1
  <2> QED  BY <2>3, <2>13
<1> HIDE DEF big
<1>2. S \in SUBSET Nat /\ S # {}
  BY <1>1
<1>3. PICK r \in S : \A y \in S : r <= y
  BY <1>2, LeastNumber
<1>4. r \in 0..w
  BY <1>1, <1>3
<1>5. r > 0 => (2 * r - 1) * (2 * r - 1) * s * s * h <= 16 * m * w
  <2> SUFFICES ASSUME r > 0
               PROVE  (2 * r - 1) * (2 * r - 1) * s * s * h <= 16 * m * w
    OBVIOUS
  <2>1. r - 1 \in Nat
    BY <1>4
  <2>2. r - 1 \notin S
    BY <1>3, <2>1
  <2>3. ~big(r - 1)
    BY <2>1, <2>2
  <2>4. 2 * (r - 1) + 1 = 2 * r - 1
    BY <1>4
  <2>5. (2 * r - 1) * (2 * r - 1) * s * s * h \in Int /\ 16 * m * w \in Int
    BY <1>4
  <2> QED  BY <2>3, <2>4, <2>5 DEF big
<1>6. big(r)
  BY <1>3
<1>7. \E k \in 0..w :
        /\ k > 0 => (2 * k - 1) * (2 * k - 1) * s * s * h <= 16 * MaxPixels * w
        /\ 16 * MaxPixels * w < (2 * k + 1) * (2 * k + 1) * s * s * h
  BY <1>4, <1>5, <1>6 DEF big
<1> QED  BY <1>7 DEF Shrunk

\* The size a source begins with has two sides that are not zero.
LEMMA UntrimmedIn ==
    ASSUME QTanAssumption, NEW w \in Nat \ {0}, NEW h \in Nat \ {0}, NEW s \in Nat \ {0}
    PROVE  Untrimmed(w, h, s) \in (Nat \ {0}) \X (Nat \ {0})
<1>1. MaxPixels \in Nat
  BY DEF QTanAssumption
<1>2. CASE 4 * MaxPixels >= s * s * w * h
  BY <1>2 DEF Untrimmed
<1>3. CASE ~(4 * MaxPixels >= s * s * w * h)
  <2>1. s * s * w * h \in Nat /\ s * s * w * h = s * s * h * w
    OBVIOUS
  <2>2. 4 * MaxPixels < s * s * w * h /\ 4 * MaxPixels < s * s * h * w
    BY <1>1, <1>3, <2>1
  <2>3. Shrunk(w, h, s) \in 0..w
    BY <1>1, <2>2, ShrunkIn
  <2>4. Shrunk(h, w, s) \in 0..h
    BY <1>1, <2>2, ShrunkIn
  <2> QED  BY <1>3, <2>3, <2>4 DEF Untrimmed, Greatest
<1> QED  BY <1>2, <1>3

\* The recursion that defines Clock has a solution: the sets of frame numbers up to which
\* it has one hold 0 and successors.
LEMMA ClockExists ==
    ASSUME NEW n \in Nat, NEW d \in [1..n -> Nat]
    PROVE  \E f \in [0..n -> Nat] : f = [k \in 0..n |-> IF k = 0 THEN 0 ELSE f[k - 1] + d[k]]
<1> DEFINE Upto(m, f) == /\ f \in [0..m -> Nat] /\ f[0] = 0
                         /\ \A k \in 1..m : f[k] = f[k - 1] + d[k]
           S == {m \in Nat : m <= n => \E f \in [0..m -> Nat] : Upto(m, f)}
<1>1. 0 \in S
  <2>1. Upto(0, [k \in 0..0 |-> 0])
    OBVIOUS
  <2> QED  BY <2>1
<1>2. ASSUME NEW m \in S, m + 1 <= n
      PROVE  \E f \in [0..(m + 1) -> Nat] : Upto(m + 1, f)
  <2>0. m \in Nat /\ m <= n
    BY <1>2
  <2>1. PICK f \in [0..m -> Nat] : Upto(m, f)
    BY <2>0
  <2> DEFINE g == [k \in 0..(m + 1) |-> IF k <= m THEN f[k] ELSE f[m] + d[m + 1]]
  <2>2. f[m] \in Nat /\ d[m + 1] \in Nat
    <3>1. m \in 0..m /\ m + 1 \in 1..n
      BY <2>0, <1>2
    <3> QED  BY <3>1
  <2>3. g \in [0..(m + 1) -> Nat] /\ g[0] = 0
    BY <2>1, <2>2
  <2>4. \A k \in 1..(m + 1) : g[k] = g[k - 1] + d[k]
    <3> TAKE k \in 1..(m + 1)
    <3>1. k - 1 \in 0..(m + 1) /\ k - 1 <= m /\ k \in 0..(m + 1)
      BY <2>0
    <3>2. CASE k <= m
      <4>1. k \in 1..m
        BY <3>2
      <4>2. f[k] = f[k - 1] + d[k]
        BY <4>1, <2>1
      <4> QED  BY <3>1, <3>2, <4>2
    <3>3. CASE k = m + 1
      BY <3>1, <3>3
    <3> QED  BY <3>2, <3>3
  <2> HIDE DEF g
  <2>5. Upto(m + 1, g)
    BY <2>3, <2>4
  <2> QED  BY <2>3, <2>5
<1> HIDE DEF Upto
<1>3. S \in SUBSET Nat /\ \A m \in S : m + 1 \in S
  <2>1. S \in SUBSET Nat
    OBVIOUS
  <2>2. ASSUME NEW m \in S
        PROVE  m + 1 \in S
    <3>1. m + 1 \in Nat
      BY <2>1
    <3>2. m + 1 <= n => \E f \in [0..(m + 1) -> Nat] : Upto(m + 1, f)
      BY <1>2
    <3> QED  BY <3>1, <3>2
  <2> QED  BY <2>1, <2>2
<1> HIDE DEF S
<1>4. S = Nat
  BY <1>1, <1>3, AllNumbers
<1>5. n \in S
  BY <1>4
<1>6. PICK f \in [0..n -> Nat] : Upto(n, f)
  BY <1>5 DEF S
<1> USE DEF Upto
<1>7. f = [k \in 0..n |-> IF k = 0 THEN 0 ELSE f[k - 1] + d[k]]
  <2>1. \A k \in 0..n : f[k] = IF k = 0 THEN 0 ELSE f[k - 1] + d[k]
    BY <1>6
  <2> QED  BY <1>6, <2>1
<1> QED  BY <1>7

\* What satisfies the recursion of Clock, and of Sums, are running sums.
LEMMA RunningSums ==
    ASSUME NEW n \in Nat, NEW d \in [1..n -> Nat], NEW g,
           DOMAIN g = 0..n, g = [k \in 0..n |-> g[k]],
           \A k \in 0..n : g[k] = IF k = 0 THEN 0 ELSE g[k - 1] + d[k]
    PROVE  /\ g \in [0..n -> Nat] /\ g[0] = 0
           /\ \A k \in 1..n : g[k] = g[k - 1] + d[k]
<1> DEFINE T == {k \in Nat : k <= n => g[k] \in Nat}
<1>1. g[0] = 0
  <2>1. 0 \in 0..n
    OBVIOUS
  <2> QED  BY <2>1
<1>2. \A k \in 1..n : g[k] = g[k - 1] + d[k]
  <2> TAKE k \in 1..n
  <2>1. k \in 0..n /\ k # 0
    OBVIOUS
  <2> QED  BY <2>1
<1>3. 0 \in T
  BY <1>1
<1>4. \A k \in T : k + 1 \in T
  <2> TAKE k \in T
  <2>0. k \in Nat /\ (k <= n => g[k] \in Nat)
    OBVIOUS
  <2>1. ASSUME k + 1 <= n
        PROVE  g[k + 1] \in Nat
    <3>1. PICK j \in 1..n : j = k + 1 /\ j - 1 = k
      BY <2>0, <2>1
    <3>2. g[j] = g[j - 1] + d[j] /\ d[j] \in Nat
      BY <1>2
    <3> QED  BY <2>0, <2>1, <3>1, <3>2
  <2> QED  BY <2>0, <2>1
<1> HIDE DEF T
<1>5. T = Nat
  <2>1. T \in SUBSET Nat
    BY DEF T
  <2> QED  BY <1>3, <1>4, <2>1, AllNumbers
<1>6. \A k \in 0..n : g[k] \in Nat
  <2> TAKE k \in 0..n
  <2>1. k \in T /\ k <= n
    BY <1>5
  <2> QED  BY <2>1 DEF T
<1>7. g \in [0..n -> Nat]
  BY <1>6
<1> QED  BY <1>1, <1>2, <1>7

\* Clock counts the delays of the frames, each at least a millisecond (qtanDelayMs).
LEMMA ClockTicks ==
    ASSUME QTanAssumption, NEW p \in Pictures
    PROVE  /\ Frames(p) \in Nat
           /\ Clock(p) \in [0..Frames(p) -> Nat] /\ Clock(p)[0] = 0
           /\ \A k \in 1..Frames(p) : /\ p.delays[k] \in Nat \ {0}
                                      /\ Clock(p)[k] = Clock(p)[k - 1] + p.delays[k]
<1>1. p.delays \in Seq(Nat \ {0})
  BY DEF QTanAssumption
<1>2. Frames(p) \in Nat /\ p.delays \in [1..Frames(p) -> Nat \ {0}]
  BY <1>1 DEF Frames
<1> DEFINE Is(f) == f = [k \in 0..Frames(p) |-> IF k = 0 THEN 0 ELSE f[k - 1] + p.delays[k]]
<1>3. PICK f \in [0..Frames(p) -> Nat] : Is(f)
  BY <1>2, ClockExists
<1>4. Clock(p) = CHOOSE g : Is(g)
  BY DEF Clock
<1>5. Is(Clock(p))
  BY <1>3, <1>4
<1> DEFINE n == Frames(p)
           d == p.delays
           c == Clock(p)
<1>6. c = [k \in 0..n |-> IF k = 0 THEN 0 ELSE c[k - 1] + d[k]]
  BY <1>5
<1> HIDE DEF n, d, c
<1>7. /\ DOMAIN c = 0..n /\ c = [k \in 0..n |-> c[k]]
      /\ \A k \in 0..n : c[k] = IF k = 0 THEN 0 ELSE c[k - 1] + d[k]
  BY <1>6
<1>8. n \in Nat /\ d \in [1..n -> Nat \ {0}]
  BY <1>2 DEF n, d
<1>9. n \in Nat /\ d \in [1..n -> Nat]
  BY <1>8
<1>10. c \in [0..n -> Nat] /\ c[0] = 0 /\ \A k \in 1..n : c[k] = c[k - 1] + d[k]
  BY <1>7, <1>9, RunningSums
<1> QED  BY <1>8, <1>10 DEF n, d, c

\* A frame is on the canvas for its own time only.
LEMMA Lasts ==
    ASSUME QTanAssumption, NEW p \in Pictures, ~Still(p)
    PROVE  Total(p) \in Nat \ {0}
BY ClockTicks DEF Total, Still

\* sourceFrameIndex: what the binary search returns.
LEMMA FirstLaterIs ==
    ASSUME NEW starts \in Seq(Nat), NEW t \in Nat
    PROVE  /\ FirstLater(starts, t) \in 1..(Len(starts) + 1)
           /\ FirstLater(starts, t) <= Len(starts) => starts[FirstLater(starts, t)] > t
           /\ \A j \in 1..(FirstLater(starts, t) - 1) : starts[j] <= t
<1> DEFINE n == Len(starts)
           S == {k \in Nat : k = n + 1 \/ (k \in 1..n /\ starts[k] > t)}
<1>1. n \in Nat /\ \A k \in 1..n : starts[k] \in Nat
  OBVIOUS
<1>2. S \in SUBSET Nat /\ n + 1 \in S
  OBVIOUS
<1>3. PICK k \in S : \A y \in S : k <= y
  BY <1>2, LeastNumber
<1>4. k \in 1..(n + 1) /\ (k <= n => starts[k] > t)
  BY <1>3, <1>1
<1>5. \A j \in 1..(k - 1) : starts[j] <= t
  <2> TAKE j \in 1..(k - 1)
  <2>1. j \in 1..n /\ j \notin S
    BY <1>3, <1>4, <1>1
  <2>2. ~(starts[j] > t) /\ starts[j] \in Nat
    BY <2>1, <1>1
  <2> QED  BY <2>2
<1> DEFINE Is(i) == /\ i <= Len(starts) => starts[i] > t
                    /\ \A j \in 1..(i - 1) : starts[j] <= t
<1>6. \E i \in 1..(Len(starts) + 1) : Is(i)
  BY <1>4, <1>5
<1>7. FirstLater(starts, t) = CHOOSE i \in 1..(Len(starts) + 1) : Is(i)
  BY DEF FirstLater
<1> HIDE DEF Is
<1>8. FirstLater(starts, t) \in 1..(Len(starts) + 1) /\ Is(FirstLater(starts, t))
  BY <1>6, <1>7
<1> QED  BY <1>8 DEF Is

-----------------------------------------------------------------------------
(* The inductive invariant of an animation. *)

\* Once the options are read, the scale is one that is allowed and a beat is whole frames.
Motion ==
    stage \notin {"options", "refused"} =>
        scale2 \in 3..20 /\ \E m \in Nat \ {0} : beatMs = m * FrameInterval

\* Once measured, a source has two sides; once trimmed, it is small enough.
Sized ==
    /\ stage \in {"gcd", "trim", "composite", "draw", "done"} => base[1] # 0 /\ base[2] # 0
    /\ stage \in {"composite", "draw", "done"} => SmallEnough(base)

\* While the common divisor is sought: both numbers have the common divisors of the total
\* and the beat, and are themselves sums of multiples of these (Bezout).
Euclid ==
    stage = "gcd" =>
        /\ ~Still(picture) /\ Total(picture) <= MaxDuration
        /\ pair[1] # 0
        /\ \A d \in Nat \ {0} : Divides(d, pair[1]) /\ Divides(d, pair[2]) =>
               Divides(d, Total(picture)) /\ Divides(d, beatMs)
        /\ Combines(pair[1], Total(picture), beatMs)
        /\ Combines(pair[2], Total(picture), beatMs)

\* The frames kept are the first of the source, each at its own time.
Composited ==
    /\ Len(baseFrames) <= Frames(picture)
    /\ elapsed = Clock(picture)[Len(baseFrames)]
    /\ \A k \in 1..Len(baseFrames) : frameStarts[k] = Clock(picture)[k - 1]
    /\ stage \notin {"composite", "draw", "done"} => baseFrames = <<>>
    /\ stage = "composite" => ~Still(picture)
    /\ stage \in {"draw", "done"} => Len(baseFrames) = Frames(picture) \/ elapsed >= duration

\* Each frame shows what was seen of the picture, and so does the canvas, disposed of.
Canvas == FramesAsSeen /\ \A p \in Parts : ShownAfter(p, Len(baseFrames), canvas[p])

\* The frames drawn are no more than the duration holds and stand inside the canvas.
Drawn ==
    /\ stage \notin {"draw", "done"} => index = 0
    /\ stage \in {"draw", "done"} => index <= duration \div FrameInterval
    /\ index > 0 =>
           /\ Padding <= frame.x /\ frame.x + frame.width <= CanvasSize(base)[1] - Padding
           /\ 0 <= frame.y /\ frame.y + frame.height = CanvasSize(base)[2]

QTanInv ==
    /\ QTanTypeOK
    /\ Motion /\ Sized /\ Euclid /\ EndsOnTheBeat
    /\ Composited /\ Canvas /\ Drawn /\ KeepsItsSpeed


\* A canvas has room for the padding on both sides.
LEMMA CanvasSizeIn ==
    ASSUME QTanAssumption, QTanTypeOK, Motion, stage \notin {"options", "refused"},
           NEW b \in (Nat \ {0}) \X (Nat \ {0})
    PROVE  /\ CanvasSize(b)[1] \in Nat /\ CanvasSize(b)[1] > 2 * Padding
           /\ CanvasSize(b)[2] \in Nat \ {0}
<1>1. scale2 \in 3..20 /\ Padding \in Nat
  BY DEF Motion, QTanAssumption
<1>2. \A n \in Nat \ {0} : Ceil(n * scale2, 2) \in Nat \ {0}
  <2> TAKE n \in Nat \ {0}
  <2>1. n * scale2 \in Nat /\ n * scale2 >= 3
    <3>1. n >= 1 /\ scale2 >= 3
      BY <1>1
    <3> QED  BY <3>1, <1>1
  <2> DEFINE m == n * scale2
  <2> HIDE DEF m
  <2>2. m \in Nat /\ m >= 3
    BY <2>1 DEF m
  <2>3. (m + 2 - 1) \div 2 \in Nat \ {0}
    BY <2>2
  <2> QED  BY <2>3 DEF Ceil, m
<1>3. b[1] \in Nat \ {0} /\ b[2] \in Nat \ {0}
  OBVIOUS
<1>4. CanvasSize(b)[1] = Ceil(b[1] * scale2, 2) + 2 * Padding /\ CanvasSize(b)[2] = Ceil(b[2] * scale2, 2)
  BY DEF CanvasSize
<1>5. Ceil(b[1] * scale2, 2) \in Nat \ {0} /\ Ceil(b[2] * scale2, 2) \in Nat \ {0}
  BY <1>2, <1>3
<1> QED  BY <1>1, <1>4, <1>5

\* A source of one pixel fits: the trimming ends (the loop of qtanBaseSize).
LEMMA LeastCanvasFits ==
    ASSUME QTanAssumption, Motion, stage \notin {"options", "refused"}
    PROVE  SmallEnough(<<1, 1>>)
<1>1. scale2 \in 3..20 /\ Padding \in Nat /\ MaxPixels \in Nat
  BY DEF Motion, QTanAssumption
<1>2. (10 + 2 * Padding) * 10 <= MaxPixels
  <2>1. Ceil(20, 2) = 10
    BY DEF Ceil
  <2> QED  BY <2>1 DEF QTanAssumption
<1> DEFINE c == Ceil(1 * scale2, 2)
<1>3. c \in 0..10
  BY <1>1 DEF Ceil
<1>4. CanvasSize(<<1, 1>>)[1] = c + 2 * Padding /\ CanvasSize(<<1, 1>>)[2] = c
  BY DEF CanvasSize
<1> HIDE DEF c
<1>5. (c + 2 * Padding) * c <= (10 + 2 * Padding) * 10
  <2>1. (c + 2 * Padding) * c = c * c + 2 * (Padding * c)
    BY <1>1, <1>3
  <2>2. c * c <= 100
    BY <1>3
  <2>3. Padding * c <= Padding * 10
    BY <1>1, <1>3
  <2>4. c * c \in Nat /\ Padding * c \in Nat
    BY <1>1, <1>3
  <2>5. (10 + 2 * Padding) * 10 = 100 + 2 * (Padding * 10)
    BY <1>1
  <2> QED  BY <2>1, <2>2, <2>3, <2>4, <2>5, <1>1
<1>6. (c + 2 * Padding) * c \in Nat /\ (10 + 2 * Padding) * 10 \in Nat
  BY <1>1, <1>3
<1>7. (c + 2 * Padding) * c <= MaxPixels
  BY <1>1, <1>2, <1>5, <1>6
<1> QED  BY <1>4, <1>7 DEF SmallEnough

\* Of what a behaviour is about, a step changes little.
LEMMA Kept ==
    ASSUME [QTanNext]_qtanVars
    PROVE  /\ UNCHANGED <<picture, option>>
           /\ stage # "options" => UNCHANGED <<scale2, beatMs>>
           /\ stage \in {"trim", "composite", "draw", "done"} => UNCHANGED duration
           /\ stage \in {"composite", "draw", "done"} => UNCHANGED base
           /\ stage # "composite" => UNCHANGED <<baseFrames, frameStarts, canvas, elapsed>>
           /\ stage # "draw" => UNCHANGED <<index, frame>>
BY DEF QTanNext, qtanVars, ParseOptions, Measure, GCD, AnimatedDuration, Trim, BaseSize, Composite,
       CompositeDone, Draw, SaveGIF

LEMMA MotionStep ==
    ASSUME QTanAssumption, QTanTypeOK, Motion, [QTanNext]_qtanVars
    PROVE  Motion'
<1>1. CASE stage = "options"
  <2>1. CASE ParseOptions /\ stage' = "measure"
    <3>1. ScaleAllowed(option.scale) /\ BpmAllowed(option.bpm)
      BY <2>1 DEF ParseOptions
    <3>2. /\ scale2' = IF option.scale = NotGiven THEN 3 ELSE option.scale
          /\ beatMs' = QTanMotion(IF option.bpm = NotGiven THEN 130 ELSE option.bpm)
      BY <2>1, <3>1 DEF ParseOptions
    <3>3. scale2' \in 3..20
      BY <3>1, <3>2 DEF ScaleAllowed
    <3>4. PICK bpm \in 10..1000 : beatMs' = QTanMotion(bpm)
      <4>1. (IF option.bpm = NotGiven THEN 130 ELSE option.bpm) \in 10..1000
        BY <3>1 DEF BpmAllowed
      <4> QED  BY <3>2, <4>1
    <3>5. \E m \in Nat \ {0} : beatMs' = m * FrameInterval
      BY <3>4, MotionSound
    <3> QED  BY <3>3, <3>5 DEF Motion
  <2>2. stage' \in {"options", "refused"} \/ (ParseOptions /\ stage' = "measure")
    BY <1>1 DEF QTanNext, qtanVars, ParseOptions, Measure, GCD, AnimatedDuration, Trim, BaseSize, Composite,
                CompositeDone, Draw, SaveGIF
  <2> QED  BY <2>1, <2>2 DEF Motion
<1>2. CASE stage # "options"
  <2>1. UNCHANGED <<scale2, beatMs>>
    BY <1>2, Kept
  <2>2. stage = "refused" => stage' = "refused"
    BY DEF QTanNext, qtanVars, ParseOptions, Measure, GCD, AnimatedDuration, Trim, BaseSize, Composite,
           CompositeDone, Draw, SaveGIF
  <2> QED  BY <1>2, <2>1, <2>2 DEF Motion
<1> QED  BY <1>1, <1>2

LEMMA SizedStep ==
    ASSUME QTanAssumption, QTanTypeOK, Motion, Sized, [QTanNext]_qtanVars
    PROVE  Sized' /\ base' \in Nat \X Nat
<1> USE DEF Sized
<1>0. base \in Nat \X Nat
  BY DEF QTanTypeOK
<1>1. CASE Measure
  <2>1. CASE stage' = "refused"
    BY <1>0, <1>1, <2>1 DEF Measure
  <2>2. CASE stage' # "refused"
    <3>1. /\ base' = Untrimmed(picture.width, picture.height, scale2)
          /\ picture.width # 0 /\ picture.height # 0 /\ stage' \in {"gcd", "trim"}
      BY <1>1, <2>2 DEF Measure
    <3>2. picture.width \in Nat \ {0} /\ picture.height \in Nat \ {0}
      BY <3>1 DEF QTanTypeOK, QTanAssumption
    <3>3. scale2 \in Nat \ {0}
      BY <1>1 DEF Motion, Measure
    <3>4. base' \in (Nat \ {0}) \X (Nat \ {0})
      BY <3>1, <3>2, <3>3, UntrimmedIn
    <3> QED  BY <3>1, <3>4
  <2> QED  BY <2>1, <2>2
<1>2. CASE Trim
  <2>1. stage = "trim" /\ stage' = "trim" /\ base # <<1, 1>> /\ base[1] # 0 /\ base[2] # 0
    BY <1>2 DEF Trim
  <2>2. base = <<base[1], base[2]>> /\ base[1] \in Nat \ {0} /\ base[2] \in Nat \ {0}
    BY <1>0, <2>1
  <2>3. base' = IF base[1] >= base[2] THEN <<base[1] - 1, base[2]>> ELSE <<base[1], base[2] - 1>>
    BY <1>2 DEF Trim
  <2>4. CASE base[1] >= base[2]
    <3>1. base[1] # 1
      BY <2>1, <2>2, <2>4
    <3> QED  BY <2>1, <2>2, <2>3, <2>4, <3>1
  <2>5. CASE ~(base[1] >= base[2])
    BY <2>1, <2>2, <2>3, <2>5
  <2> QED  BY <2>4, <2>5
<1>3. CASE BaseSize
  <2>1. stage = "trim" /\ UNCHANGED base /\ (SmallEnough(base) \/ base = <<1, 1>>)
    BY <1>3 DEF BaseSize
  <2>2. SmallEnough(base)
    BY <2>1, LeastCanvasFits
  <2>3. SmallEnough(base)'
    BY <1>3, <2>1, <2>2 DEF BaseSize, SmallEnough, CanvasSize
  <2> QED  BY <1>0, <2>1, <2>3
<1>4. CASE GCD \/ AnimatedDuration
  BY <1>0, <1>4 DEF GCD, AnimatedDuration
<1>5. CASE ParseOptions
  BY <1>0, <1>5 DEF ParseOptions
<1>6. CASE Composite \/ CompositeDone \/ (\E h \in Heights : Draw(h)) \/ SaveGIF
  <2>1. /\ stage \in {"composite", "draw", "done"} /\ stage' \in {"composite", "draw", "done"}
        /\ UNCHANGED <<base, scale2>>
    BY <1>6 DEF Composite, CompositeDone, Draw, SaveGIF
  <2>2. SmallEnough(base)'
    BY <2>1 DEF SmallEnough, CanvasSize
  <2> QED  BY <1>0, <2>1, <2>2
<1>7. CASE UNCHANGED qtanVars
  BY <1>0, <1>7 DEF qtanVars, SmallEnough, CanvasSize
<1> QED  BY <1>1, <1>2, <1>3, <1>4, <1>5, <1>6, <1>7 DEF QTanNext

-----------------------------------------------------------------------------
(* The duration: the common period of the source and the beat, or the last beat that
   begins within the limit. *)

\* The numbers themselves: what divides and combines them to begin with.
LEMMA DividesNumbers ==
    ASSUME NEW d \in Nat \ {0}
    PROVE  Divides(d, d) /\ Divides(d, 0)
<1>1. d = 1 * d /\ 0 = 0 * d
  OBVIOUS
<1> QED  BY <1>1 DEF Divides

LEMMA CombinesSides ==
    ASSUME NEW s \in Nat, NEW b \in Nat
    PROVE  Combines(s, s, b) /\ Combines(b, s, b)
<1>1. s = 1 * s + 0 * b /\ b = 0 * s + 1 * b
  OBVIOUS
<1> QED  BY <1>1 DEF Combines

LEMMA EuclidStep ==
    ASSUME QTanAssumption, QTanTypeOK, Motion, Euclid, [QTanNext]_qtanVars
    PROVE  Euclid' /\ pair' \in Nat \X Nat
<1>0. pair \in Nat \X Nat /\ picture \in Pictures /\ beatMs \in Nat
  BY DEF QTanTypeOK
<1>1. CASE Measure
  <2>1. CASE stage' # "gcd"
    <3>1. UNCHANGED pair \/ (pair' = <<Total(picture), beatMs>>)
      BY <1>1 DEF Measure
    <3>2. Total(picture) \in Nat
      BY <1>0, ClockTicks DEF Total
    <3> QED  BY <1>0, <2>1, <3>1, <3>2 DEF Euclid
  <2>2. CASE stage' = "gcd"
    <3>1. /\ pair' = <<Total(picture), beatMs>> /\ ~Still(picture) /\ Total(picture) <= MaxDuration
          /\ UNCHANGED <<picture, beatMs>>
      BY <1>1, <2>2 DEF Measure
    <3>2. Total(picture) \in Nat \ {0}
      BY <1>0, <3>1, Lasts
    <3>3. Combines(Total(picture), Total(picture), beatMs) /\ Combines(beatMs, Total(picture), beatMs)
      BY <1>0, <3>2, CombinesSides
    <3>4. pair'[1] = Total(picture) /\ pair'[2] = beatMs /\ pair' \in Nat \X Nat
      BY <1>0, <3>1, <3>2
    <3>5. Still(picture)' = Still(picture) /\ Total(picture)' = Total(picture)
      BY <3>1 DEF Still, Total, Clock, Frames
    <3> QED  BY <3>1, <3>2, <3>3, <3>4, <3>5 DEF Euclid
  <2> QED  BY <2>1, <2>2
<1>2. CASE GCD
  <2>1. /\ stage = "gcd" /\ stage' = "gcd" /\ pair[2] # 0
        /\ pair' = <<pair[2], pair[1] % pair[2]>> /\ UNCHANGED <<picture, beatMs>>
    BY <1>2 DEF GCD
  <2>2. Still(picture)' = Still(picture) /\ Total(picture)' = Total(picture)
    BY <2>1 DEF Still, Total, Clock, Frames
  <2>3. PICK a \in Nat, b \in Nat \ {0} : a = pair[1] /\ b = pair[2]
    BY <1>0, <2>1
  <2>4. pair'[1] = b /\ pair'[2] = a % b /\ a % b \in Nat
    <3>1. a % b \in Nat
      BY Division
    <3>2. pair' = <<b, a % b>>
      BY <2>1, <2>3
    <3> QED  BY <3>1, <3>2
  <2>5. Total(picture) \in Nat
    BY <1>0, ClockTicks DEF Total
  <2>6. PICK s \in Nat : s = Total(picture)
    BY <2>5
  <2>7. /\ ~Still(picture) /\ s <= MaxDuration
        /\ \A d \in Nat \ {0} : Divides(d, a) /\ Divides(d, b) => Divides(d, s) /\ Divides(d, beatMs)
        /\ Combines(a, s, beatMs) /\ Combines(b, s, beatMs)
    BY <2>1, <2>3, <2>6 DEF Euclid
  <2>8. \A d \in Nat \ {0} : Divides(d, b) /\ Divides(d, a % b) => Divides(d, s) /\ Divides(d, beatMs)
    <3> SUFFICES ASSUME NEW d \in Nat \ {0}, Divides(d, b), Divides(d, a % b)
                 PROVE  Divides(d, s) /\ Divides(d, beatMs)
      OBVIOUS
    <3>1. Divides(d, a)
      BY DividesRound
    <3> QED  BY <3>1, <2>7
  <2>9. Combines(a % b, s, beatMs)
    BY <1>0, <2>7, CombinesRound
  <2>10. pair' \in Nat \X Nat
    BY <2>1, <2>3, <2>4
  <2> QED  BY <2>1, <2>2, <2>3, <2>4, <2>6, <2>7, <2>8, <2>9, <2>10 DEF Euclid
<1>3. CASE stage' # "gcd" /\ UNCHANGED pair
  BY <1>0, <1>3 DEF Euclid
<1>4. CASE UNCHANGED qtanVars
  <2>1. UNCHANGED <<stage, picture, pair, beatMs>>
    BY <1>4 DEF qtanVars
  <2>2. Still(picture)' = Still(picture) /\ Total(picture)' = Total(picture)
    BY <2>1 DEF Still, Total, Clock, Frames
  <2> QED  BY <1>0, <2>1, <2>2 DEF Euclid
<1>5. \/ Measure \/ GCD \/ UNCHANGED qtanVars
      \/ stage' # "gcd" /\ UNCHANGED pair
  BY DEF QTanNext, ParseOptions, AnimatedDuration, Trim, BaseSize, Composite, CompositeDone, Draw, SaveGIF
<1> QED  BY <1>1, <1>2, <1>3, <1>4, <1>5

\* What EndsOnTheBeat says of a duration.
Ends(d, p, beat) ==
    /\ d > 0 /\ d % beat = 0 /\ d % FrameInterval = 0
    /\ ~Still(p) =>
         /\ \A n \in 1..((d \div beat) - 1) : (n * beat) % Total(p) # 0
         /\ d < MaxDuration + beat
         /\ ((d \div beat) * beat) % Total(p) = 0 \/ MaxDuration <= d

\* EndsOnTheBeat, said of the variables by a formula whose terms can be replaced.
EndsNow == stage \in {"trim", "composite", "draw", "done"} => Ends(duration, picture, beatMs)

LEMMA EndsIs == (EndsOnTheBeat <=> EndsNow) /\ (EndsOnTheBeat' <=> EndsNow')
<1>1. EndsOnTheBeat <=> EndsNow
  BY DEF EndsOnTheBeat, EndsNow, Ends
<1>2. EndsOnTheBeat' <=> EndsNow'
  BY DEF EndsOnTheBeat, EndsNow, Ends, Still, Total, Clock, Frames
<1> QED  BY <1>1, <1>2

LEMMA EndsKept ==
    ASSUME NEW d, d = duration', UNCHANGED <<picture, beatMs>>, Ends(d, picture, beatMs)
    PROVE  Ends(duration, picture, beatMs)'
<1>1. Still(picture)' = Still(picture) /\ Total(picture)' = Total(picture)
  BY DEF Still, Total, Clock, Frames
<1>2. beatMs' = beatMs /\ duration' = d /\ Ends(d, picture, beatMs)
  OBVIOUS
<1> QED  BY <1>1, <1>2, Zenon DEF Ends

\* A beat is a number of milliseconds other than zero.
LEMMA Beats ==
    ASSUME QTanAssumption, NEW m \in Nat \ {0}, NEW n \in Nat \ {0}, NEW beat, beat = m * FrameInterval
    PROVE  /\ beat \in Nat \ {0} /\ n * beat \in Nat \ {0}
           /\ (n * beat) % beat = 0 /\ (n * beat) % FrameInterval = 0 /\ (n * beat) \div beat = n
<1>1. FrameInterval \in Nat \ {0}
  BY DEF QTanAssumption
<1>2. beat \in Nat \ {0}
  BY <1>1
<1>3. n * beat \in Nat \ {0}
  BY <1>2
<1>4. (n * beat) % beat = 0 /\ (n * beat) \div beat = n
  BY <1>2, Multiples
<1>5. n * beat = (n * m) * FrameInterval /\ n * m \in Nat
  BY <1>1
<1>6. ((n * m) * FrameInterval) % FrameInterval = 0
  BY <1>1, <1>5, Multiples
<1> QED  BY <1>2, <1>3, <1>4, <1>5, <1>6

\* The first beat that reaches the limit.
LEMMA LongestIs ==
    ASSUME QTanAssumption, NEW beat \in Nat \ {0}
    PROVE  \E n \in Nat \ {0} : /\ LongestMs(beat) = n * beat
                                /\ MaxDuration <= n * beat /\ n * beat < MaxDuration + beat
<1>1. MaxDuration \in Nat \ {0}
  BY DEF QTanAssumption
<1>2. PICK a \in Nat : a = MaxDuration + beat - 1
  BY <1>1
<1>3. PICK n \in Nat, r \in 0..(beat - 1) : n = a \div beat /\ a = beat * n + r
  <2>1. a \div beat \in Nat /\ a % beat \in 0..(beat - 1) /\ a = beat * (a \div beat) + (a % beat)
    BY Division, Zenon
  <2> QED  BY <2>1
<1>4. LongestMs(beat) = n * beat
  BY <1>2, <1>3 DEF LongestMs
<1>5. PICK k \in Nat : k = n * beat /\ k = beat * n
  OBVIOUS
<1>6. MaxDuration <= k /\ k < MaxDuration + beat
  BY <1>1, <1>2, <1>3, <1>5
<1>7. n # 0
  BY <1>5, <1>6, <1>1
<1> QED  BY <1>4, <1>5, <1>6, <1>7

\* A multiple of a beat that ends before no source does.
LEMMA NoneCommon ==
    ASSUME NEW s \in Nat \ {0}, NEW b \in Nat \ {0}, NEW n \in Nat \ {0}, (n * b) % s = 0
    PROVE  s <= n * b
<1>1. PICK k \in Nat : k = n * b /\ k # 0
  OBVIOUS
<1>2. k = (k \div s) * s /\ k \div s \in Nat
  BY <1>1, MultipleOf, Division
<1>3. k \div s >= 1
  BY <1>1, <1>2
<1>4. PICK q \in Nat : q = k \div s
  BY <1>2
<1>5. q >= 1 /\ k = q * s
  BY <1>2, <1>3, <1>4
<1>6. q * s >= s
  BY <1>5
<1> QED  BY <1>1, <1>5, <1>6

\* Without a common end within the limit, the last beat that begins within it will do.
LEMMA Longest ==
    ASSUME QTanAssumption, NEW p \in Pictures, ~Still(p),
           NEW m \in Nat \ {0}, NEW beat, beat = m * FrameInterval,
           \A n \in Nat \ {0} : (n * beat) % Total(p) = 0 => n * beat > MaxDuration
    PROVE  Ends(LongestMs(beat), p, beat)
<1>1. beat \in Nat \ {0}
  BY Beats
<1>2. PICK n \in Nat \ {0} : /\ LongestMs(beat) = n * beat
                             /\ MaxDuration <= n * beat /\ n * beat < MaxDuration + beat
  BY <1>1, LongestIs
<1>3. /\ n * beat \in Nat \ {0} /\ (n * beat) % beat = 0 /\ (n * beat) % FrameInterval = 0
      /\ (n * beat) \div beat = n
  BY Beats
<1>4. ASSUME NEW k \in 1..(n - 1)
      PROVE  (k * beat) % Total(p) # 0
  <2>1. k * beat <= n * beat - beat
    <3>1. n - 1 - k \in Nat
      OBVIOUS
    <3>2. (n - 1 - k) * beat \in Nat /\ (n - 1 - k) * beat = n * beat - beat - k * beat
      BY <1>1, <3>1
    <3> QED  BY <3>2, <1>1, <1>3
  <2>2. MaxDuration \in Nat /\ k * beat \in Nat /\ n * beat \in Nat
    BY <1>1 DEF QTanAssumption
  <2>3. k * beat < MaxDuration
    BY <1>1, <1>2, <2>1, <2>2
  <2> QED  BY <2>2, <2>3
<1> QED  BY <1>2, <1>3, <1>4 DEF Ends

\* Where the divisor is found, the product over it is the first common multiple
\* of the source and the beat (animatedDuration).
LEMMA CommonPeriod ==
    ASSUME QTanAssumption, NEW p \in Pictures, ~Still(p),
           NEW m \in Nat \ {0}, NEW beat, beat = m * FrameInterval, NEW g \in Nat \ {0},
           Divides(g, Total(p)), Divides(g, beat), Combines(g, Total(p), beat)
    PROVE  Ends(DurationMs((Total(p) \div g) * beat, beat), p, beat)
<1>1. beat \in Nat \ {0} /\ Total(p) \in Nat \ {0}
  BY Beats, Lasts
<1>2. PICK n \in Nat \ {0} : n = Total(p) \div g /\ (n * beat) % Total(p) = 0
  BY <1>1, FirstCommon
<1>3. \A k \in Nat \ {0} : (k * beat) % Total(p) = 0 => n <= k
  BY <1>1, <1>2, FirstCommon
<1>4. /\ n * beat \in Nat \ {0} /\ (n * beat) % beat = 0 /\ (n * beat) % FrameInterval = 0
      /\ (n * beat) \div beat = n
  BY Beats
<1>5. MaxDuration \in Nat
  BY DEF QTanAssumption
<1>6. CASE n * beat <= MaxDuration
  <2>1. DurationMs(n * beat, beat) = n * beat
    BY <1>6 DEF DurationMs
  <2>2. \A k \in 1..(n - 1) : (k * beat) % Total(p) # 0
    BY <1>3
  <2>3. n * beat < MaxDuration + beat
    BY <1>1, <1>4, <1>5, <1>6
  <2>4. Ends(n * beat, p, beat)
    BY <1>2, <1>4, <2>2, <2>3 DEF Ends
  <2> QED  BY <1>2, <2>1, <2>4
<1>7. CASE ~(n * beat <= MaxDuration)
  <2>1. DurationMs(n * beat, beat) = LongestMs(beat)
    BY <1>7 DEF DurationMs
  <2>2. ASSUME NEW k \in Nat \ {0}, (k * beat) % Total(p) = 0
        PROVE  k * beat > MaxDuration
    <3>1. n <= k
      BY <1>3, <2>2
    <3>2. (k - n) * beat \in Nat /\ (k - n) * beat = k * beat - n * beat
      BY <3>1, <1>1
    <3>3. k * beat \in Nat
      BY <1>1
    <3> QED  BY <3>2, <3>3, <1>4, <1>5, <1>7
  <2>3. Ends(LongestMs(beat), p, beat)
    BY <2>2, Longest
  <2> QED  BY <1>2, <2>1, <2>3
<1> QED  BY <1>6, <1>7

LEMMA BeatStep ==
    ASSUME QTanAssumption, QTanTypeOK, Motion, Euclid, EndsOnTheBeat, [QTanNext]_qtanVars
    PROVE  EndsOnTheBeat'
<1>0. picture \in Pictures
  BY DEF QTanTypeOK
<1>1. EndsNow
  BY EndsIs
<1> SUFFICES EndsNow'
  BY EndsIs
<1> USE DEF EndsNow
<1>2. CASE Measure /\ stage' = "trim"
  <2>1. PICK m \in Nat \ {0} : beatMs = m * FrameInterval
    BY <1>2 DEF Measure, Motion
  <2>2. UNCHANGED <<picture, beatMs>>
    BY <1>2 DEF Measure
  <2>3. CASE Still(picture)
    <3>1. duration' = beatMs
      BY <1>2, <2>3 DEF Measure
    <3>2. /\ beatMs \in Nat \ {0} /\ 1 * beatMs = beatMs
          /\ (1 * beatMs) % beatMs = 0 /\ (1 * beatMs) % FrameInterval = 0
      BY <2>1, Beats
    <3>3. Ends(beatMs, picture, beatMs)
      BY <2>3, <3>2 DEF Ends
    <3> QED  BY <2>2, <3>1, <3>3, EndsKept
  <2>4. CASE ~Still(picture)
    <3>1. duration' = LongestMs(beatMs) /\ ~(Total(picture) <= MaxDuration)
      BY <1>2, <2>4 DEF Measure
    <3>2. Total(picture) \in Nat \ {0} /\ beatMs \in Nat \ {0} /\ MaxDuration \in Nat
      BY <1>0, <2>1, <2>4, Lasts, Beats DEF QTanAssumption
    <3>3. ASSUME NEW n \in Nat \ {0}, (n * beatMs) % Total(picture) = 0
          PROVE  n * beatMs > MaxDuration
      <4>1. Total(picture) <= n * beatMs
        BY <3>2, <3>3, NoneCommon
      <4>2. n * beatMs \in Nat
        BY <3>2
      <4> QED  BY <3>1, <3>2, <4>1, <4>2
    <3>4. Ends(LongestMs(beatMs), picture, beatMs)
      BY <1>0, <2>1, <2>4, <3>3, Longest
    <3> QED  BY <2>2, <3>1, <3>4, EndsKept
  <2> QED  BY <2>3, <2>4
<1>3. CASE AnimatedDuration
  <2>1. PICK m \in Nat \ {0} : beatMs = m * FrameInterval
    BY <1>3 DEF AnimatedDuration, Motion
  <2>2. /\ stage = "gcd" /\ pair[2] = 0 /\ UNCHANGED <<picture, beatMs>>
        /\ duration' = DurationMs((Total(picture) \div pair[1]) * beatMs, beatMs)
    BY <1>3 DEF AnimatedDuration
  <2>3. PICK g \in Nat \ {0} : g = pair[1]
    BY <2>2 DEF Euclid, QTanTypeOK
  <2>4. ~Still(picture) /\ Combines(g, Total(picture), beatMs)
    BY <2>2, <2>3 DEF Euclid
  <2>5. Divides(g, pair[1]) /\ Divides(g, pair[2])
    BY <2>2, <2>3, DividesNumbers
  <2>6. Divides(g, Total(picture)) /\ Divides(g, beatMs)
    BY <2>2, <2>5 DEF Euclid
  <2>7. Ends(DurationMs((Total(picture) \div g) * beatMs, beatMs), picture, beatMs)
    BY <1>0, <2>1, <2>4, <2>6, CommonPeriod
  <2> QED  BY <2>2, <2>3, <2>7, EndsKept
<1>4. CASE stage \in {"trim", "composite", "draw", "done"} /\ UNCHANGED <<duration, picture, beatMs>>
  BY <1>1, <1>4, EndsKept
<1>5. CASE stage' \notin {"trim", "composite", "draw", "done"}
  BY <1>5
<1>6. \/ Measure /\ stage' = "trim"
      \/ AnimatedDuration
      \/ stage \in {"trim", "composite", "draw", "done"} /\ UNCHANGED <<duration, picture, beatMs>>
      \/ stage' \notin {"trim", "composite", "draw", "done"}
  BY DEF QTanNext, qtanVars, ParseOptions, Measure, GCD, AnimatedDuration, Trim, BaseSize, Composite,
         CompositeDone, Draw, SaveGIF
<1> QED  BY <1>2, <1>3, <1>4, <1>5, <1>6

-----------------------------------------------------------------------------
(* The frames of the source, composited with their disposals. *)

\* The types and the clock of a picture do not change in a step.
LEMMA PictureKept ==
    ASSUME UNCHANGED picture
    PROVE  /\ Still(picture)' = Still(picture) /\ Total(picture)' = Total(picture)
           /\ Clock(picture)' = Clock(picture) /\ Frames(picture)' = Frames(picture)
BY DEF Still, Total, Clock, Frames

\* Composite adds one frame, at the time the clock shows.
LEMMA CompositeAppends ==
    ASSUME QTanAssumption, QTanTypeOK, Composited, Composite
    PROVE  /\ Len(baseFrames) \in Nat /\ Len(baseFrames)' = Len(baseFrames) + 1
           /\ Len(baseFrames) + 1 \in 1..Frames(picture)
           /\ baseFrames'[Len(baseFrames) + 1] =
                  [part \in Parts |-> IF part \in picture.areas[Len(baseFrames) + 1]
                                      THEN Len(baseFrames) + 1 ELSE canvas[part]]
           /\ \A k \in 1..Len(baseFrames) : baseFrames'[k] = baseFrames[k] /\ frameStarts'[k] = frameStarts[k]
           /\ frameStarts'[Len(baseFrames) + 1] = elapsed
           /\ elapsed' = Clock(picture)[Len(baseFrames) + 1] /\ elapsed' \in Nat
           /\ baseFrames' \in Seq([Parts -> Nat]) /\ frameStarts' \in Seq(Nat)
           /\ Len(frameStarts)' = Len(frameStarts) + 1
           /\ canvas' \in [Parts -> Nat]
<1> DEFINE n == Len(baseFrames)
           drawn == [part \in Parts |-> IF part \in picture.areas[n + 1] THEN n + 1 ELSE canvas[part]]
<1>1. /\ baseFrames \in Seq([Parts -> Nat]) /\ frameStarts \in Seq(Nat) /\ Len(frameStarts) = n
      /\ picture \in Pictures /\ canvas \in [Parts -> Nat] /\ elapsed \in Nat
  BY DEF QTanTypeOK
<1>2. n \in Nat /\ n + 1 <= Frames(picture) /\ Frames(picture) \in Nat
  BY <1>1, ClockTicks DEF Composite
<1>3. drawn \in [Parts -> Nat]
  BY <1>1, <1>2
<1>4. /\ baseFrames' = Append(baseFrames, drawn) /\ frameStarts' = Append(frameStarts, elapsed)
      /\ canvas' = Dispose(canvas, drawn, n + 1) /\ elapsed' = elapsed + picture.delays[n + 1]
  BY DEF Composite
<1>5. canvas' \in [Parts -> Nat]
  BY <1>1, <1>3, <1>4 DEF Dispose
<1>6. elapsed' = Clock(picture)[n + 1] /\ elapsed' \in Nat
  <2>1. n + 1 \in 1..Frames(picture) /\ (n + 1) - 1 = n
    BY <1>2
  <2>2. /\ Clock(picture)[n + 1] = Clock(picture)[(n + 1) - 1] + picture.delays[n + 1]
        /\ picture.delays[n + 1] \in Nat
    BY <1>1, <2>1, ClockTicks
  <2>3. elapsed = Clock(picture)[n]
    BY DEF Composited
  <2> QED  BY <1>1, <1>4, <2>1, <2>2, <2>3
<1>7. /\ Len(baseFrames') = n + 1 /\ baseFrames'[n + 1] = drawn /\ baseFrames' \in Seq([Parts -> Nat])
      /\ \A k \in 1..n : baseFrames'[k] = baseFrames[k]
  <2> HIDE DEF drawn
  <2> QED  BY <1>1, <1>3, <1>4
<1>8. /\ Len(frameStarts') = n + 1 /\ frameStarts'[n + 1] = elapsed /\ frameStarts' \in Seq(Nat)
      /\ \A k \in 1..n : frameStarts'[k] = frameStarts[k]
  BY <1>1, <1>4
<1> QED  BY <1>1, <1>2, <1>5, <1>6, <1>7, <1>8

LEMMA CompositedStep ==
    ASSUME QTanAssumption, QTanTypeOK, Composited, [QTanNext]_qtanVars
    PROVE  Composited'
<1>0. picture \in Pictures /\ UNCHANGED picture
  BY Kept DEF QTanTypeOK
<1>1. /\ Still(picture)' = Still(picture)
      /\ Clock(picture)' = Clock(picture) /\ Frames(picture)' = Frames(picture)
  BY <1>0, PictureKept
<1>2. CASE Composite
  <2>1. stage = "composite" /\ stage' = "composite"
    BY <1>2 DEF Composite
  <2>2. PICK n \in Nat : n = Len(baseFrames)
    BY <1>2, CompositeAppends
  <2>3. /\ Len(baseFrames)' = n + 1 /\ n + 1 <= Frames(picture)
        /\ elapsed' = Clock(picture)[n + 1]
        /\ \A k \in 1..n : frameStarts'[k] = frameStarts[k]
        /\ frameStarts'[n + 1] = elapsed
    BY <1>2, <2>2, CompositeAppends
  <2>4. \A k \in 1..n : frameStarts[k] = Clock(picture)[k - 1]
    BY <2>2 DEF Composited
  <2>5. elapsed = Clock(picture)[(n + 1) - 1]
    BY <2>2 DEF Composited
  <2>6. \A k \in 1..(n + 1) : frameStarts'[k] = Clock(picture)[k - 1]
    <3> TAKE k \in 1..(n + 1)
    <3>1. CASE k = n + 1
      BY <2>3, <2>5, <3>1
    <3>2. CASE k \in 1..n
      BY <2>3, <2>4, <3>2
    <3> QED  BY <3>1, <3>2
  <2>7. ~Still(picture)
    BY <2>1 DEF Composited
  <2> QED  BY <1>1, <2>1, <2>3, <2>6, <2>7 DEF Composited
<1>3. CASE ~Composite
  <2>1. UNCHANGED <<baseFrames, frameStarts, elapsed>>
    BY <1>3 DEF QTanNext, qtanVars, ParseOptions, Measure, GCD, AnimatedDuration, Trim, BaseSize, Composite,
                CompositeDone, Draw, SaveGIF
  <2>2. /\ Len(baseFrames)' <= Frames(picture)'
        /\ elapsed' = Clock(picture)'[Len(baseFrames)']
        /\ \A k \in 1..Len(baseFrames)' : frameStarts'[k] = Clock(picture)'[k - 1]
    BY <1>1, <2>1 DEF Composited
  <2>3. stage' \notin {"composite", "draw", "done"} => baseFrames' = <<>>
    <3>1. stage' \notin {"composite", "draw", "done"} => stage \notin {"composite", "draw", "done"}
      BY <1>3 DEF QTanNext, qtanVars, ParseOptions, Measure, GCD, AnimatedDuration, Trim, BaseSize,
                  Composite, CompositeDone, Draw, SaveGIF
    <3> QED  BY <2>1, <3>1 DEF Composited
  <2>4. stage' = "composite" => ~Still(picture)
    <3>1. stage' = "composite" => stage = "composite" \/ BaseSize
      BY <1>3 DEF QTanNext, qtanVars, ParseOptions, Measure, GCD, AnimatedDuration, Trim,
                  Composite, CompositeDone, Draw, SaveGIF
    <3> QED  BY <3>1 DEF Composited, BaseSize
  <2>5. stage' \in {"draw", "done"} => Len(baseFrames)' = Frames(picture) \/ elapsed' >= duration'
    <3>1. CASE stage \in {"draw", "done"}
      <4>1. UNCHANGED duration
        BY <3>1, Kept
      <4> QED  BY <2>1, <3>1, <4>1 DEF Composited
    <3>2. CASE CompositeDone
      BY <2>1, <3>2 DEF CompositeDone
    <3>3. CASE BaseSize
      <4>1. baseFrames = <<>>
        BY <3>3 DEF Composited, BaseSize
      <4>2. stage' = "draw" => Frames(picture) = 0
        BY <3>3 DEF BaseSize, Still
      <4> QED  BY <2>1, <3>3, <4>1, <4>2 DEF BaseSize
    <3>4. stage' \in {"draw", "done"} => stage \in {"draw", "done"} \/ CompositeDone \/ BaseSize
      BY <1>3 DEF QTanNext, qtanVars, ParseOptions, Measure, GCD, AnimatedDuration, Trim,
                  Composite, Draw, SaveGIF
    <3> QED  BY <3>1, <3>2, <3>3, <3>4
  <2> QED  BY <1>1, <2>2, <2>3, <2>4, <2>5 DEF Composited
<1> QED  BY <1>2, <1>3

\* What a part shows after a frame follows from what it showed before.
LEMMA ShownNext ==
    ASSUME QTanAssumption, picture \in Pictures, NEW part \in Parts, NEW k \in 1..Frames(picture),
           NEW n \in Nat, ShownAfter(part, k - 1, n)
    PROVE  /\ part \notin picture.areas[k] => ShownAfter(part, k, n)
           /\ picture.disposals[k] = "previous" => ShownAfter(part, k, n)
           /\ part \in picture.areas[k] /\ picture.disposals[k] = "background" => ShownAfter(part, k, 0)
           /\ part \in picture.areas[k] /\ picture.disposals[k] = "none" => ShownAfter(part, k, k)
<1>1. Frames(picture) \in Nat /\ k \in Nat /\ k - 1 \in Nat /\ (1..k) = (1..(k - 1)) \cup {k}
  BY ClockTicks
<1>2. ASSUME part \notin picture.areas[k] \/ picture.disposals[k] = "previous"
      PROVE  ShownAfter(part, k, n)
  <2>1. Lasting(part, k) = Lasting(part, k - 1)
    BY <1>1, <1>2 DEF Lasting
  <2> QED  BY <2>1 DEF ShownAfter
<1>3. ASSUME part \in picture.areas[k], picture.disposals[k] # "previous"
      PROVE  ShownAfter(part, k, IF picture.disposals[k] = "none" THEN k ELSE 0)
  <2>1. k \in Lasting(part, k) /\ \A i \in Lasting(part, k) : i <= k
    BY <1>1, <1>3 DEF Lasting
  <2> QED  BY <2>1 DEF ShownAfter
<1> QED  BY <1>2, <1>3

LEMMA CanvasStep ==
    ASSUME QTanAssumption, QTanTypeOK, Composited, Canvas, [QTanNext]_qtanVars
    PROVE  Canvas'
<1>0. picture \in Pictures /\ UNCHANGED picture /\ canvas \in [Parts -> Nat]
  BY Kept DEF QTanTypeOK
<1>1. CASE Composite
  <2>1. PICK n \in Nat : n = Len(baseFrames)
    BY <1>1, CompositeAppends
  <2> DEFINE drawn == [part \in Parts |-> IF part \in picture.areas[n + 1] THEN n + 1 ELSE canvas[part]]
  <2>2. /\ Len(baseFrames') = n + 1 /\ n + 1 \in 1..Frames(picture) /\ (n + 1) - 1 = n
        /\ baseFrames'[n + 1] = drawn
        /\ \A k \in 1..n : baseFrames'[k] = baseFrames[k]
        /\ DOMAIN baseFrames' = 1..(n + 1)
    BY <1>1, <2>1, CompositeAppends
  <2>3. canvas' = Dispose(canvas, drawn, n + 1)
    BY <1>1, <2>1 DEF Composite
  <2>4. \A p \in Parts : ShownAfter(p, n, canvas[p]) /\ canvas[p] \in Nat
    BY <1>0, <2>1 DEF Canvas
  <2>5. \A k \in 1..n, p \in Parts : ShownIn(p, k, baseFrames[k][p])
    <3>1. DOMAIN baseFrames = 1..n
      BY <2>1 DEF QTanTypeOK
    <3> QED  BY <3>1 DEF Canvas, FramesAsSeen
  <2>6. ASSUME NEW k \in 1..(n + 1), NEW p \in Parts
        PROVE  ShownIn(p, k, baseFrames'[k][p])
    <3>1. CASE k \in 1..n
      BY <2>2, <2>5, <3>1
    <3>2. CASE k = n + 1
      <4>1. baseFrames'[k][p] = IF p \in picture.areas[k] THEN k ELSE canvas[p]
        BY <2>2, <3>2
      <4> QED  BY <2>2, <2>4, <3>2, <4>1 DEF ShownIn
    <3> QED  BY <3>1, <3>2
  <2>7. ASSUME NEW p \in Parts
        PROVE  ShownAfter(p, n + 1, canvas'[p])
    <3>1. /\ p \notin picture.areas[n + 1] => ShownAfter(p, n + 1, canvas[p])
          /\ picture.disposals[n + 1] = "previous" => ShownAfter(p, n + 1, canvas[p])
          /\ p \in picture.areas[n + 1] /\ picture.disposals[n + 1] = "background" =>
                 ShownAfter(p, n + 1, 0)
          /\ p \in picture.areas[n + 1] /\ picture.disposals[n + 1] = "none" =>
                 ShownAfter(p, n + 1, n + 1)
      BY <1>0, <2>2, <2>4, ShownNext
    <3>2. picture.disposals[n + 1] \in Disposals
      <4>1. picture.disposals \in Seq(Disposals) /\ Len(picture.disposals) = Frames(picture)
        BY <1>0 DEF QTanAssumption
      <4> QED  BY <2>2, <4>1
    <3>3. CASE picture.disposals[n + 1] = "background"
      <4>1. canvas'[p] = IF p \in picture.areas[n + 1] THEN 0 ELSE canvas[p]
        BY <2>3, <3>3 DEF Dispose
      <4> QED  BY <3>1, <3>3, <4>1
    <3>4. CASE picture.disposals[n + 1] = "previous"
      <4>1. canvas'[p] = canvas[p]
        BY <2>3, <3>4 DEF Dispose
      <4> QED  BY <3>1, <3>4, <4>1
    <3>5. CASE picture.disposals[n + 1] = "none"
      <4>1. canvas'[p] = IF p \in picture.areas[n + 1] THEN n + 1 ELSE canvas[p]
        BY <2>3, <3>5 DEF Dispose
      <4> QED  BY <3>1, <3>5, <4>1
    <3> QED  BY <3>2, <3>3, <3>4, <3>5 DEF Disposals
  <2> HIDE DEF drawn
  <2>8. \A k \in DOMAIN baseFrames' : \A p \in Parts : ShownIn(p, k, baseFrames'[k][p])
    BY <2>2, <2>6
  <2>9. \A p \in Parts : ShownAfter(p, Len(baseFrames'), canvas'[p])
    BY <2>2, <2>7
  <2> QED  BY <1>0, <2>8, <2>9 DEF Canvas, FramesAsSeen, ShownIn, ShownAfter, Lasting
<1>2. CASE UNCHANGED <<baseFrames, canvas>>
  BY <1>0, <1>2 DEF Canvas, FramesAsSeen, ShownIn, ShownAfter, Lasting
<1>3. Composite \/ UNCHANGED <<baseFrames, canvas>>
  BY DEF QTanNext, qtanVars, ParseOptions, Measure, GCD, AnimatedDuration, Trim, BaseSize, Composite,
         CompositeDone, Draw, SaveGIF
<1> QED  BY <1>1, <1>2, <1>3

-----------------------------------------------------------------------------
(* The frames drawn: sizes, places, and the source frame each one shows. *)

LEMMA DurationType ==
    ASSUME QTanAssumption, QTanTypeOK, Motion, Euclid, [QTanNext]_qtanVars
    PROVE  duration' \in Nat
<1>0. duration \in Nat /\ beatMs \in Nat /\ picture \in Pictures
  BY DEF QTanTypeOK
<1>1. ASSUME stage \notin {"options", "refused"}
      PROVE  beatMs \in Nat \ {0} /\ LongestMs(beatMs) \in Nat
  <2>1. PICK m \in Nat \ {0} : beatMs = m * FrameInterval
    BY <1>1 DEF Motion
  <2>2. beatMs \in Nat \ {0}
    BY <2>1, Beats
  <2>3. PICK n \in Nat \ {0} : LongestMs(beatMs) = n * beatMs
    BY <2>2, LongestIs
  <2> QED  BY <2>2, <2>3
<1>2. CASE Measure
  BY <1>0, <1>1, <1>2 DEF Measure
<1>3. CASE AnimatedDuration
  <2>1. stage = "gcd" /\ duration' = DurationMs((Total(picture) \div pair[1]) * beatMs, beatMs)
    BY <1>3 DEF AnimatedDuration
  <2>2. PICK g \in Nat \ {0}, s \in Nat : g = pair[1] /\ s = Total(picture)
    <3>1. pair[1] \in Nat \ {0}
      BY <2>1 DEF Euclid, QTanTypeOK
    <3>2. Total(picture) \in Nat
      BY <1>0, ClockTicks DEF Total
    <3> QED  BY <3>1, <3>2
  <2>3. PICK n \in Nat : n = s \div g
    BY Division
  <2>4. n * beatMs \in Nat
    BY <1>0
  <2> QED  BY <1>1, <2>1, <2>2, <2>3, <2>4 DEF DurationMs
<1>4. Measure \/ AnimatedDuration \/ UNCHANGED duration
  BY DEF QTanNext, qtanVars, ParseOptions, GCD, Trim, BaseSize, Composite, CompositeDone, Draw, SaveGIF
<1> QED  BY <1>0, <1>2, <1>3, <1>4

\* A frame stands on the lower edge of the canvas, with the padding on both sides.
LEMMA StandsInside ==
    ASSUME QTanAssumption, QTanTypeOK, Motion, Sized, stage = "draw", NEW height \in Nat
    PROVE  /\ HeightFor(height) \in 1..CanvasSize(base)[2]
           /\ WidthFor(HeightFor(height)) \in 1..(CanvasSize(base)[1] - 2 * Padding)
<1>1. base \in (Nat \ {0}) \X (Nat \ {0})
  BY DEF QTanTypeOK, Sized
<1>2. /\ CanvasSize(base)[1] \in Nat /\ CanvasSize(base)[1] > 2 * Padding
      /\ CanvasSize(base)[2] \in Nat \ {0} /\ Padding \in Nat
  BY <1>1, CanvasSizeIn DEF QTanAssumption
<1>3. HeightFor(height) \in 1..CanvasSize(base)[2]
  BY <1>2 DEF HeightFor, Least, Greatest
<1>4. PICK h \in Nat \ {0} : h = HeightFor(height)
  BY <1>2, <1>3
<1>5. Round(base[1] * base[2], h) \in Nat
  <2> DEFINE a == 2 * (base[1] * base[2]) + h
             b == 2 * h
  <2>1. a \in Nat /\ b \in Nat \ {0}
    <3>1. base[1] * base[2] \in Nat
      BY <1>1
    <3> QED  BY <3>1, <1>4
  <2> HIDE DEF a, b
  <2>2. a \div b \in Nat
    BY <2>1, Division
  <2> QED  BY <2>2 DEF Round, a, b
<1>6. WidthFor(h) \in 1..(CanvasSize(base)[1] - 2 * Padding)
  BY <1>2, <1>5 DEF WidthFor, Least, Greatest
<1> QED  BY <1>3, <1>4, <1>6

\* What Draw puts on the canvas lies inside it.
LEMMA DrawnType ==
    ASSUME QTanAssumption, QTanTypeOK, Motion, Sized, Composited, NEW height \in Heights, Draw(height)
    PROVE  /\ frame' \in [source : Nat, x : Nat, y : Nat, width : Nat \ {0}, height : Nat \ {0}]
           /\ Padding <= frame'.x /\ frame'.x + frame'.width <= CanvasSize(base)[1] - Padding
           /\ 0 <= frame'.y /\ frame'.y + frame'.height = CanvasSize(base)[2]
<1>1. stage = "draw" /\ height \in Nat
  BY DEF Draw, QTanAssumption
<1>2. base \in (Nat \ {0}) \X (Nat \ {0})
  BY <1>1 DEF QTanTypeOK, Sized
<1>3. PICK c \in Nat, d \in Nat \ {0} : /\ c = CanvasSize(base)[1] /\ d = CanvasSize(base)[2]
                                        /\ c > 2 * Padding
  BY <1>1, <1>2, CanvasSizeIn
<1>4. PICK h \in 1..d, w \in 1..(c - 2 * Padding) : h = HeightFor(height) /\ w = WidthFor(h)
  BY <1>1, <1>3, StandsInside
<1>5. PICK s \in Nat : s = frame'.source
  <2>1. frame'.source = IF Still(picture) THEN 0
                        ELSE SourceFrameIndex(frameStarts, (index * FrameInterval) % Total(picture))
    BY DEF Draw
  <2>2. CASE ~Still(picture)
    <3>1. frameStarts \in Seq(Nat) /\ Len(frameStarts) \in Nat /\ index \in Nat
      BY DEF QTanTypeOK
    <3>2. PICK t \in Nat : t = (index * FrameInterval) % Total(picture)
      <4>1. Total(picture) \in Nat \ {0}
        BY <2>2, Lasts DEF QTanTypeOK
      <4>2. index * FrameInterval \in Nat
        BY <3>1 DEF QTanAssumption
      <4> QED  BY <4>1, <4>2, Division
    <3>3. FirstLater(frameStarts, t) \in 1..(Len(frameStarts) + 1)
      BY <3>1, FirstLaterIs
    <3>4. SourceFrameIndex(frameStarts, t) \in Nat
      BY <3>1, <3>3 DEF SourceFrameIndex, Greatest
    <3> QED  BY <2>1, <2>2, <3>2, <3>4
  <2> QED  BY <2>1, <2>2
<1>6. frame' = [source |-> s, x |-> (c - w) \div 2, y |-> d - h, width |-> w, height |-> h]
  BY <1>3, <1>4, <1>5 DEF Draw
<1>7. Padding \in Nat
  BY DEF QTanAssumption
<1>8. (c - w) \div 2 \in Nat /\ Padding <= (c - w) \div 2 /\ (c - w) \div 2 + w <= c - Padding
  <2>1. PICK a \in Nat : a = c - w /\ 2 * Padding <= a
    BY <1>3, <1>4, <1>7
  <2>2. a \div 2 \in Nat /\ Padding <= a \div 2 /\ 2 * (a \div 2) <= a
    BY <2>1, <1>7
  <2> QED  BY <2>1, <2>2, <1>3, <1>4, <1>7
<1> QED  BY <1>3, <1>4, <1>6, <1>7, <1>8

LEMMA DrawnStep ==
    ASSUME QTanAssumption, QTanTypeOK, Motion, Sized, Euclid, Composited, Drawn, [QTanNext]_qtanVars
    PROVE  Drawn'
<1>1. CASE \E h \in Heights : Draw(h)
  <2>1. PICK h \in Heights : Draw(h)
    BY <1>1
  <2>2. /\ stage = "draw" /\ stage' = "draw" /\ index < duration \div FrameInterval /\ index' = index + 1
        /\ UNCHANGED <<base, scale2, duration>>
    BY <2>1 DEF Draw
  <2>3. /\ Padding <= frame'.x /\ frame'.x + frame'.width <= CanvasSize(base)[1] - Padding
        /\ 0 <= frame'.y /\ frame'.y + frame'.height = CanvasSize(base)[2]
    BY <2>1, DrawnType
  <2>4. CanvasSize(base)' = CanvasSize(base)
    BY <2>2 DEF CanvasSize
  <2>5. index' <= duration' \div FrameInterval
    <3>1. index \in Nat /\ duration \div FrameInterval \in Nat
      BY Division DEF QTanTypeOK, QTanAssumption
    <3> QED  BY <3>1, <2>2
  <2> QED  BY <2>2, <2>3, <2>4, <2>5 DEF Drawn
<1>2. CASE stage \in {"draw", "done"} /\ UNCHANGED <<index, frame>>
  <2>1. stage' \in {"draw", "done"} /\ UNCHANGED <<duration, base, scale2>>
    BY <1>2 DEF QTanNext, qtanVars, ParseOptions, Measure, GCD, AnimatedDuration, Trim, BaseSize, Composite,
                CompositeDone, Draw, SaveGIF
  <2>2. CanvasSize(base)' = CanvasSize(base)
    BY <2>1 DEF CanvasSize
  <2> QED  BY <1>2, <2>1, <2>2 DEF Drawn
<1>3. CASE stage \notin {"draw", "done"}
  <2>1. index = 0 /\ UNCHANGED index
    BY <1>3, Kept DEF Drawn
  <2>2. 0 <= duration' \div FrameInterval
    <3>1. duration' \in Nat
      BY <1>3, DurationType
    <3>2. PICK d \in Nat, f \in Nat \ {0} : d = duration' /\ f = FrameInterval
      BY <3>1 DEF QTanAssumption
    <3>3. d \div f \in Nat
      BY Division
    <3>4. d \div f = duration' \div FrameInterval
      BY <3>2
    <3> QED  BY <3>3, <3>4
  <2> QED  BY <2>1, <2>2 DEF Drawn
<1>4. (\E h \in Heights : Draw(h)) \/ UNCHANGED <<index, frame>>
  BY DEF QTanNext, qtanVars, ParseOptions, Measure, GCD, AnimatedDuration, Trim, BaseSize, Composite,
         CompositeDone, SaveGIF
<1> QED  BY <1>1, <1>2, <1>3, <1>4

\* The frame shown is the one whose time has come, modulo the length of the source.
LEMMA SpeedStep ==
    ASSUME QTanAssumption, QTanInv, [QTanNext]_qtanVars
    PROVE  KeepsItsSpeed'
<1>0. picture \in Pictures /\ UNCHANGED picture /\ index \in Nat /\ FrameInterval \in Nat \ {0}
  BY Kept DEF QTanInv, QTanTypeOK, QTanAssumption
<1>1. /\ Still(picture)' = Still(picture) /\ Total(picture)' = Total(picture)
      /\ Clock(picture)' = Clock(picture)
  BY <1>0, PictureKept
<1>2. CASE (\E h \in Heights : Draw(h)) /\ ~Still(picture)
  <2>1. PICK h \in Heights : Draw(h)
    BY <1>2
  <2>2. /\ stage = "draw" /\ index < duration \div FrameInterval /\ index' = index + 1
        /\ UNCHANGED <<baseFrames, frameStarts, elapsed, duration>>
    BY <2>1 DEF Draw
  <2>3. Total(picture) \in Nat \ {0} /\ duration \in Nat
    BY <1>0, <1>2, Lasts DEF QTanInv, QTanTypeOK
  <2>4. PICK n \in Nat : n = Len(baseFrames) /\ n = Len(frameStarts) /\ n <= Frames(picture)
    BY DEF QTanInv, QTanTypeOK, Composited
  <2> DEFINE t == (index * FrameInterval) % Total(picture)
  <2>5. t \in Nat /\ t < Total(picture) /\ t <= index * FrameInterval
    <3>1. index * FrameInterval \in Nat
      BY <1>0
    <3>2. PICK a \in Nat : a = index * FrameInterval
      BY <3>1
    <3>3. a % Total(picture) \in 0..(Total(picture) - 1) /\ a % Total(picture) <= a
      BY <2>3
    <3> QED  BY <3>2, <3>3, <2>3
  <2> HIDE DEF t
  <2>6. index * FrameInterval < duration
    <3>1. PICK q \in Nat, r \in 0..(FrameInterval - 1) :
              q = duration \div FrameInterval /\ duration = FrameInterval * q + r
      <4>1. /\ duration \div FrameInterval \in Nat /\ duration % FrameInterval \in 0..(FrameInterval - 1)
            /\ duration = FrameInterval * (duration \div FrameInterval) + (duration % FrameInterval)
        BY <1>0, <2>3, Division, Zenon
      <4> QED  BY <4>1
    <3>2. index + 1 <= q
      BY <1>0, <2>2, <3>1
    <3>3. (q - index - 1) * FrameInterval \in Nat
      BY <1>0, <3>2
    <3>4. (q - index - 1) * FrameInterval = FrameInterval * q - index * FrameInterval - FrameInterval
      BY <1>0
    <3>5. FrameInterval * q \in Nat /\ index * FrameInterval \in Nat
      BY <1>0
    <3> QED  BY <1>0, <3>1, <3>3, <3>4, <3>5
  <2>7. t < Clock(picture)[n]
    <3>1. elapsed = Clock(picture)[n] /\ elapsed \in Nat /\ (n = Frames(picture) \/ elapsed >= duration)
      BY <2>2, <2>4 DEF QTanInv, QTanTypeOK, Composited
    <3>2. CASE n = Frames(picture)
      BY <2>5, <3>1, <3>2 DEF Total
    <3>3. CASE elapsed >= duration
      <4>1. index * FrameInterval \in Nat
        BY <1>0
      <4> QED  BY <2>3, <2>5, <2>6, <3>1, <3>3, <4>1
    <3> QED  BY <3>1, <3>2, <3>3
  <2>8. /\ Frames(picture) \in Nat /\ Clock(picture)[0] = 0
        /\ \A k \in 0..Frames(picture) : Clock(picture)[k] \in Nat
    BY <1>0, ClockTicks
  <2>9. n # 0
    BY <2>5, <2>7, <2>8
  <2>10. \A k \in 1..n : frameStarts[k] = Clock(picture)[k - 1]
    BY <2>4 DEF QTanInv, Composited
  <2>11. PICK f \in 1..(n + 1) : /\ f = FirstLater(frameStarts, t)
                                 /\ f <= n => frameStarts[f] > t
                                 /\ \A j \in 1..(f - 1) : frameStarts[j] <= t
    <3>1. frameStarts \in Seq(Nat)
      BY DEF QTanInv, QTanTypeOK
    <3> QED  BY <2>4, <2>5, <3>1, FirstLaterIs
  <2>12. f # 1
    <3>1. frameStarts[1] = 0
      BY <2>8, <2>9, <2>10
    <3> QED  BY <2>5, <2>9, <2>11, <3>1
  <2>13. PICK s \in 1..n : s = f - 1 /\ s = frame'.source
    <3>1. frame'.source = SourceFrameIndex(frameStarts, t)
      BY <1>2, <2>1 DEF Draw, t
    <3> QED  BY <2>4, <2>11, <2>12, <3>1 DEF SourceFrameIndex, Greatest
  <2>14. Clock(picture)[s - 1] <= t
    BY <2>10, <2>11, <2>13
  <2>15. t < Clock(picture)[s]
    <3>1. CASE s = n
      BY <2>7, <3>1
    <3>2. CASE s < n
      <4>1. f \in 1..n /\ f - 1 = s
        BY <2>13, <3>2
      <4>2. frameStarts[f] = Clock(picture)[s]
        BY <2>10, <4>1
      <4>3. Clock(picture)[s] \in Nat
        BY <2>4, <2>8, <2>13
      <4> QED  BY <2>5, <2>11, <4>1, <4>2, <4>3
    <3> QED  BY <2>4, <2>13, <3>1, <3>2
  <2>16. t = ((index' - 1) * FrameInterval) % Total(picture)
    <3>1. index' - 1 = index
      BY <1>0, <2>2
    <3> QED  BY <3>1 DEF t
  <2>17. frame'.source \in DOMAIN baseFrames'
    <3>1. DOMAIN baseFrames = 1..n
      BY <2>4 DEF QTanInv, QTanTypeOK
    <3>2. DOMAIN baseFrames' = 1..n
      BY <2>2, <3>1
    <3> QED  BY <2>13, <3>2
  <2> QED  BY <1>1, <2>13, <2>14, <2>15, <2>16, <2>17 DEF KeepsItsSpeed
<1>3. CASE Still(picture)
  BY <1>1, <1>3 DEF KeepsItsSpeed
<1>4. CASE UNCHANGED <<index, frame>>
  <2>1. index = 0 \/ UNCHANGED baseFrames
    BY Kept DEF QTanInv, Drawn
  <2>2. KeepsItsSpeed
    BY DEF QTanInv
  <2>3. CASE index = 0
    BY <1>4, <2>3 DEF KeepsItsSpeed
  <2>4. CASE UNCHANGED baseFrames
    BY <1>1, <1>4, <2>2, <2>4 DEF KeepsItsSpeed
  <2> QED  BY <2>1, <2>3, <2>4
<1>5. (\E h \in Heights : Draw(h)) \/ UNCHANGED <<index, frame>>
  BY DEF QTanNext, qtanVars, ParseOptions, Measure, GCD, AnimatedDuration, Trim, BaseSize, Composite,
         CompositeDone, SaveGIF
<1> QED  BY <1>2, <1>3, <1>4, <1>5

LEMMA QTanTypeStep == ASSUME QTanAssumption, QTanInv, [QTanNext]_qtanVars PROVE QTanTypeOK'
<1>0. QTanTypeOK /\ Motion /\ Sized /\ Euclid /\ Composited
  BY DEF QTanInv
<1>1. picture' \in Pictures /\ option' \in Options
  BY <1>0, Kept DEF QTanTypeOK
<1>2. stage' \in {"options", "measure", "gcd", "trim", "composite", "draw", "done", "refused"}
  BY <1>0 DEF QTanTypeOK, QTanNext, qtanVars, ParseOptions, Measure, GCD, AnimatedDuration, Trim, BaseSize,
              Composite, CompositeDone, Draw, SaveGIF
<1>3. scale2' \in Nat /\ beatMs' \in Nat
  <2>1. CASE UNCHANGED <<scale2, beatMs>>
    BY <1>0, <2>1 DEF QTanTypeOK
  <2>2. CASE stage' \notin {"options", "refused"}
    <3>1. Motion'
      BY <1>0, MotionStep
    <3>2. scale2' \in 3..20
      BY <2>2, <3>1 DEF Motion
    <3>3. PICK m \in Nat \ {0} : beatMs' = m * FrameInterval
      BY <2>2, <3>1 DEF Motion
    <3>4. beatMs' \in Nat
      BY <3>3 DEF QTanAssumption
    <3> QED  BY <3>2, <3>4
  <2>3. UNCHANGED <<scale2, beatMs>> \/ stage' \notin {"options", "refused"}
    BY DEF QTanNext, qtanVars, ParseOptions, Measure, GCD, AnimatedDuration, Trim, BaseSize, Composite,
           CompositeDone, Draw, SaveGIF
  <2> QED  BY <2>1, <2>2, <2>3
<1>4. base' \in Nat \X Nat /\ pair' \in Nat \X Nat /\ duration' \in Nat
  BY <1>0, SizedStep, EuclidStep, DurationType
<1>5. /\ canvas' \in [Parts -> Nat] /\ elapsed' \in Nat
      /\ baseFrames' \in Seq([Parts -> Nat])
      /\ frameStarts' \in Seq(Nat) /\ Len(frameStarts') = Len(baseFrames')
  <2>1. CASE Composite
    <3>1. Len(frameStarts) = Len(baseFrames)
      BY <1>0 DEF QTanTypeOK
    <3> QED  BY <1>0, <2>1, <3>1, CompositeAppends
  <2>2. CASE UNCHANGED <<canvas, elapsed, baseFrames, frameStarts>>
    BY <1>0, <2>2 DEF QTanTypeOK
  <2>3. Composite \/ UNCHANGED <<canvas, elapsed, baseFrames, frameStarts>>
    BY DEF QTanNext, qtanVars, ParseOptions, Measure, GCD, AnimatedDuration, Trim, BaseSize, Composite,
           CompositeDone, Draw, SaveGIF
  <2> QED  BY <2>1, <2>2, <2>3
<1>6. /\ index' \in Nat
      /\ frame' \in [source : Nat, x : Nat, y : Nat, width : Nat \ {0}, height : Nat \ {0}]
  <2>1. ASSUME NEW h \in Heights, Draw(h)
        PROVE  /\ index' \in Nat
               /\ frame' \in [source : Nat, x : Nat, y : Nat, width : Nat \ {0}, height : Nat \ {0}]
    <3>1. index' = index + 1 /\ index \in Nat
      BY <1>0, <2>1 DEF Draw, QTanTypeOK
    <3> QED  BY <1>0, <2>1, <3>1, DrawnType
  <2>2. (\E h \in Heights : Draw(h)) \/ UNCHANGED <<index, frame>>
    BY DEF QTanNext, qtanVars, ParseOptions, Measure, GCD, AnimatedDuration, Trim, BaseSize, Composite,
           CompositeDone, SaveGIF
  <2> QED  BY <1>0, <2>1, <2>2 DEF QTanTypeOK
<1> QED  BY <1>1, <1>2, <1>3, <1>4, <1>5, <1>6 DEF QTanTypeOK

LEMMA QTanStarts == ASSUME QTanAssumption, QTanInit PROVE QTanInv
<1>1. picture \in Pictures /\ stage = "options" /\ index = 0 /\ elapsed = 0 /\ baseFrames = <<>>
  BY DEF QTanInit
<1>2. Frames(picture) \in Nat /\ Clock(picture)[0] = 0
  BY <1>1, ClockTicks
<1>3. Composited
  BY <1>1, <1>2 DEF Composited
<1>4. Canvas
  <2>1. \A p \in Parts : Lasting(p, 0) = {}
    BY DEF Lasting
  <2> QED  BY <1>1, <2>1 DEF Canvas, FramesAsSeen, ShownAfter, QTanInit, Blank
<1>5. QTanTypeOK
  BY DEF QTanTypeOK, QTanInit, Blank, NoFrame
<1>6. Motion /\ Sized /\ Euclid /\ EndsOnTheBeat /\ KeepsItsSpeed /\ Drawn
  BY <1>1 DEF Motion, Sized, Euclid, EndsOnTheBeat, KeepsItsSpeed, Drawn
<1> QED  BY <1>3, <1>4, <1>5, <1>6 DEF QTanInv

LEMMA QTanSteps == ASSUME QTanAssumption, QTanInv, [QTanNext]_qtanVars PROVE QTanInv'
<1>1. QTanTypeOK /\ Motion /\ Sized /\ Euclid /\ EndsOnTheBeat /\ Composited /\ Canvas /\ Drawn
  BY DEF QTanInv
<1>2. QTanTypeOK' /\ KeepsItsSpeed'
  BY QTanTypeStep, SpeedStep
<1>3. Motion' /\ Sized' /\ Euclid' /\ EndsOnTheBeat'
  BY <1>1, MotionStep, SizedStep, EuclidStep, BeatStep
<1>4. Composited' /\ Canvas' /\ Drawn'
  BY <1>1, CompositedStep, CanvasStep, DrawnStep
<1> QED  BY <1>2, <1>3, <1>4 DEF QTanInv

\* A picture keeps inside its canvas at every step of the drawing.
LEMMA QTanHolds == ASSUME QTanAssumption, QTanInv PROVE AnimationSound
<1>1. InsideTheCanvas
  <2> SUFFICES ASSUME stage = "draw"
               PROVE  LET c == CanvasSize(base) IN
                      /\ base[1] > 0 /\ base[2] > 0 /\ c[1] * c[2] <= MaxPixels
                      /\ index > 0 => /\ Padding <= frame.x /\ frame.x + frame.width <= c[1] - Padding
                                      /\ 0 <= frame.y /\ frame.y + frame.height = c[2]
    BY DEF InsideTheCanvas
  <2>1. base \in Nat \X Nat /\ base[1] # 0 /\ base[2] # 0 /\ SmallEnough(base)
    BY DEF QTanInv, QTanTypeOK, Sized
  <2> QED  BY <2>1 DEF QTanInv, Drawn, SmallEnough
<1> QED  BY <1>1 DEF QTanInv, Canvas, AnimationSound

\* For every picture and every option: the inductive invariant of an animation, from the
\* reading of its options to the last frame drawn (handleQTanAnimation).
THEOREM QTanInvariance == ASSUME QTanAssumption PROVE QTanSpec => []QTanInv
<1>1. QTanInit => QTanInv
  BY QTanStarts
<1>2. QTanInv /\ [QTanNext]_qtanVars => QTanInv'
  BY QTanSteps
<1> QED  BY <1>1, <1>2, PTL DEF QTanSpec

\* The variables of an animation keep their types: no side, duration or place of a frame
\* is ever negative.
THEOREM QTanTypeCorrect == ASSUME QTanAssumption PROVE QTanSpec => []QTanTypeOK
<1>1. QTanInv => QTanTypeOK
  BY DEF QTanInv
<1> QED  BY <1>1, QTanInvariance, PTL

\* For every picture and every option: each composited frame is what a viewer of the
\* source sees, the frames drawn keep the speed of the source, the duration is the
\* first common multiple of the source and the beat within the limit (or the first
\* multiple of the beat that reaches the limit), and every frame stands inside a
\* canvas that is not too large.  (composeQTanGIFBaseFrames, qtanAnimatedDurationMs,
\* qtanBaseSize, buildQTanAnimation.)
THEOREM AnimationSoundAlways == ASSUME QTanAssumption PROVE QTanSpec => []AnimationSound
<1>1. QTanInv => AnimationSound
  BY QTanHolds
<1> QED  BY <1>1, QTanInvariance, PTL

-----------------------------------------------------------------------------
(* The palette: sums, ranks and least members. *)

\* Sums adds up from the front.
LEMMA SumsAre ==
    ASSUME NEW values \in Seq(Nat)
    PROVE  /\ Sums(values) \in [0..Len(values) -> Nat] /\ Sums(values)[0] = 0
           /\ \A k \in 1..Len(values) : Sums(values)[k] = Sums(values)[k - 1] + values[k]
           /\ SumOf(values) \in Nat
<1> DEFINE n == Len(values)
           Is(f) == f = [k \in 0..n |-> IF k = 0 THEN 0 ELSE f[k - 1] + values[k]]
<1>1. n \in Nat /\ values \in [1..n -> Nat]
  OBVIOUS
<1>2. PICK f \in [0..n -> Nat] : Is(f)
  BY <1>1, ClockExists
<1>3. Sums(values) = CHOOSE g : Is(g)
  BY DEF Sums
<1>4. Is(Sums(values))
  BY <1>2, <1>3
<1>5. /\ Sums(values) \in [0..n -> Nat] /\ Sums(values)[0] = 0
      /\ \A k \in 1..n : Sums(values)[k] = Sums(values)[k - 1] + values[k]
  <2> DEFINE g == Sums(values)
  <2>1. g = [k \in 0..n |-> IF k = 0 THEN 0 ELSE g[k - 1] + values[k]]
    BY <1>4
  <2> HIDE DEF g, n
  <2>3. DOMAIN g = 0..n /\ g = [k \in 0..n |-> g[k]]
    BY <2>1
  <2>4. \A k \in 0..n : g[k] = IF k = 0 THEN 0 ELSE g[k - 1] + values[k]
    BY <2>1
  <2>2. /\ g \in [0..n -> Nat] /\ g[0] = 0
        /\ \A k \in 1..n : g[k] = g[k - 1] + values[k]
    BY <1>1, <2>3, <2>4, RunningSums
  <2> QED  BY <2>2 DEF g
<1>6. n \in 0..n
  BY <1>1
<1> QED  BY <1>1, <1>5, <1>6 DEF SumOf

\* The sum of a sequence of values each at most 255 times a positive weight.
LEMMA SumsBounded ==
    ASSUME NEW n \in Nat, NEW values \in Seq(Nat), NEW weights \in Seq(Nat \ {0}),
           Len(values) = n, Len(weights) = n,
           \A k \in 1..n : values[k] <= 255 * weights[k]
    PROVE  SumOf(values) <= 255 * SumOf(weights) /\ SumOf(weights) >= n
<1> DEFINE a == Sums(values)
           b == Sums(weights)
           T == {k \in Nat : k <= n => a[k] <= 255 * b[k] /\ b[k] >= k}
<1>0. weights \in Seq(Nat)
  OBVIOUS
<1>1. /\ a \in [0..n -> Nat] /\ a[0] = 0
      /\ \A k \in 1..n : a[k] = a[k - 1] + values[k]
  BY SumsAre
<1>2. /\ b \in [0..n -> Nat] /\ b[0] = 0
      /\ \A k \in 1..n : b[k] = b[k - 1] + weights[k]
  BY <1>0, SumsAre
<1> HIDE DEF a, b
<1>3. 0 \in T
  BY <1>1, <1>2
<1>4. \A k \in T : k + 1 \in T
  <2> SUFFICES ASSUME NEW k \in T, k + 1 <= n
               PROVE  a[k + 1] <= 255 * b[k + 1] /\ b[k + 1] >= k + 1
    OBVIOUS
  <2>0. k \in Nat
    OBVIOUS
  <2>1. PICK j \in 1..n : j = k + 1 /\ j - 1 = k
    BY <2>0
  <2>2. a[j] = a[k] + values[j] /\ b[j] = b[k] + weights[j]
    BY <2>1, <1>1, <1>2
  <2>3. a[k] <= 255 * b[k] /\ b[k] >= k /\ a[k] \in Nat /\ b[k] \in Nat
    BY <1>1, <1>2, <2>1
  <2>4. values[j] \in Nat /\ weights[j] \in Nat \ {0} /\ values[j] <= 255 * weights[j]
    OBVIOUS
  <2> HIDE DEF T
  <2>5. a[k] + values[j] <= 255 * (b[k] + weights[j]) /\ b[k] + weights[j] >= k + 1
    <3> DEFINE x == a[k]
               y == b[k]
               v == values[j]
               w == weights[j]
    <3>1. x \in Nat /\ y \in Nat /\ v \in Nat /\ w \in Nat /\ w >= 1 /\ x <= 255 * y /\ y >= k /\ v <= 255 * w
      BY <2>3, <2>4
    <3> HIDE DEF x, y, v, w
    <3>2. x + v <= 255 * (y + w) /\ y + w >= k + 1
      BY <2>0, <3>1
    <3> QED  BY <3>2 DEF x, y, v, w
  <2> QED  BY <2>1, <2>2, <2>5
<1> HIDE DEF T
<1>5. T = Nat
  <2>1. T \in SUBSET Nat
    BY DEF T
  <2> QED  BY <1>3, <1>4, <2>1, AllNumbers
<1>7. n \in T
  BY <1>5
<1>6. a[n] <= 255 * b[n] /\ b[n] >= n
  BY <1>7 DEF T
<1> QED  BY <1>6 DEF a, b, SumOf

\* A finite set has its members in ascending order of any rank they do not share.
LEMMA OrderExists ==
    ASSUME NEW U, NEW rank \in [U -> Nat], NEW S \in SUBSET U, IsFiniteSet(S),
           \A x, y \in U : rank[x] = rank[y] => x = y
    PROVE  \E s \in [1..Cardinality(S) -> S] :
               \A i, j \in DOMAIN s : i < j => rank[s[i]] < rank[s[j]]
<1> DEFINE Sorts(s, R, n) == \A i, j \in 1..n : i < j => rank[s[i]] < rank[s[j]]
           T == {n \in Nat : \A R \in SUBSET U : IsFiniteSet(R) /\ Cardinality(R) = n =>
                                 \E s \in [1..n -> R] : Sorts(s, R, n)}
<1>1. 0 \in T
  <2> SUFFICES ASSUME NEW R \in SUBSET U, IsFiniteSet(R), Cardinality(R) = 0
               PROVE  \E s \in [1..0 -> R] : Sorts(s, R, 0)
    OBVIOUS
  <2>1. [i \in 1..0 |-> i] \in [1..0 -> R] /\ Sorts([i \in 1..0 |-> i], R, 0)
    OBVIOUS
  <2> QED  BY <2>1
<1>2. ASSUME NEW n \in T, NEW R \in SUBSET U, IsFiniteSet(R), Cardinality(R) = n + 1
      PROVE  \E s \in [1..(n + 1) -> R] : Sorts(s, R, n + 1)
  <2>0. n \in Nat
    OBVIOUS
  <2>1. R # {}
    BY <1>2, <2>0, FS_EmptySet
  <2>2. PICK m \in R : \A x \in R : rank[m] <= rank[x]
    <3> DEFINE N == {rank[x] : x \in R}
    <3>1. N \in SUBSET Nat /\ N # {}
      BY <2>1
    <3>2. PICK v \in N : \A w \in N : v <= w
      BY <3>1, LeastNumber
    <3> QED  BY <3>2
  <2> DEFINE Q == R \ {m}
  <2>3. IsFiniteSet(Q) /\ Cardinality(Q) = n /\ Q \in SUBSET U
    <3>1. IsFiniteSet(R \ {m}) /\ Cardinality(R \ {m}) = Cardinality(R) - 1
      BY <1>2, <2>2, FS_RemoveElement
    <3> QED  BY <3>1, <1>2, <2>0
  <2>4. PICK q \in [1..n -> Q] : Sorts(q, Q, n)
    BY <2>3, <1>2
  <2> DEFINE s == [k \in 1..(n + 1) |-> IF k = 1 THEN m ELSE q[k - 1]]
  <2>5. \A k \in 2..(n + 1) : k - 1 \in 1..n /\ q[k - 1] \in Q /\ s[k] = q[k - 1]
    BY <2>0, <2>4
  <2>6. s[1] = m /\ s \in [1..(n + 1) -> R]
    <3>1. \A k \in 1..(n + 1) : k = 1 \/ k \in 2..(n + 1)
      BY <2>0
    <3> QED  BY <3>1, <2>5, <2>0
  <2> HIDE DEF s
  <2>7. Sorts(s, R, n + 1)
    <3> SUFFICES ASSUME NEW i \in 1..(n + 1), NEW j \in 1..(n + 1), i < j
                 PROVE  rank[s[i]] < rank[s[j]]
      OBVIOUS
    <3>1. j \in 2..(n + 1)
      BY <2>0
    <3>2. CASE i = 1
      <4>1. s[j] \in R /\ s[j] # m
        BY <3>1, <2>5
      <4>2. rank[m] <= rank[s[j]] /\ rank[m] # rank[s[j]] /\ rank[m] \in Nat /\ rank[s[j]] \in Nat
        BY <4>1, <2>2
      <4> QED  BY <4>2, <3>2, <2>6
    <3>3. CASE i # 1
      <4>1. i \in 2..(n + 1) /\ i - 1 \in 1..n /\ j - 1 \in 1..n /\ i - 1 < j - 1
        BY <3>3, <3>1, <2>0
      <4>2. rank[q[i - 1]] < rank[q[j - 1]]
        BY <4>1, <2>4
      <4> QED  BY <4>1, <4>2, <3>1, <2>5
    <3> QED  BY <3>2, <3>3
  <2> QED  BY <2>6, <2>7
<1> HIDE DEF Sorts
<1>3. \A n \in T : n + 1 \in T
  BY <1>2
<1> HIDE DEF T
<1>4. T = Nat
  <2>1. T \in SUBSET Nat
    BY DEF T
  <2> QED  BY <1>1, <1>3, <2>1, AllNumbers
<1>5. Cardinality(S) \in Nat
  BY FS_CardinalityType
<1>6. \E s \in [1..Cardinality(S) -> S] : Sorts(s, S, Cardinality(S))
  BY <1>4, <1>5 DEF T
<1> QED  BY <1>6 DEF Sorts

\* Ascending: the order it gives has every member once.
LEMMA AscendingIs ==
    ASSUME NEW S, IsFiniteSet(S), NEW rank \in [S -> Nat],
           \A x, y \in S : rank[x] = rank[y] => x = y
    PROVE  /\ Cardinality(S) \in Nat
           /\ Ascending(S, rank) \in [1..Cardinality(S) -> S]
           /\ \A i, j \in 1..Cardinality(S) : Ascending(S, rank)[i] = Ascending(S, rank)[j] => i = j
           /\ \A x \in S : \E i \in 1..Cardinality(S) : Ascending(S, rank)[i] = x
<1> DEFINE n == Cardinality(S)
           s == Ascending(S, rank)
           Is(f) == \A i, j \in DOMAIN f : i < j => rank[f[i]] < rank[f[j]]
<1>1. n \in Nat
  BY FS_CardinalityType
<1>2. \E f \in [1..n -> S] : Is(f)
  BY OrderExists
<1>3. s = CHOOSE f \in [1..n -> S] : Is(f)
  BY DEF Ascending
<1> HIDE DEF Is
<1>4. s \in [1..n -> S] /\ Is(s)
  BY <1>2, <1>3
<1> HIDE DEF s, n
<1>5. \A i, j \in 1..n : s[i] = s[j] => i = j
  <2> SUFFICES ASSUME NEW i \in 1..n, NEW j \in 1..n, s[i] = s[j], i # j
               PROVE  FALSE
    OBVIOUS
  <2>1. i < j \/ j < i
    BY <1>1
  <2>2. rank[s[i]] < rank[s[j]] \/ rank[s[j]] < rank[s[i]]
    BY <2>1, <1>4 DEF Is
  <2>3. rank[s[i]] \in Nat
    BY <1>4
  <2> QED  BY <2>2, <2>3
<1>6. s \in Injection(1..n, S)
  BY <1>4, <1>5 DEF Injection, IsInjective
<1>7. Cardinality(1..n) = n
  BY <1>1, FS_Interval
<1>8. s \in Surjection(1..n, S)
  BY <1>6, <1>7, FS_Injection DEF n
<1>9. \A x \in S : \E i \in 1..n : s[i] = x
  BY <1>8 DEF Surjection
<1> QED  BY <1>1, <1>4, <1>5, <1>9 DEF s, n

-----------------------------------------------------------------------------
(* Colours, boxes and where they are split. *)

\* The least and the greatest of a set of numbers.
LEMMA MinIs ==
    ASSUME NEW S \in SUBSET Nat, S # {}
    PROVE  Min(S) \in S /\ \A y \in S : Min(S) <= y
<1>1. \E x \in S : \A y \in S : x <= y
  BY LeastNumber
<1> QED  BY <1>1 DEF Min

LEMMA MaxIs ==
    ASSUME NEW S \in SUBSET Byte, S # {}
    PROVE  Max(S) \in S /\ \A y \in S : Max(S) >= y
<1> DEFINE R == {255 - y : y \in S}
<1>0. \A y \in S : y \in 0..255 /\ 255 - y \in Nat
  BY DEF Byte
<1>1. R \in SUBSET Nat /\ R # {}
  BY <1>0
<1>2. PICK r \in R : \A y \in R : r <= y
  BY <1>1, LeastNumber
<1>3. \E x \in S : \A y \in S : x >= y
  <2>1. PICK x \in S : r = 255 - x
    BY <1>2
  <2>2. \A y \in S : x >= y
    <3> TAKE y \in S
    <3>1. r <= 255 - y
      BY <1>2
    <3>2. x \in 0..255 /\ y \in 0..255
      BY <1>0, <2>1
    <3> QED  BY <2>1, <3>1, <3>2
  <2> QED  BY <2>2
<1> QED  BY <1>3 DEF Max

\* A colour is known by its key (qtanColorKey).
LEMMA KeyIn ==
    ASSUME PaletteAssumption, NEW c \in Colours
    PROVE  /\ c[1] \in Byte /\ c[2] \in Byte /\ c[3] \in Byte /\ c = <<c[1], c[2], c[3]>>
           /\ Key(c) \in Nat /\ Key(c) < 256 * 256 * 256
<1>1. c \in Byte \X Byte \X Byte
  BY DEF PaletteAssumption
<1>2. c[1] \in Byte /\ c[2] \in Byte /\ c[3] \in Byte /\ c = <<c[1], c[2], c[3]>>
  BY <1>1
<1> DEFINE x == c[1]
           y == c[2]
           z == c[3]
<1>3. x \in 0..255 /\ y \in 0..255 /\ z \in 0..255
  BY <1>2 DEF Byte
<1>4. Key(c) = 256 * (256 * x + y) + z
  BY DEF Key
<1> HIDE DEF x, y, z
<1>5. 256 * (256 * x + y) + z \in Nat /\ 256 * (256 * x + y) + z < 256 * 256 * 256
  BY <1>3
<1> QED  BY <1>2, <1>4, <1>5

LEMMA KeyUnique ==
    ASSUME PaletteAssumption, NEW c \in Colours, NEW d \in Colours, Key(c) = Key(d)
    PROVE  c = d
<1>3. /\ c[1] \in 0..255 /\ c[2] \in 0..255 /\ c[3] \in 0..255
      /\ d[1] \in 0..255 /\ d[2] \in 0..255 /\ d[3] \in 0..255
  BY KeyIn DEF Byte
<1> DEFINE x == c[1]
           y == c[2]
           z == c[3]
           u == d[1]
           v == d[2]
           w == d[3]
<1>4. 256 * (256 * x + y) + z = 256 * (256 * u + v) + w
  BY DEF Key
<1>5. /\ x \in 0..255 /\ y \in 0..255 /\ z \in 0..255
      /\ u \in 0..255 /\ v \in 0..255 /\ w \in 0..255
  BY <1>3
<1> HIDE DEF x, y, z, u, v, w
<1>6. x = u /\ y = v /\ z = w
  BY <1>4, <1>5
<1>1. c[1] = d[1] /\ c[2] = d[2] /\ c[3] = d[3]
  BY <1>6 DEF x, y, z, u, v, w
<1>2. c = <<c[1], c[2], c[3]>> /\ d = <<d[1], d[2], d[3]>>
  BY KeyIn
<1> QED  BY <1>1, <1>2

LEMMA ColoursFinite ==
    ASSUME PaletteAssumption
    PROVE  IsFiniteSet(Colours)
<1> DEFINE f == [c \in Colours |-> Key(c)]
           top == 256 * 256 * 256
<1>0. \A c \in Colours : Key(c) \in Nat /\ Key(c) < top
  BY KeyIn
<1>5. top \in Nat
  OBVIOUS
<1> HIDE DEF top
<1>6. \A c \in Colours : Key(c) \in 0..top
  BY <1>0, <1>5
<1>1. f \in [Colours -> 0..top]
  BY <1>6
<1>2. \A c, d \in Colours : f[c] = f[d] => c = d
  BY KeyUnique
<1>3. f \in Injection(Colours, 0..top)
  BY <1>1, <1>2 DEF Injection, IsInjective
<1>4. IsFiniteSet(0..top)
  BY <1>5, FS_Interval
<1> QED  BY <1>3, <1>4, FS_Injection

LEMMA BoxFinite ==
    ASSUME PaletteAssumption, NEW box \in SUBSET Colours
    PROVE  IsFiniteSet(box) /\ Cardinality(box) \in Nat /\ (box # {} => Cardinality(box) >= 1)
<1>1. IsFiniteSet(box)
  BY ColoursFinite, FS_Subset
<1>2. Cardinality(box) \in Nat
  BY <1>1, FS_CardinalityType
<1>3. Cardinality(box) = 0 <=> box = {}
  BY <1>1, FS_EmptySet
<1> QED  BY <1>1, <1>2, <1>3

\* The range of a box along a channel (qtanBoxBounds).
LEMMA RangeIn ==
    ASSUME PaletteAssumption, NEW box \in SUBSET Colours, box # {}, NEW ch \in Channels
    PROVE  /\ BoxRange(box, ch) \in Byte
           /\ \A c, d \in box : c[ch] - d[ch] <= BoxRange(box, ch)
<1> DEFINE S == {c[ch] : c \in box}
<1>1. \A c \in box : c[ch] \in Byte
  BY KeyIn DEF Channels
<1>2. S \in SUBSET Byte /\ S # {}
  BY <1>1
<1>8. S \in SUBSET Nat
  BY <1>2 DEF Byte
<1>6. \A c \in box : c[ch] \in S
  OBVIOUS
<1>4. BoxRange(box, ch) = Max(S) - Min(S)
  BY DEF BoxRange
<1> HIDE DEF S
<1>3. Max(S) \in S /\ (\A y \in S : Max(S) >= y) /\ Min(S) \in S /\ (\A y \in S : Min(S) <= y)
  BY <1>2, <1>8, MinIs, MaxIs
<1>5. Max(S) \in 0..255 /\ Min(S) \in 0..255 /\ Max(S) >= Min(S)
  BY <1>2, <1>3 DEF Byte
<1>7. \A c, d \in box : c[ch] - d[ch] <= Max(S) - Min(S)
  <2> TAKE c \in box, d \in box
  <2>1. Max(S) >= c[ch] /\ Min(S) <= d[ch] /\ c[ch] \in 0..255 /\ d[ch] \in 0..255
    BY <1>1, <1>3, <1>6 DEF Byte
  <2> DEFINE x == Max(S)
             y == Min(S)
             u == c[ch]
             v == d[ch]
  <2>2. x >= u /\ y <= v /\ x \in 0..255 /\ y \in 0..255 /\ u \in 0..255 /\ v \in 0..255
    BY <2>1, <1>5
  <2> HIDE DEF x, y, u, v
  <2>3. u - v <= x - y
    BY <2>2
  <2> QED  BY <2>3 DEF x, y, u, v
<1>9. Max(S) - Min(S) \in Byte
  <2> DEFINE x == Max(S)
             y == Min(S)
  <2>1. x \in 0..255 /\ y \in 0..255 /\ x >= y
    BY <1>5
  <2> HIDE DEF x, y
  <2>2. x - y \in 0..255
    BY <2>1
  <2> QED  BY <2>2 DEF x, y, Byte
<1> QED  BY <1>4, <1>7, <1>9

LEMMA BestIn ==
    ASSUME PaletteAssumption, NEW box \in SUBSET Colours, box # {}
    PROVE  /\ BestRange(box) \in Byte /\ Channel(box) \in Channels
           /\ \A ch \in Channels : BoxRange(box, ch) <= BestRange(box)
<1> DEFINE S == {BoxRange(box, ch) : ch \in Channels}
           C == {ch \in Channels : BoxRange(box, ch) = BestRange(box)}
<1>1. S \in SUBSET Byte /\ S # {}
  <2>1. S \in SUBSET Byte
    BY RangeIn
  <2>2. 1 \in Channels
    BY DEF Channels
  <2> QED  BY <2>1, <2>2
<1>2. BestRange(box) = Max(S)
  BY DEF BestRange
<1>7. \A ch \in Channels : BoxRange(box, ch) \in S
  OBVIOUS
<1>8. \A v \in S : \E ch \in Channels : v = BoxRange(box, ch)
  OBVIOUS
<1> HIDE DEF S
<1>3. BestRange(box) \in S /\ \A y \in S : BestRange(box) >= y
  BY <1>1, <1>2, MaxIs
<1>4. C # {} /\ C \in SUBSET Nat
  BY <1>3, <1>8 DEF Channels
<1>5. Channel(box) \in C
  BY <1>4, MinIs DEF Channel
<1>6. \A ch \in Channels : BoxRange(box, ch) <= BestRange(box)
  <2> TAKE ch \in Channels
  <2>1. BestRange(box) >= BoxRange(box, ch)
    BY <1>3, <1>7
  <2>2. BestRange(box) \in 0..255 /\ BoxRange(box, ch) \in 0..255
    BY <1>1, <1>3, <1>7 DEF Byte
  <2> QED  BY <2>1, <2>2
<1> QED  BY <1>1, <1>3, <1>5, <1>6

\* Two colours differ along some channel.
LEMMA TwoSpread ==
    ASSUME PaletteAssumption, NEW box \in SUBSET Colours, NEW c \in box, NEW d \in box, c # d
    PROVE  BestRange(box) > 0
<1>1. PICK ch \in Channels : c[ch] # d[ch]
  <2>1. c = <<c[1], c[2], c[3]>> /\ d = <<d[1], d[2], d[3]>>
    BY KeyIn
  <2>2. c[1] # d[1] \/ c[2] # d[2] \/ c[3] # d[3]
    BY <2>1
  <2> QED  BY <2>2 DEF Channels
<1>2. c[ch] \in 0..255 /\ d[ch] \in 0..255
  BY KeyIn DEF Channels, Byte
<1>3. c[ch] - d[ch] <= BoxRange(box, ch) /\ d[ch] - c[ch] <= BoxRange(box, ch)
  BY RangeIn
<1>4. BoxRange(box, ch) <= BestRange(box) /\ BoxRange(box, ch) \in 0..255 /\ BestRange(box) \in 0..255
  BY RangeIn, BestIn DEF Byte
<1> DEFINE x == c[ch]
           y == d[ch]
           u == BoxRange(box, ch)
           v == BestRange(box)
<1>5. x # y /\ x \in 0..255 /\ y \in 0..255 /\ x - y <= u /\ y - x <= u /\ u <= v
      /\ u \in 0..255 /\ v \in 0..255
  BY <1>1, <1>2, <1>3, <1>4
<1> HIDE DEF x, y, u, v
<1>6. v > 0
  BY <1>5
<1> QED  BY <1>6 DEF v

\* A sorted box has each of its colours once.
LEMMA SortedIs ==
    ASSUME PaletteAssumption, NEW box \in SUBSET Colours, box # {}
    PROVE  /\ Sorted(box) \in [1..Cardinality(box) -> box]
           /\ \A i, j \in 1..Cardinality(box) : Sorted(box)[i] = Sorted(box)[j] => i = j
           /\ \A c \in box : \E i \in 1..Cardinality(box) : Sorted(box)[i] = c
<1> DEFINE ch == Channel(box)
           rank == [c \in box |-> 256 * 256 * 256 * c[ch] + Key(c)]
<1>1. IsFiniteSet(box) /\ ch \in Channels
  BY BoxFinite, BestIn
<1>2. \A c \in box : c[ch] \in 0..255 /\ Key(c) \in Nat /\ Key(c) < 256 * 256 * 256
  BY <1>1, KeyIn DEF Channels, Byte
<1> HIDE DEF ch
<1>3. rank \in [box -> Nat]
  BY <1>2
<1>4. \A c, d \in box : rank[c] = rank[d] => c = d
  <2> SUFFICES ASSUME NEW c \in box, NEW d \in box, rank[c] = rank[d]
               PROVE  c = d
    OBVIOUS
  <2> DEFINE m == 256 * 256 * 256
             x == c[ch]
             y == d[ch]
             k == Key(c)
             l == Key(d)
  <2>1. m * x + k = m * y + l
    OBVIOUS
  <2>2. m \in Nat \ {0}
    OBVIOUS
  <2>3. x \in Nat /\ y \in Nat /\ k \in Nat /\ l \in Nat /\ k < m /\ l < m
    BY <1>2
  <2> HIDE DEF m, x, y, k, l
  <2>4. k \in 0..(m - 1) /\ l \in 0..(m - 1)
    BY <2>2, <2>3
  <2>5. (m * x + k) % m = k /\ (m * y + l) % m = l
    BY <2>2, <2>3, <2>4, DivisionUnique
  <2>6. k = l
    BY <2>1, <2>5
  <2> QED  BY <2>6, KeyUnique DEF k, l
<1>5. Sorted(box) = Ascending(box, rank)
  BY DEF Sorted, ch
<1> HIDE DEF rank
<1> QED  BY <1>1, <1>3, <1>4, <1>5, AscendingIs

\* There is a box to be split if there is one that can be.
LEMMA BoxIndexIs ==
    ASSUME PaletteAssumption, PaletteTypeOK, Splittable # {}
    PROVE  BoxIndex \in Splittable
<1>1. \A i \in Splittable : boxes[i] \in SUBSET Colours /\ boxes[i] # {} /\ BestRange(boxes[i]) \in Byte
  <2> TAKE i \in Splittable
  <2>1. boxes[i] \in SUBSET Colours /\ Cardinality(boxes[i]) >= 2
    BY DEF Splittable, PaletteTypeOK
  <2>2. boxes[i] # {}
    BY <2>1, FS_EmptySet
  <2>3. BestRange(boxes[i]) \in Byte
    BY <2>1, <2>2, BestIn
  <2> QED  BY <2>1, <2>2, <2>3
<1> DEFINE S == {BestRange(boxes[i]) : i \in Splittable}
           R == {i \in Splittable : \A j \in Splittable : BestRange(boxes[i]) >= BestRange(boxes[j])}
<1>2. S \in SUBSET Byte /\ S # {}
  BY <1>1
<1>8. \A i \in Splittable : BestRange(boxes[i]) \in S
  OBVIOUS
<1>9. \A v \in S : \E i \in Splittable : v = BestRange(boxes[i])
  OBVIOUS
<1> HIDE DEF S
<1>3. Max(S) \in S /\ \A y \in S : Max(S) >= y
  BY <1>2, MaxIs
<1>4. R # {}
  <2>1. PICK i \in Splittable : Max(S) = BestRange(boxes[i])
    BY <1>3, <1>9
  <2>2. \A j \in Splittable : BestRange(boxes[i]) >= BestRange(boxes[j])
    BY <1>3, <1>8, <2>1
  <2> QED  BY <2>2
<1>5. R \in SUBSET Nat
  BY DEF Splittable, PaletteTypeOK
<1>6. BoxIndex = Min(R)
  BY DEF BoxIndex
<1>7. Min(R) \in R
  BY <1>4, <1>5, MinIs
<1> QED  BY <1>6, <1>7

\* What a colour occurs is positive.
LEMMA CountsAre ==
    ASSUME PaletteAssumption, PaletteTypeOK, NEW seq \in Seq(Picture)
    PROVE  CountsOf(seq) \in Seq(Nat \ {0}) /\ Len(CountsOf(seq)) = Len(seq)
<1>1. \A c \in Picture : counts[c] \in Nat \ {0}
  BY DEF PaletteTypeOK, PaletteAssumption
<1>2. \A k \in 1..Len(seq) : seq[k] \in Picture
  OBVIOUS
<1>3. CountsOf(seq) = [k \in 1..Len(seq) |-> counts[seq[k]]]
  BY DEF CountsOf
<1>4. \A k \in 1..Len(seq) : counts[seq[k]] \in Nat \ {0}
  BY <1>1, <1>2
<1> QED  BY <1>3, <1>4

\* A box of two colours or more is split inside: neither side is empty.
LEMMA SplitIn ==
    ASSUME PaletteAssumption, PaletteTypeOK, NEW seq \in Seq(Picture), Len(seq) >= 2
    PROVE  Split(seq) \in 1..(Len(seq) - 1)
<1> DEFINE n == Len(seq)
           D == 1..(n - 1)
           S == {Imbalance(seq, i) : i \in D}
           R == {i \in D : \A j \in D : Imbalance(seq, i) <= Imbalance(seq, j)}
<1>1. n \in Nat /\ n >= 2
  OBVIOUS
<1>2. \A i \in D : Imbalance(seq, i) \in Nat
  <2> TAKE i \in D
  <2>1. CountsOf(seq) \in Seq(Nat) /\ Len(CountsOf(seq)) = n
    BY CountsAre
  <2>2. Sums(CountsOf(seq)) \in [0..n -> Nat] /\ SumOf(CountsOf(seq)) \in Nat
    BY <2>1, SumsAre
  <2>3. Sums(CountsOf(seq))[i] \in Nat
    BY <2>2, <1>1
  <2> QED  BY <2>2, <2>3 DEF Imbalance
<1> HIDE DEF n
<1>3. S \in SUBSET Nat /\ S # {}
  <2>1. 1 \in D
    BY <1>1
  <2> QED  BY <1>2, <2>1
<1>4. PICK v \in S : \A w \in S : v <= w
  BY <1>3, LeastNumber
<1>5. R # {} /\ R \in SUBSET Nat
  <2>1. PICK i \in D : v = Imbalance(seq, i)
    BY <1>4
  <2>2. i \in R
    BY <1>4, <2>1
  <2> QED  BY <2>2
<1>6. Min(R) \in R
  BY <1>5, MinIs
<1>7. Split(seq) = Min(R)
  BY DEF Split, n
<1> QED  BY <1>6, <1>7 DEF n

-----------------------------------------------------------------------------
(* The palette's invariant. *)

\* The boxes are no more than the entries, and none of them is empty.
Boxed ==
    /\ Len(boxes) \in 1..MaxColors
    /\ Picture # {} => \A i \in DOMAIN boxes : boxes[i] # {}

PaletteInv == PaletteTypeOK /\ Boxed /\ PaletteFilled

\* The mean of a box is a colour: each channel is a byte (the conversion to uint8).
LEMMA MeanIn ==
    ASSUME PaletteAssumption, PaletteTypeOK, NEW box \in SUBSET Picture, box # {}
    PROVE  Mean(box) \in Byte \X Byte \X Byte
<1> DEFINE seq == Sorted(box)
           n == Cardinality(box)
<1>1. box \in SUBSET Colours
  BY DEF PaletteTypeOK
<1>2. n \in Nat /\ n >= 1 /\ seq \in [1..n -> box]
  BY <1>1, BoxFinite, SortedIs
<1> HIDE DEF n, seq
<1>3. seq \in Seq(Picture) /\ Len(seq) = n /\ DOMAIN seq = 1..n
  BY <1>2
<1>4. CountsOf(seq) \in Seq(Nat \ {0}) /\ Len(CountsOf(seq)) = n
  BY <1>3, CountsAre
<1>5. \A k \in 1..n : seq[k] \in Picture /\ seq[k] \in Colours /\ counts[seq[k]] \in Nat \ {0}
                      /\ CountsOf(seq)[k] = counts[seq[k]]
  <2>1. \A c \in Picture : counts[c] \in Nat \ {0}
    BY DEF PaletteTypeOK, PaletteAssumption
  <2> QED  BY <1>1, <1>2, <1>3, <2>1 DEF CountsOf
<1>6. ASSUME NEW ch \in Channels
      PROVE  MeanAlong(seq, ch) \in Byte
  <2> DEFINE values == [k \in DOMAIN seq |-> seq[k][ch] * counts[seq[k]]]
  <2>1. \A k \in 1..n : seq[k][ch] \in 0..255
    BY <1>5, KeyIn DEF Channels, Byte
  <2>2. \A k \in 1..n : values[k] \in Nat /\ values[k] <= 255 * CountsOf(seq)[k]
    <3> TAKE k \in 1..n
    <3>1. values[k] = seq[k][ch] * counts[seq[k]]
      BY <1>3
    <3> DEFINE x == seq[k][ch]
               w == counts[seq[k]]
    <3>2. x \in 0..255 /\ w \in Nat \ {0}
      BY <2>1, <1>5
    <3> HIDE DEF x, w
    <3>3. x * w \in Nat /\ x * w <= 255 * w
      BY <3>2
    <3> QED  BY <3>1, <3>3, <1>5 DEF x, w
  <2>3. values = [k \in 1..n |-> values[k]] /\ DOMAIN values = 1..n
    BY <1>3
  <2> HIDE DEF values
  <2>4. values \in Seq(Nat) /\ Len(values) = n
    BY <1>2, <2>2, <2>3
  <2>5. SumOf(values) <= 255 * SumOf(CountsOf(seq)) /\ SumOf(CountsOf(seq)) >= n
    BY <1>2, <1>4, <2>2, <2>4, SumsBounded
  <2>6. SumOf(values) \in Nat /\ SumOf(CountsOf(seq)) \in Nat
    <3>1. CountsOf(seq) \in Seq(Nat)
      BY <1>4
    <3> QED  BY <2>4, <3>1, SumsAre
  <2>7. MeanAlong(seq, ch) = SumOf(values) \div SumOf(CountsOf(seq))
    BY DEF MeanAlong, values
  <2> DEFINE a == SumOf(values)
             b == SumOf(CountsOf(seq))
  <2>8. a \in Nat /\ b \in Nat \ {0} /\ a <= 255 * b
    BY <2>5, <2>6, <1>2
  <2> HIDE DEF a, b
  <2>9. a \div b \in 0..255
    <3> DEFINE q == a \div b
    <3>1. q \in Nat /\ a >= b * q
      BY <2>8, Division
    <3> HIDE DEF q
    <3>3. q <= 255
      <4> SUFFICES ASSUME q >= 256
                   PROVE  FALSE
        BY <3>1
      <4>1. PICK r \in Nat : q = 256 + r
        <5>1. q - 256 \in Nat /\ q = 256 + (q - 256)
          BY <3>1
        <5> QED  BY <5>1
      <4>2. b * q = 256 * b + b * r /\ b * r \in Nat
        BY <2>8, <4>1
      <4> DEFINE p == b * r
      <4> HIDE DEF p
      <4>3. a >= 256 * b + p /\ p \in Nat
        BY <3>1, <4>2 DEF p
      <4> QED  BY <4>3, <2>8
    <3> QED  BY <3>1, <3>3 DEF q
  <2> QED  BY <2>7, <2>9 DEF a, b, Byte
<1> QED  BY <1>6 DEF Mean, Channels, seq

\* A palette of means has an entry for each box.
LEMMA MeansAre ==
    ASSUME PaletteAssumption, PaletteTypeOK, Boxed, PaletteFilled, Picture # {}
    PROVE  Means \in Seq(Byte \X Byte \X Byte) /\ Len(Means) = Len(boxes)
<1> DEFINE n == Len(boxes)
           D == DOMAIN boxes
           rank == [i \in D |-> Key(Mean(boxes[i])) * (n + 1) + i]
           order == Ascending(D, rank)
<1>1. n \in Nat /\ D = 1..n /\ n >= 1
  BY DEF PaletteTypeOK, Boxed
<1>2. \A i \in D : Mean(boxes[i]) \in Byte \X Byte \X Byte
  <2> TAKE i \in D
  <2>1. boxes[i] # {} /\ boxes[i] \in SUBSET Picture
    BY DEF Boxed, PaletteFilled
  <2> QED  BY <2>1, MeanIn
<1>3. \A i \in D : Key(Mean(boxes[i])) \in Nat
  <2> TAKE i \in D
  <2>1. Mean(boxes[i])[1] \in 0..255 /\ Mean(boxes[i])[2] \in 0..255 /\ Mean(boxes[i])[3] \in 0..255
    BY <1>2 DEF Byte
  <2> DEFINE x == Mean(boxes[i])[1]
             y == Mean(boxes[i])[2]
             z == Mean(boxes[i])[3]
  <2>2. Key(Mean(boxes[i])) = 256 * (256 * x + y) + z
    BY DEF Key
  <2>3. x \in 0..255 /\ y \in 0..255 /\ z \in 0..255
    BY <2>1
  <2> HIDE DEF x, y, z
  <2>4. 256 * (256 * x + y) + z \in Nat
    BY <2>3
  <2> QED  BY <2>2, <2>4
<1> HIDE DEF n
<1>4. rank \in [D -> Nat]
  <2>1. \A i \in D : Key(Mean(boxes[i])) * (n + 1) + i \in Nat
    BY <1>1, <1>3
  <2> QED  BY <2>1
<1>5. \A i, j \in D : rank[i] = rank[j] => i = j
  <2> SUFFICES ASSUME NEW i \in D, NEW j \in D, rank[i] = rank[j]
               PROVE  i = j
    OBVIOUS
  <2> DEFINE a == Key(Mean(boxes[i]))
             b == Key(Mean(boxes[j]))
             m == n + 1
  <2>1. a \in Nat /\ b \in Nat /\ i \in 0..(m - 1) /\ j \in 0..(m - 1) /\ m \in Nat \ {0}
    BY <1>1, <1>3
  <2>2. m * a + i = m * b + j
    <3>1. a * m + i = b * m + j
      OBVIOUS
    <3> HIDE DEF a, b, m
    <3> QED  BY <3>1, <2>1
  <2> HIDE DEF a, b, m
  <2>3. (m * a + i) % m = i /\ (m * b + j) % m = j
    BY <2>1, DivisionUnique
  <2> QED  BY <2>2, <2>3
<1>6. IsFiniteSet(D) /\ Cardinality(D) = n
  BY <1>1, FS_Interval
<1> HIDE DEF rank, D
<1>7. order \in [1..n -> D]
  BY <1>4, <1>5, <1>6, AscendingIs
<1>8. Means = [k \in DOMAIN order |-> Mean(boxes[order[k]])]
  BY DEF Means, rank, n, D
<1> HIDE DEF order
<1>9. Means \in [1..n -> Byte \X Byte \X Byte]
  BY <1>2, <1>7, <1>8
<1> QED  BY <1>1, <1>9 DEF n

\* If no box can be split there are as many colours as boxes.
LEMMA EachItsBox ==
    ASSUME PaletteAssumption, PaletteTypeOK, Boxed, PaletteFilled, Splittable = {}
    PROVE  Cardinality(Picture) <= Len(boxes)
<1> DEFINE n == Len(boxes)
           f == [c \in Picture |-> CHOOSE i \in 1..n : c \in boxes[i]]
<1>1. n \in Nat /\ DOMAIN boxes = 1..n /\ \A i \in 1..n : boxes[i] \in SUBSET Colours
  BY DEF PaletteTypeOK
<1>2. \A c \in Picture : \E i \in 1..n : c \in boxes[i]
  BY <1>1 DEF PaletteFilled
<1>3. \A c \in Picture : f[c] \in 1..n /\ c \in boxes[f[c]]
  BY <1>2
<1> HIDE DEF n
<1>4. f \in [Picture -> 1..n]
  BY <1>3
<1>5. \A c, d \in Picture : f[c] = f[d] => c = d
  <2> SUFFICES ASSUME NEW c \in Picture, NEW d \in Picture, f[c] = f[d], c # d
               PROVE  FALSE
    OBVIOUS
  <2> DEFINE i == f[c]
  <2>1. i \in 1..n /\ c \in boxes[i] /\ d \in boxes[i] /\ boxes[i] \in SUBSET Colours
    BY <1>1, <1>3
  <2> HIDE DEF i, f
  <2>2. BestRange(boxes[i]) > 0
    BY <2>1, TwoSpread
  <2>3. IsFiniteSet(boxes[i]) /\ Cardinality(boxes[i]) \in Nat /\ Cardinality(boxes[i]) >= 1
    BY <2>1, BoxFinite
  <2>4. Cardinality(boxes[i]) # 1
    BY <2>1, <2>3, FS_Singleton
  <2>5. i \in Splittable
    BY <1>1, <2>1, <2>2, <2>3, <2>4 DEF Splittable
  <2> QED  BY <2>5
<1> HIDE DEF f
<1>6. f \in Injection(Picture, 1..n)
  BY <1>4, <1>5 DEF Injection, IsInjective
<1>7. IsFiniteSet(1..n) /\ Cardinality(1..n) = n
  BY <1>1, FS_Interval
<1> QED  BY <1>6, <1>7, FS_Injection DEF n

\* A colour is nearest to itself and to no other (qtanNearestColor).
LEMMA DistanceIs ==
    ASSUME PaletteAssumption, NEW c \in Colours, NEW d \in Colours
    PROVE  Distance(c, d) \in Nat /\ Distance(c, c) = 0 /\ (Distance(c, d) = 0 => c = d)
<1> DEFINE x == c[1] - d[1]
           y == c[2] - d[2]
           z == c[3] - d[3]
<1>1. /\ c[1] \in 0..255 /\ c[2] \in 0..255 /\ c[3] \in 0..255
      /\ d[1] \in 0..255 /\ d[2] \in 0..255 /\ d[3] \in 0..255
  BY KeyIn DEF Byte
<1>0. \A u, v \in 0..255 : u - v \in Int /\ (u - v = 0 => u = v)
  OBVIOUS
<1>2. x \in Int /\ y \in Int /\ z \in Int
  BY <1>0, <1>1, Zenon
<1>3. Distance(c, d) = x * x + y * y + z * z
  BY DEF Distance
<1>4. x = 0 /\ y = 0 /\ z = 0 => c = d
  <2>1. ASSUME x = 0, y = 0, z = 0
        PROVE  c[1] = d[1] /\ c[2] = d[2] /\ c[3] = d[3]
    BY <1>0, <1>1, <2>1, Zenon
  <2>2. c = <<c[1], c[2], c[3]>> /\ d = <<d[1], d[2], d[3]>>
    BY KeyIn
  <2> HIDE DEF x, y, z
  <2> QED  BY <2>1, <2>2
<1>5. Distance(c, c) = 0
  <2> DEFINE u == c[1]
             v == c[2]
             w == c[3]
  <2>1. Distance(c, c) = (u - u) * (u - u) + (v - v) * (v - v) + (w - w) * (w - w)
    BY DEF Distance
  <2>2. u \in Int /\ v \in Int /\ w \in Int
    BY <1>1
  <2> HIDE DEF u, v, w
  <2>3. u - u = 0 /\ v - v = 0 /\ w - w = 0
    BY <2>2
  <2> QED  BY <2>1, <2>3
<1> HIDE DEF x, y, z
<1>6. \A k \in Int : k * k \in Nat /\ (k * k = 0 => k = 0)
  OBVIOUS
<1> DEFINE p == x * x
           q == y * y
           r == z * z
<1>7. p \in Nat /\ q \in Nat /\ r \in Nat /\ (p = 0 => x = 0) /\ (q = 0 => y = 0) /\ (r = 0 => z = 0)
  BY <1>2, <1>6
<1>8. Distance(c, d) = p + q + r
  BY <1>3
<1> HIDE DEF p, q, r
<1>9. p + q + r \in Nat /\ (p + q + r = 0 => p = 0 /\ q = 0 /\ r = 0)
  BY <1>7
<1> QED  BY <1>4, <1>5, <1>7, <1>8, <1>9

\* A colour that is an entry is shown as itself.
LEMMA NearestIs ==
    ASSUME PaletteAssumption, NEW n \in Nat, NEW p \in [1..n -> Colours], NEW k \in 1..n
    PROVE  p[Min({i \in DOMAIN p : \A j \in DOMAIN p : Distance(p[k], p[i]) <= Distance(p[k], p[j])})] = p[k]
<1> DEFINE c == p[k]
           R == {i \in DOMAIN p : \A j \in DOMAIN p : Distance(c, p[i]) <= Distance(c, p[j])}
<1>1. c \in Colours /\ \A i \in 1..n : p[i] \in Colours
  OBVIOUS
<1>2. \A i \in 1..n : Distance(c, p[i]) \in Nat /\ (Distance(c, p[i]) = 0 => c = p[i])
  BY <1>1, DistanceIs
<1>3. Distance(c, p[k]) = 0
  BY <1>1, DistanceIs
<1>4. k \in R
  <2>1. \A j \in DOMAIN p : Distance(c, p[k]) <= Distance(c, p[j])
    BY <1>2, <1>3
  <2> QED  BY <2>1
<1>5. R \in SUBSET Nat /\ R # {}
  BY <1>4
<1> DEFINE m == Min(R)
<1>6. m \in R
  BY <1>5, MinIs
<1> HIDE DEF m
<1>7. m \in 1..n /\ Distance(c, p[m]) <= Distance(c, p[k])
  BY <1>6
<1> HIDE DEF R
<1>8. Distance(c, p[m]) = 0
  BY <1>2, <1>3, <1>7
<1>9. p[m] = c
  BY <1>2, <1>7, <1>8
<1> QED  BY <1>9 DEF m, R

\* Parting one of disjoint sets in two leaves their union and keeps them disjoint.
LEMMA PartsKept ==
    ASSUME NEW U, NEW b \in Seq(SUBSET U), NEW i \in 1..Len(b), NEW A, NEW B,
           A \cup B = b[i], A \cap B = {},
           \A k, j \in 1..Len(b) : k # j => b[k] \cap b[j] = {},
           NEW d, d = Append([b EXCEPT ![i] = A], B)
    PROVE  /\ d \in Seq(SUBSET U) /\ Len(d) = Len(b) + 1 /\ DOMAIN d = 1..(Len(b) + 1)
           /\ UNION {d[k] : k \in 1..(Len(b) + 1)} = UNION {b[k] : k \in 1..Len(b)}
           /\ \A k, j \in 1..(Len(b) + 1) : k # j => d[k] \cap d[j] = {}
           /\ \A k \in 1..(Len(b) + 1) : d[k] = A \/ d[k] = B \/ \E j \in 1..Len(b) : d[k] = b[j]
<1> DEFINE n == Len(b)
<1>1. n \in Nat /\ i \in 1..n /\ b \in [1..n -> SUBSET U] /\ A \in SUBSET U /\ B \in SUBSET U
  OBVIOUS
<1>2. [b EXCEPT ![i] = A] \in Seq(SUBSET U) /\ Len([b EXCEPT ![i] = A]) = n
  BY <1>1
<1>3. d \in Seq(SUBSET U) /\ Len(d) = n + 1 /\ DOMAIN d = 1..(n + 1)
  BY <1>1, <1>2
<1>4. /\ d[n + 1] = B /\ d[i] = A
      /\ \A k \in 1..n : k # i => d[k] = b[k]
  BY <1>1, <1>2
<1> HIDE DEF n
<1>5. \A k \in 1..(n + 1) : k = n + 1 \/ k = i \/ (k \in 1..n /\ k # i)
  BY <1>1
<1>10. n + 1 \in 1..(n + 1) /\ \A k \in 1..n : k \in 1..(n + 1) /\ k # n + 1
  BY <1>1
<1>6. UNION {d[k] : k \in 1..(n + 1)} \subseteq UNION {b[k] : k \in 1..n}
  <2>1. ASSUME NEW k \in 1..(n + 1)
        PROVE  \E j \in 1..n : d[k] \subseteq b[j]
    BY <1>1, <1>4, <1>5
  <2>2. ASSUME NEW x \in UNION {d[k] : k \in 1..(n + 1)}
        PROVE  x \in UNION {b[k] : k \in 1..n}
    <3>1. PICK k \in 1..(n + 1) : x \in d[k]
      OBVIOUS
    <3>2. PICK j \in 1..n : d[k] \subseteq b[j]
      BY <2>1
    <3> QED  BY <3>1, <3>2
  <2> QED  BY <2>2
<1>7. UNION {b[k] : k \in 1..n} \subseteq UNION {d[k] : k \in 1..(n + 1)}
  <2> SUFFICES ASSUME NEW k \in 1..n, NEW x \in b[k]
               PROVE  \E j \in 1..(n + 1) : x \in d[j]
    OBVIOUS
  <2> QED  BY <1>1, <1>4, <1>10
<1>8. \A k, j \in 1..(n + 1) : k # j => d[k] \cap d[j] = {}
  <2> SUFFICES ASSUME NEW k \in 1..(n + 1), NEW j \in 1..(n + 1), k # j, NEW x \in d[k], x \in d[j]
               PROVE  FALSE
    OBVIOUS
  <2>0. \A l, m \in 1..n : l # m => b[l] \cap b[m] = {}
    BY DEF n
  <2> QED  BY <1>1, <1>4, <1>5, <2>0
<1>9. \A k \in 1..(n + 1) : d[k] = A \/ d[k] = B \/ \E j \in 1..n : d[k] = b[j]
  BY <1>4, <1>5
<1> QED  BY <1>3, <1>6, <1>7, <1>8, <1>9 DEF n

\* The box to be split, sorted, and the two sides it falls into.
LEMMA SidesAre ==
    ASSUME PaletteAssumption, PaletteTypeOK, PaletteFilled, Splittable # {},
           NEW seq, seq = Sorted(boxes[BoxIndex])
    PROVE  LET A == {seq[k] : k \in 1..Split(seq)}
               B == {seq[k] : k \in (Split(seq) + 1)..Len(seq)} IN
           /\ BoxIndex \in 1..Len(boxes) /\ Split(seq) \in Nat /\ Split(seq) # 0
           /\ A \cup B = boxes[BoxIndex] /\ A \cap B = {} /\ A # {} /\ B # {}
<1> DEFINE i == BoxIndex
           box == boxes[i]
           n == Cardinality(box)
           cut == Split(seq)
<1>1. i \in Splittable
  BY BoxIndexIs
<1> HIDE DEF i
<1>2. i \in 1..Len(boxes) /\ i \in DOMAIN boxes /\ box \in SUBSET Colours /\ n >= 2
  BY <1>1 DEF Splittable, PaletteTypeOK
<1>3. box \in SUBSET Picture
  BY <1>2 DEF PaletteFilled
<1>4. box # {} /\ n \in Nat
  BY <1>2, BoxFinite, FS_EmptySet
<1>5. seq = Sorted(box)
  BY DEF i
<1>6. /\ seq \in [1..n -> box]
      /\ \A k, j \in 1..n : seq[k] = seq[j] => k = j
      /\ \A c \in box : \E k \in 1..n : seq[k] = c
  BY <1>2, <1>4, <1>5, SortedIs
<1> HIDE DEF box, n
<1>7. seq \in Seq(Picture) /\ Len(seq) = n
  BY <1>3, <1>4, <1>6
<1>8. cut \in 1..(n - 1)
  BY <1>2, <1>7, SplitIn
<1> HIDE DEF cut
<1> DEFINE A == {seq[k] : k \in 1..cut}
           B == {seq[k] : k \in (cut + 1)..n}
<1>9. /\ \A k \in 1..cut : k \in 1..n
      /\ \A k \in (cut + 1)..n : k \in 1..n
      /\ \A k \in 1..n : k \in 1..cut \/ k \in (cut + 1)..n
      /\ \A k \in 1..cut : k \notin (cut + 1)..n
      /\ 1 \in 1..cut /\ n \in (cut + 1)..n
  BY <1>4, <1>8
<1>10. A \cup B = box /\ A \cap B = {} /\ A # {} /\ B # {}
  <2>1. A \subseteq box /\ B \subseteq box
    BY <1>6, <1>9
  <2>2. \A c \in box : c \in A \/ c \in B
    BY <1>6, <1>9
  <2>3. A \cap B = {}
    BY <1>6, <1>9
  <2>4. seq[1] \in A /\ seq[n] \in B
    BY <1>9
  <2> QED  BY <2>1, <2>2, <2>3, <2>4
<1>11. cut \in Nat /\ cut # 0
  BY <1>4, <1>8
<1> QED  BY <1>2, <1>7, <1>10, <1>11 DEF i, box, cut, n

\* One round of the loop of qtanQuantizeEntries.
LEMMA SplitBoxStep ==
    ASSUME PaletteAssumption, PaletteInv, SplitBox
    PROVE  PaletteInv'
<1> DEFINE seq == Sorted(boxes[BoxIndex])
           A == {seq[k] : k \in 1..Split(seq)}
           B == {seq[k] : k \in (Split(seq) + 1)..Len(seq)}
           i == BoxIndex
           n == Len(boxes)
<1>1. /\ PaletteTypeOK /\ Boxed /\ PaletteFilled
      /\ palette = <<>> /\ MoreToSplit /\ counts' = counts /\ palette' = palette
      /\ boxes' = Append([boxes EXCEPT ![i] = A], B)
  BY DEF PaletteInv, SplitBox
<1>2. Splittable # {} /\ n < MaxColors
  BY <1>1 DEF MoreToSplit
<1>3. i \in 1..n /\ A \cup B = boxes[i] /\ A \cap B = {} /\ A # {} /\ B # {}
  BY <1>1, <1>2, SidesAre
<1> HIDE DEF seq, A, B, i
<1>4. boxes \in Seq(SUBSET Colours) /\ n \in Nat /\ DOMAIN boxes = 1..n
  BY <1>1 DEF PaletteTypeOK
<1>5. \A k, j \in 1..n : k # j => boxes[k] \cap boxes[j] = {}
  BY <1>1, <1>4 DEF PaletteFilled
<1>6. /\ boxes' \in Seq(SUBSET Colours) /\ Len(boxes') = n + 1 /\ DOMAIN boxes' = 1..(n + 1)
      /\ UNION {boxes'[k] : k \in 1..(n + 1)} = UNION {boxes[k] : k \in 1..n}
      /\ \A k, j \in 1..(n + 1) : k # j => boxes'[k] \cap boxes'[j] = {}
      /\ \A k \in 1..(n + 1) : boxes'[k] = A \/ boxes'[k] = B \/ \E j \in 1..n : boxes'[k] = boxes[j]
  BY <1>1, <1>3, <1>4, <1>5, PartsKept
<1> HIDE DEF n
<1>7. PaletteTypeOK'
  BY <1>1, <1>6 DEF PaletteTypeOK, Picture
<1>8. Boxed'
  <2>1. n + 1 \in 1..MaxColors
    BY <1>2, <1>4 DEF PaletteAssumption
  <2>2. Picture # {} => \A k \in 1..(n + 1) : boxes'[k] # {}
    BY <1>1, <1>3, <1>4, <1>6 DEF Boxed
  <2> QED  BY <2>1, <2>2, <1>1, <1>6 DEF Boxed, Picture
<1>9. PaletteFilled'
  <2>1. UNION {boxes[k] : k \in 1..n} = Picture
    BY <1>1, <1>4 DEF PaletteFilled
  <2>2. Picture' = Picture /\ palette' = <<>>
    BY <1>1 DEF Picture
  <2> QED  BY <2>1, <2>2, <1>6 DEF PaletteFilled
<1> QED  BY <1>7, <1>8, <1>9 DEF PaletteInv

\* Making the entries.
LEMMA MakePaletteStep ==
    ASSUME PaletteAssumption, PaletteInv, MakePalette
    PROVE  PaletteInv'
<1>1. /\ PaletteTypeOK /\ Boxed /\ PaletteFilled
      /\ counts' = counts /\ boxes' = boxes /\ Picture' = Picture
  BY DEF PaletteInv, MakePalette, Picture
<1>2. Picture \in SUBSET Colours /\ MaxColors \in Nat \ {0}
  BY <1>1 DEF PaletteTypeOK, PaletteAssumption
<1>3. IsFiniteSet(Picture) /\ Cardinality(Picture) \in Nat
  BY <1>2, BoxFinite
<1> DEFINE few == Cardinality(Picture) <= MaxColors
           Shown == IF Cardinality(Picture) > MaxColors THEN Len(palette') = MaxColors
                    ELSE Len(palette') <= MaxColors /\ \A c \in Picture : palette'[NearestColor(c)'] = c
<1>4. palette' \in Seq(Byte \X Byte \X Byte) /\ Shown
  <2>1. CASE Picture = {}
    <3>1. palette' = <<<<0, 0, 0>>>>
      BY <2>1 DEF MakePalette
    <3>2. Cardinality(Picture) = 0
      BY <2>1, FS_EmptySet
    <3>3. <<<<0, 0, 0>>>> \in Seq(Byte \X Byte \X Byte) /\ Len(<<<<0, 0, 0>>>>) = 1
      BY DEF Byte
    <3>4. 1 <= MaxColors /\ ~(0 > MaxColors)
      BY <1>2
    <3>5. Len(palette') <= MaxColors /\ ~(Cardinality(Picture) > MaxColors)
      BY <3>1, <3>2, <3>3, <3>4
    <3> QED  BY <2>1, <3>1, <3>3, <3>5
  <2>2. CASE Picture # {} /\ few
    <3> DEFINE rank == [c \in Picture |-> Key(c)]
               s == Ascending(Picture, rank)
               n == Cardinality(Picture)
    <3>1. palette' = s
      BY <2>2 DEF MakePalette
    <3>2. rank \in [Picture -> Nat]
      BY <1>2, KeyIn
    <3>3. \A c, d \in Picture : rank[c] = rank[d] => c = d
      BY <1>2, KeyUnique
    <3> HIDE DEF rank
    <3>4. s \in [1..n -> Picture] /\ \A c \in Picture : \E k \in 1..n : s[k] = c
      BY <1>3, <3>2, <3>3, AscendingIs
    <3> HIDE DEF s, n
    <3>5. palette' \in [1..n -> Colours] /\ n \in Nat
      BY <1>2, <1>3, <3>1, <3>4 DEF n
    <3>6. \A c \in Colours : c \in Byte \X Byte \X Byte
      BY DEF PaletteAssumption
    <3>7. palette' \in Seq(Byte \X Byte \X Byte) /\ Len(palette') = n
      BY <3>5, <3>6
    <3>8. \A c \in Picture : palette'[NearestColor(c)'] = c
      <4> SUFFICES ASSUME NEW c \in Picture
                   PROVE  palette'[NearestColor(c)'] = c
        OBVIOUS
      <4>1. PICK k \in 1..n : palette'[k] = c
        BY <3>1, <3>4
      <4>2. palette'[Min({i \in DOMAIN palette' : \A j \in DOMAIN palette' :
                              Distance(palette'[k], palette'[i]) <= Distance(palette'[k], palette'[j])})]
            = palette'[k]
        BY <3>5, NearestIs
      <4>3. NearestColor(c)' = Min({i \in DOMAIN palette' : \A j \in DOMAIN palette' :
                                       Distance(c, palette'[i]) <= Distance(c, palette'[j])})
        BY DEF NearestColor, Distance
      <4> QED  BY <4>1, <4>2, <4>3
    <3>9. n <= MaxColors /\ ~(Cardinality(Picture) > MaxColors)
      BY <1>2, <1>3, <2>2 DEF n
    <3> QED  BY <3>7, <3>8, <3>9
  <2>3. CASE Picture # {} /\ ~few
    <3>1. palette' = Means
      BY <2>3 DEF MakePalette
    <3>2. Means \in Seq(Byte \X Byte \X Byte) /\ Len(Means) = Len(boxes)
      BY <1>1, <2>3, MeansAre
    <3>3. Cardinality(Picture) > MaxColors
      BY <1>2, <1>3, <2>3
    <3>4. Len(boxes) \in Nat /\ Len(boxes) <= MaxColors
      BY <1>1, <1>2 DEF Boxed
    <3>5. ~MoreToSplit
      <4> SUFFICES ASSUME MoreToSplit
                   PROVE  FALSE
        OBVIOUS
      <4>1. Splittable # {}
        BY DEF MoreToSplit
      <4>2. Split(Sorted(boxes[BoxIndex])) # 0
        BY <1>1, <4>1, SidesAre
      <4> QED  BY <4>2 DEF MakePalette
    <3>6. Len(boxes) = MaxColors
      <4>1. CASE Splittable = {}
        <5>1. Cardinality(Picture) <= Len(boxes)
          BY <1>1, <4>1, EachItsBox
        <5> QED  BY <1>2, <1>3, <3>3, <3>4, <5>1
      <4>2. CASE Splittable # {}
        <5>1. ~(Len(boxes) < MaxColors)
          BY <3>3, <3>5, <4>2 DEF MoreToSplit
        <5> QED  BY <1>2, <3>4, <5>1
      <4> QED  BY <4>1, <4>2
    <3> QED  BY <3>1, <3>2, <3>3, <3>6
  <2> QED  BY <2>1, <2>2, <2>3
<1>5. PaletteTypeOK'
  BY <1>1, <1>4 DEF PaletteTypeOK
<1>6. Boxed'
  BY <1>1 DEF Boxed
<1>7. PaletteFilled'
  BY <1>1, <1>4 DEF PaletteFilled
<1> QED  BY <1>5, <1>6, <1>7 DEF PaletteInv

\* The invariant of the median cut: its types, an exact cover of the colours by boxes none of which
\* is empty, and as many boxes as entries at the most.
THEOREM PaletteInvariance ==
    ASSUME PaletteAssumption
    PROVE  PaletteSpec => []PaletteInv
<1>1. PaletteInit => PaletteInv
  <2> SUFFICES ASSUME PaletteInit
               PROVE  PaletteInv
    OBVIOUS
  <2>1. PICK P \in SUBSET Colours : counts \in [P -> Weights]
    BY DEF PaletteInit
  <2>2. Picture = P /\ boxes = <<P>> /\ palette = <<>>
    BY <2>1 DEF PaletteInit, Picture
  <2>3. Len(boxes) = 1 /\ DOMAIN boxes = {1} /\ boxes[1] = P
    BY <2>2
  <2>4. PaletteTypeOK
    BY <2>1, <2>2 DEF PaletteTypeOK
  <2>5. Boxed
    BY <2>2, <2>3 DEF Boxed, PaletteAssumption
  <2>6. PaletteFilled
    BY <2>2, <2>3 DEF PaletteFilled
  <2> QED  BY <2>4, <2>5, <2>6 DEF PaletteInv
<1>2. PaletteInv /\ [PaletteNext]_paletteVars => PaletteInv'
  <2> SUFFICES ASSUME PaletteInv, [PaletteNext]_paletteVars
               PROVE  PaletteInv'
    OBVIOUS
  <2>1. CASE SplitBox
    BY <2>1, SplitBoxStep
  <2>2. CASE MakePalette
    BY <2>2, MakePaletteStep
  <2>3. CASE UNCHANGED paletteVars
    BY <2>3 DEF paletteVars, PaletteInv, PaletteTypeOK, Boxed, PaletteFilled, Picture, NearestColor
  <2> QED  BY <2>1, <2>2, <2>3 DEF PaletteNext
<1> QED  BY <1>1, <1>2, PTL DEF PaletteSpec

\* The types of the median cut (qtanQuantizeEntries): boxes of the picture's colours, and entries
\* whose three means are bytes.
THEOREM PaletteTypeCorrect ==
    ASSUME PaletteAssumption
    PROVE  PaletteSpec => []PaletteTypeOK
<1>1. PaletteInv => PaletteTypeOK
  BY DEF PaletteInv
<1> QED  BY <1>1, PaletteInvariance, PTL

\* The boxes cover every colour once, and the palette leaves no entry unused that a colour of the
\* picture could have (qtanQuantizeEntries).
THEOREM PaletteFilledAlways ==
    ASSUME PaletteAssumption
    PROVE  PaletteSpec => []PaletteFilled
<1>1. PaletteInv => PaletteFilled
  BY DEF PaletteInv
<1> QED  BY <1>1, PaletteInvariance, PTL

-----------------------------------------------------------------------------
(* The small commands: ints, dice, days and pixels. *)

\* What fits an int is not wrapped, and what is wrapped fits.
LEMMA WrapIs ==
    ASSUME SmallAssumption, NEW n \in (-MaxInt - 1)..MaxInt
    PROVE  Wrap(n) = n
<1> DEFINE b == 2 * (MaxInt + 1)
           r == n + MaxInt + 1
<1>1. MaxInt \in Nat
  BY DEF SmallAssumption
<1>2. b \in Nat \ {0} /\ r \in 0..(b - 1) /\ r - MaxInt - 1 = n
  BY <1>1
<1>3. Wrap(n) = (r % b) - MaxInt - 1
  BY DEF Wrap
<1> HIDE DEF b, r
<1>4. (b * 0 + r) % b = r /\ b * 0 + r = r
  <2>1. (b * 0 + r) % b = r
    BY <1>2, DivisionUnique
  <2>2. b * 0 + r = r
    BY <1>2
  <2> QED  BY <2>1, <2>2
<1> QED  BY <1>2, <1>3, <1>4

LEMMA WrapIn ==
    ASSUME SmallAssumption, NEW n \in Int
    PROVE  Wrap(n) \in (-MaxInt - 1)..MaxInt
<1> DEFINE b == 2 * (MaxInt + 1)
           r == n + MaxInt + 1
           q == r % b
<1>1. MaxInt \in Nat /\ b \in Nat \ {0} /\ r \in Int
  BY DEF SmallAssumption
<1>2. Wrap(n) = q - MaxInt - 1
  BY DEF Wrap
<1>3. q \in 0..(b - 1)
  <2> HIDE DEF b, r
  <2> QED  BY <1>1
<1> HIDE DEF q
<1> QED  BY <1>1, <1>2, <1>3

\* The days are told apart by the time: a day comes from five to five.
LEMMA DayIs ==
    ASSUME SmallAssumption, NEW m, m.time \in Int
    PROVE  /\ DayOf(m) \in Int /\ offsetTime(m) \in 0..(Day - 1)
           /\ m.time = Five + Day * DayOf(m) + offsetTime(m)
<1> DEFINE a == m.time - Five
<1>1. Day \in Nat \ {0} /\ Five \in Int /\ a \in Int
  BY DEF SmallAssumption
<1>2. m.time = Five + a
  BY <1>1
<1>3. DayOf(m) = a \div Day /\ offsetTime(m) = a % Day
  BY DEF DayOf, offsetTime
<1> HIDE DEF a
<1> DEFINE q == a \div Day
           r == a % Day
<1>4. q \in Int /\ r \in 0..(Day - 1) /\ a = Day * q + r
  BY <1>1
<1> HIDE DEF q, r
<1> QED  BY <1>1, <1>2, <1>3, <1>4 DEF q, r

\* The days that a report counts are counted whole: it begins with one (StartOfReport).
LEMMA CountedIs ==
    ASSUME SmallAssumption, NEW now \in Int, NEW dayNum \in Int, NEW m, m.time \in Int
    PROVE  m.time >= StartOfReport(now, dayNum) <=> DayOf(m) >= (now \div Day) - dayNum
<1> DEFINE d == DayOf(m)
           r == offsetTime(m)
           s == (now \div Day) - dayNum
           D == Day
           F == Five
           t == m.time
<1>1. D \in Nat \ {0} /\ F \in 0..(D - 1) /\ t \in Int
  BY DEF SmallAssumption
<1>2. now \div Day \in Int
  BY <1>1
<1>3. d \in Int /\ r \in 0..(D - 1) /\ t = F + D * d + r
  BY DayIs
<1>4. StartOfReport(now, dayNum) = F + D * s /\ s \in Int
  <2> DEFINE q == now \div Day
  <2>1. StartOfReport(now, dayNum) = q * D + F - dayNum * D
    BY DEF StartOfReport
  <2>2. q \in Int
    BY <1>2
  <2> HIDE DEF q, D, F
  <2>3. q * D + F - dayNum * D = F + D * (q - dayNum) /\ q - dayNum \in Int
    BY <2>2, <1>1
  <2> QED  BY <2>1, <2>3 DEF q
<1> HIDE DEF d, r, s, D, F, t
<1>5. CASE d >= s
  <2>1. PICK e \in Nat : d = s + e
    <3>1. d - s \in Nat /\ d = s + (d - s)
      BY <1>3, <1>4, <1>5
    <3> QED  BY <3>1
  <2>2. D * d = D * s + D * e /\ D * e \in Nat /\ D * s \in Int
    BY <2>1, <1>1, <1>4
  <2> DEFINE x == D * d
             y == D * s
             z == D * e
  <2>3. x = y + z /\ z \in Nat /\ y \in Int /\ t = F + x + r
    BY <2>2, <1>3
  <2> HIDE DEF x, y, z
  <2>4. t >= F + y
    BY <2>3, <1>1, <1>3
  <2> QED  BY <2>4, <1>4, <1>5 DEF y, d, s, t
<1>6. CASE ~(d >= s)
  <2>1. PICK e \in Nat : s = d + 1 + e
    <3>1. s - d - 1 \in Nat /\ s = d + 1 + (s - d - 1)
      BY <1>3, <1>4, <1>6
    <3> QED  BY <3>1
  <2>2. D * s = D * d + D + D * e /\ D * e \in Nat /\ D * d \in Int
    BY <2>1, <1>1, <1>3
  <2> DEFINE x == D * d
             y == D * s
             z == D * e
  <2>3. y = x + D + z /\ z \in Nat /\ x \in Int /\ t = F + x + r
    BY <2>2, <1>3
  <2> HIDE DEF x, y, z
  <2>4. ~(t >= F + y)
    BY <2>3, <1>1, <1>3
  <2> QED  BY <2>4, <1>4, <1>6 DEF y, d, s, t
<1> QED  BY <1>5, <1>6

\* Later in the same day is nearer to its end (rankNightRows).
LEMMA LaterInDay ==
    ASSUME SmallAssumption, NEW m, NEW n, m.time \in Int, n.time \in Int,
           DayOf(m) = DayOf(n), n.time <= m.time
    PROVE  offsetTime(n) <= offsetTime(m)
<1> DEFINE x == Day * DayOf(m)
           r == offsetTime(m)
           s == offsetTime(n)
           t == m.time
           u == n.time
           F == Five
<1>1. F \in Int /\ Day \in Nat \ {0} /\ DayOf(m) \in Int
  BY DayIs DEF SmallAssumption
<1>2. x \in Int
  BY <1>1
<1>3. t = F + x + r /\ u = F + x + s /\ r \in Int /\ s \in Int /\ u <= t
  BY DayIs
<1> HIDE DEF x, r, s, t, u, F
<1>4. s <= r
  BY <1>1, <1>2, <1>3
<1> QED  BY <1>4 DEF r, s

\* Along an axis: inside the picture, symmetric, and the half that is kept stays.
LEMMA AlongIs ==
    ASSUME NEW half \in {"low", "high", "none"}, NEW size \in Nat, NEW at \in 0..(size - 1)
    PROVE  /\ Along(half, size, at) \in 0..(size - 1)
           /\ Along(half, size, Along(half, size, at)) = Along(half, size, at)
           /\ half # "none" => Along(half, size, size - 1 - at) = Along(half, size, at)
           /\ half = "none" => Along(half, size, at) = at
           /\ half = "low" /\ 2 * at <= size - 1 => Along(half, size, at) = at
           /\ half = "high" /\ 2 * at >= size - 1 => Along(half, size, at) = at
<1>1. CASE half = "low"
  BY <1>1 DEF Along, minInt
<1>2. CASE half = "high"
  BY <1>2 DEF Along, maxInt
<1>3. CASE half = "none"
  BY <1>3 DEF Along
<1> QED  BY <1>1, <1>2, <1>3

\* A mirrored picture: makeSymmetricStatic with mirroredSourcePoint.
LEMMA MirrorWhole ==
    ASSUME SmallAssumption, task \in Tasks, Mirror
    PROVE  MirrorIsSymmetric'
<1>1. /\ task' = task /\ task.key = "mirror"
      /\ answer' = Answered("text", [p \in Pixels(task) |-> mirroredSourcePoint(task, p[1], p[2])])
  BY DEF Mirror, New
<1> DEFINE w == task.width
           h == task.height
           a == task.mode[1]
           b == task.mode[2]
           P == (0..(w - 1)) \X (0..(h - 1))
           from == answer'.text
           Other(p) == <<IF a = "none" THEN p[1] ELSE w - 1 - p[1],
                         IF b = "none" THEN p[2] ELSE h - 1 - p[2]>>
           Keeps(half, size, at) == /\ half = "low" => 2 * at <= size - 1
                                    /\ half = "high" => 2 * at >= size - 1
<1>2. w \in Nat /\ h \in Nat /\ a \in {"low", "high", "none"} /\ b \in {"low", "high", "none"}
  BY <1>1 DEF SmallAssumption
<1>3. from = [p \in P |-> <<Along(a, w, p[1]), Along(b, h, p[2])>>]
  BY <1>1 DEF Answered, Empty, Pixels, mirroredSourcePoint
<1> SUFFICES Symmetric(task, from)
  BY <1>1 DEF MirrorIsSymmetric
<1> SUFFICES \A p \in P :
                /\ from[p] \in P /\ from[from[p]] = from[p] /\ from[Other(p)] = from[p]
                /\ Keeps(a, w, p[1]) /\ Keeps(b, h, p[2]) => from[p] = p
  BY DEF Symmetric, Pixels
<1> TAKE p \in P
<1> HIDE DEF w, h, a, b, from
<1> DEFINE x == p[1]
           y == p[2]
<1>4. x \in 0..(w - 1) /\ y \in 0..(h - 1) /\ p = <<x, y>>
  OBVIOUS
<1> HIDE DEF x, y
<1> DEFINE u == Along(a, w, x)
           v == Along(b, h, y)
<1>5. /\ u \in 0..(w - 1) /\ Along(a, w, u) = u
      /\ a # "none" => Along(a, w, w - 1 - x) = u
      /\ a = "none" => u = x
      /\ Keeps(a, w, x) => u = x
  BY <1>2, <1>4, AlongIs
<1>6. /\ v \in 0..(h - 1) /\ Along(b, h, v) = v
      /\ b # "none" => Along(b, h, h - 1 - y) = v
      /\ b = "none" => v = y
      /\ Keeps(b, h, y) => v = y
  BY <1>2, <1>4, AlongIs
<1> HIDE DEF Kept
<1>7. \A q \in 0..(w - 1), r \in 0..(h - 1) : <<q, r>> \in P /\ from[<<q, r>>] = <<Along(a, w, q), Along(b, h, r)>>
  BY <1>3
<1> DEFINE q == IF a = "none" THEN x ELSE w - 1 - x
           r == IF b = "none" THEN y ELSE h - 1 - y
<1>8. q \in 0..(w - 1) /\ r \in 0..(h - 1) /\ Along(a, w, q) = u /\ Along(b, h, r) = v
  BY <1>2, <1>4, <1>5, <1>6
<1>9. Other(p) = <<q, r>>
  BY DEF x, y
<1> HIDE DEF u, v, q, r, P, Other
<1>10. from[p] = <<u, v>>
  BY <1>4, <1>7 DEF u, v
<1>11. from[<<u, v>>] = <<u, v>> /\ <<u, v>> \in P /\ from[<<q, r>>] = <<u, v>>
  BY <1>5, <1>6, <1>7, <1>8
<1>12. Keeps(a, w, p[1]) /\ Keeps(b, h, p[2]) => <<u, v>> = p
  BY <1>4, <1>5, <1>6 DEF x, y
<1> QED  BY <1>9, <1>10, <1>11, <1>12

\* Two functions that go on from the same in the same way are the same.
LEMMA SameSums ==
    ASSUME NEW n \in Nat, NEW f, NEW g, f[0] = g[0],
           \A k \in 1..n : f[k - 1] = g[k - 1] => f[k] = g[k]
    PROVE  f[n] = g[n]
<1> DEFINE T == {k \in Nat : k <= n => f[k] = g[k]}
<1>1. 0 \in T
  OBVIOUS
<1>2. \A k \in T : k + 1 \in T
  <2> SUFFICES ASSUME NEW k \in T, k + 1 <= n
               PROVE  f[k + 1] = g[k + 1]
    OBVIOUS
  <2>0. k \in Nat /\ f[k] = g[k]
    OBVIOUS
  <2>1. PICK j \in 1..n : j = k + 1 /\ j - 1 = k
    BY <2>0
  <2> HIDE DEF T
  <2>2. f[j - 1] = g[j - 1]
    BY <2>0, <2>1
  <2>3. f[j] = g[j]
    BY <2>2
  <2> QED  BY <2>1, <2>3
<1> HIDE DEF T
<1>3. T = Nat
  <2>1. T \in SUBSET Nat
    BY DEF T
  <2> QED  BY <1>1, <1>2, <2>1, AllNumbers
<1> QED  BY <1>3 DEF T

\* The sum of a throw whose greatest total is an int is the sum of its dice.
LEMMA SumIs ==
    ASSUME SmallAssumption, NEW n \in Nat, NEW sides \in Nat, n * sides <= MaxInt,
           NEW dice \in [1..n -> 1..sides]
    PROVE  sum(dice) = Together(dice)
<1> DEFINE Is(f) == f = [k \in 0..n |-> IF k = 0 THEN 0 ELSE f[k - 1] + dice[k]]
           Wraps(f) == f = [k \in 0..n |-> IF k = 0 THEN 0 ELSE Wrap(f[k - 1] + dice[k])]
<1>1. dice \in [1..n -> Nat] /\ Len(dice) = n /\ MaxInt \in Nat
  BY DEF SmallAssumption
<1>2. PICK f \in [0..n -> Nat] : Is(f)
  BY <1>1, ClockExists
<1>3. f[0] = 0 /\ \A k \in 1..n : f[k] = f[k - 1] + dice[k]
  <2>1. f = [k \in 0..n |-> IF k = 0 THEN 0 ELSE f[k - 1] + dice[k]]
    BY <1>2
  <2>2. \A k \in 0..n : f[k] = IF k = 0 THEN 0 ELSE f[k - 1] + dice[k]
    BY <2>1
  <2>3. \A k \in 1..n : k \in 0..n /\ k # 0
    OBVIOUS
  <2>4. 0 \in 0..n
    OBVIOUS
  <2> QED  BY <2>2, <2>3, <2>4
<1>4. \A k \in 1..n : f[k] \in Nat /\ f[k] <= MaxInt
  <2> DEFINE most == [k \in Nat |-> k * sides]
             T == {k \in Nat : k <= n => f[k] <= most[k]}
  <2>0. most[0] = 0 /\ \A k \in Nat : most[k] \in Nat /\ most[k + 1] = most[k] + sides
    <3>1. 0 * sides = 0 /\ \A k \in Nat : k * sides \in Nat /\ (k + 1) * sides = k * sides + sides
      OBVIOUS
    <3>2. \A k \in Nat : k + 1 \in Nat /\ most[k] = k * sides
      OBVIOUS
    <3> HIDE DEF most
    <3> QED  BY <3>1, <3>2
  <2> HIDE DEF most, Is, Wraps
  <2>1. 0 \in T
    <3>1. f[0] = 0 /\ most[0] = 0
      BY <1>3, <2>0
    <3>2. f[0] <= most[0] /\ 0 \in Nat
      BY <3>1
    <3> QED  BY <3>2
  <2>2. \A k \in T : k + 1 \in T
    <3> TAKE k \in T
    <3>0. k \in Nat /\ (k <= n => f[k] <= most[k])
      OBVIOUS
    <3>1. ASSUME k + 1 <= n
          PROVE  f[k + 1] <= most[k + 1]
      <4>1. PICK j \in 1..n : j = k + 1 /\ j - 1 = k
        BY <3>0, <3>1
      <4>2. f[j] = f[k] + dice[j] /\ f[k] \in Nat /\ dice[j] \in 1..sides
        BY <1>3, <4>1
      <4>3. most[k + 1] = most[k] + sides /\ most[k] \in Nat /\ f[k] <= most[k]
        BY <2>0, <3>0, <3>1
      <4> DEFINE x == f[k]
                 y == dice[j]
                 z == most[k]
      <4>4. x \in Nat /\ y \in 1..sides /\ z \in Nat /\ x <= z
        BY <4>2, <4>3
      <4> HIDE DEF x, y, z
      <4>5. x + y <= z + sides
        BY <4>4
      <4> QED  BY <4>1, <4>2, <4>3, <4>5 DEF x, y, z
    <3>2. k + 1 \in Nat /\ (k + 1 <= n => f[k + 1] <= most[k + 1])
      BY <3>0, <3>1
    <3> QED  BY <3>2
  <2> HIDE DEF T
  <2>3. T = Nat
    <3>1. T \in SUBSET Nat
      BY DEF T
    <3> QED  BY <2>1, <2>2, <3>1, AllNumbers
  <2> TAKE k \in 1..n
  <2>4. k \in T /\ f[k] \in Nat /\ k \in Nat /\ k <= n
    BY <2>3
  <2>5. f[k] <= k * sides
    <3>1. f[k] <= most[k]
      BY <2>4 DEF T
    <3>2. most[k] = k * sides
      BY <2>4 DEF most
    <3> QED  BY <3>1, <3>2
  <2>6. PICK e \in Nat : n = k + e
    <3>1. n - k \in Nat /\ n = k + (n - k)
      OBVIOUS
    <3> QED  BY <3>1
  <2>7. n * sides = k * sides + e * sides /\ e * sides \in Nat /\ k * sides \in Nat
    BY <2>6
  <2> DEFINE x == k * sides
             y == e * sides
             z == f[k]
             v == n * sides
  <2>8. v = x + y /\ x \in Nat /\ y \in Nat /\ z \in Nat /\ z <= x /\ v <= MaxInt
    BY <2>4, <2>5, <2>7
  <2> HIDE DEF x, y, z, v
  <2>9. z <= MaxInt
    BY <2>8, <1>1
  <2> QED  BY <2>4, <2>9 DEF z
<1>5. \A k \in 1..n : Wrap(f[k]) = f[k]
  <2> TAKE k \in 1..n
  <2>1. f[k] \in (-MaxInt - 1)..MaxInt
    BY <1>1, <1>4
  <2> QED  BY <2>1, WrapIs
<1>6. Wraps(f)
  <2>1. \A k \in 0..n : f[k] = IF k = 0 THEN 0 ELSE Wrap(f[k - 1] + dice[k])
    <3> TAKE k \in 0..n
    <3>1. k # 0 => k \in 1..n
      OBVIOUS
    <3> QED  BY <3>1, <1>3, <1>5
  <2> QED  BY <2>1
<1>7. sum(dice) = (CHOOSE g : Wraps(g))[n]
  BY <1>1 DEF sum
<1>8. Together(dice) = (CHOOSE g : Is(g))[n]
  BY <1>1 DEF Together
<1> DEFINE g == CHOOSE g : Wraps(g)
           h == CHOOSE h : Is(h)
<1>9. Wraps(g) /\ Is(h)
  BY <1>2, <1>6
<1> HIDE DEF g, h
<1>10. \A k \in 1..n : k - 1 \in 0..n /\ k \in 0..n /\ k # 0
  OBVIOUS
<1>11. 0 \in 0..n
  OBVIOUS
<1>12. g[0] = 0 /\ \A k \in 1..n : g[k] = Wrap(g[k - 1] + dice[k])
  BY <1>9, <1>10, <1>11
<1>13. h[0] = 0 /\ \A k \in 1..n : h[k] = h[k - 1] + dice[k]
  BY <1>9, <1>10, <1>11
<1>14. h[n] = f[n]
  <2>1. \A k \in 1..n : h[k - 1] = f[k - 1] => h[k] = f[k]
    BY <1>3, <1>13
  <2>2. h[0] = f[0]
    BY <1>3, <1>13
  <2> HIDE DEF Is, Wraps
  <2> QED  BY <2>1, <2>2, SameSums
<1>15. \A k \in 1..n : f[k] = Wrap(f[k - 1] + dice[k])
  BY <1>3, <1>5
<1>16. g[n] = f[n]
  <2>1. \A k \in 1..n : g[k - 1] = f[k - 1] => g[k] = f[k]
    BY <1>12, <1>15
  <2>2. g[0] = f[0]
    BY <1>3, <1>12
  <2> HIDE DEF Is, Wraps
  <2> QED  BY <2>1, <2>2, SameSums
<1> QED  BY <1>7, <1>8, <1>14, <1>16 DEF g, h

\* A throw of dice: handleDiceCommand.
LEMMA DiceWhole ==
    ASSUME SmallAssumption, task \in Tasks, Dice
    PROVE  DiceAddUp'
<1>1. task' = task /\ task.key = "dice"
  BY DEF Dice, New
<1>2. task.count \in Int /\ task.sides \in Int
  BY <1>1 DEF SmallAssumption
<1> SUFFICES ASSUME answer'.at = "answered", task.count * task.sides <= MaxInt
             PROVE  LET dice == Front(answer'.text)
                    IN  Len(dice) = task.count /\ Last(answer'.text) = Together(dice)
  BY <1>1 DEF DiceAddUp, Together
<1>3. answer' # Hint
  BY DEF Hint, Empty
<1>4. /\ task.count >= 1 /\ task.sides >= 1
      /\ \E results \in [1..task.count -> 1..task.sides] :
             answer' = Answered("text", results \o <<sum(results)>>)
  BY <1>2, <1>3 DEF Dice
<1> DEFINE n == task.count
           s == task.sides
<1>5. PICK results \in [1..n -> 1..s] : answer' = Answered("text", results \o <<sum(results)>>)
  BY <1>4
<1>6. n \in Nat /\ s \in Nat /\ n * s <= MaxInt
  BY <1>2, <1>4
<1>7. answer'.text = results \o <<sum(results)>>
  BY <1>5 DEF Answered, Empty
<1> HIDE DEF n, s
<1>8. sum(results) = Together(results)
  BY <1>6, SumIs
<1> DEFINE total == sum(results)
           text == results \o <<total>>
<1>9. results \in Seq(1..s) /\ Len(results) = n
  BY <1>6
<1> HIDE DEF total
<1>10. Len(text) = n + 1 /\ text[n + 1] = total /\ SubSeq(text, 1, n) = results
  <2>1. results \in Seq(Int \cup {total}) /\ total \in Int \cup {total}
    BY <1>6
  <2>2. /\ Len(text) = n + 1 /\ text[n + 1] = total
        /\ \A k \in 1..n : text[k] = results[k]
    BY <1>6, <1>9, <2>1
  <2>3. SubSeq(text, 1, n) = [k \in 1..n |-> text[k]]
    BY <1>6, <2>1, <2>2
  <2> QED  BY <2>2, <2>3
<1>11. Front(text) = results /\ Last(text) = total
  <2>1. n + 1 - 1 = n
    BY <1>6
  <2> QED  BY <1>10, <2>1 DEF Front, Last
<1> QED  BY <1>7, <1>8, <1>9, <1>11 DEF total, n

-----------------------------------------------------------------------------
(* The report: rankings, and five statements with other goroutines between them. *)

\* The greatest of a table of values: they are of the table and each but once, the greatest
\* first, and one is left out only for greater ones and where there are MaxRanks.
LEMMA RankedIs ==
    ASSUME SmallAssumption, NEW value, IsFiniteSet(DOMAIN value), NEW rank \in Ranked(value)
    PROVE  /\ Len(rank) \in Nat /\ DOMAIN rank = 1..Len(rank)
           /\ \A k \in DOMAIN rank : rank[k] \in DOMAIN value
           /\ \A j, k \in DOMAIN rank : j # k => rank[j] # rank[k]
           /\ \A j, k \in DOMAIN rank : j < k => value[rank[j]] >= value[rank[k]]
           /\ \A left \in DOMAIN value :
                  \/ \E j \in DOMAIN rank : rank[j] = left
                  \/ /\ Len(rank) = MaxRanks
                     /\ \A k \in DOMAIN rank : value[rank[k]] >= value[left]
<1> DEFINE D == DOMAIN value
           d == Cardinality(D)
           Size == minInt(MaxRanks, d)
<1>1. /\ rank \in UNION {SetToSeqs(T) : T \in kSubset(Size, D)}
      /\ \A j, k \in DOMAIN rank : j < k => value[rank[j]] >= value[rank[k]]
      /\ \A k \in DOMAIN rank, left \in D : left \in Range(rank) \/ value[rank[k]] >= value[left]
  BY DEF Ranked
<1>2. PICK T \in kSubset(Size, D) : rank \in SetToSeqs(T)
  BY <1>1
<1>3. T \in SUBSET D /\ Cardinality(T) = Size
  BY <1>2 DEF kSubset
<1> DEFINE n == Cardinality(T)
<1>4. rank \in [1..n -> T] /\ \A i, j \in 1..n : i # j => rank[i] # rank[j]
  BY <1>2 DEF SetToSeqs
<1>5. IsFiniteSet(T) /\ n \in Nat /\ d \in Nat /\ MaxRanks \in Nat /\ (d = n => D = T)
  BY <1>3, FS_Subset, FS_CardinalityType DEF SmallAssumption
<1>6. \A left \in Range(rank) : \E j \in DOMAIN rank : rank[j] = left
  BY DEF Range
<1>7. \A t \in T : \E j \in 1..n : rank[j] = t
  <2>1. rank \in Injection(1..n, T)
    BY <1>4 DEF Injection, IsInjective
  <2>2. Cardinality(1..n) = n
    BY <1>5, FS_Interval
  <2> HIDE DEF n
  <2>3. rank \in Surjection(1..n, T)
    BY <1>5, <2>1, <2>2, FS_Injection DEF n
  <2> QED  BY <2>3 DEF Surjection
<1> HIDE DEF n, d, D
<1>8. Len(rank) = n /\ DOMAIN rank = 1..n
  BY <1>4, <1>5
<1>9. ASSUME NEW left \in D, \A j \in DOMAIN rank : rank[j] # left
      PROVE  Len(rank) = MaxRanks /\ \A k \in DOMAIN rank : value[rank[k]] >= value[left]
  <2>1. left \notin T
    BY <1>7, <1>8, <1>9
  <2>2. d # n
    BY <1>5, <2>1
  <2>3. n = MaxRanks
    BY <1>3, <1>5, <2>2 DEF minInt, n
  <2> QED  BY <1>1, <1>6, <1>8, <1>9, <2>3
<1> QED  BY <1>1, <1>3, <1>4, <1>5, <1>8, <1>9 DEF D

\* As many pairs as rows.
LEMMA PairsFinite ==
    ASSUME NEW rows, IsFiniteSet(rows)
    PROVE  IsFiniteSet(ByDay(rows)) /\ IsFiniteSet(ByUser(rows))
<1>1. [m \in rows |-> <<DayOf(m), m>>] \in Surjection(rows, ByDay(rows))
  BY DEF Surjection, ByDay
<1>2. [m \in rows |-> <<m.at, m>>] \in Surjection(rows, ByUser(rows))
  BY DEF Surjection, ByUser
<1> QED  BY <1>1, <1>2, FS_Surjection

\* The pairs of one key.
Under(pairs, key) == {p \in pairs : p[1] = key}

\* What a ranking counts are numbers.
Counts(tops) == DOMAIN tops = 1..Len(tops) /\ \A k \in DOMAIN tops : tops[k][2] \in Nat

\* The rankings of the report (GROUP BY, ORDER BY, LIMIT), seen from any earlier table.
LEMMA TopsCorrect ==
    ASSUME SmallAssumption, NEW now, IsFiniteSet(now), NEW before \in SUBSET now, NEW tops \in Tops(now)
    PROVE  TopsBetween(tops, before, now) /\ Counts(tops)
<1> DEFINE keys == {p[1] : p \in now}
           value == Tally(now)
<1>1. PICK rank \in Ranked(value) : tops = [k \in DOMAIN rank |-> <<rank[k], value[rank[k]]>>]
  BY DEF Tops
<1>2. DOMAIN value = keys /\ \A key \in keys : value[key] = Cardinality(Under(now, key))
  BY DEF Tally, Under
<1>3. IsFiniteSet(keys)
  <2>1. [p \in now |-> p[1]] \in Surjection(now, keys)
    BY DEF Surjection
  <2> HIDE DEF keys
  <2> QED  BY <2>1, FS_Surjection
<1>4. \A key : /\ IsFiniteSet(Under(now, key)) /\ IsFiniteSet(Under(before, key))
               /\ Cardinality(Under(now, key)) \in Nat /\ Cardinality(Under(before, key)) \in Nat
               /\ Cardinality(Under(before, key)) <= Cardinality(Under(now, key))
  <2> TAKE key
  <2>1. Under(now, key) \in SUBSET now /\ Under(before, key) \in SUBSET Under(now, key)
    BY DEF Under
  <2>2. IsFiniteSet(Under(now, key))
    BY <2>1, FS_Subset
  <2> QED  BY <2>1, <2>2, FS_Subset, FS_CardinalityType
<1>5. \A key \in keys : Cardinality(Under(now, key)) > 0
  <2> TAKE key \in keys
  <2>1. Under(now, key) # {}
    BY DEF Under
  <2>2. Cardinality(Under(now, key)) # 0
    BY <1>4, <2>1, FS_EmptySet
  <2> QED  BY <1>4, <2>2
<1>6. \A p \in before : p[1] \in keys
  OBVIOUS
<1> HIDE DEF keys, value
<1>7. /\ Len(rank) \in Nat /\ DOMAIN rank = 1..Len(rank)
      /\ \A k \in DOMAIN rank : rank[k] \in keys
      /\ \A j, k \in DOMAIN rank : j # k => rank[j] # rank[k]
      /\ \A j, k \in DOMAIN rank : j < k => value[rank[j]] >= value[rank[k]]
      /\ \A left \in keys :
             \/ \E j \in DOMAIN rank : rank[j] = left
             \/ /\ Len(rank) = MaxRanks
                /\ \A k \in DOMAIN rank : value[rank[k]] >= value[left]
  BY <1>1, <1>2, <1>3, RankedIs
<1>8. /\ DOMAIN tops = 1..Len(rank) /\ Len(tops) = Len(rank)
      /\ \A k \in DOMAIN rank : tops[k][1] = rank[k] /\ tops[k][2] = value[rank[k]]
  BY <1>1, <1>7
<1>9. ASSUME NEW k \in DOMAIN tops
      PROVE  /\ tops[k][2] \in Nat /\ 0 < tops[k][2]
             /\ Cardinality(Under(before, tops[k][1])) <= tops[k][2]
             /\ tops[k][2] <= Cardinality(Under(now, tops[k][1]))
             /\ \A j \in 1..(k - 1) : tops[j][1] # tops[k][1] /\ tops[j][2] >= tops[k][2]
  <2>1. k \in DOMAIN rank /\ rank[k] \in keys /\ value[rank[k]] = Cardinality(Under(now, rank[k]))
    BY <1>2, <1>7, <1>8
  <2>2. \A j \in 1..(k - 1) : j \in DOMAIN rank /\ j < k /\ j # k
    BY <1>7, <1>8
  <2> DEFINE key == rank[k]
  <2>3. tops[k][1] = key /\ tops[k][2] = value[key] /\ key \in keys
    BY <1>8, <2>1
  <2>4. \A j \in 1..(k - 1) : /\ tops[j][1] = rank[j] /\ tops[j][2] = value[rank[j]]
                             /\ rank[j] # key /\ value[rank[j]] >= value[key]
    BY <1>7, <1>8, <2>1, <2>2
  <2> HIDE DEF key
  <2>5. value[key] = Cardinality(Under(now, key)) /\ value[key] > 0 /\ value[key] \in Nat
    BY <1>2, <1>4, <1>5, <2>3
  <2>6. tops[k][2] \in Nat /\ 0 < tops[k][2] /\ tops[k][2] <= Cardinality(Under(now, key))
    BY <1>4, <2>3, <2>5
  <2>7. Cardinality(Under(before, key)) <= tops[k][2]
    BY <1>4, <2>3, <2>5
  <2> QED  BY <2>3, <2>4, <2>6, <2>7
<1>10. ASSUME NEW p \in before, \A k \in DOMAIN tops : tops[k][1] # p[1]
       PROVE  /\ Len(tops) = MaxRanks
              /\ \A k \in DOMAIN tops : tops[k][2] >= Cardinality(Under(before, p[1]))
  <2> DEFINE key == p[1]
  <2>1. key \in keys /\ value[key] = Cardinality(Under(now, key))
    BY <1>2, <1>6
  <2>2. \A k \in DOMAIN rank : rank[k] # key
    BY <1>7, <1>8, <1>10
  <2> HIDE DEF key
  <2>3. Len(rank) = MaxRanks /\ \A k \in DOMAIN rank : value[rank[k]] >= value[key]
    BY <1>7, <2>1, <2>2
  <2>4. \A k \in DOMAIN tops : tops[k][2] >= Cardinality(Under(now, key)) /\ tops[k][2] \in Nat
    BY <1>7, <1>8, <1>9, <2>1, <2>3
  <2>5. \A k \in DOMAIN tops : tops[k][2] >= Cardinality(Under(before, key))
    BY <1>4, <2>4
  <2> QED  BY <1>8, <2>3, <2>5 DEF key
<1> QED  BY <1>8, <1>9, <1>10 DEF TopsBetween, Counts, Under

\* Rows that are stored later leave a ranking what it was.
LEMMA TopsLater ==
    ASSUME NEW tops, NEW before, NEW now, NEW later, IsFiniteSet(later), now \subseteq later,
           TopsBetween(tops, before, now), Counts(tops)
    PROVE  TopsBetween(tops, before, later)
<1>1. \A key : /\ Cardinality(Under(now, key)) \in Nat /\ Cardinality(Under(later, key)) \in Nat
               /\ Cardinality(Under(now, key)) <= Cardinality(Under(later, key))
  <2> TAKE key
  <2>1. Under(later, key) \in SUBSET later /\ Under(now, key) \in SUBSET Under(later, key)
    BY DEF Under
  <2>2. IsFiniteSet(Under(later, key))
    BY <2>1, FS_Subset
  <2> QED  BY <2>1, <2>2, FS_Subset, FS_CardinalityType
<1>2. \A k \in DOMAIN tops : tops[k][2] \in Nat /\ tops[k][2] <= Cardinality(Under(now, tops[k][1]))
  BY DEF TopsBetween, Counts, Under
<1>3. \A k \in DOMAIN tops : tops[k][2] <= Cardinality(Under(later, tops[k][1]))
  BY <1>1, <1>2
<1> QED  BY <1>3 DEF TopsBetween, Under

\* What is ranked was there.
LEMMA TopsAreThere ==
    ASSUME NEW tops, NEW before, NEW now, TopsBetween(tops, before, now), Counts(tops), NEW k \in DOMAIN tops
    PROVE  \E p \in now : p[1] = tops[k][1]
<1>1. 0 < tops[k][2] /\ tops[k][2] <= Cardinality(Under(now, tops[k][1])) /\ tops[k][2] \in Nat
  BY DEF TopsBetween, Counts, Under
<1>2. Under(now, tops[k][1]) # {}
  BY <1>1, FS_EmptySet
<1> QED  BY <1>2 DEF Under

\* The nights: the last message of a day comes nearest to its end.
LEMMA NightsCorrect ==
    ASSUME SmallAssumption, NEW now, IsFiniteSet(now), \A m \in now : m.time \in Int,
           NEW before \in SUBSET now, NEW nights \in LastOfDays(now),
           NEW latest \in Ranked([m \in nights |-> offsetTime(m)])
    PROVE  /\ NightsBetween(latest, before, now)
           /\ \A m \in now : \/ Len(latest) = MaxRanks
                             \/ \E k \in DOMAIN latest : DayOf(latest[k]) = DayOf(m)
<1> DEFINE offset == [m \in nights |-> offsetTime(m)]
           Of(m) == {l \in nights : DayOf(l) = DayOf(m)}
<1>1. nights \subseteq now /\ \A n \in now : \E m \in nights : Of(n) = {m} /\ n.time <= m.time
  BY DEF LastOfDays
<1>2. DOMAIN offset = nights /\ IsFiniteSet(nights)
  BY <1>1, FS_Subset
<1>3. latest \in Ranked(offset)
  OBVIOUS
<1>4. \A m \in nights : offset[m] = offsetTime(m)
  OBVIOUS
<1> HIDE DEF offset
<1>5. /\ Len(latest) \in Nat /\ DOMAIN latest = 1..Len(latest)
      /\ \A k \in DOMAIN latest : latest[k] \in nights
      /\ \A j, k \in DOMAIN latest : j # k => latest[j] # latest[k]
      /\ \A left \in nights :
             \/ \E j \in DOMAIN latest : latest[j] = left
             \/ /\ Len(latest) = MaxRanks
                /\ \A k \in DOMAIN latest : offset[latest[k]] >= offset[left]
  BY <1>2, <1>3, RankedIs
<1>6. \A m \in now : m.time \in Int /\ DayOf(m) \in Int /\ offsetTime(m) \in Int
  <2> TAKE m \in now
  <2>1. m.time \in Int
    OBVIOUS
  <2> QED  BY <2>1, DayIs
<1>7. ASSUME NEW k \in DOMAIN latest
      PROVE  /\ latest[k] \in now
             /\ \A m \in before : DayOf(m) = DayOf(latest[k]) => m.time <= latest[k].time
             /\ \A j \in 1..(k - 1) : DayOf(latest[j]) # DayOf(latest[k])
  <2> DEFINE l == latest[k]
  <2>1. l \in nights /\ l \in now /\ l \in Of(l)
    BY <1>1, <1>5
  <2>2. PICK n \in nights : Of(l) = {n}
    BY <1>1, <2>1
  <2>3. Of(l) = {l}
    BY <2>1, <2>2
  <2>4. ASSUME NEW m \in before, DayOf(m) = DayOf(l)
        PROVE  m.time <= l.time
    <3>1. PICK o \in nights : Of(m) = {o} /\ m.time <= o.time
      BY <1>1
    <3>2. o = l
      BY <2>3, <2>4, <3>1
    <3> QED  BY <3>1, <3>2
  <2>5. ASSUME NEW j \in 1..(k - 1)
        PROVE  DayOf(latest[j]) # DayOf(l)
    <3>1. j \in DOMAIN latest /\ j # k
      BY <1>5
    <3>2. latest[j] \in nights /\ latest[j] # l
      BY <1>5, <3>1
    <3> QED  BY <2>3, <3>2
  <2> QED  BY <2>1, <2>4, <2>5
<1>8. ASSUME NEW m \in now, \A k \in DOMAIN latest : DayOf(latest[k]) # DayOf(m)
      PROVE  /\ Len(latest) = MaxRanks
             /\ \A k \in DOMAIN latest : offsetTime(latest[k]) >= offsetTime(m)
  <2>1. PICK n \in nights : Of(m) = {n} /\ m.time <= n.time
    BY <1>1
  <2>2. n \in now /\ DayOf(n) = DayOf(m) /\ n.time \in Int /\ m.time \in Int
    BY <1>1, <1>6, <2>1
  <2>3. offsetTime(m) <= offsetTime(n)
    BY <2>1, <2>2, LaterInDay
  <2>4. \A j \in DOMAIN latest : latest[j] # n
    BY <1>8, <2>2
  <2>5. Len(latest) = MaxRanks /\ \A k \in DOMAIN latest : offset[latest[k]] >= offset[n]
    BY <1>5, <2>4
  <2>6. ASSUME NEW k \in DOMAIN latest
        PROVE  offsetTime(latest[k]) >= offsetTime(m)
    <3>1. latest[k] \in nights /\ latest[k] \in now
      BY <1>1, <1>5
    <3>2. offset[latest[k]] = offsetTime(latest[k]) /\ offset[n] = offsetTime(n)
      BY <1>4, <3>1
    <3>3. offsetTime(latest[k]) >= offsetTime(n)
      BY <2>5, <3>2
    <3>4. offsetTime(latest[k]) \in Int /\ offsetTime(n) \in Int /\ offsetTime(m) \in Int
      BY <1>6, <2>2, <3>1
    <3> DEFINE x == offsetTime(latest[k])
               y == offsetTime(n)
               z == offsetTime(m)
    <3>5. x >= y /\ z <= y /\ x \in Int /\ y \in Int /\ z \in Int
      BY <2>3, <3>3, <3>4
    <3> HIDE DEF x, y, z
    <3>6. x >= z
      BY <3>5
    <3> QED  BY <3>6 DEF x, z
  <2> QED  BY <2>5, <2>6
<1> HIDE DEF Of
<1>9. NightsBetween(latest, before, now)
  <2>1. \A m \in before : m \in now
    OBVIOUS
  <2> QED  BY <1>7, <1>8, <2>1 DEF NightsBetween
<1> QED  BY <1>8, <1>9

LEMMA NightsLater ==
    ASSUME NEW latest, NEW before, NEW now, NEW later, now \subseteq later,
           NightsBetween(latest, before, now)
    PROVE  NightsBetween(latest, before, later)
BY DEF NightsBetween

\* An answer has its five parts.
Shaped ==
    answer = [at |-> answer.at, faces |-> answer.faces, stickers |-> answer.stickers,
              text |-> answer.text, urls |-> answer.urls]

\* What a command does to its task and to the table, and which action is whose.
ReportStep == CountMessages \/ NameGroup \/ RankDays \/ RankNights \/ RankAtted
LEMMA OnlyItsOwn ==
    ASSUME SmallNext
    PROVE  /\ task' = task
           /\ task.key # "report" => table' = table /\ seen' = seen
           /\ \/ QueryErr
              \/ /\ task.key = "dice" => Dice
                 /\ task.key = "report" => ReportStep \/ MessageStored \/ MentionStored
                 /\ task.key = "mirror" => Mirror
                 /\ task.key = "send" => Send
                 /\ task.key = "send_json" => SendJSON
                 /\ task.key = "json" => JSON
                 /\ task.key = "faceid" => FaceID \/ AddFace
<1> DEFINE SameRows == table' = table /\ seen' = seen
           Of(key) == task' = task /\ SameRows /\ task.key = key
           Others == {"allface", "sendallface", "face", "getfaceid", "file", "generate", "text"}
           Reports == task' = task /\ task.key = "report"
<1>1. QueryErr => task' = task /\ SameRows
  BY DEF QueryErr
<1>2. Dice => Of("dice")
  BY DEF Dice, New
<1>3. FaceID \/ AddFace => Of("faceid")
  BY DEF FaceID, AddFace, New
<1>4. Mirror => Of("mirror")
  BY DEF Mirror, New
<1>5. (Send => Of("send")) /\ (SendJSON => Of("send_json")) /\ (JSON => Of("json"))
  BY DEF Send, SendJSON, JSON, New
<1>6. ReportStep => Reports
  BY DEF ReportStep, CountMessages, NameGroup, RankDays, RankNights, RankAtted, New
<1>7. MessageStored \/ MentionStored => Reports
  BY DEF MessageStored, MentionStored
<1>8. (AllFaces => Of("allface")) /\ (SendAllFaces => Of("sendallface")) /\ (Face => Of("face"))
  BY DEF AllFaces, SendAllFaces, Face, New
<1>9. (GetFaceID => Of("getfaceid")) /\ (GetLikes => Of("getfaceid"))
  BY DEF GetFaceID, GetLikes, New
<1>10. (File => Of("file")) /\ (Prompt => Of("generate")) /\ (GenerateImage => Of("generate"))
  BY DEF File, Prompt, GenerateImage, New
<1>11. SendText => Of("text")
  BY DEF SendText, New
<1> HIDE DEF SameRows
<1> DEFINE Other == task' = task /\ SameRows /\ task.key \in Others
<1>12. /\ AllFaces \/ SendAllFaces \/ Face \/ GetFaceID \/ GetLikes => Other
       /\ File \/ Prompt \/ GenerateImage \/ SendText => Other
  BY <1>8, <1>9, <1>10, <1>11
<1>13. \/ QueryErr \/ Dice \/ FaceID \/ AddFace \/ Mirror \/ Send \/ SendJSON \/ JSON
       \/ ReportStep \/ MessageStored \/ MentionStored \/ Other
  BY <1>12, Zenon DEF SmallNext, ReportStep
<1>14. task' = task
  BY <1>1, <1>2, <1>3, <1>4, <1>5, <1>6, <1>7, <1>13
<1>15. task.key # "report" => SameRows
  BY <1>1, <1>2, <1>3, <1>4, <1>5, <1>6, <1>7, <1>13
<1>16. Other => task.key \notin {"dice", "report", "mirror", "send", "send_json", "json", "faceid"}
  OBVIOUS
<1> HIDE DEF Other
<1> QED  BY <1>2, <1>3, <1>4, <1>5, <1>6, <1>7, <1>13, <1>14, <1>15, <1>16 DEF SameRows

\* The table of a report, and what it has been told so far: its first statement saw what was there
\* before, the others saw it with what has been stored since.
TablesShaped ==
    /\ table = [messages |-> table.messages, mentions |-> table.mentions]
    /\ seen = [messages |-> seen.messages, mentions |-> seen.mentions]
Stages == {"group", "days", "nights", "atted"}
ReportSoFar ==
    task.key = "report" =>
        LET report == answer.text
            before == Reported(seen.messages)
            now == Reported(table.messages)
        IN  /\ answer.at \in {"running", "answered", "hint", "failed"} \cup Stages
            /\ answer.at = "running" => answer = Empty
            /\ answer.at \in Stages =>
                   /\ report = [total |-> report.total, days |-> report.days,
                                latest |-> report.latest, atted |-> report.atted]
                   /\ report.total = Cardinality(before)
            /\ answer.at \in {"nights", "atted"} =>
                   TopsBetween(report.days, ByDay(before), ByDay(now)) /\ Counts(report.days)
            /\ answer.at = "atted" =>
                   /\ NightsBetween(report.latest, before, now)
                   /\ \A k \in DOMAIN report.days :
                          \/ Len(report.latest) = MaxRanks
                          \/ \E j \in DOMAIN report.latest : DayOf(report.latest[j]) = report.days[k][1]

\* The rows of a report are counted by whole days, and they are finitely many.
LEMMA RowsOfReport ==
    ASSUME SmallAssumption, SmallTypeOK, task.key = "report", NEW rows \in SUBSET task.messages
    PROVE  /\ Counted(rows) = Reported(rows)
           /\ IsFiniteSet(rows) /\ IsFiniteSet(Reported(rows)) /\ Cardinality(Reported(rows)) \in Nat
           /\ IsFiniteSet(ByDay(Reported(rows))) /\ IsFiniteSet(ByUser(Reported(rows)))
           /\ \A m \in rows : m.time \in Int
           /\ \A before \in SUBSET rows :
                  /\ Reported(before) \in SUBSET Reported(rows)
                  /\ ByDay(Reported(before)) \in SUBSET ByDay(Reported(rows))
                  /\ ByUser(Reported(before)) \in SUBSET ByUser(Reported(rows))
<1>1. /\ task.now \in Int /\ task.dayNum \in Int /\ IsFiniteSet(task.messages)
      /\ \A m \in task.messages : m.time \in Int
  BY DEF SmallTypeOK, SmallAssumption
<1>2. \A m \in rows : m.time >= StartOfReport(task.now, task.dayNum) <=> DayOf(m) >= (task.now \div Day) - task.dayNum
  BY <1>1, CountedIs
<1>3. Counted(rows) = Reported(rows)
  BY <1>2 DEF Counted, Reported
<1>4. IsFiniteSet(rows)
  BY <1>1, FS_Subset
<1>5. Reported(rows) \in SUBSET rows
  BY DEF Reported
<1>6. IsFiniteSet(Reported(rows)) /\ Cardinality(Reported(rows)) \in Nat
  BY <1>4, <1>5, FS_Subset, FS_CardinalityType
<1>7. IsFiniteSet(ByDay(Reported(rows))) /\ IsFiniteSet(ByUser(Reported(rows)))
  BY <1>6, PairsFinite
<1>8. ASSUME NEW before \in SUBSET rows
      PROVE  /\ Reported(before) \in SUBSET Reported(rows)
             /\ ByDay(Reported(before)) \in SUBSET ByDay(Reported(rows))
             /\ ByUser(Reported(before)) \in SUBSET ByUser(Reported(rows))
  <2>1. Reported(before) \in SUBSET Reported(rows)
    BY DEF Reported
  <2> QED  BY <2>1 DEF ByDay, ByUser
<1> QED  BY <1>1, <1>3, <1>4, <1>6, <1>7, <1>8

\* Other goroutines store rows and the table only grows.
LEMMA TableGrows ==
    ASSUME SmallAssumption, SmallTypeOK, TablesShaped, MessageStored \/ MentionStored
    PROVE  /\ TablesShaped' /\ task' = task /\ id' = id /\ answer' = answer /\ seen' = seen
           /\ task.key = "report" /\ answer.at \in Statements
           /\ table.messages \subseteq table'.messages /\ table'.messages \subseteq task.messages
           /\ table.mentions \subseteq table'.mentions
           /\ table'.mentions \subseteq {m \in table'.messages : m.at # None}
<1>1. /\ task' = task /\ id' = id /\ answer' = answer /\ seen' = seen
      /\ task.key = "report" /\ answer.at \in Statements
  BY DEF MessageStored, MentionStored
<1>2. /\ table.messages \subseteq task.messages
      /\ table.mentions \subseteq {m \in table.messages : m.at # None}
      /\ table = [messages |-> table.messages, mentions |-> table.mentions]
  BY <1>1 DEF SmallTypeOK, TablesShaped
<1>3. CASE MessageStored
  <2>1. PICK m \in task.messages : table' = [table EXCEPT !.messages = @ \cup {m}]
    BY <1>3 DEF MessageStored
  <2>2. table' = [messages |-> table.messages \cup {m}, mentions |-> table.mentions]
    BY <1>2, <2>1
  <2>3. table'.messages = table.messages \cup {m} /\ table'.mentions = table.mentions
    BY <2>2
  <2> QED  BY <1>1, <1>2, <2>2, <2>3 DEF TablesShaped
<1>4. CASE MentionStored
  <2>1. PICK m \in table.messages : m.at # None /\ table' = [table EXCEPT !.mentions = @ \cup {m}]
    BY <1>4 DEF MentionStored
  <2>2. table' = [messages |-> table.messages, mentions |-> table.mentions \cup {m}]
    BY <1>2, <2>1
  <2>3. table'.messages = table.messages /\ table'.mentions = table.mentions \cup {m}
    BY <2>2
  <2> QED  BY <1>1, <1>2, <2>1, <2>2, <2>3 DEF TablesShaped
<1> QED  BY <1>3, <1>4

\* One part of the report is told, the others stay.
LEMMA ToldIs ==
    ASSUME Shaped, NEW value, NEW next,
           answer.text = [total |-> answer.text.total, days |-> answer.text.days,
                          latest |-> answer.text.latest, atted |-> answer.text.atted]
    PROVE  LET t == answer.text
               days == [answer EXCEPT !.at = next, !.text.days = value]
               latest == [answer EXCEPT !.at = next, !.text.latest = value]
               atted == [answer EXCEPT !.at = next, !.text.atted = value]
           IN  /\ days.at = next /\ latest.at = next /\ atted.at = next
               /\ days.text = [total |-> t.total, days |-> value, latest |-> t.latest, atted |-> t.atted]
               /\ latest.text = [total |-> t.total, days |-> t.days, latest |-> value, atted |-> t.atted]
               /\ atted.text = [total |-> t.total, days |-> t.days, latest |-> t.latest, atted |-> value]
BY DEF Shaped

\* A step of the report, or of the goroutines that store rows meanwhile: ReportStats.
LEMMA ReportTurn ==
    ASSUME SmallAssumption, SmallTypeOK, TablesShaped, Shaped, ReportSoFar, ReportIsWhole, task.key = "report",
           ReportStep \/ MessageStored \/ MentionStored \/ QueryErr
    PROVE  ReportSoFar' /\ ReportIsWhole'
<1> DEFINE report == answer.text
           before == Reported(seen.messages)
           now == Reported(table.messages)
           Cross(days, latest) == \A k \in DOMAIN days :
               \/ Len(latest) = MaxRanks
               \/ \E j \in DOMAIN latest : DayOf(latest[j]) = days[k][1]
<1>1. /\ seen.messages \in SUBSET table.messages /\ table.messages \in SUBSET task.messages
      /\ seen.mentions \in SUBSET table.mentions /\ table.mentions \in SUBSET task.messages
  BY DEF SmallTypeOK
<1>2. /\ Counted(table.messages) = now /\ Counted(table.mentions) = Reported(table.mentions)
      /\ IsFiniteSet(now) /\ IsFiniteSet(before) /\ Cardinality(before) \in Nat
      /\ IsFiniteSet(ByDay(now)) /\ IsFiniteSet(ByUser(Reported(table.mentions)))
      /\ \A m \in now : m.time \in Int
      /\ before \in SUBSET now /\ ByDay(before) \in SUBSET ByDay(now)
      /\ ByUser(Reported(seen.mentions)) \in SUBSET ByUser(Reported(table.mentions))
  <2>1. seen.messages \in SUBSET task.messages /\ now \subseteq table.messages
    BY <1>1 DEF Reported
  <2> QED  BY <1>1, <2>1, RowsOfReport
<1>3. /\ answer.at \in {"running", "answered", "hint", "failed"} \cup Stages
      /\ answer.at = "running" => answer = Empty
      /\ answer.at \in Stages =>
             /\ report = [total |-> report.total, days |-> report.days,
                          latest |-> report.latest, atted |-> report.atted]
             /\ report.total = Cardinality(before)
      /\ answer.at \in {"nights", "atted"} =>
             TopsBetween(report.days, ByDay(before), ByDay(now)) /\ Counts(report.days)
      /\ answer.at = "atted" => NightsBetween(report.latest, before, now) /\ Cross(report.days, report.latest)
  BY DEF ReportSoFar
<1>4. answer = [at |-> answer.at, faces |-> answer.faces, stickers |-> answer.stickers,
                text |-> answer.text, urls |-> answer.urls]
  BY DEF Shaped
<1>5. CASE QueryErr
  <2>1. task' = task /\ answer'.at = "failed"
    BY <1>5 DEF QueryErr, Empty
  <2> QED  BY <2>1 DEF ReportSoFar, ReportIsWhole, Stages
<1>6. CASE CountMessages
  <2>1. task' = task /\ table' = table /\ seen' = table /\ answer'.at = "group"
        /\ answer'.text = [total |-> Cardinality(Counted(table.messages)),
                           days |-> <<>>, latest |-> <<>>, atted |-> <<>>]
    BY <1>6 DEF CountMessages, Empty
  <2>2. Reported(seen.messages)' = now
    BY <2>1 DEF Reported
  <2>3. answer'.text.total = Cardinality(Reported(seen.messages)')
    BY <1>2, <2>1, <2>2
  <2> HIDE DEF now, before, report
  <2> QED  BY <2>1, <2>3 DEF ReportSoFar, ReportIsWhole, Stages
<1>7. CASE NameGroup
  <2>1. task' = task /\ table' = table /\ seen' = seen /\ answer.at = "group" /\ answer'.at = "days"
        /\ answer'.text = report
    BY <1>4, <1>7 DEF NameGroup
  <2>2. Reported(seen.messages)' = before
    BY <2>1 DEF Reported
  <2>3. report = [total |-> report.total, days |-> report.days, latest |-> report.latest, atted |-> report.atted]
        /\ report.total = Cardinality(before)
    BY <1>3, <2>1 DEF Stages
  <2> HIDE DEF now, before, report
  <2> QED  BY <2>1, <2>2, <2>3 DEF ReportSoFar, ReportIsWhole, Stages
<1>8. CASE RankDays
  <2>1. task' = task /\ table' = table /\ seen' = seen /\ answer.at = "days"
    BY <1>8 DEF RankDays
  <2>2. PICK days \in Tops(ByDay(now)) : answer' = [answer EXCEPT !.at = "nights", !.text.days = days]
    BY <1>2, <1>8 DEF RankDays
  <2>3. TopsBetween(days, ByDay(before), ByDay(now)) /\ Counts(days)
    BY <1>2, TopsCorrect
  <2>4. report = [total |-> report.total, days |-> report.days, latest |-> report.latest, atted |-> report.atted]
        /\ report.total = Cardinality(before)
    BY <1>3, <2>1 DEF Stages
  <2>5. /\ answer'.at = "nights"
        /\ answer'.text = [total |-> report.total, days |-> days, latest |-> report.latest, atted |-> report.atted]
    BY <2>2, <2>4, ToldIs
  <2>6. Reported(seen.messages)' = before /\ Reported(table.messages)' = now
    BY <2>1 DEF Reported
  <2> HIDE DEF now, before, report
  <2> QED  BY <2>1, <2>3, <2>4, <2>5, <2>6 DEF ReportSoFar, ReportIsWhole, Stages
<1>9. CASE RankNights
  <2>1. task' = task /\ table' = table /\ seen' = seen /\ answer.at = "nights"
    BY <1>9 DEF RankNights
  <2>20. PICK nights \in LastOfDays(now) : \E latest \in Ranked([m \in nights |-> offsetTime(m)]) :
             answer' = [answer EXCEPT !.at = "atted", !.text.latest = latest]
    BY <1>2, <1>9 DEF RankNights
  <2>2. PICK latest \in Ranked([m \in nights |-> offsetTime(m)]) :
            answer' = [answer EXCEPT !.at = "atted", !.text.latest = latest]
    BY <2>20
  <2>3. /\ NightsBetween(latest, before, now)
        /\ \A m \in now : \/ Len(latest) = MaxRanks
                          \/ \E k \in DOMAIN latest : DayOf(latest[k]) = DayOf(m)
    BY <1>2, NightsCorrect
  <2>4. /\ report = [total |-> report.total, days |-> report.days, latest |-> report.latest, atted |-> report.atted]
        /\ report.total = Cardinality(before)
        /\ TopsBetween(report.days, ByDay(before), ByDay(now)) /\ Counts(report.days)
    BY <1>3, <2>1 DEF Stages
  <2>5. /\ answer'.at = "atted"
        /\ answer'.text = [total |-> report.total, days |-> report.days, latest |-> latest, atted |-> report.atted]
    BY <2>2, <2>4, ToldIs
  <2>6. Reported(seen.messages)' = before /\ Reported(table.messages)' = now
    BY <2>1 DEF Reported
  <2>7. Cross(report.days, latest)
    <3> TAKE k \in DOMAIN report.days
    <3>1. PICK p \in ByDay(now) : p[1] = report.days[k][1]
      BY <2>4, TopsAreThere
    <3>2. PICK m \in now : DayOf(m) = report.days[k][1]
      BY <3>1 DEF ByDay
    <3> QED  BY <2>3, <3>2
  <2> HIDE DEF now, before, report
  <2> QED  BY <2>1, <2>3, <2>4, <2>5, <2>6, <2>7 DEF ReportSoFar, ReportIsWhole, Stages
<1>10. CASE RankAtted
  <2> DEFINE mentioned == Reported(table.mentions)
             earlier == Reported(seen.mentions)
  <2>1. task' = task /\ table' = table /\ seen' = seen /\ answer.at = "atted"
    BY <1>10 DEF RankAtted
  <2>2. PICK atted \in Tops(ByUser(mentioned)) :
            answer' = IF report.total = 0 THEN Hint
                      ELSE [answer EXCEPT !.at = "answered", !.text.atted = atted]
    BY <1>2, <1>10 DEF RankAtted
  <2>3. TopsBetween(atted, ByUser(earlier), ByUser(mentioned))
    BY <1>2, TopsCorrect
  <2>4. /\ report = [total |-> report.total, days |-> report.days, latest |-> report.latest, atted |-> report.atted]
        /\ report.total = Cardinality(before)
        /\ TopsBetween(report.days, ByDay(before), ByDay(now))
        /\ NightsBetween(report.latest, before, now)
        /\ Cross(report.days, report.latest)
    BY <1>3, <2>1 DEF Stages
  <2>5. /\ Reported(seen.messages)' = before /\ Reported(table.messages)' = now
        /\ Reported(seen.mentions)' = earlier /\ Reported(table.mentions)' = mentioned
    BY <2>1 DEF Reported
  <2>6. CASE report.total = 0
    <3>1. answer'.at = "hint" /\ before = {}
      BY <1>2, <2>2, <2>4, <2>6, FS_EmptySet DEF Hint, Empty
    <3> HIDE DEF now, before, report
    <3> QED  BY <2>5, <3>1 DEF ReportSoFar, ReportIsWhole, Stages
  <2>7. CASE report.total # 0
    <3>1. /\ answer'.at = "answered"
          /\ answer'.text = [total |-> report.total, days |-> report.days, latest |-> report.latest, atted |-> atted]
      BY <2>2, <2>4, <2>7, ToldIs
    <3> HIDE DEF now, before, report, mentioned, earlier
    <3>2. ReportSoFar'
      BY <2>1, <3>1 DEF ReportSoFar, Stages
    <3> QED  BY <2>1, <2>3, <2>4, <2>5, <3>1, <3>2 DEF ReportIsWhole
  <2> QED  BY <2>6, <2>7
<1>11. CASE MessageStored \/ MentionStored
  <2> DEFINE later == Reported(table'.messages)
  <2>1. /\ task' = task /\ answer' = answer /\ seen' = seen /\ answer.at \in Statements
        /\ table.messages \in SUBSET table'.messages /\ table'.messages \in SUBSET task.messages
    BY <1>11, TableGrows
  <2>2. /\ IsFiniteSet(ByDay(later)) /\ now \in SUBSET later /\ ByDay(now) \in SUBSET ByDay(later)
    BY <2>1, RowsOfReport
  <2>3. answer.at \in {"nights", "atted"} =>
            TopsBetween(report.days, ByDay(before), ByDay(later)) /\ Counts(report.days)
    BY <1>3, <2>2, TopsLater
  <2>4. answer.at = "atted" => NightsBetween(report.latest, before, later)
    BY <1>3, <2>2, NightsLater
  <2>5. Reported(seen.messages)' = before /\ Reported(table.messages)' = later
    BY <2>1 DEF Reported
  <2> HIDE DEF now, before, report, later
  <2>6. answer'.text = report /\ answer.text = report
    BY <2>1 DEF report
  <2>7. ReportSoFar'
    BY <1>3, <2>1, <2>3, <2>4, <2>5, <2>6 DEF ReportSoFar
  <2> QED  BY <2>1, <2>7 DEF ReportIsWhole, Statements
<1> QED  BY <1>5, <1>6, <1>7, <1>8, <1>9, <1>10, <1>11 DEF ReportStep

-----------------------------------------------------------------------------
(* Texts: what UnescapeCQText makes of a text as OneBot spells it. *)

\* Induction from the end of a text to its start.
LEMMA AllDown ==
    ASSUME NEW n \in Nat, NEW S, n + 1 \in S,
           \A k \in 1..n : (\A i \in (k + 1)..(n + 1) : i \in S) => k \in S
    PROVE  \A k \in 1..(n + 1) : k \in S
<1> DEFINE T == {m \in Nat : \A k \in 1..(n + 1) : k >= n + 1 - m => k \in S}
<1>1. 0 \in T
  <2>1. \A k \in 1..(n + 1) : k >= n + 1 - 0 => k = n + 1
    OBVIOUS
  <2> QED  BY <2>1
<1>2. ASSUME NEW m \in T
      PROVE  m + 1 \in T
  <2>1. m \in Nat /\ \A k \in 1..(n + 1) : k >= n + 1 - m => k \in S
    OBVIOUS
  <2>2. ASSUME NEW k \in 1..(n + 1), k >= n + 1 - (m + 1)
        PROVE  k \in S
    <3>1. CASE k >= n + 1 - m
      BY <2>1, <3>1
    <3>2. CASE ~(k >= n + 1 - m)
      <4>1. k = n - m /\ k \in 1..n
        BY <2>1, <2>2, <3>2
      <4>2. \A i \in (k + 1)..(n + 1) : i \in 1..(n + 1) /\ i >= n + 1 - m
        BY <2>1, <4>1
      <4>3. \A i \in (k + 1)..(n + 1) : i \in S
        BY <2>1, <4>2
      <4> QED  BY <4>1, <4>3
    <3> QED  BY <3>1, <3>2
  <2>3. m + 1 \in Nat
    BY <2>1
  <2>4. \A k \in 1..(n + 1) : k >= n + 1 - (m + 1) => k \in S
    BY <2>2
  <2> QED  BY <2>3, <2>4
<1> HIDE DEF T
<1>3. T = Nat
  <2>1. T \in SUBSET Nat
    BY DEF T
  <2>2. \A m \in T : m + 1 \in T
    BY <1>2
  <2> QED  BY <1>1, <2>1, <2>2, AllNumbers
<1>4. n + 1 \in T
  BY <1>3
<1>5. \A k \in 1..(n + 1) : k >= n + 1 - (n + 1) => k \in S
  BY <1>4 DEF T
<1> QED  BY <1>5

\* f[k] is the text from the place k on, put together of the pieces w, each followed by
\* the text from the place j says.
Joined(f, n, w, j) == f = [k \in 1..(n + 1) |-> IF k > n THEN <<>> ELSE w[k] \o f[j[k]]]

\* A text may be put together from its end.
LEMMA JoinExists ==
    ASSUME NEW X, NEW n \in Nat, NEW w \in [1..n -> Seq(X)], NEW j \in [1..n -> 1..(n + 1)],
           \A k \in 1..n : j[k] > k
    PROVE  \E f \in [1..(n + 1) -> Seq(X)] : Joined(f, n, w, j)
<1> DEFINE Good(f, k) == f[k] = IF k > n THEN <<>> ELSE w[k] \o f[j[k]]
           T == {m \in Nat : \E f \in [1..(n + 1) -> Seq(X)] :
                                 \A k \in 1..(n + 1) : k > n - m => Good(f, k)}
<1>1. 0 \in T
  <2> DEFINE f == [k \in 1..(n + 1) |-> <<>>]
  <2>1. f \in [1..(n + 1) -> Seq(X)]
    OBVIOUS
  <2>2. \A k \in 1..(n + 1) : k > n - 0 => f[k] = <<>> /\ k > n
    OBVIOUS
  <2> HIDE DEF f
  <2>3. \A k \in 1..(n + 1) : k > n - 0 => Good(f, k)
    BY <2>2
  <2> HIDE DEF Good
  <2> QED  BY <2>1, <2>3
<1>2. ASSUME NEW m \in T
      PROVE  m + 1 \in T
  <2>1. m \in Nat /\ m + 1 \in Nat
    OBVIOUS
  <2>2. PICK f \in [1..(n + 1) -> Seq(X)] : \A k \in 1..(n + 1) : k > n - m => Good(f, k)
    OBVIOUS
  <2>3. CASE n - m \in 1..n
    <3> DEFINE i == n - m
               v == w[i] \o f[j[i]]
               g == [f EXCEPT ![i] = v]
    <3>1. i \in 1..n /\ i \in 1..(n + 1) /\ j[i] \in 1..(n + 1) /\ j[i] # i
      BY <2>1, <2>3
    <3>5. \A k \in 1..(n + 1) : k > n - (m + 1) => k = i \/ k > n - m
      BY <2>1
    <3>51. \A k \in 1..(n + 1) : k > n - m => k # i
      BY <2>1
    <3> HIDE DEF i
    <3>2. v \in Seq(X)
      <4>1. w[i] \in Seq(X) /\ f[j[i]] \in Seq(X)
        BY <3>1
      <4> QED  BY <4>1
    <3> HIDE DEF v
    <3>3. g \in [1..(n + 1) -> Seq(X)]
      BY <3>2
    <3>4. g[i] = v /\ \A k \in 1..(n + 1) : k # i => g[k] = f[k]
      BY <3>1
    <3> HIDE DEF g
    <3>6. ASSUME NEW k \in 1..(n + 1), k > n - (m + 1)
          PROVE  Good(g, k)
      <4>1. CASE k = i
        <5>1. ~(i > n) /\ g[j[i]] = f[j[i]]
          <6>1. ~(i > n)
            BY <3>1
          <6>2. g[j[i]] = f[j[i]]
            BY <3>1, <3>4, Zenon
          <6> QED  BY <6>1, <6>2
        <5>2. g[k] = w[k] \o f[j[k]]
          BY <3>4, <4>1 DEF v
        <5> QED  BY <4>1, <5>1, <5>2
      <4>2. CASE k > n - m
        <5>1. k # i /\ Good(f, k) /\ g[k] = f[k]
          BY <2>2, <3>4, <3>51, <4>2
        <5>2. ~(k > n) => k \in 1..n
          OBVIOUS
        <5>3. ~(k > n) => j[k] > k /\ j[k] \in 1..(n + 1)
          BY <5>2
        <5>4. ~(k > n) => j[k] > n - m
          BY <4>2, <5>3, <2>1
        <5>5. ~(k > n) => g[j[k]] = f[j[k]]
          BY <3>4, <5>3, <5>4, <3>51
        <5> QED  BY <5>1, <5>5
      <4> QED  BY <3>5, <3>6, <4>1, <4>2
    <3> HIDE DEF Good
    <3>7. \A k \in 1..(n + 1) : k > n - (m + 1) => Good(g, k)
      BY <3>6
    <3> QED  BY <2>1, <3>3, <3>7
  <2>4. CASE ~(n - m \in 1..n)
    <3>1. \A k \in 1..(n + 1) : k > n - (m + 1) => k > n - m
      BY <2>1, <2>4
    <3> HIDE DEF Good
    <3>2. \A k \in 1..(n + 1) : k > n - (m + 1) => Good(f, k)
      BY <2>2, <3>1
    <3> QED  BY <2>1, <2>2, <3>2
  <2> QED  BY <2>3, <2>4
<1> HIDE DEF T
<1>3. T = Nat
  <2>1. T \in SUBSET Nat
    BY DEF T
  <2>2. \A m \in T : m + 1 \in T
    BY <1>2
  <2> QED  BY <1>1, <2>1, <2>2, AllNumbers
<1>30. \E f \in [1..(n + 1) -> Seq(X)] : \A k \in 1..(n + 1) : k > n - n => Good(f, k)
  <2> HIDE DEF Good
  <2>1. n \in T
    BY <1>3
  <2> QED  BY <2>1 DEF T
<1>4. PICK f \in [1..(n + 1) -> Seq(X)] : \A k \in 1..(n + 1) : k > n - n => Good(f, k)
  BY <1>30
<1>5. \A k \in 1..(n + 1) : Good(f, k)
  <2> HIDE DEF Good
  <2>1. \A k \in 1..(n + 1) : k > n - n
    OBVIOUS
  <2> QED  BY <1>4, <2>1
<1>6. f = [k \in 1..(n + 1) |-> IF k > n THEN <<>> ELSE w[k] \o f[j[k]]]
  <2>1. f = [k \in 1..(n + 1) |-> f[k]]
    OBVIOUS
  <2> QED  BY <1>5, <2>1, Zenon
<1> HIDE DEF Good
<1> QED  BY <1>6 DEF Joined

\* It is put together in one way only.
LEMMA JoinUnique ==
    ASSUME NEW X, NEW n \in Nat, NEW w \in [1..n -> Seq(X)], NEW j \in [1..n -> 1..(n + 1)],
           \A k \in 1..n : j[k] > k, NEW f, Joined(f, n, w, j), NEW g, Joined(g, n, w, j)
    PROVE  g = f
<1> DEFINE S == {k \in 1..(n + 1) : g[k] = f[k]}
           At(h, k) == IF k > n THEN <<>> ELSE w[k] \o h[j[k]]
<1>1. \A k \in 1..(n + 1) : g[k] = At(g, k) /\ f[k] = At(f, k)
  BY Zenon DEF Joined
<1>2. \A k \in 1..n : k \in 1..(n + 1) /\ ~(k > n) /\ j[k] \in (k + 1)..(n + 1)
  OBVIOUS
<1>3. n + 1 \in S
  <2>1. n + 1 \in 1..(n + 1) /\ n + 1 > n
    OBVIOUS
  <2> QED  BY <2>1, <1>1, Zenon
<1>4. ASSUME NEW k \in 1..n, \A i \in (k + 1)..(n + 1) : i \in S
      PROVE  k \in S
  <2>1. g[j[k]] = f[j[k]]
    BY <1>2, <1>4, Zenon
  <2> QED  BY <2>1, <1>1, <1>2, Zenon
<1>5. \A k \in 1..(n + 1) : k \in S
  <2> HIDE DEF S
  <2> QED  BY <1>3, <1>4, AllDown
<1>6. \A k \in 1..(n + 1) : g[k] = f[k]
  BY <1>5
<1>7. f = [k \in 1..(n + 1) |-> f[k]] /\ g = [k \in 1..(n + 1) |-> g[k]]
  <2>1. DOMAIN f = 1..(n + 1) /\ DOMAIN g = 1..(n + 1)
    BY Zenon DEF Joined
  <2>2. \A k \in 1..(n + 1) : f[k] = At(f, k) /\ g[k] = At(g, k)
    BY <1>1
  <2>3. f = [k \in 1..(n + 1) |-> At(f, k)] /\ g = [k \in 1..(n + 1) |-> At(g, k)]
    BY Zenon DEF Joined
  <2> HIDE DEF At
  <2> QED  BY <2>2, <2>3, Zenon
<1> QED  BY <1>6, <1>7, Zenon

\* The pieces of texts.
Pieces == STRING \cup {"&", "amp;", "#91;", "#93;", "[", "]", "CQ:"}

\* What Written and ReplaceReference compute, from every place to the end.
WrittenFrom(text, escaped) ==
    CHOOSE f : f = [k \in 1..(Len(text) + 1) |->
                       IF k > Len(text) THEN <<>> ELSE Spelled(text[k], escaped) \o f[k + 1]]
ReplacedFrom(text, rest, by) ==
    CHOOSE f : f = [k \in 1..(Len(text) + 1) |->
                       IF k > Len(text) THEN <<>>
                       ELSE IF Refers(text, rest, k) THEN <<by>> \o f[k + 2]
                       ELSE <<text[k]>> \o f[k + 1]]
Spells(f, text, escaped) ==
    /\ f[Len(text) + 1] = <<>>
    /\ \A k \in 1..Len(text) : f[k] = Spelled(text[k], escaped) \o f[k + 1]
Replaces(f, text, rest, by) ==
    /\ f[Len(text) + 1] = <<>>
    /\ \A k \in 1..Len(text) :
           /\ Refers(text, rest, k) => f[k] = <<by>> \o f[k + 2]
           /\ ~Refers(text, rest, k) => f[k] = <<text[k]>> \o f[k + 1]

LEMMA WrittenIs ==
    ASSUME NEW text \in Seq(Pieces), NEW escaped,
           \A k \in 1..Len(text) : Spelled(text[k], escaped) \in Seq(Pieces)
    PROVE  /\ WrittenFrom(text, escaped) \in [1..(Len(text) + 1) -> Seq(Pieces)]
           /\ Spells(WrittenFrom(text, escaped), text, escaped) /\ Written(text, escaped) = WrittenFrom(text, escaped)[1]
<1> DEFINE n == Len(text)
           w == [k \in 1..n |-> Spelled(text[k], escaped)]
           j == [k \in 1..n |-> k + 1]
           Is(f) == f = [k \in 1..(n + 1) |-> IF k > n THEN <<>> ELSE Spelled(text[k], escaped) \o f[k + 1]]
<1>1. n \in Nat /\ \A k \in 1..n : Spelled(text[k], escaped) \in Seq(Pieces)
  OBVIOUS
<1>5. Written(text, escaped) = WrittenFrom(text, escaped)[1]
  BY DEF Written, WrittenFrom
<1>51. WrittenFrom(text, escaped) = CHOOSE g : Is(g)
  BY DEF WrittenFrom
<1> HIDE DEF n
<1>3. w \in [1..n -> Seq(Pieces)] /\ j \in [1..n -> 1..(n + 1)] /\ \A k \in 1..n : j[k] > k
  BY <1>1
<1>4. \A f : Is(f) <=> Joined(f, n, w, j)
  <2> TAKE f
  <2>1. \A k \in 1..(n + 1) : ~(k > n) => k \in 1..n
    BY <1>1
  <2>2. \A k \in 1..n : w[k] = Spelled(text[k], escaped) /\ j[k] = k + 1
    OBVIOUS
  <2> HIDE DEF w, j
  <2>3. \A k \in 1..(n + 1) :
            (IF k > n THEN <<>> ELSE Spelled(text[k], escaped) \o f[k + 1])
                = IF k > n THEN <<>> ELSE w[k] \o f[j[k]]
    BY <2>1, <2>2, Zenon
  <2> QED  BY <2>3, Zenon DEF Joined
<1> HIDE DEF w, j
<1>6. PICK f \in [1..(n + 1) -> Seq(Pieces)] : Joined(f, n, w, j)
  BY <1>1, <1>3, JoinExists
<1>61. \A g : Joined(g, n, w, j) => g = f
  <2> TAKE g
  <2> HIDE DEF Is
  <2> QED  BY <1>1, <1>3, <1>6, JoinUnique
<1>7. Is(f) /\ \A g : Is(g) => g = f
  BY <1>4, <1>6, <1>61
<1>8. WrittenFrom(text, escaped) = f
  <2> HIDE DEF Is
  <2> QED  BY <1>51, <1>7, Zenon
<1>9. \A k \in 1..(n + 1) : f[k] = IF k > n THEN <<>> ELSE Spelled(text[k], escaped) \o f[k + 1]
  BY <1>7, Zenon
<1>10. n + 1 \in 1..(n + 1) /\ n + 1 > n /\ \A k \in 1..n : k \in 1..(n + 1) /\ ~(k > n)
  BY <1>1
<1>11. f[n + 1] = <<>> /\ \A k \in 1..n : f[k] = Spelled(text[k], escaped) \o f[k + 1]
  BY <1>9, <1>10, Zenon
<1> HIDE DEF Is
<1> QED  BY <1>5, <1>8, <1>11 DEF Spells, n

LEMMA ReplacedIs ==
    ASSUME NEW text \in Seq(Pieces), NEW rest, NEW by \in Pieces
    PROVE  /\ ReplacedFrom(text, rest, by) \in [1..(Len(text) + 1) -> Seq(Pieces)]
           /\ Replaces(ReplacedFrom(text, rest, by), text, rest, by)
           /\ ReplaceReference(text, rest, by) = ReplacedFrom(text, rest, by)[1]
<1> DEFINE n == Len(text)
           R(k) == Refers(text, rest, k)
           w == [k \in 1..n |-> IF R(k) THEN <<by>> ELSE <<text[k]>>]
           j == [k \in 1..n |-> IF R(k) THEN k + 2 ELSE k + 1]
           Is(f) == f = [k \in 1..(n + 1) |-> IF k > n THEN <<>>
                                              ELSE IF R(k) THEN <<by>> \o f[k + 2]
                                              ELSE <<text[k]>> \o f[k + 1]]
<1>1. n \in Nat /\ (\A k \in 1..n : text[k] \in Pieces) /\ \A k \in 1..n : R(k) => k < n
  BY DEF Refers
<1>5. ReplaceReference(text, rest, by) = ReplacedFrom(text, rest, by)[1]
  BY DEF ReplaceReference, ReplacedFrom
<1>51. ReplacedFrom(text, rest, by) = CHOOSE g : Is(g)
  BY DEF ReplacedFrom
<1> HIDE DEF n, R
<1>2. \A p \in Pieces : <<p>> \in Seq(Pieces)
  OBVIOUS
<1>3. w \in [1..n -> Seq(Pieces)] /\ j \in [1..n -> 1..(n + 1)] /\ \A k \in 1..n : j[k] > k
  BY <1>1, <1>2
<1>4. \A f : Is(f) <=> Joined(f, n, w, j)
  <2> TAKE f
  <2>1. \A k \in 1..(n + 1) : ~(k > n) => k \in 1..n
    BY <1>1
  <2>2. \A k \in 1..n : /\ R(k) => w[k] = <<by>> /\ j[k] = k + 2
                        /\ ~R(k) => w[k] = <<text[k]>> /\ j[k] = k + 1
    OBVIOUS
  <2> HIDE DEF w, j
  <2>3. \A k \in 1..(n + 1) :
            (IF k > n THEN <<>> ELSE IF R(k) THEN <<by>> \o f[k + 2] ELSE <<text[k]>> \o f[k + 1])
                = IF k > n THEN <<>> ELSE w[k] \o f[j[k]]
    BY <2>1, <2>2, Zenon
  <2> QED  BY <2>3, Zenon DEF Joined
<1> HIDE DEF w, j
<1>6. PICK f \in [1..(n + 1) -> Seq(Pieces)] : Joined(f, n, w, j)
  BY <1>1, <1>3, JoinExists
<1>61. \A g : Joined(g, n, w, j) => g = f
  <2> TAKE g
  <2> HIDE DEF Is
  <2> QED  BY <1>1, <1>3, <1>6, JoinUnique
<1>7. Is(f) /\ \A g : Is(g) => g = f
  BY <1>4, <1>6, <1>61
<1>8. ReplacedFrom(text, rest, by) = f
  <2> HIDE DEF Is
  <2> QED  BY <1>51, <1>7, Zenon
<1>9. \A k \in 1..(n + 1) : f[k] = IF k > n THEN <<>>
                                   ELSE IF R(k) THEN <<by>> \o f[k + 2]
                                   ELSE <<text[k]>> \o f[k + 1]
  BY <1>7, Zenon
<1>10. n + 1 \in 1..(n + 1) /\ n + 1 > n /\ \A k \in 1..n : k \in 1..(n + 1) /\ ~(k > n)
  BY <1>1
<1>11. /\ f[n + 1] = <<>>
       /\ \A k \in 1..n : /\ R(k) => f[k] = <<by>> \o f[k + 2]
                          /\ ~R(k) => f[k] = <<text[k]>> \o f[k + 1]
  BY <1>9, <1>10, Zenon
<1> HIDE DEF Is
<1> QED  BY <1>5, <1>8, <1>11 DEF Replaces, n, R

\* A piece before a text.
Led(p, t) == <<p>> \o t

\* Two pieces before a text.
LEMMA TwoPieces ==
    ASSUME NEW a \in Pieces, NEW b \in Pieces, NEW t \in Seq(Pieces)
    PROVE  Led(a, Led(b, t)) = <<a, b>> \o t
<1>1. <<a>> \in Seq(Pieces) /\ <<b>> \in Seq(Pieces)
  OBVIOUS
<1>2. <<a>> \o <<b>> = <<a, b>>
  <2> DEFINE s == <<a>> \o <<b>>
  <2>1. s \in Seq(Pieces) /\ Len(s) = 2 /\ s[1] = a /\ s[2] = b
    OBVIOUS
  <2> HIDE DEF s
  <2>2. s = <<a, b>>
    BY <2>1
  <2> QED  BY <2>2 DEF s
<1>3. (<<a>> \o <<b>>) \o t = <<a>> \o (<<b>> \o t)
  BY <1>1, ConcatAssociative
<1> QED  BY <1>2, <1>3 DEF Led

\* The end of a text is replaced as it is by itself.
LEMMA ReplacedShift ==
    ASSUME NEW s \in Seq(Pieces), NEW t \in Seq(Pieces), NEW rest, NEW by,
           NEW f, Replaces(f, s \o t, rest, by), NEW g, Replaces(g, t, rest, by)
    PROVE  \A k \in 1..(Len(t) + 1) : f[Len(s) + k] = g[k]
<1> DEFINE u == s \o t
           n == Len(t)
           m == Len(s)
           S == {k \in 1..(n + 1) : f[m + k] = g[k]}
<1>1. n \in Nat /\ m \in Nat /\ Len(u) = m + n /\ \A k \in 1..n : u[m + k] = t[k]
  OBVIOUS
<1>2. \A k \in 1..n : Refers(u, rest, m + k) <=> Refers(t, rest, k)
  <2> TAKE k \in 1..n
  <2>1. u[m + k] = t[k] /\ (m + k < m + n <=> k < n)
    BY <1>1
  <2>2. k < n => u[m + k + 1] = t[k + 1]
    <3>1. k < n => k + 1 \in 1..n /\ m + (k + 1) = m + k + 1
      BY <1>1
    <3> QED  BY <1>1, <3>1
  <2>3. Len(u) = m + n /\ Len(t) = n
    BY <1>1
  <2> HIDE DEF u, n, m
  <2> QED  BY <2>1, <2>2, <2>3 DEF Refers
<1>3. /\ f[m + n + 1] = <<>>
      /\ \A k \in 1..n : /\ Refers(u, rest, m + k) => f[m + k] = <<by>> \o f[m + k + 2]
                         /\ ~Refers(u, rest, m + k) => f[m + k] = <<t[k]>> \o f[m + k + 1]
  <2>1. \A k \in 1..n : m + k \in 1..Len(u)
    BY <1>1
  <2>2. Replaces(f, u, rest, by)
    OBVIOUS
  <2> HIDE DEF u, n, m
  <2>3. f[m + n + 1] = <<>>
    BY <1>1, <2>2 DEF Replaces
  <2>4. \A k \in 1..n : u[m + k] = t[k]
    BY <1>1
  <2> QED  BY <2>1, <2>2, <2>3, <2>4, Zenon DEF Replaces
<1>4. /\ g[n + 1] = <<>>
      /\ \A k \in 1..n : /\ Refers(t, rest, k) => g[k] = <<by>> \o g[k + 2]
                         /\ ~Refers(t, rest, k) => g[k] = <<t[k]>> \o g[k + 1]
  BY Zenon DEF Replaces
<1>5. n + 1 \in S
  <2>1. m + (n + 1) = m + n + 1 /\ n + 1 \in 1..(n + 1)
    BY <1>1
  <2> HIDE DEF n, m
  <2> QED  BY <1>3, <1>4, <2>1
<1>6. \A k \in 1..n : Refers(t, rest, k) => k < n
  BY DEF Refers
<1>7. ASSUME NEW k \in 1..n, \A i \in (k + 1)..(n + 1) : i \in S
      PROVE  k \in S
  <2>1. k \in 1..(n + 1) /\ k + 1 \in (k + 1)..(n + 1) /\ (k < n => k + 2 \in (k + 1)..(n + 1))
    BY <1>1
  <2>2. f[m + (k + 1)] = g[k + 1] /\ (k < n => f[m + (k + 2)] = g[k + 2])
    BY <1>7, <2>1
  <2>3. m + (k + 1) = m + k + 1 /\ m + (k + 2) = m + k + 2
    BY <1>1
  <2> HIDE DEF n, m, u
  <2>4. f[m + k] = g[k]
    BY <1>2, <1>3, <1>4, <1>6, <2>2, <2>3
  <2> QED  BY <2>1, <2>4
<1>8. \A k \in 1..(n + 1) : k \in S
  <2> HIDE DEF S, n
  <2> QED  BY <1>1, <1>5, <1>7, AllDown
<1> QED  BY <1>8

\* Whether a text begins with a reference.
LEMMA RefersFirst ==
    ASSUME NEW t \in Seq(Pieces), NEW p \in Pieces, NEW rest
    PROVE  Refers(Led(p, t), rest, 1) <=> p = "&" /\ Len(t) > 0 /\ t[1] = rest
<1> DEFINE u == <<p>> \o t
<1>1. Len(u) = 1 + Len(t) /\ Len(t) \in Nat /\ u[1] = p
  OBVIOUS
<1>2. Len(t) > 0 => u[2] = t[1]
  OBVIOUS
<1> HIDE DEF u
<1>3. (1 < Len(u) <=> Len(t) > 0) /\ 1 + 1 = 2
  BY <1>1
<1>4. Refers(u, rest, 1) <=> p = "&" /\ Len(t) > 0 /\ t[1] = rest
  BY <1>1, <1>2, <1>3 DEF Refers
<1> QED  BY <1>4 DEF u, Led

\* A piece that is no part of such a reference stays.
LEMMA ReplacedOne ==
    ASSUME NEW t \in Seq(Pieces), NEW p \in Pieces, NEW rest, NEW by \in Pieces,
           ~Refers(Led(p, t), rest, 1)
    PROVE  /\ ReplaceReference(Led(p, t), rest, by) = Led(p, ReplaceReference(t, rest, by))
           /\ ReplaceReference(t, rest, by) \in Seq(Pieces)
<1> DEFINE s == <<p>>
           u == s \o t
<1>1. s \in Seq(Pieces) /\ u \in Seq(Pieces) /\ Len(s) = 1 /\ Len(u) = 1 + Len(t) /\ Len(t) \in Nat /\ u[1] = p
  OBVIOUS
<1>2. u = Led(p, t)
  BY DEF Led
<1> HIDE DEF s, u
<1> DEFINE f == ReplacedFrom(u, rest, by)
           g == ReplacedFrom(t, rest, by)
<1>3. /\ f \in [1..(Len(u) + 1) -> Seq(Pieces)] /\ Replaces(f, u, rest, by)
      /\ ReplaceReference(u, rest, by) = f[1]
  BY <1>1, ReplacedIs
<1>4. /\ g \in [1..(Len(t) + 1) -> Seq(Pieces)] /\ Replaces(g, t, rest, by)
      /\ ReplaceReference(t, rest, by) = g[1]
  BY ReplacedIs
<1> HIDE DEF f, g
<1>5. f[2] = g[1]
  <2>1. \A k \in 1..(Len(t) + 1) : f[Len(s) + k] = g[k]
    BY <1>1, <1>3, <1>4, ReplacedShift DEF u
  <2>2. 1 \in 1..(Len(t) + 1) /\ Len(s) + 1 = 2
    BY <1>1
  <2> QED  BY <2>1, <2>2
<1>6. f[1] = <<p>> \o f[2]
  <2>1. 1 \in 1..Len(u) /\ 1 + 1 = 2
    BY <1>1
  <2> QED  BY <1>1, <1>2, <1>3, <2>1 DEF Replaces
<1>7. g[1] \in Seq(Pieces)
  <2>1. 1 \in 1..(Len(t) + 1)
    BY <1>1
  <2> QED  BY <1>4, <2>1
<1> QED  BY <1>2, <1>3, <1>4, <1>5, <1>6, <1>7 DEF Led

\* A reference is replaced.
LEMMA ReplacedTwo ==
    ASSUME NEW t \in Seq(Pieces), NEW a \in Pieces, NEW rest \in Pieces, NEW by \in Pieces,
           Refers(Led(a, Led(rest, t)), rest, 1)
    PROVE  ReplaceReference(Led(a, Led(rest, t)), rest, by) = Led(by, ReplaceReference(t, rest, by))
<1> DEFINE s == <<a, rest>>
           u == Led(a, Led(rest, t))
<1>1. s \in Seq(Pieces) /\ Len(s) = 2 /\ s \o t \in Seq(Pieces) /\ Len(t) \in Nat
  OBVIOUS
<1>2. u = s \o t
  BY TwoPieces
<1>3. u \in Seq(Pieces) /\ Len(u) = 2 + Len(t)
  BY <1>1, <1>2
<1>4. Refers(u, rest, 1)
  OBVIOUS
<1> DEFINE f == ReplacedFrom(u, rest, by)
           g == ReplacedFrom(t, rest, by)
<1> HIDE DEF s, u
<1>5. /\ f \in [1..(Len(u) + 1) -> Seq(Pieces)] /\ Replaces(f, u, rest, by)
      /\ ReplaceReference(u, rest, by) = f[1]
  BY <1>3, ReplacedIs
<1>6. /\ g \in [1..(Len(t) + 1) -> Seq(Pieces)] /\ Replaces(g, t, rest, by)
      /\ ReplaceReference(t, rest, by) = g[1]
  BY ReplacedIs
<1> HIDE DEF f, g
<1>7. f[3] = g[1]
  <2>1. \A k \in 1..(Len(t) + 1) : f[Len(s) + k] = g[k]
    <3>1. Replaces(f, s \o t, rest, by)
      BY <1>2, <1>5
    <3>2. Replaces(g, t, rest, by) /\ s \in Seq(Pieces)
      BY <1>1, <1>6
    <3> QED  BY <3>1, <3>2, ReplacedShift
  <2>2. 1 \in 1..(Len(t) + 1) /\ Len(s) + 1 = 3
    BY <1>1
  <2> QED  BY <2>1, <2>2
<1>8. f[1] = <<by>> \o f[3]
  <2>1. 1 \in 1..Len(u) /\ 1 + 2 = 3
    BY <1>1, <1>3
  <2> QED  BY <1>4, <1>5, <2>1 DEF Replaces
<1> QED  BY <1>5, <1>6, <1>7, <1>8 DEF u, Led

\* Nothing is made of nothing.
LEMMA ReplacedNone ==
    ASSUME NEW t \in Seq(Pieces), Len(t) = 0, NEW rest, NEW by \in Pieces
    PROVE  ReplaceReference(t, rest, by) = <<>>
<1> DEFINE f == ReplacedFrom(t, rest, by)
<1>1. Replaces(f, t, rest, by) /\ ReplaceReference(t, rest, by) = f[1]
  BY ReplacedIs
<1>2. Len(t) + 1 = 1
  OBVIOUS
<1> HIDE DEF f
<1> QED  BY <1>1, <1>2 DEF Replaces

\* One replacement undoes one kind of reference, whatever else is written by references: no
\* ampersand is left as it is while "&" is one of the pieces that are.
LEMMA ReplacedWritten ==
    ASSUME NEW text \in Seq(STRING), NEW escaped \in SUBSET {"&", "[", "]"}, "&" \in escaped, NEW c \in escaped
    PROVE  ReplaceReference(Written(text, escaped), Reference(c), c) = Written(text, escaped \ {c})
<1> DEFINE n == Len(text)
           A == "&"
           rest == Reference(c)
           left == escaped \ {c}
           R(t) == ReplaceReference(t, rest, c)
           X(p) == Spelled(p, escaped)
           Y(p) == Spelled(p, left)
<1>1. n \in Nat /\ \A k \in 1..n : text[k] \in STRING
  OBVIOUS
<1>2. /\ A \in Pieces /\ rest \in Pieces /\ c \in Pieces
      /\ \A p \in {"&", "[", "]", "CQ:", "amp;", "#91;", "#93;"} : p \in Pieces
  BY Zenon DEF Pieces, Reference
<1>3. rest # A /\ \A p \in escaped : p # c => Reference(p) # rest
  BY DEF Reference
<1>30. \A p \in escaped : p # "open" /\ p # "close" /\ Reference(p) \in Pieces /\ Reference(p) # A
  <2>1. \A p \in escaped : Reference(p) \in {"amp;", "#91;", "#93;"} /\ p # "open" /\ p # "close"
    BY DEF Reference
  <2> QED  BY <1>2, <2>1
<1>4. text \in Seq(Pieces)
  <2>1. STRING \subseteq Pieces
    BY Zenon DEF Pieces
  <2>2. \A k \in 1..n : text[k] \in Pieces
    BY <1>1, <2>1
  <2>3. text = [k \in 1..n |-> text[k]]
    OBVIOUS
  <2> QED  BY <1>1, <2>2, <2>3
<1>5. \A p : /\ p \in escaped => X(p) = <<A, Reference(p)>>
             /\ p \in escaped /\ p # c => Y(p) = <<A, Reference(p)>>
             /\ p = "open" => X(p) = <<"[", "CQ:">> /\ Y(p) = <<"[", "CQ:">>
             /\ p = "close" => X(p) = <<"]">> /\ Y(p) = <<"]">>
             /\ p \notin escaped /\ p # "open" /\ p # "close" => X(p) = <<p>> /\ Y(p) = <<p>>
  <2>1. "open" \notin escaped /\ "close" \notin escaped /\ "open" # "close"
    OBVIOUS
  <2> QED  BY <2>1 DEF Spelled
<1>50. Y(c) = <<c>>
  <2>1. c # "open" /\ c # "close"
    BY <1>30
  <2> QED  BY <2>1 DEF Spelled
<1>6. A \in escaped /\ c \in escaped /\ \A p \in escaped : p \in Pieces
  BY <1>2
<1>60. A \in Pieces /\ rest \in Pieces /\ c \in Pieces
  BY <1>2
<1> HIDE DEF n, A, rest, left
<1>7. \A p, q \in Pieces : <<p>> \in Seq(Pieces) /\ <<p, q>> \in Seq(Pieces)
  OBVIOUS
<1>8. \A k \in 1..n : text[k] \in Pieces
  BY <1>1, <1>4 DEF n
<1>9. \A p \in Pieces : X(p) \in Seq(Pieces) /\ Y(p) \in Seq(Pieces)
  <2> TAKE p \in Pieces
  <2>1. CASE p \in escaped
    <3>1. <<A, Reference(p)>> \in Seq(Pieces) /\ <<c>> \in Seq(Pieces)
      BY <1>2, <1>7, <1>30, <2>1
    <3> QED  BY <1>5, <1>50, <2>1, <3>1
  <2>2. CASE p \notin escaped
    <3>1. <<"[", "CQ:">> \in Seq(Pieces) /\ <<"]">> \in Seq(Pieces) /\ <<p>> \in Seq(Pieces)
      BY <1>2, <1>7
    <3> QED  BY <1>5, <2>2, <3>1
  <2> QED  BY <2>1, <2>2
<1> DEFINE e == WrittenFrom(text, escaped)
           m == WrittenFrom(text, left)
<1>10. e \in [1..(n + 1) -> Seq(Pieces)] /\ Spells(e, text, escaped) /\ Written(text, escaped) = e[1]
  <2>1. \A k \in 1..Len(text) : Spelled(text[k], escaped) \in Seq(Pieces)
    BY <1>8, <1>9 DEF n
  <2> QED  BY <1>4, <2>1, WrittenIs DEF n
<1>11. m \in [1..(n + 1) -> Seq(Pieces)] /\ Spells(m, text, left) /\ Written(text, left) = m[1]
  <2>1. \A k \in 1..Len(text) : Spelled(text[k], left) \in Seq(Pieces)
    BY <1>8, <1>9 DEF n
  <2> QED  BY <1>4, <2>1, WrittenIs DEF n
<1> HIDE DEF e, m
<1>12. /\ e[n + 1] = <<>> /\ \A k \in 1..n : e[k] = X(text[k]) \o e[k + 1]
       /\ m[n + 1] = <<>> /\ \A k \in 1..n : m[k] = Y(text[k]) \o m[k + 1]
  BY <1>10, <1>11, Zenon DEF Spells, n
<1>13. R(<<>>) = <<>>
  <2> DEFINE none == <<>>
  <2>1. none \in Seq(Pieces) /\ Len(none) = 0
    OBVIOUS
  <2> HIDE DEF none
  <2>2. R(none) = <<>>
    BY <1>2, <2>1, ReplacedNone
  <2> QED  BY <2>2 DEF none
<1>14. ASSUME NEW t \in Seq(Pieces), NEW p \in Pieces, p # A
       PROVE  R(Led(p, t)) = Led(p, R(t)) /\ R(t) \in Seq(Pieces) /\ Led(p, t) \in Seq(Pieces)
  <2>1. ~Refers(Led(p, t), rest, 1)
    BY <1>14, RefersFirst DEF A
  <2>2. Led(p, t) \in Seq(Pieces)
    BY DEF Led
  <2> QED  BY <1>60, <2>1, <2>2, ReplacedOne
<1>15. ASSUME NEW t \in Seq(Pieces)
       PROVE  R(<<A, rest>> \o t) = <<c>> \o R(t)
  <2> DEFINE u == Led(rest, t)
  <2>1. u \in Seq(Pieces) /\ Len(u) > 0 /\ u[1] = rest
    BY <1>60 DEF Led
  <2> HIDE DEF u
  <2>2. Refers(Led(A, u), rest, 1)
    BY <1>60, <2>1, RefersFirst DEF A
  <2>3. R(Led(A, u)) = Led(c, R(t))
    BY <1>60, <2>2, ReplacedTwo DEF u
  <2>4. Led(A, u) = <<A, rest>> \o t
    BY <1>60, TwoPieces DEF u
  <2> HIDE DEF R
  <2> QED  BY <2>3, <2>4, Zenon DEF Led
<1>16. ASSUME NEW t \in Seq(Pieces), NEW a \in Pieces, NEW b \in Pieces, b # A, b # rest
       PROVE  R(<<a, b>> \o t) = <<a, b>> \o R(t)
  <2> DEFINE u == Led(b, t)
  <2>1. u \in Seq(Pieces) /\ Len(u) > 0 /\ u[1] = b
    BY DEF Led
  <2>2. R(u) = Led(b, R(t)) /\ R(t) \in Seq(Pieces)
    BY <1>14, <1>16
  <2>3. Led(a, u) = <<a, b>> \o t
    BY TwoPieces
  <2> HIDE DEF u
  <2>4. ~Refers(Led(a, u), rest, 1)
    BY <1>16, <2>1, RefersFirst
  <2>5. R(Led(a, u)) = Led(a, R(u))
    BY <1>60, <2>1, <2>4, ReplacedOne
  <2> HIDE DEF R
  <2>6. Led(a, Led(b, R(t))) = <<a, b>> \o R(t)
    BY <2>2, TwoPieces
  <2> QED  BY <2>2, <2>3, <2>5, <2>6
<1>17. ASSUME NEW t \in Seq(Pieces), NEW p \in Pieces
       PROVE  R(X(p) \o t) = Y(p) \o R(t)
  <2> HIDE DEF R, X, Y
  <2>1. CASE p = c
    <3>1. X(p) = <<A, rest>> /\ Y(p) = <<c>>
      BY <1>5, <1>6, <1>50, <2>1 DEF rest
    <3> QED  BY <1>15, <3>1
  <2>2. CASE p \in escaped /\ p # c
    <3> DEFINE q == Reference(p)
    <3>1. X(p) = <<A, q>> /\ Y(p) = <<A, q>>
      BY <1>5, <2>2
    <3>2. q \in Pieces /\ q # A /\ q # rest
      BY <1>3, <1>30, <2>2
    <3> HIDE DEF q
    <3>3. R(<<A, q>> \o t) = <<A, q>> \o R(t)
      BY <1>16, <1>60, <3>2
    <3> QED  BY <3>1, <3>3
  <2>3. CASE p = "open"
    <3>1. X(p) = <<"[", "CQ:">> /\ Y(p) = <<"[", "CQ:">>
      BY <1>5, <2>3
    <3>2. "[" \in Pieces /\ "CQ:" \in Pieces /\ "CQ:" # A /\ "CQ:" # rest
      BY <1>2 DEF A, rest, Reference
    <3> QED  BY <1>16, <3>1, <3>2
  <2>4. CASE p = "close"
    <3>1. X(p) = <<"]">> /\ Y(p) = <<"]">>
      BY <1>5, <2>4
    <3>2. "]" \in Pieces /\ "]" # A
      BY <1>2 DEF A
    <3>3. R(Led("]", t)) = Led("]", R(t))
      BY <1>14, <3>2
    <3> QED  BY <3>1, <3>3, Zenon DEF Led
  <2>5. CASE p \notin escaped /\ p # "open" /\ p # "close"
    <3>1. X(p) = <<p>> /\ Y(p) = <<p>>
      BY <1>5, <2>5
    <3>2. p # A
      BY <1>6, <2>5
    <3>3. R(Led(p, t)) = Led(p, R(t))
      BY <1>14, <3>2
    <3> QED  BY <3>1, <3>3, Zenon DEF Led
  <2> QED  BY <2>1, <2>2, <2>3, <2>4, <2>5
<1> HIDE DEF R, X, Y
<1> DEFINE S == {k \in 1..(n + 1) : R(e[k]) = m[k]}
<1>18. n + 1 \in 1..(n + 1) /\ \A k \in 1..n : k \in 1..(n + 1) /\ k + 1 \in (k + 1)..(n + 1) /\ k + 1 \in 1..(n + 1)
  BY <1>1
<1>19. n + 1 \in S
  BY <1>12, <1>13, <1>18, Zenon
<1>20. ASSUME NEW k \in 1..n, \A i \in (k + 1)..(n + 1) : i \in S
       PROVE  k \in S
  <2>1. R(e[k + 1]) = m[k + 1]
    BY <1>18, <1>20
  <2>2. e[k + 1] \in Seq(Pieces) /\ text[k] \in Pieces
    BY <1>8, <1>10, <1>18
  <2>3. R(e[k]) = Y(text[k]) \o R(e[k + 1])
    BY <1>12, <1>17, <2>2
  <2>4. R(e[k]) = m[k]
    BY <1>12, <2>1, <2>3
  <2> QED  BY <1>18, <2>4
<1>21. \A k \in 1..(n + 1) : k \in S
  <2> HIDE DEF S
  <2> QED  BY <1>1, <1>19, <1>20, AllDown
<1>22. R(e[1]) = m[1]
  <2>1. 1 \in 1..(n + 1)
    BY <1>1
  <2> QED  BY <1>21, <2>1
<1> QED  BY <1>10, <1>11, <1>22 DEF R, rest, left

\* UnescapeCQText makes the text that was typed of OneBot's spelling of it: ampersands come
\* back last, so that one with "#91;" behind it stays.
LEMMA TypedAgain ==
    ASSUME NEW text \in Seq(STRING)
    PROVE  UnescapeCQText(Encoded(text)) = Plain(text)
<1> DEFINE A == {"&", "[", "]"}
           B == {"&", "]"}
           C == {"&"}
<1>1. ReplaceReference(Written(text, A), Reference("["), "[") = Written(text, A \ {"["})
  BY ReplacedWritten
<1>2. ReplaceReference(Written(text, B), Reference("]"), "]") = Written(text, B \ {"]"})
  BY ReplacedWritten
<1>3. ReplaceReference(Written(text, C), Reference("&"), "&") = Written(text, C \ {"&"})
  BY ReplacedWritten
<1>4. A \ {"["} = B /\ B \ {"]"} = C /\ C \ {"&"} = {}
  OBVIOUS
<1>5. Reference("[") = "#91;" /\ Reference("]") = "#93;" /\ Reference("&") = "amp;"
  BY DEF Reference
<1>6. Encoded(text) = Written(text, A) /\ Plain(text) = Written(text, {})
  BY DEF Encoded, Plain
<1> HIDE DEF A, B, C
<1> QED  BY <1>1, <1>2, <1>3, <1>4, <1>5, <1>6 DEF UnescapeCQText

\* .send: handleSend's text, and what sendGroupText makes of it.
LEMMA SendWhole ==
    ASSUME SmallAssumption, task \in Tasks, Send \/ SendJSON \/ JSON
    PROVE  SentAsTyped'
<1>1. CASE Send
  <2>1. task' = task /\ task.key = "send" /\ task.typed \in Seq(STRING)
    BY <1>1 DEF Send, New, SmallAssumption
  <2>2. answer'.text = sendGroupText(UnescapeCQText(Encoded(task.typed)), FALSE)
    BY <1>1 DEF Send, Answered, Empty
  <2>3. answer'.text = sendGroupText(Plain(task.typed), FALSE)
    BY <2>1, <2>2, TypedAgain
  <2> QED  BY <2>1, <2>3 DEF SentAsTyped
<1>2. CASE SendJSON
  <2>1. task' = task /\ task.key = "send_json" /\ task.typed \in Seq(STRING)
    BY <1>2 DEF SendJSON, New, SmallAssumption
  <2>2. answer'.at = "answered" => answer'.text = UnescapeCQText(Encoded(task.typed))
    BY <1>2 DEF SendJSON, Answered, Hint, Empty
  <2>3. answer'.at = "answered" => answer'.text = Plain(task.typed)
    BY <2>1, <2>2, TypedAgain
  <2> QED  BY <2>1, <2>3 DEF SentAsTyped
<1>3. CASE JSON
  <2> DEFINE history == RecentMessages(All)
             parts == [k \in DOMAIN history |-> Stored(history[k])]
  <2>1. task' = task /\ task.key = "json"
    BY <1>3 DEF JSON, New
  <2>2. answer'.at = "answered" => answer'.text = FlattenSeq(parts)
    BY <1>3 DEF JSON, Answered, Hint, Empty, sendGroupText
  <2>3. DOMAIN history = DOMAIN Places(All)
    BY DEF RecentMessages
  <2>4. parts = [k \in DOMAIN Places(All) |-> Stored(RecentMessages(All)[k])]
    BY <2>3, Zenon
  <2> HIDE DEF parts
  <2>5. answer'.at = "answered" =>
            answer'.text = FlattenSeq([k \in DOMAIN Places(All) |-> Stored(RecentMessages(All)[k])])
    BY <2>2, <2>4, Zenon
  <2>6. All' = All
    BY <2>1 DEF All
  <2>7. Places(All)' = Places(All)
    BY <2>1, <2>6 DEF Places
  <2>8. RecentMessages(All)' = RecentMessages(All)
    BY <2>1, <2>7, Zenon DEF RecentMessages
  <2> QED  BY <2>1, <2>5, <2>7, <2>8 DEF SentAsTyped
<1> QED  BY <1>1, <1>2, <1>3

-----------------------------------------------------------------------------
(* The loop of .faceid, and the invariant of the small commands. *)

\* The ids from the first on, n of them.
From(left, n) == [k \in 1..n |-> left + k - 1]

\* While the loop of handleFaceIDCommand runs and when it has ended.
Turning ==
    /\ task.left >= 1 /\ task.right - task.left + 1 <= MaxFaces
    /\ id \in task.left..(task.right + 1)
    /\ answer.faces = From(task.left, id - task.left)
    /\ answer.stickers = From(task.left, minInt(MaxStickers, id - task.left))
    /\ answer.at \in {"running", "answered"}
    /\ answer.at = "answered" => id = task.right + 1

FacesSoFar ==
    task.key = "faceid" /\ task.right < MaxInt =>
        \/ answer = Empty /\ id = 0
        \/ answer = Hint
        \/ Turning

SmallInv ==
    /\ SmallTypeOK /\ Shaped /\ TablesShaped /\ FacesSoFar /\ ReportSoFar
    /\ DiceAddUp /\ ReportIsWhole /\ SentAsTyped /\ MirrorIsSymmetric

\* One id more.
LEMMA FromOneMore ==
    ASSUME NEW left \in Nat, NEW n \in Nat
    PROVE  /\ From(left, n) \in Seq(Nat \cup Int) /\ Len(From(left, n)) = n
           /\ Append(From(left, n), left + n) = From(left, n + 1)
           /\ \A m \in 0..n : SubSeq(From(left, n), 1, m) = From(left, m)
<1> DEFINE s == From(left, n)
<1>1. s \in Seq(Int) /\ Len(s) = n /\ DOMAIN s = 1..n /\ \A k \in 1..n : s[k] = left + k - 1
  BY DEF From
<1>2. Append(s, left + n) = From(left, n + 1)
  <2> DEFINE t == Append(s, left + n)
             u == From(left, n + 1)
  <2>1. t \in Seq(Int) /\ Len(t) = n + 1 /\ t[n + 1] = left + n /\ \A k \in 1..n : t[k] = s[k]
    BY <1>1
  <2>2. DOMAIN t = 1..(n + 1) /\ t = [k \in 1..(n + 1) |-> t[k]]
    BY <2>1
  <2>3. \A k \in 1..(n + 1) : t[k] = left + k - 1
    <3> TAKE k \in 1..(n + 1)
    <3>1. k = n + 1 \/ k \in 1..n
      OBVIOUS
    <3> HIDE DEF t
    <3> QED  BY <3>1, <2>1, <1>1
  <2> HIDE DEF t
  <2> QED  BY <2>2, <2>3 DEF From
<1>3. \A m \in 0..n : SubSeq(s, 1, m) = From(left, m)
  <2> TAKE m \in 0..n
  <2>1. SubSeq(s, 1, m) = [k \in 1..m |-> s[k]]
    BY <1>1
  <2>2. \A k \in 1..m : s[k] = left + k - 1
    BY <1>1
  <2> HIDE DEF s
  <2> QED  BY <2>1, <2>2 DEF From
<1> QED  BY <1>1, <1>2, <1>3

\* The start and the turns of the loop of handleFaceIDCommand.
LEMMA FacesStart ==
    ASSUME SmallAssumption, SmallTypeOK, FaceID
    PROVE  FacesSoFar'
<1>1. task' = task /\ task.key = "faceid" /\ answer = Empty /\ id = 0
  BY DEF FaceID, New
<1> SUFFICES ASSUME task.right < MaxInt
             PROVE  answer' = Hint \/ Turning'
  BY <1>1 DEF FacesSoFar
<1> DEFINE l == task.left
           r == task.right
<1>2. l \in Int /\ r \in Int /\ MaxInt \in Nat /\ MaxStickers \in Nat
  BY <1>1 DEF SmallTypeOK, SmallAssumption
<1>3. CASE l <= 0 \/ r <= 0 \/ l > r \/ Wrap(r - l + 1) > MaxFaces
  BY <1>3 DEF FaceID
<1>4. CASE ~(l <= 0 \/ r <= 0 \/ l > r \/ Wrap(r - l + 1) > MaxFaces)
  <2>1. id' = l /\ answer' = Empty
    BY <1>1, <1>4 DEF FaceID
  <2>2. l >= 1 /\ r >= l /\ r < MaxInt /\ ~(Wrap(r - l + 1) > MaxFaces)
    BY <1>2, <1>4
  <2> HIDE DEF l, r
  <2>3. r - l + 1 \in (-MaxInt - 1)..MaxInt
    BY <1>2, <2>2
  <2>4. Wrap(r - l + 1) = r - l + 1
    BY <2>3, WrapIs
  <2>5. MaxFaces \in Nat
    BY DEF SmallAssumption
  <2>6. r - l + 1 <= MaxFaces
    BY <1>2, <2>2, <2>4, <2>5
  <2>7. l \in l..(r + 1) /\ l - l = 0 /\ minInt(MaxStickers, l - l) = 0
    BY <1>2, <2>2 DEF minInt
  <2>8. From(l, 0) = <<>>
    BY DEF From
  <2>9. answer'.faces = <<>> /\ answer'.stickers = <<>> /\ answer'.at = "running"
    BY <2>1 DEF Empty
  <2> QED  BY <1>1, <2>1, <2>2, <2>6, <2>7, <2>8, <2>9 DEF Turning, l, r
<1> QED  BY <1>3, <1>4

LEMMA FacesTurn ==
    ASSUME SmallAssumption, SmallTypeOK, Shaped, FacesSoFar, AddFace
    PROVE  FacesSoFar'
<1>1. /\ task' = task /\ task.key = "faceid" /\ answer.at = "running" /\ id # 0
  BY DEF AddFace
<1> SUFFICES ASSUME task.right < MaxInt
             PROVE  Turning'
  BY <1>1 DEF FacesSoFar
<1> DEFINE l == task.left
           r == task.right
           n == id - l
<1>2. l \in Int /\ r \in Int /\ MaxInt \in Nat /\ MaxStickers \in Nat /\ MaxFaces \in Nat
  BY <1>1 DEF SmallTypeOK, SmallAssumption
<1>3. Turning
  <2>1. answer # Hint
    BY <1>1 DEF Hint, Empty
  <2> QED  BY <1>1, <2>1 DEF FacesSoFar
<1>4. /\ l >= 1 /\ r - l + 1 <= MaxFaces /\ id \in l..(r + 1)
      /\ answer.faces = From(l, n) /\ answer.stickers = From(l, minInt(MaxStickers, n))
  BY <1>3 DEF Turning
<1> HIDE DEF l, r
<1>5. CASE id > r
  <2>1. id' = id /\ answer' = [answer EXCEPT !.at = "answered"]
    BY <1>5 DEF AddFace, r
  <2>2. answer'.faces = answer.faces /\ answer'.stickers = answer.stickers /\ answer'.at = "answered"
    BY <2>1 DEF Shaped
  <2>3. id = r + 1
    BY <1>2, <1>4, <1>5
  <2> QED  BY <1>1, <1>4, <2>1, <2>2, <2>3 DEF Turning, l, r
<1>6. CASE ~(id > r)
  <2>1. /\ id' = Wrap(id + 1)
        /\ answer' = [answer EXCEPT !.faces = Append(@, id),
               !.stickers = IF Wrap(n + 1) <= MaxStickers THEN Append(@, id) ELSE @]
    BY <1>6 DEF AddFace, l, r
  <2>2. id \in Nat /\ n \in Nat /\ id <= r /\ l + n = id /\ l \in Nat /\ r < MaxInt
    BY <1>2, <1>4, <1>6 DEF r
  <2>3. id + 1 \in (-MaxInt - 1)..MaxInt /\ n + 1 \in (-MaxInt - 1)..MaxInt
    BY <1>2, <1>4, <2>2
  <2>4. Wrap(id + 1) = id + 1 /\ Wrap(n + 1) = n + 1
    BY <2>3, WrapIs
  <2>5. /\ answer'.faces = Append(answer.faces, id)
        /\ answer'.stickers = IF n + 1 <= MaxStickers THEN Append(answer.stickers, id) ELSE answer.stickers
        /\ answer'.at = "running"
    BY <1>1, <2>1, <2>4 DEF Shaped
  <2>6. (id + 1) - l = n + 1 /\ id + 1 \in l..(r + 1)
    BY <1>2, <1>4, <2>2
  <2> HIDE DEF n
  <2>7. answer'.faces = From(l, n + 1)
    BY <1>4, <2>2, <2>5, FromOneMore
  <2>8. answer'.stickers = From(l, minInt(MaxStickers, n + 1))
    <3>1. CASE n + 1 <= MaxStickers
      <4>1. minInt(MaxStickers, n) = n /\ minInt(MaxStickers, n + 1) = n + 1
        BY <1>2, <2>2, <3>1 DEF minInt
      <4>2. answer'.stickers = Append(From(l, n), l + n)
        BY <1>4, <2>2, <2>5, <3>1, <4>1
      <4>3. Append(From(l, n), l + n) = From(l, n + 1)
        BY <2>2, FromOneMore
      <4> QED  BY <4>1, <4>2, <4>3
    <3>2. CASE ~(n + 1 <= MaxStickers)
      <4>1. minInt(MaxStickers, n) = MaxStickers /\ minInt(MaxStickers, n + 1) = MaxStickers
        BY <1>2, <2>2, <3>2 DEF minInt
      <4> QED  BY <1>4, <2>5, <3>2, <4>1
    <3> QED  BY <3>1, <3>2
  <2>9. id' = id + 1
    BY <2>1, <2>4
  <2> QED  BY <1>1, <1>4, <2>5, <2>6, <2>7, <2>8, <2>9 DEF Turning, l, r
<1> QED  BY <1>5, <1>6

\* What is shown when the loop has ended.
LEMMA FacesFollow ==
    ASSUME SmallAssumption, SmallTypeOK, FacesSoFar
    PROVE  FacesAsAsked
<1> SUFFICES ASSUME task.key = "faceid", task.right < MaxInt
             PROVE  /\ Len(answer.faces) <= MaxFaces
                    /\ answer.at = "answered" =>
                           /\ answer.faces = From(task.left, task.right - task.left + 1)
                           /\ answer.stickers = SubSeq(answer.faces, 1, minInt(MaxStickers, Len(answer.faces)))
  BY DEF FacesAsAsked, From
<1> DEFINE l == task.left
           r == task.right
           n == id - l
<1>1. l \in Int /\ r \in Int /\ MaxStickers \in Nat /\ MaxFaces \in Nat
  BY DEF SmallTypeOK, SmallAssumption
<1>2. CASE answer = Empty \/ answer = Hint
  <2>1. answer.faces = <<>> /\ answer.at # "answered"
    BY <1>2 DEF Empty, Hint
  <2> QED  BY <2>1, <1>1
<1>3. CASE Turning
  <2>1. /\ l >= 1 /\ r - l + 1 <= MaxFaces /\ id \in l..(r + 1)
        /\ answer.faces = From(l, n) /\ answer.stickers = From(l, minInt(MaxStickers, n))
        /\ answer.at = "answered" => id = r + 1
    BY <1>3 DEF Turning
  <2> HIDE DEF l, r
  <2>2. l \in Nat /\ n \in Nat /\ n <= r - l + 1
    BY <1>1, <2>1
  <2>3. id = r + 1 => n = r - l + 1
    BY <1>1
  <2> HIDE DEF n
  <2>4. Len(From(l, n)) = n /\ \A m \in 0..n : SubSeq(From(l, n), 1, m) = From(l, m)
    BY <2>2, FromOneMore
  <2>5. minInt(MaxStickers, n) \in 0..n
    BY <1>1, <2>2 DEF minInt
  <2>6. n <= MaxFaces
    BY <1>1, <2>1, <2>2
  <2> QED  BY <2>1, <2>3, <2>4, <2>5, <2>6 DEF l, r
<1> QED  BY <1>2, <1>3 DEF FacesSoFar

\* A statement that fails is none of .faceid's.
LEMMA FacesNotAsked ==
    ASSUME FacesSoFar, QueryErr
    PROVE  FacesSoFar'
<1>1. task' = task
  BY DEF QueryErr
<1> SUFFICES ASSUME task.key = "faceid", task.right < MaxInt
             PROVE  FALSE
  BY <1>1 DEF FacesSoFar
<1>2. answer.at \in {"running", "answered", "hint"}
  BY DEF FacesSoFar, Turning, Empty, Hint
<1> QED  BY <1>2 DEF QueryErr, New, Statements

\* Answers keep their shape and their types, and what is stored stays in the table.
LEMMA AnswersShaped ==
    ASSUME SmallAssumption, SmallTypeOK, Shaped, TablesShaped, ReportSoFar, SmallNext
    PROVE  SmallTypeOK' /\ Shaped' /\ TablesShaped'
<1> DEFINE AtPlaces == {"running", "answered", "hint", "silent", "failed"} \cup Statements
           Fit == Shaped' /\ answer'.at \in AtPlaces
           I == (-MaxInt - 1)..MaxInt
           Tables == /\ seen'.messages \subseteq table'.messages /\ seen'.mentions \subseteq table'.mentions
                     /\ table'.mentions \subseteq {m \in table'.messages : m.at # None}
                     /\ task.key = "report" => table'.messages \subseteq task.messages
<1>1. /\ task' = task /\ task \in Tasks /\ id \in I /\ answer.at \in AtPlaces
      /\ seen.messages \subseteq table.messages /\ seen.mentions \subseteq table.mentions
      /\ table.mentions \subseteq {m \in table.messages : m.at # None}
      /\ task.key = "report" => table.messages \subseteq task.messages
  BY OnlyItsOwn DEF SmallTypeOK
<1>2. \A v : answer' = Answered("text", v) => Fit
  BY DEF Answered, Empty, Shaped
<1>3. \A v : answer' = Answered("faces", v) \/ answer' = Answered("stickers", v) \/ answer' = Answered("urls", v) => Fit
  BY DEF Answered, Empty, Shaped
<1>4. \A v : \A at \in Statements : answer' = [Empty EXCEPT !.at = at, !.text = v] => Fit
  BY DEF Empty, Shaped, Statements
<1>5. answer' = Hint \/ answer' = [Empty EXCEPT !.at = "failed"] \/ answer' = [Empty EXCEPT !.at = "silent"] => Fit
  BY DEF Hint, Empty, Shaped
<1>6. answer' = answer => Fit
  BY <1>1 DEF Shaped
<1>7. table' = table /\ seen' = seen => Tables /\ TablesShaped'
  BY <1>1 DEF TablesShaped
<1>8. Tables /\ Fit /\ id' \in I => SmallTypeOK' /\ Shaped'
  BY <1>1 DEF SmallTypeOK
<1>9. UNCHANGED <<task, id, table, seen>> /\ Fit => SmallTypeOK' /\ Shaped' /\ TablesShaped'
  BY <1>1, <1>7, <1>8
<1> HIDE DEF Fit, Tables, AtPlaces
<1>10. CASE Dice \/ AllFaces \/ SendAllFaces \/ Face
  <2>1. Dice => Fit /\ UNCHANGED <<task, id, table, seen>>
    BY <1>2, <1>5 DEF Dice
  <2>2. AllFaces \/ SendAllFaces \/ Face => Fit /\ UNCHANGED <<task, id, table, seen>>
    BY <1>2, <1>3, <1>5 DEF AllFaces, SendAllFaces, Face
  <2> QED  BY <1>9, <1>10, <2>1, <2>2
<1>11. CASE FaceID
  <2>1. Fit /\ table' = table /\ seen' = seen
    BY <1>5, <1>6, <1>11 DEF FaceID
  <2>2. task.key = "faceid" /\ (id' = id \/ id' = task.left)
    BY <1>11 DEF FaceID, New
  <2>3. task.left \in I
    BY <2>2, <1>1 DEF SmallAssumption
  <2> QED  BY <1>1, <1>7, <1>8, <2>1, <2>2, <2>3
<1>12. CASE AddFace
  <2>1. table' = table /\ seen' = seen /\ (id' = id \/ id' = Wrap(id + 1))
    BY <1>12 DEF AddFace
  <2>2. Fit
    BY <1>12, <1>1 DEF AddFace, Fit, Shaped, AtPlaces
  <2>3. id + 1 \in Int
    BY <1>1 DEF SmallAssumption
  <2>4. Wrap(id + 1) \in I
    BY <2>3, WrapIn
  <2> QED  BY <1>1, <1>7, <1>8, <2>1, <2>2, <2>4
<1>13. CASE GetFaceID \/ GetLikes
  <2>1. "likes" \in Statements
    BY DEF Statements
  <2>2. UNCHANGED <<task, id, table, seen>>
    BY <1>13 DEF GetFaceID, GetLikes
  <2>3. GetFaceID => answer' = Hint \/ \E v : answer' = [Empty EXCEPT !.at = "likes", !.text = v]
    BY DEF GetFaceID
  <2>4. GetLikes => answer' = Hint \/ \E v : answer' = Answered("text", v)
    BY DEF GetLikes
  <2>5. Fit
    BY <1>2, <1>4, <1>5, <1>13, <2>1, <2>3, <2>4
  <2> QED  BY <1>9, <2>2, <2>5
<1>14. CASE File \/ Prompt \/ GenerateImage
  <2>1. "pictures" \in Statements
    BY DEF Statements
  <2>2. UNCHANGED <<task, id, table, seen>>
    BY <1>14 DEF File, Prompt, GenerateImage
  <2>3. File \/ GenerateImage => answer' = Hint \/ \E v : answer' = Answered("urls", v)
    BY DEF File, GenerateImage
  <2>4. Prompt => answer' = Hint \/ \E v : answer' = [Empty EXCEPT !.at = "pictures", !.text = v]
    BY DEF Prompt
  <2>5. Fit
    BY <1>3, <1>4, <1>5, <1>14, <2>1, <2>3, <2>4
  <2> QED  BY <1>9, <2>2, <2>5
<1>15. CASE Send \/ SendJSON \/ JSON \/ SendText \/ Mirror
  <2>1. Fit /\ UNCHANGED <<task, id, table, seen>>
    BY <1>2, <1>5, <1>15 DEF Send, SendJSON, JSON, SendText, Mirror
  <2> QED  BY <1>9, <2>1
<1>16. CASE QueryErr
  <2>1. Fit /\ UNCHANGED <<task, id, table, seen>>
    BY <1>5, <1>16 DEF QueryErr
  <2> QED  BY <1>9, <2>1
<1>17. CASE CountMessages
  <2>1. UNCHANGED <<task, id, table>> /\ seen' = table
    BY <1>17 DEF CountMessages
  <2>2. "group" \in Statements
    BY DEF Statements
  <2>3. \E v : answer' = [Empty EXCEPT !.at = "group", !.text = v]
    BY <1>17 DEF CountMessages
  <2>4. Fit
    BY <1>4, <2>2, <2>3
  <2>5. Tables /\ TablesShaped'
    BY <1>1, <2>1 DEF Tables, TablesShaped
  <2> QED  BY <1>1, <1>8, <2>1, <2>4, <2>5
<1>18. CASE NameGroup \/ RankDays \/ RankNights
  <2>1. UNCHANGED <<task, id, table, seen>>
    BY <1>18 DEF NameGroup, RankDays, RankNights
  <2>2. \E v : \E at \in {"days", "nights", "atted"} :
            answer' = [at |-> at, faces |-> answer.faces, stickers |-> answer.stickers,
                       text |-> v, urls |-> answer.urls]
    <3>1. NameGroup => answer' = [answer EXCEPT !.at = "days"]
      BY DEF NameGroup
    <3>2. RankDays => \E v : answer' = [answer EXCEPT !.at = "nights", !.text = v]
      BY DEF RankDays
    <3>3. RankNights => \E v : answer' = [answer EXCEPT !.at = "atted", !.text = v]
      BY DEF RankNights
    <3> QED  BY <1>18, <3>1, <3>2, <3>3 DEF Shaped
  <2>3. Fit
    BY <2>2 DEF Fit, Shaped, AtPlaces, Statements
  <2> QED  BY <1>9, <2>1, <2>3
<1>19. CASE RankAtted
  <2>1. UNCHANGED <<task, id, table, seen>>
    BY <1>19 DEF RankAtted
  <2>2. answer' = Hint \/ \E v : answer' = [answer EXCEPT !.at = "answered", !.text = v]
    BY <1>19 DEF RankAtted
  <2>3. Fit
    BY <1>5, <2>2 DEF Fit, Shaped, AtPlaces
  <2> QED  BY <1>9, <2>1, <2>3
<1>20. CASE MessageStored \/ MentionStored
  <2>1. /\ TablesShaped' /\ task' = task /\ id' = id /\ answer' = answer /\ seen' = seen
        /\ table.messages \subseteq table'.messages /\ table'.messages \subseteq task.messages
        /\ table.mentions \subseteq table'.mentions
        /\ table'.mentions \subseteq {m \in table'.messages : m.at # None}
    BY <1>20, TableGrows
  <2>2. Tables
    BY <1>1, <2>1 DEF Tables
  <2> QED  BY <1>1, <1>6, <1>8, <2>1, <2>2
<1> QED  BY <1>10, <1>11, <1>12, <1>13, <1>14, <1>15, <1>16, <1>17, <1>18, <1>19, <1>20 DEF SmallNext

\* The invariant of the small commands: answers have their shape, .faceid has come as far as its loop
\* variable says and .report as far as its statements, the table only grows, and what .d, .report,
\* .send, .sendjson, .json and the mirror have answered is right.
THEOREM SmallInvariance ==
    ASSUME SmallAssumption
    PROVE  SmallSpec => []SmallInv
<1>1. SmallInit => SmallInv
  <2> SUFFICES ASSUME SmallInit
               PROVE  SmallInv
    OBVIOUS
  <2>1. answer = Empty /\ id = 0 /\ task \in Tasks /\ answer.at = "running" /\ seen = NoRows
    BY DEF SmallInit, Empty
  <2>2. /\ TablesShaped /\ table.mentions \subseteq {m \in table.messages : m.at # None}
        /\ task.key = "report" => table.messages \subseteq task.messages
    <3>1. CASE task.key = "report"
      <4>1. PICK messages \in SUBSET task.messages : \E mentions \in SUBSET {m \in messages : m.at # None} :
                table = [messages |-> messages, mentions |-> mentions]
        BY <3>1 DEF SmallInit
      <4> QED  BY <2>1, <4>1 DEF TablesShaped, NoRows
    <3>2. CASE task.key # "report"
      BY <2>1, <3>2 DEF SmallInit, TablesShaped, NoRows
    <3> QED  BY <3>1, <3>2
  <2>3. SmallTypeOK
    BY <2>1, <2>2 DEF SmallTypeOK, SmallAssumption, NoRows
  <2>4. Shaped
    BY <2>1 DEF Shaped, Empty
  <2>5. ReportSoFar
    BY <2>1 DEF ReportSoFar, Stages
  <2> QED  BY <2>1, <2>2, <2>3, <2>4, <2>5
           DEF SmallInv, FacesSoFar, DiceAddUp, ReportIsWhole, SentAsTyped, MirrorIsSymmetric
<1>2. SmallInv /\ [SmallNext]_smallVars => SmallInv'
  <2> SUFFICES ASSUME SmallInv, [SmallNext]_smallVars
               PROVE  SmallInv'
    OBVIOUS
  <2>1. CASE SmallNext
    <3>1. /\ SmallTypeOK /\ Shaped /\ TablesShaped /\ FacesSoFar /\ ReportSoFar /\ task \in Tasks
          /\ DiceAddUp /\ ReportIsWhole /\ SentAsTyped /\ MirrorIsSymmetric
      BY DEF SmallInv, SmallTypeOK
    <3>2. SmallTypeOK' /\ Shaped' /\ TablesShaped'
      BY <2>1, <3>1, AnswersShaped
    <3>3. task' = task
      BY <2>1, OnlyItsOwn
    <3>4. QueryErr => answer'.at = "failed"
      BY DEF QueryErr, Empty
    <3>5. FacesSoFar'
      <4>1. CASE task.key = "faceid"
        BY <2>1, <3>1, <4>1, OnlyItsOwn, FacesStart, FacesTurn, FacesNotAsked
      <4>2. CASE task.key # "faceid"
        BY <3>3, <4>2 DEF FacesSoFar
      <4> QED  BY <4>1, <4>2
    <3>6. DiceAddUp'
      <4>1. CASE task.key = "dice" /\ Dice
        BY <3>1, <4>1, DiceWhole
      <4>2. CASE task.key # "dice" \/ QueryErr
        BY <3>3, <3>4, <4>2 DEF DiceAddUp
      <4> QED  BY <2>1, <4>1, <4>2, OnlyItsOwn
    <3>7. ReportSoFar' /\ ReportIsWhole'
      <4>1. CASE task.key = "report"
        BY <2>1, <3>1, <4>1, OnlyItsOwn, ReportTurn
      <4>2. CASE task.key # "report"
        BY <3>3, <4>2 DEF ReportSoFar, ReportIsWhole
      <4> QED  BY <4>1, <4>2
    <3>8. MirrorIsSymmetric'
      <4>1. CASE task.key = "mirror" /\ Mirror
        BY <3>1, <4>1, MirrorWhole
      <4>2. CASE task.key # "mirror" \/ QueryErr
        BY <3>3, <3>4, <4>2 DEF MirrorIsSymmetric
      <4> QED  BY <2>1, <4>1, <4>2, OnlyItsOwn
    <3>9. SentAsTyped'
      <4>1. CASE Send \/ SendJSON \/ JSON
        BY <3>1, <4>1, SendWhole
      <4>2. CASE task.key \notin {"send", "send_json", "json"} \/ QueryErr
        BY <3>3, <3>4, <4>2 DEF SentAsTyped
      <4> QED  BY <2>1, <4>1, <4>2, OnlyItsOwn
    <3> QED  BY <3>2, <3>5, <3>6, <3>7, <3>8, <3>9 DEF SmallInv
  <2>2. CASE UNCHANGED smallVars
    <3>1. task' = task /\ id' = id /\ answer' = answer /\ table' = table /\ seen' = seen
      BY <2>2 DEF smallVars
    <3>2. SmallTypeOK' /\ Shaped' /\ TablesShaped' /\ FacesSoFar'
      BY <3>1 DEF SmallInv, SmallTypeOK, Shaped, TablesShaped, FacesSoFar, Turning
    <3>3. DiceAddUp' /\ MirrorIsSymmetric'
      BY <3>1 DEF SmallInv, DiceAddUp, MirrorIsSymmetric
    <3>4. /\ Reported(seen.messages)' = Reported(seen.messages) /\ Reported(table.messages)' = Reported(table.messages)
          /\ Reported(seen.mentions)' = Reported(seen.mentions) /\ Reported(table.mentions)' = Reported(table.mentions)
      BY <3>1 DEF Reported
    <3>5. ReportSoFar'
      BY <3>1, <3>4 DEF SmallInv, ReportSoFar
    <3>6. ReportIsWhole'
      BY <3>1, <3>4 DEF SmallInv, ReportIsWhole
    <3>7. All' = All
      BY <3>1 DEF All
    <3>8. Places(All)' = Places(All)
      BY <3>1, <3>7 DEF Places
    <3>9. RecentMessages(All)' = RecentMessages(All)
      BY <3>1, <3>8, Zenon DEF RecentMessages
    <3>10. SentAsTyped'
      BY <3>1, <3>8, <3>9 DEF SmallInv, SentAsTyped
    <3> QED  BY <3>2, <3>3, <3>5, <3>6, <3>10 DEF SmallInv
  <2> QED  BY <2>1, <2>2
<1> QED  BY <1>1, <1>2, PTL DEF SmallSpec

\* The types of the small commands: the loop variable of .faceid stays an int, every answer is one of the
\* kinds there are, and what a report has seen is still in the table, mentions with their messages.
THEOREM SmallTypeCorrect ==
    ASSUME SmallAssumption
    PROVE  SmallSpec => []SmallTypeOK
<1>1. SmallInv => SmallTypeOK
  BY DEF SmallInv
<1> QED  BY <1>1, SmallInvariance, PTL

\* The dice add up (handleDiceCommand), the faces are those asked for (handleFaceIDCommand), a report
\* misses nothing that was stored when it was asked for and tells of nothing that is not, whatever is
\* stored between its five statements (ReportStats), what .send hands to sendGroupText and what .sendjson
\* sends is what was typed, whatever ampersands and brackets are in it (UnescapeCQText), .json shows what
\* is stored, and a mirrored picture is symmetric (mirroredSourcePoint).
THEOREM SmallAnswersExact ==
    ASSUME SmallAssumption
    PROVE  SmallSpec => [](DiceAddUp /\ FacesAsAsked /\ ReportIsWhole /\ SentAsTyped /\ MirrorIsSymmetric)
<1>1. SmallInv => DiceAddUp /\ FacesAsAsked /\ ReportIsWhole /\ SentAsTyped /\ MirrorIsSymmetric
  BY FacesFollow DEF SmallInv
<1> QED  BY <1>1, SmallInvariance, PTL
=============================================================================
