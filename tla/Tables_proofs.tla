--------------------------- MODULE Tables_proofs ----------------------------
(***************************************************************************)
(* Proofs about the two readers of table sections: Guide, for any          *)
(* services, sections, packet and table sizes, and ScanTables, for any     *)
(* tables of any pids.                                                     *)
(*                                                                         *)
(* Reheard and HeardIsKnown stand on one account of a list of sections     *)
(* cut into packets: where the cycle has the cells of each section         *)
(* (SectionsLieIn), where a packet has its pointer (PointerIsIn), and      *)
(* which packet is the last of a section (LastIsIn).                       *)
(*                                                                         *)
(* Reheard.  The lemmas about a list of sections, for the guide's own      *)
(* (SectionsLie, PointerIs, LastIs).  Then the invariant: once a packet    *)
(* with a pointer has come and none was lost since (Synced), the           *)
(* thread stands at a place of the cycle (Idling, Appending, Handling)     *)
(* where the assembler holds what came before of the section it is in, and *)
(* the sections that ended before in this packet were sent (DoneTo).  One  *)
(* lemma for each action keeps it; a packet ends where its last section is *)
(* behind the thread (Exhausted, StepEnds).                                *)
(*                                                                         *)
(* NowOfService.  parse_eit_section looks at the section's kind and number *)
(* before it reads the events and at g_svc again before it stores them,    *)
(* and the command thread may change the channel in between.  What the     *)
(* first look found stays (ToStore), and the second look does the rest of  *)
(* what the header says.  That the events are of the same section is the   *)
(* invariant of Reheard once more: a section handed on in step is whole    *)
(* (Handling, InStepIsOfSection).                                          *)
(*                                                                         *)
(* AsBroadcast.  A scan folds over the cells of a packet, and each parser  *)
(* over the entries of its section.  A fold whose steps stay within a set  *)
(* has a value in it (FoldExists, FoldChain); the set is Results, the      *)
(* results that hold nothing but what is on the air.                       *)
(*                                                                         *)
(* HeardIsKnown.  A parser only adds (Grows): what the result tells of a   *)
(* section it goes on telling (TellingStays), and a section just parsed is *)
(* told (ParsedTells), unless its table is full.  So each section received *)
(* whole has to be parsed once.  The invariant is HearingInv: of a section *)
(* whose packets so far came in a row, the assembler of its pid holds what *)
(* came (Collecting).  Cell by cell through a packet it goes on so         *)
(* (NextCell, GoesThrough, ReadsThrough), and at the last cell of a        *)
(* section the parser is run on all of it.                                 *)
(***************************************************************************)
EXTENDS Guide, ScanTables, TLAPS, NaturalsInduction, WellFoundedInduction,
        FiniteSetTheorems

-----------------------------------------------------------------------------
(* Sequences of anything.                                                  *)
IsSeq(s) == s \in Seq(Range(s))

LEMMA SeqIsSeq == ASSUME NEW S, NEW s \in Seq(S) PROVE IsSeq(s)
  BY DEF IsSeq, Range

LEMMA ElementsOf ==
  ASSUME NEW s, IsSeq(s)
  PROVE  Len(s) \in Nat /\ DOMAIN s = 1..Len(s) /\ (s = <<>> <=> Len(s) = 0)
  BY DEF IsSeq

LEMMA Concatenated ==
  ASSUME NEW s, NEW t, IsSeq(s), IsSeq(t)
  PROVE  /\ IsSeq(s \o t)
         /\ Len(s \o t) = Len(s) + Len(t)
         /\ \A i \in 1..Len(s) : (s \o t)[i] = s[i]
         /\ \A i \in (Len(s) + 1)..(Len(s) + Len(t)) : (s \o t)[i] = t[i - Len(s)]
<1> DEFINE S == Range(s) \union Range(t)
<1>1. s \in Seq(S) /\ t \in Seq(S)
  BY DEF IsSeq
<1>2. s \o t \in Seq(S)
  BY <1>1
<1>3. IsSeq(s \o t)
  BY <1>2, SeqIsSeq
<1> HIDE DEF S
<1> QED BY <1>1, <1>3

(* Sequences with the same members are the same.                           *)
LEMMA SameMembers ==
  ASSUME NEW s, NEW t, IsSeq(s), IsSeq(t), Len(s) = Len(t),
         \A i \in 1..Len(s) : s[i] = t[i]
  PROVE  s = t
<1>1. s \in Seq(Range(s) \union Range(t)) /\ t \in Seq(Range(s) \union Range(t))
  BY DEF IsSeq
<1> QED BY <1>1

(* Every set of natural numbers that is not empty has a least element:     *)
(* what an argument by induction over data comes down to here.             *)
LEMMA LeastNatural ==
  ASSUME NEW S \in SUBSET Nat, S # {}
  PROVE  \E n \in S : \A m \in S : n <= m
<1> DEFINE R == OpToRel(<, Nat)
<1>1. \A x, y \in Nat : x < y => <<x, y>> \in R
  BY DEF OpToRel
<1>2. IsWellFoundedOn(R, Nat)
  BY NatLessThanWellFounded
<1> HIDE DEF R
<1>3. PICK x \in S : \A y \in S : ~(<<y, x>> \in R)
  BY <1>2, WFMin
<1>4. ASSUME NEW m \in S PROVE x <= m
  <2>1. ~(<<m, x>> \in R)
    BY <1>3
  <2>2. ~(m < x)
    BY <2>1, <1>1
  <2>3. m \in Nat /\ x \in Nat
    OBVIOUS
  <2> QED BY <2>2, <2>3
<1> QED BY <1>4

(* Induction up to n, about a set.                                         *)
LEMMA UpTo ==
  ASSUME NEW n \in Nat, NEW G, 1 \in G, \A k \in 1..n : k \in G /\ k < n => k + 1 \in G
  PROVE  1..n \subseteq G
<1> DEFINE Bad == (1..n) \ G
<1>1. SUFFICES ASSUME Bad # {} PROVE FALSE
  OBVIOUS
<1>2. Bad \in SUBSET Nat
  OBVIOUS
<1> HIDE DEF Bad
<1>3. PICK k \in Bad : \A m \in Bad : k <= m
  BY <1>1, <1>2, LeastNatural
<1>4. k \in 1..n /\ k \notin G /\ k # 1
  BY <1>3 DEF Bad
<1>5. k - 1 \in 1..n /\ k - 1 < n /\ ~(k <= k - 1)
  BY <1>4
<1>6. k - 1 \in G
  BY <1>5, <1>3 DEF Bad
<1>7. (k - 1) + 1 \in G
  BY <1>5, <1>6
<1> QED BY <1>7, <1>4

(* FlattenSeq: what is put together step by step, to the last sequence.    *)
LEMMA Flattened ==
  ASSUME NEW S, NEW ss \in Seq(Seq(S)), ss # <<>>
  PROVE  \E f \in [1..Len(ss) -> Seq(S)] :
           /\ f[1] = ss[1] /\ FlattenSeq(ss) = f[Len(ss)]
           /\ \A i \in 1..Len(ss) : i < Len(ss) => f[i + 1] = f[i] \o ss[i + 1]
<1> DEFINE n == Len(ss)
           Value(g, i) == IF i = 1 THEN ss[i] ELSE g[i - 1] \o ss[i]
           Is(g, k) == g \in [1..k -> Seq(S)] /\ \A i \in 1..k : g[i] = Value(g, i)
           flatten[i \in 1..n] == IF i = 1 THEN ss[i] ELSE flatten[i - 1] \o ss[i]
           Exists == {k \in 1..n : \E g : Is(g, k)}
           Typed == {k \in 1..n : flatten[k] \in Seq(S)}
<1>1. n \in Nat /\ n >= 1 /\ \A i \in 1..n : ss[i] \in Seq(S)
  OBVIOUS
<1>f. FlattenSeq(ss) = flatten[n]
  BY <1>1 DEF FlattenSeq
<1> HIDE DEF n, flatten
<1>2. 1 \in Exists
  <2>1. Is([i \in 1..1 |-> ss[1]], 1)
    BY <1>1
  <2> HIDE DEF Is
  <2> QED BY <2>1, <1>1
<1>3. ASSUME NEW k \in 1..n, k \in Exists, k < n PROVE k + 1 \in Exists
  <2>1. PICK g : Is(g, k)
    BY <1>3
  <2> DEFINE h == [i \in 1..(k + 1) |-> IF i = k + 1 THEN g[k] \o ss[k + 1] ELSE g[i]]
  <2>2. k + 1 \in 1..n /\ g[k] \in Seq(S) /\ ss[k + 1] \in Seq(S)
    BY <2>1, <1>1, <1>3
  <2>3. g[k] \o ss[k + 1] \in Seq(S)
    BY <2>2
  <2>4. h \in [1..(k + 1) -> Seq(S)]
    <3>1. ASSUME NEW i \in 1..(k + 1), i # k + 1 PROVE g[i] \in Seq(S)
      BY <3>1, <2>1, <1>1
    <3> QED BY <3>1, <2>3
  <2>5. ASSUME NEW i \in 1..(k + 1) PROVE h[i] = Value(h, i)
    <3>1. CASE i = k + 1
      <4>1. i # 1 /\ k \in 1..(k + 1) /\ k # k + 1 /\ i - 1 = k
        BY <3>1, <1>1
      <4> QED BY <4>1, <3>1
    <3>2. CASE i # k + 1 /\ i = 1
      <4>1. h[i] = g[i] /\ i \in 1..k
        BY <3>2, <1>1
      <4> HIDE DEF h
      <4> QED BY <4>1, <3>2, <2>1
    <3>3. CASE i # k + 1 /\ i # 1
      <4>1. h[i] = g[i] /\ i \in 1..k /\ h[i - 1] = g[i - 1]
        BY <3>3, <1>1
      <4> HIDE DEF h
      <4> QED BY <4>1, <3>3, <2>1
    <3> QED BY <3>1, <3>2, <3>3
  <2> HIDE DEF h
  <2>6. Is(h, k + 1)
    BY <2>4, <2>5
  <2> HIDE DEF Is
  <2> QED BY <2>6, <2>2
<1>4. 1..n \subseteq Exists
  <2> HIDE DEF Exists
  <2> QED BY <1>1, <1>2, <1>3, UpTo
<1>fix. flatten = [i \in 1..n |-> Value(flatten, i)]
  <2> HIDE DEF Is
  <2>0. n \in Exists
    <3> HIDE DEF Exists
    <3> QED BY <1>1, <1>4
  <2>1. \E g : Is(g, n)
    BY <2>0
  <2> USE DEF Is
  <2>2. PICK g : g \in [1..n -> Seq(S)] /\ \A i \in 1..n : g[i] = Value(g, i)
    <3> HIDE DEF Value
    <3> QED BY <2>1
  <2>3. g = [i \in 1..n |-> Value(g, i)]
    BY <2>2
  <2>4. flatten = [i \in 1..n |-> Value(flatten, i)]
    BY <2>3 DEF flatten
  <2> QED BY <2>4
<1>5. \A i \in 1..n : flatten[i] = Value(flatten, i)
  BY <1>fix
<1>6. 1 \in Typed
  BY <1>1, <1>5
<1>7. ASSUME NEW k \in 1..n, k \in Typed, k < n PROVE k + 1 \in Typed
  <2>1. k + 1 \in 1..n /\ flatten[k] \in Seq(S) /\ ss[k + 1] \in Seq(S)
    BY <1>1, <1>7
  <2>2. k + 1 # 1 /\ (k + 1) - 1 = k
    BY <1>1
  <2>3. flatten[k + 1] = Value(flatten, k + 1)
    BY <2>1, <1>5
  <2>4. flatten[k + 1] = flatten[k] \o ss[k + 1]
    BY <2>2, <2>3
  <2>5. flatten[k] \o ss[k + 1] \in Seq(S)
    BY <2>1
  <2> QED BY <2>1, <2>4, <2>5
<1>8. 1..n \subseteq Typed
  <2> HIDE DEF Typed
  <2> QED BY <1>1, <1>6, <1>7, UpTo
<1>9. \A i \in 1..n : flatten[i] \in Seq(S)
  BY <1>8
<1>10. flatten = [i \in 1..n |-> flatten[i]]
  <2>1. flatten = [i \in 1..n |-> Value(flatten, i)]
    BY <1>fix
  <2> QED BY <2>1
<1>11. flatten \in [1..n -> Seq(S)]
  BY <1>9, <1>10
<1>12. flatten[1] = ss[1]
  BY <1>1, <1>5
<1>13. ASSUME NEW i \in 1..n, i < n PROVE flatten[i + 1] = flatten[i] \o ss[i + 1]
  <2>1. i + 1 \in 1..n /\ i + 1 # 1 /\ (i + 1) - 1 = i
    BY <1>1, <1>13
  <2>2. flatten[i + 1] = Value(flatten, i + 1)
    BY <2>1, <1>5
  <2> QED BY <2>1, <2>2
<1> HIDE DEF Value, Is, Exists, Typed
<1>14. \E f \in [1..n -> Seq(S)] :
           /\ f[1] = ss[1] /\ FlattenSeq(ss) = f[n]
           /\ \A i \in 1..n : i < n => f[i + 1] = f[i] \o ss[i + 1]
  BY <1>f, <1>11, <1>12, <1>13
<1> QED BY <1>14 DEF n

(* A part of a sequence.                                                   *)
LEMMA CutIs ==
  ASSUME NEW S, NEW s \in Seq(S), NEW l \in Nat, NEW n \in Nat, 1 <= l, n <= Len(s)
  PROVE  /\ SubSeq(s, l, n) \in Seq(S)
         /\ l <= n => SubSeq(s, l, n) # <<>> /\ Len(SubSeq(s, l, n)) = n - l + 1
         /\ n + 1 = l => Len(SubSeq(s, l, n)) = 0
         /\ \A i \in 1..(n - l + 1) : SubSeq(s, l, n)[i] = s[l - 1 + i]
<1>1. /\ SubSeq(s, l, n) \in Seq(S)
      /\ \A i \in 1..(n - l + 1) : SubSeq(s, l, n)[i] = s[l - 1 + i]
  OBVIOUS
<1>2. l <= n => Len(SubSeq(s, l, n)) = n - l + 1
  OBVIOUS
<1>3. n + 1 = l => Len(SubSeq(s, l, n)) = 0
  OBVIOUS
<1>4. l <= n => Len(SubSeq(s, l, n)) # 0
  BY <1>2
<1>5. Len(<<>>) = 0
  OBVIOUS
<1>6. l <= n => SubSeq(s, l, n) # <<>>
  BY <1>4, <1>5, Zenon
<1> QED BY <1>1, <1>2, <1>3, <1>6

LEMMA FrontIs ==
  ASSUME NEW S, NEW s \in Seq(S), NEW n \in Nat, n <= Len(s)
  PROVE  /\ SubSeq(s, 1, n) \in Seq(S) /\ Len(SubSeq(s, 1, n)) = n
         /\ \A i \in 1..n : SubSeq(s, 1, n)[i] = s[i]
  OBVIOUS

LEMMA PartIs ==
  ASSUME NEW S, NEW s \in Seq(S), NEW a \in Nat, NEW b \in Nat, a + b <= Len(s)
  PROVE  /\ SubSeq(s, a + 1, a + b) \in Seq(S)
         /\ Len(SubSeq(s, a + 1, a + b)) = b
         /\ \A i \in 1..b : SubSeq(s, a + 1, a + b)[i] = s[a + i]
<1>1. SubSeq(s, a + 1, a + b) \in Seq(S)
  OBVIOUS
<1>2. Len(SubSeq(s, a + 1, a + b)) = b
  OBVIOUS
<1>3. \A i \in 1..b : SubSeq(s, a + 1, a + b)[i] = s[a + i]
  OBVIOUS
<1> QED BY <1>1, <1>2, <1>3

-----------------------------------------------------------------------------
(* Sections laid out one behind the other: CycleOf puts section k at       *)
(* Start(ss, k), and between the sections is stuffing.                     *)
Cells == [of : Nat, at : Nat]
Piece(ss, k) == CellsOf(ss[k], k) \o [i \in 1..ss[k].pad |-> Stuffing]
CellOf(k, i) == [of |-> k, at |-> i]

LaidOut(ss) ==
  /\ ss \in Seq(Range(ss))
  /\ \A k \in DOMAIN ss : ss[k].size \in Nat \ {0} /\ ss[k].pad \in Nat
Packed(ss) == LaidOut(ss) /\ Len(CycleOf(ss)) % Room = 0

Start(ss, k) == (CHOOSE j \in DOMAIN CycleOf(ss) : CycleOf(ss)[j] = CellOf(k, 1)) - 1
Stop(ss, k) == Start(ss, k) + ss[k].size

LEMMA LaidOutIs ==
  ASSUME NEW ss, LaidOut(ss)
  PROVE  /\ Len(ss) \in Nat /\ DOMAIN ss = 1..Len(ss)
         /\ \A k \in DOMAIN ss : k \in Nat /\ k > 0 /\ ss[k].size \in Nat /\ ss[k].size > 0
                                  /\ ss[k].pad \in Nat
  BY DEF LaidOut

LEMMA PieceIs ==
  ASSUME NEW ss, LaidOut(ss), NEW k \in DOMAIN ss
  PROVE  /\ Piece(ss, k) \in Seq(Cells) /\ Len(Piece(ss, k)) = ss[k].size + ss[k].pad
         /\ \A i \in 1..ss[k].size : Piece(ss, k)[i] = CellOf(k, i)
         /\ \A i \in 1..Len(Piece(ss, k)) : i > ss[k].size => Piece(ss, k)[i] = Stuffing
<1> DEFINE a == ss[k].size  b == ss[k].pad
           s == [i \in 1..a |-> CellOf(k, i)]  t == [i \in 1..b |-> Stuffing]
<1>1. a \in Nat /\ b \in Nat /\ k \in Nat
  BY LaidOutIs
<1>2. \A i \in 1..a : CellOf(k, i) \in Cells
  BY <1>1 DEF CellOf, Cells
<1>3. Stuffing \in Cells
  BY DEF Stuffing, Cells
<1>4. Piece(ss, k) = s \o t
  BY DEF Piece, CellsOf, CellOf
<1> HIDE DEF a, b
<1>5. s \in Seq(Cells) /\ Len(s) = a /\ \A i \in 1..a : s[i] = CellOf(k, i)
  BY <1>1, <1>2
<1>6. t \in Seq(Cells) /\ Len(t) = b /\ \A i \in 1..b : t[i] = Stuffing
  BY <1>1, <1>3
<1> HIDE DEF s, t
<1>7. s \o t \in Seq(Cells) /\ Len(s \o t) = a + b
  BY <1>5, <1>6
<1>8. \A i \in 1..a : (s \o t)[i] = CellOf(k, i)
  BY <1>1, <1>5, <1>6
<1>9. \A i \in 1..(a + b) : i > a => (s \o t)[i] = Stuffing
  BY <1>1, <1>5, <1>6
<1> QED BY <1>4, <1>7, <1>8, <1>9 DEF a, b

(* The cells of the sections, and nothing but these and stuffing.          *)
LaidTo(ss, c, n, first) ==
  /\ \A k \in 1..n : \A i \in 1..ss[k].size :
       first[k] + i \in 1..Len(c) /\ c[first[k] + i] = CellOf(k, i)
  /\ \A j \in 1..Len(c) : \/ c[j] = Stuffing
                          \/ \E k \in 1..n : \E i \in 1..ss[k].size :
                               j = first[k] + i /\ c[j] = CellOf(k, i)

LEMMA PieceAdded ==
  ASSUME NEW ss, LaidOut(ss), NEW n \in Nat, NEW c \in Seq(Cells), NEW first,
         n + 1 \in DOMAIN ss,
         \A k \in 1..(n + 1) : first[k] \in Nat,
         n > 0 => LaidTo(ss, c, n, first), n = 0 => c = <<>>, first[n + 1] = Len(c)
  PROVE  LaidTo(ss, c \o Piece(ss, n + 1), n + 1, first)
<1> DEFINE d == c \o Piece(ss, n + 1)  a == ss[n + 1].size
<1>1. /\ Piece(ss, n + 1) \in Seq(Cells) /\ Len(Piece(ss, n + 1)) >= a /\ a \in Nat
      /\ \A i \in 1..a : Piece(ss, n + 1)[i] = CellOf(n + 1, i)
      /\ \A i \in 1..Len(Piece(ss, n + 1)) : i > a => Piece(ss, n + 1)[i] = Stuffing
  <2> DEFINE k == n + 1
  <2>1. k \in DOMAIN ss
    OBVIOUS
  <2> HIDE DEF k
  <2>2. /\ Piece(ss, k) \in Seq(Cells) /\ Len(Piece(ss, k)) = ss[k].size + ss[k].pad
        /\ \A i \in 1..ss[k].size : Piece(ss, k)[i] = CellOf(k, i)
        /\ \A i \in 1..Len(Piece(ss, k)) : i > ss[k].size => Piece(ss, k)[i] = Stuffing
    BY <2>1, PieceIs
  <2>3. ss[k].size \in Nat /\ ss[k].pad \in Nat
    BY <2>1, LaidOutIs
  <2>4. Len(Piece(ss, k)) >= ss[k].size
    BY <2>2, <2>3
  <2> QED BY <2>2, <2>3, <2>4 DEF k
<1>2. /\ d \in Seq(Cells) /\ Len(d) = Len(c) + Len(Piece(ss, n + 1))
      /\ \A j \in 1..Len(c) : d[j] = c[j]
      /\ \A j \in 1..Len(Piece(ss, n + 1)) : d[Len(c) + j] = Piece(ss, n + 1)[j]
  BY <1>1
<1>3. /\ Len(c) \in Nat /\ Len(Piece(ss, n + 1)) \in Nat
      /\ \A k \in 1..n : k \in DOMAIN ss /\ ss[k].size \in Nat
  <2>1. Len(c) \in Nat /\ Len(Piece(ss, n + 1)) \in Nat
    BY <1>1
  <2>2. \A k \in 1..n : k \in DOMAIN ss
    BY LaidOutIs
  <2> QED BY <2>1, <2>2, LaidOutIs
<1> HIDE DEF d, a
<1>4. ASSUME NEW k \in 1..(n + 1), NEW i \in 1..ss[k].size
      PROVE  first[k] + i \in 1..Len(d) /\ d[first[k] + i] = CellOf(k, i)
  <2>1. CASE k = n + 1
    <3>1. i \in 1..a
      BY <2>1 DEF a
    <3>2. i \in 1..Len(Piece(ss, n + 1)) /\ first[k] + i = Len(c) + i
      BY <2>1, <3>1, <1>1, <1>3
    <3>3. d[Len(c) + i] = CellOf(k, i)
      BY <3>1, <3>2, <1>1, <1>2, <2>1
    <3> QED BY <3>2, <3>3, <1>2, <1>3
  <2>2. CASE k # n + 1
    <3>1. k \in 1..n /\ n > 0
      BY <2>2
    <3>2. first[k] + i \in 1..Len(c) /\ c[first[k] + i] = CellOf(k, i)
      BY <3>1 DEF LaidTo
    <3> QED BY <3>2, <1>2, <1>3
  <2> QED BY <2>1, <2>2
<1>5. ASSUME NEW j \in 1..Len(d)
      PROVE  \/ d[j] = Stuffing
             \/ \E k \in 1..(n + 1) : \E i \in 1..ss[k].size :
                  j = first[k] + i /\ d[j] = CellOf(k, i)
  <2>1. CASE j \in 1..Len(c)
    <3>1. n > 0
      BY <2>1
    <3>2. \/ c[j] = Stuffing
          \/ \E k \in 1..n : \E i \in 1..ss[k].size :
               j = first[k] + i /\ c[j] = CellOf(k, i)
      BY <3>1, <2>1 DEF LaidTo
    <3>3. \A k \in 1..n : k \in 1..(n + 1)
      OBVIOUS
    <3>4. d[j] = c[j]
      BY <2>1, <1>2
    <3> QED BY <3>2, <3>3, <3>4
  <2>2. CASE ~(j \in 1..Len(c))
    <3> DEFINE i == j - Len(c)
    <3>1. i \in 1..Len(Piece(ss, n + 1)) /\ j = Len(c) + i
      BY <2>2, <1>2, <1>3
    <3> HIDE DEF i
    <3>2. d[j] = Piece(ss, n + 1)[i]
      BY <3>1, <1>2
    <3>3. CASE i > a
      BY <3>1, <3>2, <3>3, <1>1
    <3>4. CASE ~(i > a)
      <4>1. i \in 1..a
        BY <3>1, <3>4, <1>1, <1>3
      <4>2. i \in 1..ss[n + 1].size /\ j = first[n + 1] + i
        BY <4>1, <3>1 DEF a
      <4>3. d[j] = CellOf(n + 1, i)
        BY <4>1, <3>2, <1>1
      <4>4. n + 1 \in 1..(n + 1)
        OBVIOUS
      <4> QED BY <4>2, <4>3, <4>4
    <3> QED BY <3>3, <3>4
  <2> QED BY <2>1, <2>2
<1>6. LaidTo(ss, d, n + 1, first)
  BY <1>4, <1>5 DEF LaidTo
<1> QED BY <1>6 DEF d

LEMMA PiecesLaid ==
  ASSUME NEW ss, LaidOut(ss), ss # <<>>
  PROVE  /\ CycleOf(ss) \in Seq(Cells)
         /\ \E first \in [DOMAIN ss -> Nat] : LaidTo(ss, CycleOf(ss), Len(ss), first)
<1> DEFINE n == Len(ss)  pieces == [k \in DOMAIN ss |-> Piece(ss, k)]
<1>1. n \in Nat /\ n >= 1 /\ DOMAIN ss = 1..n
  BY LaidOutIs
<1>2. CycleOf(ss) = FlattenSeq(pieces)
  BY DEF CycleOf, Piece
<1> HIDE DEF n
<1>3. /\ pieces \in Seq(Seq(Cells)) /\ Len(pieces) = n
      /\ \A k \in 1..n : pieces[k] = Piece(ss, k)
  BY <1>1, PieceIs
<1> HIDE DEF pieces
<1>4. PICK f \in [1..n -> Seq(Cells)] :
        /\ f[1] = pieces[1] /\ FlattenSeq(pieces) = f[n]
        /\ \A i \in 1..n : i < n => f[i + 1] = f[i] \o pieces[i + 1]
  <2>1. pieces # <<>> /\ pieces \in Seq(Seq(Cells))
    BY <1>1, <1>3
  <2>2. \E f \in [1..Len(pieces) -> Seq(Cells)] :
           /\ f[1] = pieces[1] /\ FlattenSeq(pieces) = f[Len(pieces)]
           /\ \A i \in 1..Len(pieces) : i < Len(pieces) => f[i + 1] = f[i] \o pieces[i + 1]
    BY <2>1, Flattened
  <2> QED BY <2>2, <1>3
<1> DEFINE first == [k \in 1..n |-> IF k = 1 THEN 0 ELSE Len(f[k - 1])]
           Good == {k \in 1..n : LaidTo(ss, f[k], k, first)}
<1>5. \A k \in 1..n : first[k] \in Nat
  <2> TAKE k \in 1..n
  <2>1. CASE k = 1
    BY <2>1
  <2>2. CASE k # 1
    <3>1. k - 1 \in 1..n
      BY <2>2, <1>1
    <3>2. f[k - 1] \in Seq(Cells)
      BY <3>1
    <3> QED BY <2>2, <3>2
  <2> QED BY <2>1, <2>2
<1>6. 1 \in Good
  <2>1. first[1] = 0 /\ 1 \in 1..n /\ 0 + 1 = 1
    BY <1>1
  <2>2. <<>> \o Piece(ss, 1) = Piece(ss, 1) /\ <<>> \in Seq(Cells) /\ Len(<<>>) = 0
    BY PieceIs, <1>1
  <2>3. \A k \in 1..(0 + 1) : first[k] \in Nat
    BY <1>5, <1>1
  <2> HIDE DEF first
  <2>4. LaidTo(ss, <<>> \o Piece(ss, 0 + 1), 0 + 1, first)
    <3> DEFINE e == <<>>  m == 0
    <3>1. e \in Seq(Cells) /\ e = <<>> /\ first[m + 1] = Len(e)
      BY <2>1, <2>2
    <3>2. /\ m \in Nat /\ ~(m > 0) /\ m + 1 \in DOMAIN ss
          /\ \A k \in 1..(m + 1) : first[k] \in Nat
      BY <2>1, <2>3, <1>1
    <3> HIDE DEF e, m
    <3>3. LaidTo(ss, e \o Piece(ss, m + 1), m + 1, first)
      BY <3>1, <3>2, PieceAdded
    <3> QED BY <3>3 DEF e, m
  <2>5. LaidTo(ss, f[1], 1, first)
    BY <2>2, <2>4, <1>3, <1>4, <2>1
  <2> QED BY <2>5, <2>1
<1>7. ASSUME NEW k \in 1..n, k \in Good, k < n PROVE k + 1 \in Good
  <2>1. k + 1 \in 1..n /\ k > 0 /\ k \in Nat /\ k + 1 # 1 /\ (k + 1) - 1 = k
    BY <1>1, <1>7
  <2>2. first[k + 1] = Len(f[k])
    BY <2>1
  <2>3. LaidTo(ss, f[k], k, first) /\ f[k] \in Seq(Cells)
    BY <1>7
  <2>4. \A m \in 1..(k + 1) : first[m] \in Nat
    BY <1>5, <1>1, <2>1
  <2>5. f[k + 1] = f[k] \o Piece(ss, k + 1)
    BY <2>1, <1>3, <1>4, <1>7
  <2> HIDE DEF first
  <2>6. k + 1 \in DOMAIN ss
    BY <2>1, <1>1
  <2> DEFINE c == f[k]
  <2>7. /\ c \in Seq(Cells) /\ first[k + 1] = Len(c) /\ LaidTo(ss, c, k, first)
        /\ k \in Nat /\ ~(k = 0)
    BY <2>1, <2>2, <2>3
  <2> HIDE DEF c
  <2>8. LaidTo(ss, c \o Piece(ss, k + 1), k + 1, first)
    BY <2>4, <2>6, <2>7, PieceAdded
  <2> QED BY <2>1, <2>5, <2>8 DEF c
<1>8. 1..n \subseteq Good
  <2> HIDE DEF Good
  <2> QED BY <1>1, <1>6, <1>7, UpTo
<1>9. n \in 1..n
  BY <1>1
<1>10. LaidTo(ss, f[n], n, first)
  BY <1>8, <1>9
<1>11. first \in [DOMAIN ss -> Nat]
  BY <1>1, <1>5
<1>12. f[n] = CycleOf(ss) /\ f[n] \in Seq(Cells)
  BY <1>2, <1>4, <1>9
<1> HIDE DEF first
<1> QED BY <1>10, <1>11, <1>12 DEF n

LEMMA NothingLaid == ASSUME NEW ss, ss = <<>> PROVE CycleOf(ss) = <<>>
<1>1. [k \in DOMAIN ss |-> Piece(ss, k)] = <<>>
  OBVIOUS
<1> QED BY <1>1 DEF CycleOf, Piece, FlattenSeq

(* Each section is at its place, and in each other place is stuffing.      *)
LEMMA SectionsLieIn ==
  ASSUME NEW ss, LaidOut(ss)
  PROVE
  /\ CycleOf(ss) \in Seq(Cells) /\ Len(CycleOf(ss)) \in Nat
  /\ \A k \in DOMAIN ss :
       /\ Start(ss, k) \in Nat /\ Stop(ss, k) \in Nat /\ Start(ss, k) < Stop(ss, k)
       /\ Stop(ss, k) <= Len(CycleOf(ss))
       /\ Stop(ss, k) = Start(ss, k) + ss[k].size
       /\ \A j \in 1..Len(CycleOf(ss)) :
            Start(ss, k) < j /\ j <= Stop(ss, k) => CycleOf(ss)[j] = CellOf(k, j - Start(ss, k))
  /\ \A j \in 1..Len(CycleOf(ss)) :
       CycleOf(ss)[j] = Stuffing \/ \E k \in DOMAIN ss : Start(ss, k) < j /\ j <= Stop(ss, k)
<1>1. CASE ss = <<>>
  <2>1. CycleOf(ss) = <<>> /\ DOMAIN ss = {}
    BY <1>1, NothingLaid
  <2>2. <<>> \in Seq(Cells) /\ Len(<<>>) = 0
    OBVIOUS
  <2> QED BY <2>1, <2>2
<1>2. CASE ss # <<>>
  <2>1. /\ CycleOf(ss) \in Seq(Cells) /\ Len(CycleOf(ss)) \in Nat
        /\ DOMAIN CycleOf(ss) = 1..Len(CycleOf(ss))
    BY <1>2, PiecesLaid
  <2>2. PICK first \in [DOMAIN ss -> Nat] : LaidTo(ss, CycleOf(ss), Len(ss), first)
    BY <1>2, PiecesLaid
  <2>3. \A k \in DOMAIN ss : \A i \in 1..ss[k].size :
          first[k] + i \in 1..Len(CycleOf(ss)) /\ CycleOf(ss)[first[k] + i] = CellOf(k, i)
    <3>1. DOMAIN ss = 1..Len(ss)
      BY LaidOutIs
    <3> QED BY <3>1, <2>2 DEF LaidTo
  <2>4. \A j \in 1..Len(CycleOf(ss)) :
          \/ CycleOf(ss)[j] = Stuffing
          \/ \E k \in DOMAIN ss : \E i \in 1..ss[k].size :
               j = first[k] + i /\ CycleOf(ss)[j] = CellOf(k, i)
    BY <2>2, LaidOutIs, ZenonT(60) DEF LaidTo
  <2>5. ASSUME NEW k \in DOMAIN ss PROVE Start(ss, k) = first[k]
    <3>1. 1 \in 1..ss[k].size /\ k > 0 /\ first[k] \in Nat
      BY LaidOutIs
    <3>2. /\ first[k] + 1 \in DOMAIN CycleOf(ss)
          /\ CycleOf(ss)[first[k] + 1] = CellOf(k, 1)
      BY <3>1, <2>1, <2>3
    <3>3. ASSUME NEW j \in DOMAIN CycleOf(ss),
                 CycleOf(ss)[j] = CellOf(k, 1)
          PROVE  j = first[k] + 1
      <4>1. CellOf(k, 1) # Stuffing
        BY <3>1 DEF CellOf, Stuffing
      <4>2. PICK m \in DOMAIN ss : \E i \in 1..ss[m].size :
               j = first[m] + i /\ CycleOf(ss)[j] = CellOf(m, i)
        BY <4>1, <3>3, <2>1, <2>4
      <4>3. PICK i \in 1..ss[m].size : j = first[m] + i /\ CycleOf(ss)[j] = CellOf(m, i)
        BY <4>2
      <4>4. m = k /\ i = 1
        BY <4>3, <3>3 DEF CellOf
      <4> QED BY <4>3, <4>4
    <3>4. (CHOOSE j \in DOMAIN CycleOf(ss) : CycleOf(ss)[j] = CellOf(k, 1)) = first[k] + 1
      BY <3>2, <3>3
    <3>5. Start(ss, k) = (CHOOSE j \in DOMAIN CycleOf(ss) : CycleOf(ss)[j] = CellOf(k, 1)) - 1
      BY DEF Start
    <3>6. Start(ss, k) = (first[k] + 1) - 1
      BY <3>4, <3>5
    <3> QED BY <3>1, <3>6
  <2>6. ASSUME NEW k \in DOMAIN ss
        PROVE  /\ Start(ss, k) \in Nat /\ Stop(ss, k) \in Nat
               /\ Start(ss, k) < Stop(ss, k) /\ Stop(ss, k) <= Len(CycleOf(ss))
               /\ Stop(ss, k) = Start(ss, k) + ss[k].size
               /\ \A j \in 1..Len(CycleOf(ss)) :
                    Start(ss, k) < j /\ j <= Stop(ss, k) => CycleOf(ss)[j] = CellOf(k, j - Start(ss, k))
    <3>1. /\ Start(ss, k) = first[k] /\ Start(ss, k) \in Nat /\ ss[k].size \in Nat
          /\ ss[k].size > 0
          /\ Stop(ss, k) = Start(ss, k) + ss[k].size
      BY <2>5, LaidOutIs DEF Stop
    <3>2. ss[k].size \in 1..ss[k].size
      BY <3>1
    <3>3. first[k] + ss[k].size \in 1..Len(CycleOf(ss))
      BY <3>2, <2>3
    <3>4. ASSUME NEW j \in 1..Len(CycleOf(ss)), Start(ss, k) < j, j <= Stop(ss, k)
          PROVE  CycleOf(ss)[j] = CellOf(k, j - Start(ss, k))
      <4>1. j - Start(ss, k) \in 1..ss[k].size /\ first[k] + (j - Start(ss, k)) = j
        BY <3>1, <3>4, <2>1
      <4> QED BY <4>1, <2>3
    <3> QED BY <3>1, <3>3, <3>4
  <2>7. ASSUME NEW j \in 1..Len(CycleOf(ss)), CycleOf(ss)[j] # Stuffing
        PROVE  \E k \in DOMAIN ss : Start(ss, k) < j /\ j <= Stop(ss, k)
    <3>1. PICK k \in DOMAIN ss : \E i \in 1..ss[k].size :
               j = first[k] + i /\ CycleOf(ss)[j] = CellOf(k, i)
      BY <2>4, <2>7
    <3>2. PICK i \in 1..ss[k].size : j = first[k] + i
      BY <3>1
    <3>3. /\ Start(ss, k) = first[k] /\ first[k] \in Nat
          /\ Stop(ss, k) = Start(ss, k) + ss[k].size
      BY <2>5 DEF Stop
    <3> QED BY <3>2, <3>3, LaidOutIs
  <2> QED BY <2>1, <2>6, <2>7
<1> QED BY <1>1, <1>2

(* No two sections have a cell in the same place.                          *)
LEMMA ApartIn ==
  ASSUME NEW ss, LaidOut(ss), NEW k \in DOMAIN ss, NEW m \in DOMAIN ss, k # m
  PROVE  Stop(ss, k) <= Start(ss, m) \/ Stop(ss, m) <= Start(ss, k)
<1> SUFFICES ASSUME Start(ss, m) < Stop(ss, k), Start(ss, k) < Stop(ss, m) PROVE FALSE
  BY SectionsLieIn
<1> DEFINE j == IF Start(ss, k) < Start(ss, m) THEN Start(ss, m) + 1 ELSE Start(ss, k) + 1
<1>1. /\ j \in 1..Len(CycleOf(ss)) /\ Start(ss, k) < j /\ j <= Stop(ss, k)
      /\ Start(ss, m) < j /\ j <= Stop(ss, m)
  BY SectionsLieIn
<1> HIDE DEF j
<1>2. /\ CycleOf(ss)[j] = CellOf(k, j - Start(ss, k))
      /\ CycleOf(ss)[j] = CellOf(m, j - Start(ss, m))
  BY <1>1, SectionsLieIn
<1> QED BY <1>2 DEF CellOf

(* Where there is stuffing no section has a cell, and a header is where a  *)
(* section begins.                                                         *)
LEMMA StuffingIsIn ==
  ASSUME NEW ss, LaidOut(ss), NEW j \in 1..Len(CycleOf(ss)), CycleOf(ss)[j] = Stuffing,
         NEW k \in DOMAIN ss
  PROVE  ~(Start(ss, k) < j /\ j <= Stop(ss, k))
<1> SUFFICES ASSUME Start(ss, k) < j /\ j <= Stop(ss, k) PROVE FALSE
  OBVIOUS
<1>1. CycleOf(ss)[j] = CellOf(k, j - Start(ss, k)) /\ k # 0
  BY SectionsLieIn, LaidOutIs
<1> QED BY <1>1 DEF CellOf, Stuffing

LEMMA BeginsIsIn ==
  ASSUME NEW ss, LaidOut(ss), NEW j \in 1..Len(CycleOf(ss))
  PROVE  Begins(CycleOf(ss)[j]) <=> \E k \in DOMAIN ss : Start(ss, k) = j - 1
<1>1. ASSUME Begins(CycleOf(ss)[j]) PROVE \E k \in DOMAIN ss : Start(ss, k) = j - 1
  <2>1. CycleOf(ss)[j] # Stuffing
    BY <1>1 DEF Begins, Stuffing
  <2>2. PICK k \in DOMAIN ss : Start(ss, k) < j /\ j <= Stop(ss, k)
    BY <2>1, SectionsLieIn
  <2>3. CycleOf(ss)[j] = CellOf(k, j - Start(ss, k)) /\ Start(ss, k) \in Nat
    BY <2>2, SectionsLieIn
  <2>4. j - Start(ss, k) = 1
    BY <2>3, <1>1 DEF Begins, CellOf
  <2> QED BY <2>3, <2>4
<1>2. ASSUME NEW k \in DOMAIN ss, Start(ss, k) = j - 1 PROVE Begins(CycleOf(ss)[j])
  <2>1. Start(ss, k) < j /\ j <= Stop(ss, k) /\ j - Start(ss, k) = 1 /\ k # 0
    BY <1>2, SectionsLieIn, LaidOutIs
  <2>2. CycleOf(ss)[j] = CellOf(k, 1)
    BY <2>1, SectionsLieIn
  <2> QED BY <2>1, <2>2 DEF Begins, CellOf
<1> QED BY <1>1, <1>2

-----------------------------------------------------------------------------
(* Packets.                                                                *)
Base(n) == (n - 1) * Room
PacketsIn(ss) == Len(CycleOf(ss)) \div Room
PacketIn(ss, n) == PacketOf(CycleOf(ss), Room, n)

LEMMA PacketsAreIn ==
  ASSUME NEW ss, Packed(ss)
  PROVE  /\ Room \in Nat /\ Room > 0 /\ PacketsIn(ss) \in Nat
         /\ PacketsIn(ss) * Room = Len(CycleOf(ss))
<1>1. Room \in Nat /\ Room > 0
  BY PacketAssumption
<1>2. Len(CycleOf(ss)) \in Nat /\ Len(CycleOf(ss)) % Room = 0
  BY SectionsLieIn DEF Packed
<1> DEFINE l == Len(CycleOf(ss))
<1> HIDE DEF l
<1>3. l \in Nat /\ l % Room = 0 => (l \div Room) \in Nat /\ (l \div Room) * Room = l
  BY <1>1
<1> QED BY <1>1, <1>2, <1>3 DEF l, PacketsIn

LEMMA BasesIn ==
  ASSUME NEW ss, Packed(ss), NEW n \in 1..PacketsIn(ss)
  PROVE  /\ Base(n) \in Nat /\ n * Room = Base(n) + Room /\ Base(n + 1) = Base(n) + Room
         /\ Base(n) + Room <= Len(CycleOf(ss)) /\ Base(1) = 0
         /\ (n = PacketsIn(ss) => Base(n) + Room = Len(CycleOf(ss)))
<1>1. Room \in Nat /\ PacketsIn(ss) \in Nat /\ n \in Nat /\ n >= 1 /\ n <= PacketsIn(ss)
  BY PacketsAreIn
<1>2. (n - 1) * Room \in Nat /\ n * Room = (n - 1) * Room + Room
  BY <1>1
<1>3. (n + 1) - 1 = n /\ (1 - 1) * Room = 0
  BY <1>1
<1>4. n * Room <= PacketsIn(ss) * Room
  BY <1>1
<1> QED BY <1>2, <1>3, <1>4, PacketsAreIn DEF Base

LEMMA BasesGrowIn ==
  ASSUME NEW ss, Packed(ss), NEW m \in 1..PacketsIn(ss), NEW n \in 1..PacketsIn(ss),
         m < n
  PROVE  Base(m) + Room <= Base(n)
<1>1. Room \in Nat /\ m \in Nat /\ n \in Nat /\ m <= n - 1
  BY PacketsAreIn
<1>2. m * Room <= (n - 1) * Room
  BY <1>1
<1> QED BY <1>2, BasesIn DEF Base

LEMMA LocatedIn ==
  ASSUME NEW ss, Packed(ss), NEW j \in 1..Len(CycleOf(ss))
  PROVE  \E n \in 1..PacketsIn(ss) : Base(n) < j /\ j <= Base(n) + Room
<1> DEFINE S == {n \in 1..PacketsIn(ss) : j <= Base(n) + Room}
<1>1. PacketsIn(ss) \in 1..PacketsIn(ss)
  <2>1. PacketsIn(ss) # 0
    BY PacketsAreIn
  <2> QED BY <2>1, PacketsAreIn
<1>2. PacketsIn(ss) \in S
  BY <1>1, BasesIn
<1>3. S \in SUBSET Nat
  OBVIOUS
<1> HIDE DEF S
<1>4. PICK n \in S : \A m \in S : n <= m
  BY <1>2, <1>3, LeastNatural
<1>5. n \in 1..PacketsIn(ss) /\ j <= Base(n) + Room
  BY <1>4 DEF S
<1>6. Base(n) < j
  <2>1. CASE n = 1
    BY <2>1, <1>5, BasesIn
  <2>2. CASE n # 1
    <3>1. n - 1 \in 1..PacketsIn(ss) /\ ~(n <= n - 1) /\ (n - 1) + 1 = n
      BY <2>2, <1>5, PacketsAreIn
    <3>2. n - 1 \notin S
      BY <3>1, <1>4
    <3>3. ~(j <= Base(n - 1) + Room)
      BY <3>1, <3>2 DEF S
    <3>4. Base(n) = Base(n - 1) + Room /\ Base(n) \in Nat
      BY <3>1, <1>5, BasesIn
    <3> QED BY <3>3, <3>4
  <2> QED BY <2>1, <2>2
<1> QED BY <1>5, <1>6

LEMMA PayloadIsIn ==
  ASSUME NEW ss, Packed(ss), NEW n \in 1..PacketsIn(ss)
  PROVE  /\ PacketIn(ss, n) \in Seq(Cells) /\ Len(PacketIn(ss, n)) = Room
         /\ DOMAIN PacketIn(ss, n) = 1..Room
         /\ \A i \in 1..Room : PacketIn(ss, n)[i] = CycleOf(ss)[Base(n) + i]
<1> DEFINE b == Base(n)
<1>1. /\ b \in Nat /\ Room \in Nat /\ Room > 0 /\ b + Room <= Len(CycleOf(ss))
      /\ CycleOf(ss) \in Seq(Cells) /\ Len(CycleOf(ss)) \in Nat
  BY BasesIn, PacketsAreIn, SectionsLieIn DEF Packed
<1>2. PacketIn(ss, n) = SubSeq(CycleOf(ss), b + 1, b + Room)
  BY BasesIn DEF PacketIn, PacketOf, Base
<1> HIDE DEF b
<1>3. /\ SubSeq(CycleOf(ss), b + 1, b + Room) \in Seq(Cells)
      /\ Len(SubSeq(CycleOf(ss), b + 1, b + Room)) = Room
      /\ \A i \in 1..Room : SubSeq(CycleOf(ss), b + 1, b + Room)[i] = CycleOf(ss)[b + i]
  BY <1>1
<1> QED BY <1>2, <1>3 DEF b

(* A packet has a pointer when a section begins in it.                     *)
Begun(ss, n, k) == Base(n) <= Start(ss, k) /\ Start(ss, k) < Base(n) + Room

LEMMA StartsIsIn ==
  ASSUME NEW ss, Packed(ss), NEW n \in 1..PacketsIn(ss)
  PROVE  Starts(PacketIn(ss, n)) <=> \E k \in DOMAIN ss : Begun(ss, n, k)
<1>1. /\ Base(n) \in Nat /\ Room \in Nat /\ Base(n) + Room <= Len(CycleOf(ss))
      /\ Len(CycleOf(ss)) \in Nat
      /\ DOMAIN PacketIn(ss, n) = 1..Room
      /\ \A i \in 1..Room : PacketIn(ss, n)[i] = CycleOf(ss)[Base(n) + i]
  BY BasesIn, PacketsAreIn, SectionsLieIn, PayloadIsIn DEF Packed
<1>2. ASSUME NEW i \in 1..Room,
             Begins(PacketIn(ss, n)[i])
      PROVE  \E k \in DOMAIN ss : Begun(ss, n, k)
  <2>1. Base(n) + i \in 1..Len(CycleOf(ss)) /\ Begins(CycleOf(ss)[Base(n) + i])
    BY <1>1, <1>2
  <2>2. PICK k \in DOMAIN ss : Start(ss, k) = Base(n) + i - 1
    BY <2>1, <1>1, BeginsIsIn DEF Begins, Packed
  <2>3. Start(ss, k) \in Nat /\ i \in Nat /\ 1 <= i /\ i <= Room
    BY SectionsLieIn, <1>1 DEF Packed
  <2>4. Base(n) <= Start(ss, k) /\ Start(ss, k) < Base(n) + Room
    BY <2>2, <2>3, <1>1
  <2> QED BY <2>4 DEF Begun
<1>3. ASSUME NEW k \in DOMAIN ss, Begun(ss, n, k) PROVE Starts(PacketIn(ss, n))
  <2> DEFINE i == Start(ss, k) - Base(n) + 1
  <2>1. Start(ss, k) \in Nat
    BY SectionsLieIn DEF Packed
  <2>2. i \in 1..Room /\ Start(ss, k) = Base(n) + i - 1
    BY <2>1, <1>1, <1>3 DEF Begun
  <2> HIDE DEF i
  <2>3. Base(n) + i \in 1..Len(CycleOf(ss))
    BY <1>1, <2>2
  <2>4. Begins(CycleOf(ss)[Base(n) + i])
    BY <2>2, <2>3, <1>1, BeginsIsIn DEF Begins, Packed
  <2> QED BY <2>2, <2>4, <1>1 DEF Starts
<1> QED BY <1>1, <1>2, <1>3 DEF Starts

LEMMA PointerIsIn ==
  ASSUME NEW ss, Packed(ss), NEW n \in 1..PacketsIn(ss), NEW p,
         p = PointerOf(PacketIn(ss, n))
  PROVE  /\ p \in 0..(Room - 1)
         /\ ~Starts(PacketIn(ss, n)) => p = 0
         /\ Starts(PacketIn(ss, n)) => /\ \E k \in DOMAIN ss : Start(ss, k) = Base(n) + p
                                  /\ \A k \in DOMAIN ss : Begun(ss, n, k) => Base(n) + p <= Start(ss, k)
<1>1. /\ Base(n) \in Nat /\ Room \in Nat /\ Room > 0
      /\ Base(n) + Room <= Len(CycleOf(ss))
      /\ Len(CycleOf(ss)) \in Nat /\ DOMAIN PacketIn(ss, n) = 1..Room
      /\ \A i \in 1..Room : PacketIn(ss, n)[i] = CycleOf(ss)[Base(n) + i]
  BY BasesIn, PacketsAreIn, SectionsLieIn, PayloadIsIn DEF Packed
<1>2. CASE ~Starts(PacketIn(ss, n))
  BY <1>1, <1>2 DEF PointerOf
<1>3. CASE Starts(PacketIn(ss, n))
  <2> DEFINE S == {i \in 1..Room : Begins(PacketIn(ss, n)[i])}
             P(i) == Begins(PacketIn(ss, n)[i]) /\ \A j \in 1..(i - 1) : ~Begins(PacketIn(ss, n)[j])
  <2>1. S # {} /\ S \in SUBSET Nat
    BY <1>1, <1>3 DEF Starts
  <2>2. PICK l \in S : \A m \in S : l <= m
    <3> HIDE DEF S
    <3> QED BY <2>1, LeastNatural
  <2>3. l \in DOMAIN PacketIn(ss, n) /\ P(l)
    <3>1. l \in 1..Room /\ Begins(PacketIn(ss, n)[l])
      BY <2>2
    <3>2. ASSUME NEW j \in 1..(l - 1) PROVE ~Begins(PacketIn(ss, n)[j])
      <4>1. j \in 1..Room /\ ~(l <= j)
        BY <3>1, <1>1
      <4> QED BY <4>1, <2>2
    <3> QED BY <3>1, <3>2, <1>1
  <2> DEFINE i == CHOOSE i \in DOMAIN PacketIn(ss, n) : P(i)
  <2>4. i \in DOMAIN PacketIn(ss, n) /\ P(i)
    <3> HIDE DEF P
    <3> QED BY <2>3
  <2>5. p = i - 1
    BY <1>3 DEF PointerOf
  <2> HIDE DEF i
  <2>6. /\ i \in 1..Room /\ Base(n) + i \in 1..Len(CycleOf(ss))
        /\ Begins(CycleOf(ss)[Base(n) + i])
    BY <2>4, <1>1
  <2>7. \E k \in DOMAIN ss : Start(ss, k) = Base(n) + i - 1
    <3> DEFINE j == Base(n) + i
    <3> HIDE DEF i
    <3>1. j \in 1..Len(CycleOf(ss)) /\ Begins(CycleOf(ss)[j])
      BY <2>6
    <3> HIDE DEF j
    <3>2. PICK k \in DOMAIN ss : Start(ss, k) = j - 1
      BY <3>1, BeginsIsIn DEF Begins, Packed
    <3>3. Start(ss, k) = Base(n) + i - 1
      BY <3>2, <2>6, <1>1 DEF j
    <3> QED BY <3>3
  <2>8. ASSUME NEW k \in DOMAIN ss, Begun(ss, n, k) PROVE Base(n) + p <= Start(ss, k)
    <3> SUFFICES ASSUME Start(ss, k) < Base(n) + p PROVE FALSE
      BY <1>1, <2>5, <2>6, SectionsLieIn DEF Packed
    <3> DEFINE j == Start(ss, k) - Base(n) + 1
    <3>1. Start(ss, k) \in Nat
      BY SectionsLieIn DEF Packed
    <3>2. j \in 1..(i - 1) /\ j \in 1..Room /\ Start(ss, k) = Base(n) + j - 1
      <4>1. Base(n) <= Start(ss, k) /\ i \in Nat /\ i <= Room
        BY <1>1, <2>6, <2>8 DEF Begun
      <4>2. Start(ss, k) < Base(n) + (i - 1)
        BY <2>5
      <4>3. j \in Nat /\ 1 <= j /\ j <= i - 1 /\ Start(ss, k) = Base(n) + j - 1
        BY <3>1, <4>1, <4>2, <1>1, SMTT(30)
      <4> QED BY <4>1, <4>3, <1>1
    <3> HIDE DEF j
    <3>3. Base(n) + j \in 1..Len(CycleOf(ss))
      BY <3>2, <1>1
    <3>4. Begins(CycleOf(ss)[Base(n) + j])
      BY <3>2, <3>3, <1>1, BeginsIsIn DEF Begins, Packed
    <3> QED BY <3>2, <3>4, <2>4, <1>1
  <2> QED BY <1>1, <1>3, <2>5, <2>6, <2>7, <2>8
<1> QED BY <1>2, <1>3

(* The packets of a section follow each other.                             *)
LEMMA SpansAreIn ==
  ASSUME NEW ss, Packed(ss), NEW k \in DOMAIN ss
  PROVE  SpansOf(CycleOf(ss), Room, k) =
           {n \in 1..PacketsIn(ss) : Base(n) < Stop(ss, k) /\ Start(ss, k) < Base(n) + Room}
<1>1. /\ Start(ss, k) \in Nat /\ Stop(ss, k) \in Nat /\ Start(ss, k) < Stop(ss, k)
      /\ Len(CycleOf(ss)) \in Nat /\ Stop(ss, k) <= Len(CycleOf(ss))
  BY SectionsLieIn DEF Packed
<1>2. SpansOf(CycleOf(ss), Room, k) =
        {n \in 1..PacketsIn(ss) : \E i \in 1..Room : PacketIn(ss, n)[i].of = k}
  BY DEF SpansOf, PacketsIn, PacketIn
<1>3. ASSUME NEW n \in 1..PacketsIn(ss)
      PROVE  (\E i \in 1..Room : PacketIn(ss, n)[i].of = k)
               <=> (Base(n) < Stop(ss, k) /\ Start(ss, k) < Base(n) + Room)
  <2>1. /\ Base(n) \in Nat /\ Room \in Nat /\ Room > 0
        /\ Base(n) + Room <= Len(CycleOf(ss))
        /\ \A i \in 1..Room : PacketIn(ss, n)[i] = CycleOf(ss)[Base(n) + i]
    BY BasesIn, PacketsAreIn, PayloadIsIn
  <2>2. ASSUME NEW i \in 1..Room, PacketIn(ss, n)[i].of = k
        PROVE  Base(n) < Stop(ss, k) /\ Start(ss, k) < Base(n) + Room
    <3> DEFINE j == Base(n) + i
    <3>1. /\ j \in 1..Len(CycleOf(ss)) /\ Base(n) < j /\ j <= Base(n) + Room
          /\ CycleOf(ss)[j].of = k
      BY <2>1, <2>2, <1>1
    <3> HIDE DEF j
    <3>2. CycleOf(ss)[j] # Stuffing
      BY <3>1, LaidOutIs DEF Stuffing, Packed
    <3>3. PICK m \in DOMAIN ss : Start(ss, m) < j /\ j <= Stop(ss, m)
      BY <3>1, <3>2, SectionsLieIn DEF Packed
    <3>4. CycleOf(ss)[j] = CellOf(m, j - Start(ss, m))
      BY <3>1, <3>3, SectionsLieIn DEF Packed
    <3>5. m = k
      BY <3>1, <3>4 DEF CellOf
    <3> QED BY <3>1, <3>3, <3>5, <2>1, <1>1
  <2>3. ASSUME Base(n) < Stop(ss, k), Start(ss, k) < Base(n) + Room
        PROVE  \E i \in 1..Room : PacketIn(ss, n)[i].of = k
    <3> DEFINE i == IF Start(ss, k) < Base(n) THEN 1 ELSE Start(ss, k) - Base(n) + 1
    <3>1. i \in 1..Room /\ Start(ss, k) < Base(n) + i /\ Base(n) + i <= Stop(ss, k)
      <4>1. CASE Start(ss, k) < Base(n)
        BY <4>1, <2>1, <2>3, <1>1
      <4>2. CASE ~(Start(ss, k) < Base(n))
        BY <4>2, <2>1, <2>3, <1>1
      <4> QED BY <4>1, <4>2
    <3> HIDE DEF i
    <3> DEFINE j == Base(n) + i
    <3>2. /\ j \in 1..Len(CycleOf(ss)) /\ Start(ss, k) < j /\ j <= Stop(ss, k)
          /\ PacketIn(ss, n)[i] = CycleOf(ss)[j]
      BY <3>1, <2>1, <1>1
    <3> HIDE DEF j
    <3>3. CycleOf(ss)[j] = CellOf(k, j - Start(ss, k))
      BY <3>2, SectionsLieIn DEF Packed
    <3> QED BY <3>1, <3>2, <3>3 DEF CellOf
  <2> QED BY <2>2, <2>3
<1> QED BY <1>2, <1>3

LastOf(ss, n) ==
  {k \in DOMAIN ss : /\ n \in SpansOf(CycleOf(ss), Room, k)
                     /\ \A m \in SpansOf(CycleOf(ss), Room, k) : m <= n}

LEMMA LastIsIn ==
  ASSUME NEW ss, Packed(ss), NEW n \in 1..PacketsIn(ss), NEW k \in LastOf(ss, n)
  PROVE  /\ k \in DOMAIN ss /\ Base(n) < Stop(ss, k) /\ Stop(ss, k) <= Base(n) + Room
         /\ \E m \in 1..n : Begun(ss, m, k) /\ Cardinality(SpansOf(CycleOf(ss), Room, k)) = n - m + 1
<1>1. /\ k \in DOMAIN ss /\ n \in SpansOf(CycleOf(ss), Room, k)
      /\ \A m \in SpansOf(CycleOf(ss), Room, k) : m <= n
  BY DEF LastOf
<1>2. SpansOf(CycleOf(ss), Room, k) =
        {m \in 1..PacketsIn(ss) : Base(m) < Stop(ss, k) /\ Start(ss, k) < Base(m) + Room}
  BY <1>1, SpansAreIn
<1>3. /\ Start(ss, k) \in Nat /\ Stop(ss, k) \in Nat /\ Start(ss, k) < Stop(ss, k)
      /\ Len(CycleOf(ss)) \in Nat
      /\ Stop(ss, k) <= Len(CycleOf(ss)) /\ PacketsIn(ss) \in Nat /\ n \in Nat
      /\ Room \in Nat /\ Room > 0
  BY <1>1, SectionsLieIn, PacketsAreIn DEF Packed
<1>4. Base(n) < Stop(ss, k) /\ Start(ss, k) < Base(n) + Room /\ Base(n) \in Nat
  BY <1>1, <1>2, BasesIn
<1>5. Stop(ss, k) <= Base(n) + Room
  <2> SUFFICES ASSUME Base(n) + Room < Stop(ss, k) PROVE FALSE
    BY <1>3, <1>4
  <2>1. n # PacketsIn(ss)
    BY <1>3, <1>4, BasesIn
  <2>2. n + 1 \in 1..PacketsIn(ss) /\ ~(n + 1 <= n)
    BY <2>1, <1>3
  <2>3. Base(n + 1) = Base(n) + Room
    BY BasesIn
  <2>4. n + 1 \in SpansOf(CycleOf(ss), Room, k)
    BY <2>2, <2>3, <1>2, <1>3, <1>4
  <2> QED BY <2>2, <2>4, <1>1
<1>6. PICK m \in 1..PacketsIn(ss) :
        Base(m) < Start(ss, k) + 1 /\ Start(ss, k) + 1 <= Base(m) + Room
  <2>1. Start(ss, k) + 1 \in 1..Len(CycleOf(ss))
    BY <1>3
  <2> QED BY <2>1, LocatedIn
<1>7. Begun(ss, m, k) /\ m \in SpansOf(CycleOf(ss), Room, k) /\ m <= n /\ m \in Nat
  <2>1. Base(m) \in Nat
    BY BasesIn
  <2>2. m \in SpansOf(CycleOf(ss), Room, k)
    BY <2>1, <1>2, <1>3, <1>6
  <2> QED BY <2>1, <2>2, <1>1, <1>3, <1>6 DEF Begun
<1>8. SpansOf(CycleOf(ss), Room, k) = m..n
  <2>1. ASSUME NEW l \in SpansOf(CycleOf(ss), Room, k) PROVE l \in m..n
    <3>1. l \in 1..PacketsIn(ss) /\ l <= n /\ l \in Nat
      BY <1>1, <1>2
    <3>2. ~(l < m)
      <4> SUFFICES ASSUME l < m PROVE FALSE
        OBVIOUS
      <4>1. Base(l) + Room <= Base(m) /\ Base(l) \in Nat /\ Base(m) \in Nat
        BY <3>1, BasesGrowIn, BasesIn
      <4>2. Start(ss, k) < Base(l) + Room
        BY <1>2
      <4> QED BY <4>1, <4>2, <1>3, <1>6
    <3> QED BY <3>1, <3>2, <1>7
  <2>2. ASSUME NEW l \in m..n PROVE l \in SpansOf(CycleOf(ss), Room, k)
    <3>1. CASE l = m
      BY <3>1, <1>7
    <3>2. CASE l = n
      BY <3>2, <1>1
    <3>3. CASE l # m /\ l # n
      <4>1. l \in 1..PacketsIn(ss) /\ m < l /\ l < n
        BY <3>3, <1>3, <1>7
      <4>2. /\ Base(m) + Room <= Base(l) /\ Base(l) + Room <= Base(n) /\ Base(l) \in Nat
            /\ Base(m) \in Nat
        BY <4>1, BasesGrowIn, BasesIn
      <4> QED BY <4>1, <4>2, <1>2, <1>3, <1>4, <1>6
    <3> QED BY <3>1, <3>2, <3>3
  <2> QED BY <2>1, <2>2
<1>9. Cardinality(m..n) = n - m + 1
  <2>1. Cardinality(m..n) = IF m > n THEN 0 ELSE n - m + 1
    BY <1>7, <1>3, FS_Interval
  <2> QED BY <2>1, <1>7, <1>3
<1>10. m \in 1..n
  BY <1>7, <1>3
<1> QED BY <1>1, <1>4, <1>5, <1>7, <1>8, <1>9, <1>10

-----------------------------------------------------------------------------
(* What is on the air of the guide.                                        *)
From(k) == Start(Eit, k)
To(k) == Stop(Eit, k)

LEMMA EitIs ==
  /\ Len(Eit) \in Nat /\ DOMAIN Eit = 1..Len(Eit)
  /\ \A k \in DOMAIN Eit : k \in Nat /\ k > 0 /\ Eit[k].size \in Nat /\ Eit[k].size > 0
                           /\ Eit[k].size <= Full /\ Eit[k].pad \in Nat
  BY AirAssumption, SizesAssumption, PacketAssumption

LEMMA EitPacked ==
  /\ LaidOut(Eit) /\ Packed(Eit) /\ Cycle = CycleOf(Eit) /\ Packets = PacketsIn(Eit)
  /\ \A n : Payload(n) = PacketIn(Eit, n)
  BY AirAssumption, EitIs DEF LaidOut, Packed, Cycle, Packets, PacketsIn, Payload,
     PacketIn

LEMMA SectionsLie ==
  /\ Cycle \in Seq(Cells) /\ Len(Cycle) \in Nat
  /\ \A k \in DOMAIN Eit :
       /\ From(k) \in Nat /\ To(k) \in Nat /\ From(k) < To(k) /\ To(k) <= Len(Cycle)
       /\ To(k) = From(k) + Eit[k].size
       /\ \A j \in 1..Len(Cycle) :
            From(k) < j /\ j <= To(k) => Cycle[j] = CellOf(k, j - From(k))
  /\ \A j \in 1..Len(Cycle) :
       Cycle[j] = Stuffing \/ \E k \in DOMAIN Eit : From(k) < j /\ j <= To(k)
  BY EitPacked, SectionsLieIn DEF From, To

LEMMA Apart ==
  ASSUME NEW k \in DOMAIN Eit, NEW m \in DOMAIN Eit, k # m
  PROVE  To(k) <= From(m) \/ To(m) <= From(k)
  BY EitPacked, ApartIn DEF From, To

LEMMA StuffingIs ==
  ASSUME NEW j \in 1..Len(Cycle), Cycle[j] = Stuffing, NEW k \in DOMAIN Eit
  PROVE  ~(From(k) < j /\ j <= To(k))
  BY EitPacked, StuffingIsIn DEF From, To

LEMMA PacketsAre == Room \in Nat /\ Room > 0 /\ Packets \in Nat /\ Packets * Room = Len(Cycle)
  BY EitPacked, PacketsAreIn

LEMMA Bases ==
  ASSUME NEW n \in 1..Packets
  PROVE  /\ Base(n) \in Nat /\ n * Room = Base(n) + Room /\ Base(n + 1) = Base(n) + Room
         /\ Base(n) + Room <= Len(Cycle) /\ Base(1) = 0
         /\ (n = Packets => Base(n) + Room = Len(Cycle))
  BY EitPacked, BasesIn

LEMMA BasesGrow ==
  ASSUME NEW m \in 1..Packets, NEW n \in 1..Packets, m < n
  PROVE  Base(m) + Room <= Base(n)
  BY EitPacked, BasesGrowIn

LEMMA PayloadIs ==
  ASSUME NEW n \in 1..Packets
  PROVE  /\ Payload(n) \in Seq(Cells) /\ Len(Payload(n)) = Room
         /\ DOMAIN Payload(n) = 1..Room
         /\ \A i \in 1..Room : Payload(n)[i] = Cycle[Base(n) + i]
  BY EitPacked, PayloadIsIn

Holds(n, k) == Base(n) <= From(k) /\ From(k) < Base(n) + Room

LEMMA StartsIs ==
  ASSUME NEW n \in 1..Packets
  PROVE  Starts(Payload(n)) <=> \E k \in DOMAIN Eit : Holds(n, k)
  BY EitPacked, StartsIsIn DEF Holds, Begun, From

LEMMA PointerIs ==
  ASSUME NEW n \in 1..Packets, NEW p, p = PointerOf(Payload(n))
  PROVE  /\ p \in 0..(Room - 1)
         /\ ~Starts(Payload(n)) => p = 0
         /\ Starts(Payload(n)) => /\ \E k \in DOMAIN Eit : From(k) = Base(n) + p
                                  /\ \A k \in DOMAIN Eit : Holds(n, k) => Base(n) + p <= From(k)
  BY EitPacked, PointerIsIn DEF Holds, Begun, From

LEMMA LastIs ==
  ASSUME NEW n \in 1..Packets, NEW k \in LastIn(n)
  PROVE  /\ k \in DOMAIN Eit /\ Base(n) < To(k) /\ To(k) <= Base(n) + Room
         /\ \E m \in 1..n : Holds(m, k) /\ Cardinality(Spans[k]) = n - m + 1
<1>1. /\ k \in LastOf(Eit, n) /\ k \in DOMAIN Eit
      /\ Spans[k] = SpansOf(CycleOf(Eit), Room, k)
  BY EitPacked DEF LastIn, LastOf, Spans
<1> QED BY <1>1, EitPacked, LastIsIn DEF Holds, Begun, From, To

-----------------------------------------------------------------------------
(* The inductive invariant of Reheard.  The packets received in a row are  *)
(* in sync from the first pointer among them: the thread knows where it is *)
(* in the section on the air, if it is in one.                             *)
Here == Base(cursor)
End == Here + (IF after = <<>> THEN Room ELSE PointerOf(Payload(cursor)))

Boundary(q) == \A k \in DOMAIN Eit : ~(From(k) < q /\ q < To(k))
Quiet(p, q) == \A j \in (p + 1)..q : Cycle[j] = Stuffing
Lies(s, q) ==
  /\ s \in Seq(Cells) /\ q + Len(s) <= Len(Cycle)
  /\ \A i \in 1..Len(s) : s[i] = Cycle[q + i]

(* The assembler at q: between two sections, or in one.                    *)
Held(k, l) == data \in Seq(Cells) /\ l <= Len(data) /\ \A i \in 1..l : data[i] = Cycle[From(k) + i]
Between(q) == length = 0 /\ expected = 0 /\ Boundary(q)
Open(k, q) ==
  /\ From(k) < q /\ q < To(k)
  /\ length = q - From(k) /\ expected = Eit[k].size /\ Held(k, length)
Partly(q) == Between(q) \/ \E k \in DOMAIN Eit : Open(k, q)

(* A section that was received from its first packet on is sent as soon as *)
(* the thread is past it.                                                  *)
Covered(k) == \E n \in 1..Packets : Holds(n, k) /\ InRow(n)
Done(k) == PlacedKeys(Eit[k]) \subseteq sent
DoneTo(q) == \A k \in DOMAIN Eit : Here < To(k) /\ To(k) <= q /\ Covered(k) => Done(k)

Reads(q) ==
  /\ q \in Here..End /\ Lies(input, q)
  /\ q + Len(input) <= End /\ Quiet(q + Len(input), End)
  /\ length > 0 /\ input # <<>> => \A k \in DOMAIN Eit : From(k) < q \/ End <= From(k)
Left(k) == {Key(Eit[k], left[i]) : i \in {i \in DOMAIN left : Placed(Eit[k], left[i])}}
Sending == stage \notin {"measure", "check"}
Whole(k) ==
  /\ section = CellsOf(Eit[k], k) /\ expected = Eit[k].size
  /\ data \in Seq(Cells) /\ extra \in Nat /\ expected + extra <= Len(data)
  /\ \A i \in 1..extra : data[expected + i] = Cycle[To(k) + i]
  /\ To(k) + extra <= End /\ Quiet(To(k) + extra, End)
  /\ Here < To(k) /\ DoneTo(From(k))
  /\ stage = "measure" => length = expected + extra /\ section = SubSeq(data, 1, expected)
  /\ Sending => left \in Seq(Range(left))
  /\ stage = "tell" => left # <<>>
  /\ Sending /\ Covered(k) => PlacedKeys(Eit[k]) \subseteq sent \union Left(k)

Placement ==
  /\ stage \in {"idle", "append", "measure", "check", "store", "send", "tell", "overrun"}
  /\ cursor \in 1..Packets /\ unbroken \in Nat
Behind ==
  after # <<>> =>
    LET p == PointerOf(Payload(cursor))
    IN stage # "idle" /\ Starts(Payload(cursor)) /\ p > 0
       /\ after = SubSeq(Payload(cursor), p + 1, Room)
Idling == stage = "idle" /\ Synced => Partly(Here)
Appending ==
  stage = "append" /\ Synced => \E q \in Nat : Reads(q) /\ Partly(q) /\ DoneTo(q)
Handling ==
  stage \in {"measure", "check", "store", "send", "tell"} /\ Synced =>
    \E k \in DOMAIN Eit : Whole(k)

(* The table has events that were sent, and the one that is being sent.    *)
Told == IF stage = "tell" THEN {Key(Header(section), Head(left))} ELSE {}
Noted == seen \subseteq sent \union Told

Following == Placement /\ Behind /\ Idling /\ Appending /\ Handling

-----------------------------------------------------------------------------
(* Places between the sections.                                            *)
LEMMA QuietBoundary ==
  ASSUME NEW p \in Nat, NEW q \in Nat, p <= q, q <= Len(Cycle), Quiet(p, q), Boundary(p)
  PROVE  Boundary(q)
<1> SUFFICES ASSUME NEW k \in DOMAIN Eit, From(k) < q, q < To(k) PROVE FALSE
  BY DEF Boundary
<1>1. From(k) \in Nat /\ To(k) \in Nat /\ From(k) < To(k) /\ Len(Cycle) \in Nat
  BY SectionsLie
<1>2. ~(From(k) < p)
  BY <1>1 DEF Boundary
<1> DEFINE j == From(k) + 1
<1>3. j \in (p + 1)..q /\ j \in 1..Len(Cycle) /\ From(k) < j /\ j <= To(k)
  BY <1>1, <1>2
<1> HIDE DEF j
<1>4. Cycle[j] = Stuffing
  BY <1>3 DEF Quiet
<1> QED BY <1>3, <1>4, StuffingIs

LEMMA QuietEnds ==
  ASSUME NEW p \in Nat, NEW q \in Nat, q <= Len(Cycle), Quiet(p, q),
         NEW k \in DOMAIN Eit
  PROVE  ~(p < To(k) /\ To(k) <= q)
<1> SUFFICES ASSUME p < To(k) /\ To(k) <= q PROVE FALSE
  OBVIOUS
<1>1. From(k) \in Nat /\ To(k) \in Nat /\ From(k) < To(k) /\ Len(Cycle) \in Nat
  BY SectionsLie
<1> DEFINE j == To(k)
<1>2. j \in (p + 1)..q /\ j \in 1..Len(Cycle) /\ From(k) < j /\ j <= To(k)
  BY <1>1
<1> HIDE DEF j
<1>3. Cycle[j] = Stuffing
  BY <1>2 DEF Quiet
<1> QED BY <1>2, <1>3, StuffingIs

LEMMA SectionBoundary ==
  ASSUME NEW k \in DOMAIN Eit PROVE Boundary(From(k)) /\ Boundary(To(k))
<1> SUFFICES ASSUME NEW m \in DOMAIN Eit
             PROVE  /\ ~(From(m) < From(k) /\ From(k) < To(m))
                    /\ ~(From(m) < To(k) /\ To(k) < To(m))
  BY DEF Boundary
<1>1. /\ From(k) \in Nat /\ To(k) \in Nat /\ From(k) < To(k)
      /\ From(m) \in Nat /\ To(m) \in Nat /\ From(m) < To(m)
  BY SectionsLie
<1> QED BY <1>1, Apart

(* A section that ends before another one, or in it, ends where the other  *)
(* begins or before.                                                       *)
LEMMA EndsBefore ==
  ASSUME NEW k \in DOMAIN Eit, NEW m \in DOMAIN Eit, m # k, To(m) <= To(k)
  PROVE  To(m) <= From(k)
<1>1. /\ From(k) \in Nat /\ To(k) \in Nat /\ From(k) < To(k)
      /\ From(m) \in Nat /\ To(m) \in Nat /\ From(m) < To(m)
  BY SectionsLie
<1> QED BY <1>1, Apart

(* What a parser finds in a section that is whole.                         *)
LEMMA EventsAre ==
  ASSUME NEW k \in DOMAIN Eit, NEW s, s = CellsOf(Eit[k], k)
  PROVE  /\ HasHeader(s) /\ Header(s) = Eit[k]
         /\ EventsIn(s) = Eit[k].events /\ Eit[k].events \in Seq(Range(Eit[k].events))
<1> DEFINE a == Eit[k].size
<1>1. a \in Nat /\ a > 0 /\ k # 0
  BY EitIs
<1>2. /\ Eit[k].events \in Seq(Range(Eit[k].events)) /\ Len(Eit[k].events) = a - 1
  BY AirAssumption
<1> HIDE DEF a
<1>3. s \in Seq(Range(s)) /\ Len(s) = a /\ \A i \in 1..a : s[i] = CellOf(k, i)
  <2>1. s = [i \in 1..a |-> CellOf(k, i)]
    BY DEF CellsOf, CellOf, a
  <2>2. s \in Seq({CellOf(k, i) : i \in 1..a}) /\ Len(s) = a
    BY <2>1, <1>1
  <2> QED BY <2>1, <2>2 DEF Range
<1>4. s # <<>> /\ Head(s) = s[1] /\ s[1] = CellOf(k, 1)
  BY <1>1, <1>3
<1>5. HasHeader(s) /\ Header(s) = Eit[k]
  BY <1>1, <1>4 DEF HasHeader, Header, Begins, CellOf
<1> DEFINE P(n) == /\ \A i \in 2..n : IsEvent(s[i])
                   /\ n = Len(s) \/ ~IsEvent(s[n + 1])
           n == CHOOSE n \in 1..Len(s) : P(n)
<1>6. ASSUME NEW i \in 2..a PROVE IsEvent(s[i]) = TRUE
  <2>1. i \in 1..a /\ i > 1
    BY <1>1
  <2> QED BY <2>1, <1>1, <1>3 DEF IsEvent, CellOf
<1>7. P(a)
  BY <1>3, <1>6
<1>8. ASSUME NEW m \in 1..Len(s), P(m) PROVE m = a
  <2> SUFFICES ASSUME m # a PROVE FALSE
    OBVIOUS
  <2>1. m + 1 \in 2..a
    BY <1>1, <1>3
  <2> QED BY <2>1, <1>3, <1>6, <1>8
<1>9. n = a
  <2>1. a \in 1..Len(s)
    BY <1>1, <1>3
  <2> HIDE DEF P
  <2>2. n \in 1..Len(s) /\ P(n)
    BY <2>1, <1>7
  <2> HIDE DEF n
  <2> QED BY <2>2, <1>8
<1>10. EventsIn(s) = [i \in 1..(n - 1) |-> Eit[s[i + 1].of].events[s[i + 1].at - 1]]
  BY DEF EventsIn
<1> HIDE DEF n, P
<1>11. EventsIn(s) = [i \in 1..(a - 1) |-> Eit[s[i + 1].of].events[s[i + 1].at - 1]]
  BY <1>9, <1>10
<1>12. ASSUME NEW i \in 1..(a - 1)
       PROVE  Eit[s[i + 1].of].events[s[i + 1].at - 1] = Eit[k].events[i]
  <2>1. i + 1 \in 1..a /\ (i + 1) - 1 = i
    BY <1>1
  <2>2. s[i + 1].of = k /\ s[i + 1].at = i + 1
    BY <2>1, <1>3 DEF CellOf
  <2> QED BY <2>1, <2>2
<1>13. EventsIn(s) = [i \in 1..(a - 1) |-> Eit[k].events[i]]
  BY <1>11, <1>12
<1>14. [i \in 1..(a - 1) |-> Eit[k].events[i]] = Eit[k].events
  BY <1>1, <1>2
<1> QED BY <1>2, <1>5, <1>13, <1>14

-----------------------------------------------------------------------------
(* Where the thread is in the cycle.                                       *)
LEMMA HereIs ==
  ASSUME Placement, Behind
  PROVE  /\ Here \in Nat /\ End \in Nat /\ Room \in Nat /\ Len(Cycle) \in Nat
         /\ Here <= End /\ End <= Here + Room /\ Here + Room <= Len(Cycle)
         /\ after = <<>> => End = Here + Room
         /\ after # <<>> => /\ \E k \in DOMAIN Eit : From(k) = End
                            /\ \A k \in DOMAIN Eit : Holds(cursor, k) => End <= From(k)
<1>1. cursor \in 1..Packets
  BY DEF Placement
<1>2. /\ Here \in Nat /\ Room \in Nat /\ Room > 0 /\ Len(Cycle) \in Nat
      /\ Here + Room <= Len(Cycle)
  BY <1>1, Bases, PacketsAre, SectionsLie DEF Here
<1>3. CASE after = <<>>
  BY <1>2, <1>3 DEF End
<1>4. CASE after # <<>>
  <2> DEFINE p == PointerOf(Payload(cursor))
  <2>1. Starts(Payload(cursor)) /\ End = Here + p
    BY <1>4 DEF Behind, End
  <2>2. /\ p \in 0..(Room - 1)
        /\ \E k \in DOMAIN Eit : From(k) = Here + p
        /\ \A k \in DOMAIN Eit : Holds(cursor, k) => Here + p <= From(k)
    BY <2>1, <1>1, PointerIs DEF Here
  <2> HIDE DEF p
  <2> QED BY <2>1, <2>2, <1>2, <1>4
<1> QED BY <1>3, <1>4

LEMMA Turns ==
  ASSUME NEW n \in 1..Packets
  PROVE  n % Packets = IF n = Packets THEN 0 ELSE n
<1>1. Packets \in Nat /\ n \in Nat
  BY PacketsAre
<1> QED BY <1>1

(* What a step of the thread leaves as it is.                              *)
LEMMA Steady ==
  ASSUME UNCHANGED <<cursor, unbroken, after>>, stage # "idle", stage' # "idle"
  PROVE  /\ Here' = Here /\ End' = End /\ Synced' = Synced
         /\ \A k \in DOMAIN Eit : Covered(k)' = Covered(k)
<1>1. Here' = Here /\ End' = End
  BY DEF Here, End
<1>2. ASSUME NEW n \in 1..Packets PROVE InRow(n)' = InRow(n)
  BY DEF InRow
<1> QED BY <1>1, <1>2 DEF Synced, Covered

LEMMA InSync ==
  ASSUME NEW n \in 1..Packets, NEW k \in DOMAIN Eit, Holds(n, k), InRow(n),
         n = cursor => after = <<>>
  PROVE  Synced
<1>1. Starts(Payload(n))
  BY StartsIs DEF Starts
<1> QED BY <1>1 DEF Synced

(* What is left of a packet when nothing of it is appended any more is     *)
(* stuffing.                                                               *)
LEMMA Exhausted ==
  ASSUME Placement, Behind, NEW q \in Nat, Reads(q), Partly(q), DoneTo(q),
         Unstuffed = <<>>
  PROVE  Partly(End) /\ DoneTo(End)
<1>1. /\ Here \in Nat /\ End \in Nat /\ End <= Len(Cycle) /\ Len(Cycle) \in Nat
      /\ Here <= q /\ q <= End
  BY HereIs DEF Reads
<1>2. /\ input \in Seq(Cells) /\ Len(input) \in Nat /\ DOMAIN input = 1..Len(input)
      /\ q + Len(input) <= End /\ Quiet(q + Len(input), End)
      /\ \A i \in 1..Len(input) : input[i] = Cycle[q + i]
  BY DEF Reads, Lies
<1>3. ASSUME NEW i \in 1..Len(input) PROVE input[i] = Stuffing
  <2>1. CASE length > 0
    <3>1. input = <<>>
      BY <2>1 DEF Unstuffed
    <3> QED BY <3>1
  <2>2. CASE ~(length > 0)
    <3> DEFINE kept == {j \in DOMAIN input : input[j] # Stuffing}
               l == CHOOSE j \in kept : \A m \in kept : j <= m
    <3>1. CASE kept = {}
      BY <3>1, <1>2
    <3>2. CASE kept # {}
      <4>1. l \in kept
        <5>1. kept \in SUBSET Nat
          BY <1>2
        <5> HIDE DEF kept
        <5> QED BY <5>1, <3>2, LeastNatural
      <4>2. Unstuffed = SubSeq(input, l, Len(input))
        BY <2>2, <3>2 DEF Unstuffed
      <4>3. l \in 1..Len(input)
        BY <4>1, <1>2
      <4> HIDE DEF l, kept
      <4>4. /\ l \in Nat /\ 1 <= l /\ l <= Len(input) /\ Len(input) <= Len(input)
            /\ input \in Seq(Cells) /\ Len(input) \in Nat
        BY <4>3, <1>2
      <4>5. SubSeq(input, l, Len(input)) # <<>>
        BY <4>4, CutIs, ZenonT(60)
      <4> QED BY <4>2, <4>5, Zenon
    <3> QED BY <3>1, <3>2
  <2> QED BY <2>1, <2>2
<1>4. Quiet(q, End)
  <2> SUFFICES ASSUME NEW j \in (q + 1)..End PROVE Cycle[j] = Stuffing
    BY DEF Quiet
  <2>1. CASE j <= q + Len(input)
    <3> DEFINE i == j - q
    <3>1. i \in 1..Len(input) /\ j = q + i
      BY <2>1, <1>1, <1>2
    <3> HIDE DEF i
    <3> QED BY <3>1, <1>2, <1>3
  <2>2. CASE ~(j <= q + Len(input))
    <3>1. j \in (q + Len(input) + 1)..End
      BY <2>2, <1>1, <1>2
    <3> QED BY <3>1, <1>2 DEF Quiet
  <2> QED BY <2>1, <2>2
<1>5. Partly(End)
  <2>1. CASE Between(q)
    <3>1. Boundary(End)
      BY <2>1, <1>1, <1>4, QuietBoundary DEF Between
    <3> QED BY <3>1, <2>1 DEF Partly, Between
  <2>2. CASE \E k \in DOMAIN Eit : Open(k, q)
    <3>1. PICK k \in DOMAIN Eit : Open(k, q)
      BY <2>2
    <3>2. From(k) \in Nat /\ To(k) \in Nat /\ From(k) < q /\ q < To(k)
      BY <3>1, SectionsLie DEF Open
    <3>3. ~(q < End)
      <4> SUFFICES ASSUME q < End PROVE FALSE
        OBVIOUS
      <4> DEFINE j == q + 1
      <4>1. j \in (q + 1)..End /\ j \in 1..Len(Cycle) /\ From(k) < j /\ j <= To(k)
        BY <1>1, <3>2
      <4> HIDE DEF j
      <4>2. Cycle[j] = Stuffing
        BY <4>1, <1>4 DEF Quiet
      <4> QED BY <4>1, <4>2, StuffingIs
    <3>4. End = q
      BY <3>3, <1>1
    <3> QED BY <3>1, <3>4 DEF Partly
  <2> QED BY <2>1, <2>2 DEF Partly
<1>6. DoneTo(End)
  <2> SUFFICES ASSUME NEW k \in DOMAIN Eit, Here < To(k), To(k) <= End, Covered(k)
               PROVE  Done(k)
    BY DEF DoneTo
  <2>1. ~(q < To(k))
    BY <1>1, <1>4, QuietEnds
  <2>2. To(k) <= q
    BY <2>1, <1>1, SectionsLie
  <2> QED BY <2>2 DEF DoneTo
<1> QED BY <1>5, <1>6

LEMMA Proceeds ==
  ASSUME Placement, Behind, UNCHANGED <<cursor, unbroken, after>>,
         stage' \in {"append", "measure", "check", "store", "send", "tell", "overrun"}
  PROVE  Placement' /\ Behind' /\ Idling'
  BY DEF Placement, Behind, Idling

LEMMA TailIs ==
  ASSUME NEW S, NEW l \in Seq(S), l # <<>>
  PROVE  /\ Tail(l) \in Seq(S) /\ Len(Tail(l)) = Len(l) - 1 /\ Len(l) \in Nat
         /\ Len(l) > 0
         /\ Head(l) = l[1] /\ \A i \in 1..(Len(l) - 1) : Tail(l)[i] = l[i + 1]
  OBVIOUS

(* One event less is left, and it is sent or not to be sent.               *)
First(k) == IF Placed(Eit[k], Head(left)) THEN {Key(Eit[k], Head(left))} ELSE {}

LEMMA LeftIs ==
  ASSUME NEW k \in DOMAIN Eit, left \in Seq(Range(left)), left # <<>>,
         left' = Tail(left)
  PROVE  /\ left' \in Seq(Range(left'))
         /\ Left(k) \subseteq Left(k)' \union First(k)
<1>1. /\ left' \in Seq(Range(left)) /\ Len(left') = Len(left) - 1 /\ Len(left) \in Nat
      /\ Len(left) > 0
      /\ Head(left) = left[1] /\ \A i \in 1..(Len(left) - 1) : left'[i] = left[i + 1]
  BY TailIs
<1>2. left' \in Seq(Range(left'))
  BY <1>1, SeqIsSeq DEF IsSeq
<1>3. DOMAIN left = 1..Len(left) /\ DOMAIN left' = 1..(Len(left) - 1)
  BY <1>1, <1>2
<1>4. ASSUME NEW i \in DOMAIN left, Placed(Eit[k], left[i])
      PROVE  Key(Eit[k], left[i]) \in Left(k)' \union First(k)
  <2>1. CASE i = 1
    BY <2>1, <1>1, <1>4 DEF First
  <2>2. CASE i # 1
    <3> DEFINE j == i - 1
    <3>1. j \in 1..(Len(left) - 1) /\ i = j + 1
      BY <2>2, <1>1, <1>3
    <3> HIDE DEF j
    <3>2. j \in DOMAIN left' /\ left'[j] = left[i]
      BY <3>1, <1>1, <1>3
    <3>3. Key(Eit[k], left[i]) \in Left(k)'
      BY <3>2, <1>4 DEF Left
    <3> QED BY <3>3
  <2> QED BY <2>1, <2>2
<1> QED BY <1>2, <1>4 DEF Left

(* From the assembler to the host.                                         *)
(* What is taken again of a section in step is what was tested.            *)
LEMMA StepMeasures == ASSUME Following, Measures PROVE Following'
<1>1. /\ Placement /\ Behind /\ Handling /\ UNCHANGED <<cursor, unbroken, after>>
      /\ stage = "measure" /\ stage' = "check"
      /\ \/ UNCHANGED <<section, extra>>
         \/ /\ section' = SubSeq(data, 1, expected)
            /\ expected <= length => extra' = length - expected
      /\ UNCHANGED <<data, length, expected, sent>>
  BY DEF Following, Measures, assembler, air
<1>2. Placement' /\ Behind' /\ Idling' /\ Appending'
  BY <1>1, Proceeds DEF Appending
<1>3. ASSUME Synced' PROVE \E k \in DOMAIN Eit : Whole(k)'
  <2>1. /\ Here' = Here /\ End' = End /\ Synced' = Synced
        /\ \A k \in DOMAIN Eit : Covered(k)' = Covered(k)
    BY <1>1, Steady
  <2>2. PICK k \in DOMAIN Eit : Whole(k)
    BY <1>1, <1>3, <2>1 DEF Handling
  <2>3. /\ extra \in Nat /\ expected \in Nat /\ length = expected + extra
        /\ section = SubSeq(data, 1, expected)
    BY <1>1, <2>2, EitIs DEF Whole
  <2>4. section' = section /\ extra' = extra
    BY <1>1, <2>3
  <2>5. DoneTo(From(k))'
    BY <1>1, <2>1, <2>2 DEF Whole, DoneTo, Done
  <2>6. (Quiet(To(k) + extra, End))'
    BY <2>1, <2>2, <2>4 DEF Whole, Quiet
  <2>7. ~Sending' /\ stage' # "tell" /\ stage' # "measure"
    BY <1>1 DEF Sending
  <2> QED BY <1>1, <2>1, <2>2, <2>4, <2>5, <2>6, <2>7 DEF Whole
<1>4. Handling'
  BY <1>3 DEF Handling
<1> QED BY <1>2, <1>4 DEF Following

LEMMA StepChecks == ASSUME Following, Checks PROVE Following'
<1>1. /\ Placement /\ Behind /\ Handling /\ UNCHANGED <<cursor, unbroken, after>>
      /\ stage = "check" /\ stage' \in {"store", "send"} /\ left' = Guided(section)
      /\ UNCHANGED <<data, expected, section, extra, sent>>
  BY DEF Following, Checks, assembler, air
<1>2. Placement' /\ Behind' /\ Idling' /\ Appending'
  BY <1>1, Proceeds DEF Appending
<1>3. ASSUME Synced' PROVE \E k \in DOMAIN Eit : Whole(k)'
  <2>1. /\ Here' = Here /\ End' = End /\ Synced' = Synced
        /\ \A k \in DOMAIN Eit : Covered(k)' = Covered(k)
    BY <1>1, Steady
  <2>2. PICK k \in DOMAIN Eit : Whole(k)
    BY <1>1, <1>3, <2>1 DEF Handling
  <2>3. left' = Eit[k].events /\ Eit[k].events \in Seq(Range(Eit[k].events))
    BY <1>1, <2>2, EventsAre DEF Whole, Guided
  <2>4. DoneTo(From(k))'
    BY <1>1, <2>1, <2>2 DEF Whole, DoneTo, Done
  <2>5. PlacedKeys(Eit[k]) = Left(k)'
    BY <2>3 DEF PlacedKeys, Left, ToSet
  <2>6. (Quiet(To(k) + extra, End))'
    BY <1>1, <2>1, <2>2 DEF Whole, Quiet
  <2>7. stage' # "measure" /\ stage' # "tell"
    BY <1>1
  <2> QED BY <1>1, <2>1, <2>2, <2>3, <2>4, <2>5, <2>6, <2>7 DEF Whole
<1>4. Handling'
  BY <1>3 DEF Handling
<1> QED BY <1>2, <1>4 DEF Following

(* While the events of a section are sent.                                 *)
LEMMA Handed ==
  ASSUME Following,
         UNCHANGED <<cursor, unbroken, after, data, expected, section, extra>>, sent \subseteq sent',
         stage \in {"store", "send", "tell"}, stage' \in {"send", "tell"},
         \A k \in DOMAIN Eit : Whole(k) =>
           /\ left' \in Seq(Range(left')) /\ (stage' = "tell" => left' # <<>>)
           /\ Left(k) \subseteq sent' \union Left(k)'
  PROVE  Following'
<1>1. Placement /\ Behind /\ Handling
  BY DEF Following
<1>2. Placement' /\ Behind' /\ Idling' /\ Appending'
  BY <1>1, Proceeds DEF Appending
<1>3. ASSUME Synced' PROVE \E k \in DOMAIN Eit : Whole(k)'
  <2>1. /\ Here' = Here /\ End' = End /\ Synced' = Synced
        /\ \A k \in DOMAIN Eit : Covered(k)' = Covered(k)
    BY Steady
  <2>2. PICK k \in DOMAIN Eit : Whole(k)
    BY <1>1, <1>3, <2>1 DEF Handling
  <2>3. DoneTo(From(k))'
    BY <2>1, <2>2 DEF Whole, DoneTo, Done
  <2>4. (Quiet(To(k) + extra, End))'
    BY <2>1, <2>2 DEF Whole, Quiet
  <2>5. /\ left' \in Seq(Range(left')) /\ (stage' = "tell" => left' # <<>>)
        /\ Left(k) \subseteq sent' \union Left(k)'
    BY <2>2
  <2>6. Sending /\ stage' # "measure"
    BY DEF Sending
  <2>7. Covered(k)' => PlacedKeys(Eit[k]) \subseteq sent' \union Left(k)'
    BY <2>1, <2>2, <2>5, <2>6 DEF Whole
  <2> QED BY <2>1, <2>2, <2>3, <2>4, <2>5, <2>6, <2>7 DEF Whole
<1>4. Handling'
  BY <1>3 DEF Handling
<1> QED BY <1>2, <1>4 DEF Following

LEMMA StepStores == ASSUME Following, Stores PROVE Following'
<1>1. /\ UNCHANGED <<cursor, unbroken, after, data, expected, section, extra, left, sent>>
      /\ stage = "store" /\ stage' = "send"
  BY DEF Stores, assembler, air
<1>2. ASSUME NEW k \in DOMAIN Eit, Whole(k)
      PROVE  left' \in Seq(Range(left')) /\ Left(k) \subseteq sent' \union Left(k)'
  BY <1>1, <1>2 DEF Whole, Left, Sending
<1> QED BY <1>1, <1>2, Handed

LEMMA StepSkips == ASSUME Following, Skips PROVE Following'
<1>1. /\ UNCHANGED <<cursor, unbroken, after, data, expected, section, extra, sent>>
      /\ stage = "send" /\ stage' = "send" /\ left # <<>> /\ left' = Tail(left)
      /\ ~Placed(Header(section), Head(left))
  BY DEF Skips, assembler, air
<1>2. ASSUME NEW k \in DOMAIN Eit, Whole(k)
      PROVE  left' \in Seq(Range(left')) /\ Left(k) \subseteq sent' \union Left(k)'
  <2>1. Header(section) = Eit[k]
    BY <1>2, EventsAre DEF Whole
  <2> QED BY <2>1, <1>1, <1>2, LeftIs DEF Whole, First, Sending
<1> QED BY <1>1, <1>2, Handed

(* An event that is in the table already was sent.                         *)
LEMMA StepNotes == ASSUME Following, Noted, Notes PROVE Following' /\ Noted'
<1> DEFINE key == Key(Header(section), Head(left))
           kept == IF Filled THEN {} ELSE seen
<1>1. /\ UNCHANGED <<cursor, unbroken, after, data, expected, section, extra, sent>>
      /\ stage = "send" /\ left # <<>>
      /\ seen' \in {kept, kept \union {key}}
      /\ \/ key \notin kept /\ stage' = "tell" /\ UNCHANGED left
         \/ key \in kept /\ stage' = "send" /\ left' = Tail(left)
  BY DEF Notes, assembler, air
<1>2. kept \subseteq sent
  BY <1>1 DEF Noted, Told
<1>3. ASSUME NEW k \in DOMAIN Eit, Whole(k)
      PROVE  /\ left' \in Seq(Range(left')) /\ (stage' = "tell" => left' # <<>>)
             /\ Left(k) \subseteq sent' \union Left(k)'
  <2>1. Header(section) = Eit[k]
    BY <1>3, EventsAre DEF Whole
  <2>2. CASE UNCHANGED left
    BY <2>2, <1>1, <1>3 DEF Whole, Left, Sending
  <2>3. CASE key \in kept /\ stage' = "send" /\ left' = Tail(left)
    <3>1. Key(Eit[k], Head(left)) \in sent'
      BY <2>1, <2>3, <1>1, <1>2
    <3>2. left \in Seq(Range(left))
      BY <1>1, <1>3 DEF Whole, Sending
    <3> QED BY <3>1, <3>2, <2>3, <1>1, LeftIs DEF First
  <2> QED BY <2>2, <2>3, <1>1
<1>4. Noted'
  <2>1. CASE key \notin kept /\ stage' = "tell" /\ UNCHANGED left
    <3>1. Told' = {key}
      BY <2>1, <1>1 DEF Told, Header
    <3> QED BY <3>1, <1>1, <1>2 DEF Noted
  <2>2. CASE key \in kept
    BY <2>2, <1>1, <1>2 DEF Noted
  <2> QED BY <2>1, <2>2, <1>1
<1>5. Following'
  <2> HIDE DEF key, kept
  <2> QED BY <1>1, <1>3, Handed
<1> QED BY <1>4, <1>5

LEMMA StepSends == ASSUME Following, Noted, Sends PROVE Following' /\ Noted'
<1>1. /\ UNCHANGED <<cursor, unbroken, after, data, expected, section, extra, seen>>
      /\ stage = "tell" /\ stage' = "send" /\ left' = Tail(left)
      /\ sent' = sent \union {Key(Header(section), Head(left))}
  BY DEF Sends, assembler, air, table
<1>2. ASSUME NEW k \in DOMAIN Eit, Whole(k)
      PROVE  left' \in Seq(Range(left')) /\ Left(k) \subseteq sent' \union Left(k)'
  <2>1. Header(section) = Eit[k]
    BY <1>2, EventsAre DEF Whole
  <2> QED BY <2>1, <1>1, <1>2, LeftIs DEF Whole, First, Sending
<1>3. Noted'
  BY <1>1 DEF Noted, Told
<1> QED BY <1>1, <1>2, <1>3, Handed

(* What is behind the section is read where the section ends.              *)
LEMMA StepGoesOn == ASSUME Following, GoesOn PROVE Following'
<1>1. /\ Placement /\ Behind /\ Handling /\ UNCHANGED <<cursor, unbroken, after, sent>>
      /\ stage = "send" /\ stage' = "append" /\ left = <<>>
      /\ input' = SubSeq(data, expected + 1, expected + extra) /\ length' = 0
      /\ expected' = 0
  BY DEF Following, GoesOn, Rest, air
<1>2. Placement' /\ Behind' /\ Idling' /\ Handling'
  BY <1>1, Proceeds DEF Handling
<1>3. ASSUME Synced' PROVE \E q \in Nat : (Reads(q) /\ Partly(q) /\ DoneTo(q))'
  <2>1. /\ Here' = Here /\ End' = End /\ Synced' = Synced
        /\ \A k \in DOMAIN Eit : Covered(k)' = Covered(k)
    BY <1>1, Steady
  <2>2. PICK k \in DOMAIN Eit : Whole(k)
    BY <1>1, <1>3, <2>1 DEF Handling
  <2>3. /\ Here \in Nat /\ End \in Nat /\ End <= Len(Cycle) /\ Len(Cycle) \in Nat
        /\ To(k) \in Nat /\ From(k) \in Nat
    BY <1>1, HereIs, SectionsLie
  <2>4. /\ expected \in Nat /\ extra \in Nat /\ data \in Seq(Cells) /\ Len(data) \in Nat
        /\ expected + extra <= Len(data) /\ Here < To(k) /\ To(k) + extra <= End
        /\ \A i \in 1..extra : data[expected + i] = Cycle[To(k) + i]
    BY <2>2, EitIs DEF Whole
  <2>5. /\ input' \in Seq(Cells) /\ Len(input') = extra
        /\ \A i \in 1..extra : input'[i] = data[expected + i]
    <3> DEFINE rest == SubSeq(data, expected + 1, expected + extra)
    <3>1. /\ rest \in Seq(Cells) /\ Len(rest) = extra
          /\ \A i \in 1..extra : rest[i] = data[expected + i]
      BY <2>4, PartIs
    <3> QED BY <3>1, <1>1
  <2> DEFINE q == To(k)
  <2>6. Lies(input, q)'
    <3>1. q + Len(input') <= Len(Cycle)
      BY <2>3, <2>4, <2>5
    <3>2. \A i \in 1..Len(input') : input'[i] = Cycle[q + i]
      BY <2>3, <2>4, <2>5
    <3> QED BY <3>1, <3>2, <2>5 DEF Lies
  <2>7. Reads(q)'
    <3>1. Quiet(q + Len(input), End)'
      BY <2>1, <2>2, <2>5 DEF Whole, Quiet
    <3> QED BY <3>1, <2>1, <2>3, <2>4, <2>5, <2>6, <1>1 DEF Reads
  <2>8. Partly(q)'
    <3>1. Boundary(q)
      BY SectionBoundary
    <3> QED BY <3>1, <1>1 DEF Partly, Between, Boundary
  <2>9. DoneTo(q)'
    <3> SUFFICES ASSUME NEW m \in DOMAIN Eit, Here < To(m), To(m) <= q,
                        Covered(m) PROVE Done(m)
      BY <2>1, <1>1 DEF DoneTo, Done
    <3>1. CASE m = k
      <4>1. Left(k) = {}
        BY <1>1 DEF Left
      <4> QED BY <4>1, <3>1, <2>2, <1>1 DEF Whole, Done, Sending
    <3>2. CASE m # k
      <4>1. To(m) <= From(k)
        BY <3>2, EndsBefore
      <4> QED BY <4>1, <2>2 DEF Whole, DoneTo
    <3> QED BY <3>1, <3>2
  <2> HIDE DEF q
  <2>10. q \in Nat
    BY <2>3 DEF q
  <2> QED BY <2>7, <2>8, <2>9, <2>10
<1>4. Appending'
  BY <1>3 DEF Appending
<1> QED BY <1>2, <1>4 DEF Following

(* The thread goes to the pointer of the packet, or to its end.            *)
LEMMA StepResets == ASSUME Following, Resets PROVE Following'
<1>1. /\ Placement /\ Behind /\ Appending /\ UNCHANGED <<cursor, unbroken, sent>>
      /\ stage = "append" /\ stage' = "append" /\ Unstuffed = <<>> /\ after # <<>>
      /\ input' = after /\ after' = <<>> /\ length' = 0 /\ expected' = 0
  BY DEF Following, Resets, air
<1>2. Placement' /\ Behind' /\ Idling' /\ Handling'
  BY <1>1 DEF Placement, Behind, Idling, Handling
<1>3. /\ Here \in Nat /\ End \in Nat /\ Here <= End /\ End <= Here + Room
      /\ Room \in Nat
      /\ Here + Room <= Len(Cycle) /\ Len(Cycle) \in Nat
      /\ \E k \in DOMAIN Eit : From(k) = End
      /\ \A k \in DOMAIN Eit : Holds(cursor, k) => End <= From(k)
  BY <1>1, HereIs
<1>4. Here' = Here /\ End' = Here + Room
  BY <1>1 DEF Here, End
<1>5. PICK q \in Nat : q = End
  BY <1>3
<1>6. Reads(q)'
  <2> DEFINE p == PointerOf(Payload(cursor))
  <2>1. cursor \in 1..Packets
    BY <1>1 DEF Placement
  <2>2. /\ p \in 0..(Room - 1) /\ q = Here + p
        /\ after = SubSeq(Payload(cursor), p + 1, Room)
    BY <1>1, <1>5, <2>1, PointerIs DEF Behind, End
  <2>3. /\ Payload(cursor) \in Seq(Cells) /\ Len(Payload(cursor)) = Room
        /\ \A i \in 1..Room : Payload(cursor)[i] = Cycle[Here + i]
    BY <2>1, PayloadIs DEF Here
  <2> HIDE DEF p
  <2> DEFINE b == Room - p
  <2>4. p \in Nat /\ b \in Nat /\ p + b = Room /\ q + b = Here + Room
    BY <2>2, <1>3
  <2> HIDE DEF b
  <2>5. /\ after \in Seq(Cells) /\ Len(after) = b
        /\ \A i \in 1..b : after[i] = Payload(cursor)[p + i]
    <3>1. after = SubSeq(Payload(cursor), p + 1, p + b) /\ p + b <= Len(Payload(cursor))
      BY <2>2, <2>3, <2>4, SMTT(30)
    <3> QED BY <3>1, <2>3, <2>4, PartIs
  <2>6. ASSUME NEW i \in 1..b PROVE after[i] = Cycle[q + i]
    <3>1. p + i \in 1..Room /\ q + i = Here + (p + i)
      BY <2>2, <2>4, <1>3
    <3> DEFINE j == p + i
    <3>2. Payload(cursor)[j] = Cycle[Here + j]
      <4>1. j \in 1..Room
        BY <3>1
      <4> HIDE DEF j
      <4> QED BY <4>1, <2>3
    <3> QED BY <3>1, <3>2, <2>5
  <2>7. Lies(input, q)'
    <3>1. q + Len(input') <= Len(Cycle)
      BY <2>4, <2>5, <1>1, <1>3
    <3>2. \A i \in 1..Len(input') : input'[i] = Cycle[q + i]
      BY <2>5, <2>6, <1>1
    <3> QED BY <3>1, <3>2, <2>5, <1>1 DEF Lies
  <2>8. q + Len(input') = End'
    BY <2>4, <2>5, <1>1, <1>4
  <2>9. q \in Here'..End'
    BY <1>3, <1>4, <1>5
  <2>10. Quiet(q + Len(input), End)'
    BY <2>8, <1>3, <1>4 DEF Quiet
  <2> QED BY <2>7, <2>8, <2>9, <2>10, <1>1, <1>3, <1>4 DEF Reads
<1>7. Partly(q)'
  <2>1. Boundary(q)
    BY <1>3, <1>5, SectionBoundary
  <2> QED BY <2>1, <1>1 DEF Partly, Between, Boundary
<1>8. DoneTo(q)'
  <2> SUFFICES ASSUME NEW k \in DOMAIN Eit, Here < To(k), To(k) <= End,
                      Covered(k)' PROVE Done(k)
    BY <1>1, <1>4, <1>5 DEF DoneTo, Done
  <2>1. PICK n \in 1..Packets : Holds(n, k) /\ InRow(n)'
    BY DEF Covered
  <2>2. InRow(n)
    BY <2>1, <1>1 DEF InRow
  <2>3. n # cursor
    BY <2>1, <1>3, SectionsLie
  <2>4. Synced
    BY <2>1, <2>2, <2>3, InSync
  <2>5. PICK r \in Nat : Reads(r) /\ Partly(r) /\ DoneTo(r)
    BY <2>4, <1>1 DEF Appending
  <2>6. DoneTo(End)
    BY <2>5, <1>1, Exhausted
  <2>7. Covered(k)
    BY <2>1, <2>2 DEF Covered
  <2> QED BY <2>6, <2>7 DEF DoneTo
<1>9. Appending'
  BY <1>6, <1>7, <1>8, <1>5 DEF Appending
<1> QED BY <1>2, <1>9 DEF Following

(* Every section that ends in the packet was sent when the packet ends.    *)
LEMMA StepEnds == ASSUME Following, Reheard, Ends PROVE Following' /\ Reheard'
<1>1. /\ Placement /\ Behind /\ Appending
      /\ UNCHANGED <<unbroken, sent, data, length, expected>>
      /\ stage = "append" /\ stage' = "idle" /\ Unstuffed = <<>> /\ after = <<>>
      /\ after' = <<>>
      /\ cursor' = (cursor % Packets) + 1
  BY DEF Following, Ends, assembler
<1>2. cursor \in 1..Packets /\ Packets \in Nat /\ cursor \in Nat /\ unbroken \in Nat
  BY <1>1, PacketsAre DEF Placement
<1>3. cursor' = IF cursor = Packets THEN 1 ELSE cursor + 1
  BY <1>1, <1>2, Turns
<1>4. Placement' /\ Behind' /\ Appending' /\ Handling'
  <2>1. cursor' \in 1..Packets
    BY <1>2, <1>3
  <2> QED BY <2>1, <1>1, <1>2 DEF Placement, Behind, Appending, Handling
<1>5. End = Here + Room /\ Here = Base(cursor)
  BY <1>1, HereIs DEF Here
<1>6. ASSUME Synced PROVE Partly(End) /\ DoneTo(End)
  <2>1. PICK q \in Nat : Reads(q) /\ Partly(q) /\ DoneTo(q)
    BY <1>1, <1>6 DEF Appending
  <2> QED BY <2>1, <1>1, Exhausted
<1>7. Idling'
  <2> SUFFICES ASSUME Synced' PROVE Partly(Here)'
    BY DEF Idling
  <2>1. PICK n \in 1..Packets : Starts(Payload(n)) /\ InRow(n)'
    BY DEF Synced
  <2>2. n < cursor' /\ unbroken >= cursor' - n /\ n \in Nat
    BY <2>1, <1>1 DEF InRow
  <2>3. cursor # Packets /\ cursor' = cursor + 1
    BY <2>2, <1>3, <1>2
  <2>4. InRow(n)
    BY <2>2, <2>3, <1>1, <1>2 DEF InRow
  <2>5. Synced
    BY <2>1, <2>4, <1>1 DEF Synced
  <2>6. Here' = End
    BY <2>3, <1>2, <1>5, Bases DEF Here
  <2> QED BY <2>5, <2>6, <1>1, <1>6 DEF Partly, Between, Open, Held, Boundary
<1>8. Reheard'
  <2>1. ASSUME NEW k \in LastIn(cursor), Cardinality(Spans[k]) <= unbroken
        PROVE  PlacedKeys(Eit[k]) \subseteq sent
    <3>1. /\ k \in DOMAIN Eit /\ Base(cursor) < To(k) /\ To(k) <= Base(cursor) + Room
          /\ \E m \in 1..cursor : Holds(m, k) /\ Cardinality(Spans[k]) = cursor - m + 1
      BY <1>2, <2>1, LastIs
    <3>2. PICK m \in 1..cursor : Holds(m, k) /\ Cardinality(Spans[k]) = cursor - m + 1
      BY <3>1
    <3>3. m \in 1..Packets /\ InRow(m)
      BY <3>2, <2>1, <1>1, <1>2 DEF InRow
    <3>4. Covered(k) /\ Synced
      BY <3>1, <3>2, <3>3, <1>1, InSync DEF Covered
    <3> QED BY <3>1, <3>4, <1>5, <1>6 DEF DoneTo, Done
  <2>2. heard' = heard \union
          UNION {PlacedKeys(Eit[k]) : k \in {k \in LastIn(cursor) : Cardinality(Spans[k]) <= unbroken}}
    BY DEF Ends
  <2> QED BY <2>1, <2>2, <1>1 DEF Reheard
<1> QED BY <1>4, <1>7, <1>8 DEF Following

(* A packet lost, and the stores of set_channel, end the row.              *)
LEMMA StepApart ==
  ASSUME Following, Loses \/ ResetsLength \/ ResetsExpected \/ Forgets
  PROVE  Following'
<1>1. /\ Placement /\ Behind /\ UNCHANGED <<stage, after>> /\ unbroken' = 0
      /\ \/ UNCHANGED cursor
         \/ cursor' = (cursor % Packets) + 1 /\ stage = "idle"
  BY DEF Following, Loses, ResetsLength, ResetsExpected, Forgets, Idle, work
<1>2. Placement'
  <2>1. cursor \in 1..Packets /\ Packets \in Nat
    BY <1>1, PacketsAre DEF Placement
  <2>2. cursor' \in 1..Packets
    BY <2>1, <1>1, Turns
  <2> QED BY <2>2, <1>1 DEF Placement
<1>3. Behind'
  BY <1>1 DEF Behind
<1>4. ~Synced'
  <2> SUFFICES ASSUME NEW n \in 1..Packets, InRow(n)' PROVE FALSE
    BY DEF Synced
  <2>1. PICK c \in Nat : c = cursor'
    BY <1>2 DEF Placement
  <2>2. n \in Nat
    OBVIOUS
  <2>3. CASE stage = "idle"
    <3>1. n < c /\ 0 >= c - n
      BY <2>1, <2>3, <1>1 DEF InRow
    <3> QED BY <3>1, <2>2
  <2>4. CASE stage # "idle"
    <3>1. n <= c /\ 0 >= c - n + 1
      BY <2>1, <2>4, <1>1 DEF InRow
    <3> QED BY <3>1, <2>2
  <2> QED BY <2>3, <2>4
<1> QED BY <1>2, <1>3, <1>4 DEF Following, Idling, Appending, Handling

(* A packet is read from its pointer on, or first up to it when a section  *)
(* is being put together.                                                  *)
LEMMA StepReceives == ASSUME Following, Receives PROVE Following'
<1> DEFINE p == PointerOf(Payload(cursor))
<1>1. /\ Placement /\ Behind /\ Idling /\ stage = "idle" /\ stage' = "append"
      /\ after = <<>>
      /\ UNCHANGED <<cursor, sent>>
  BY DEF Following, Receives, Idle, Takes, Behind
<1>2. /\ cursor \in 1..Packets /\ Packets \in Nat /\ cursor \in Nat /\ unbroken \in Nat
      /\ unbroken' \in Nat /\ unbroken' <= unbroken + 1
  BY <1>1, PacketsAre DEF Placement, Receives
<1>3. /\ Here \in Nat /\ Room \in Nat /\ Len(Cycle) \in Nat /\ Here + Room <= Len(Cycle)
      /\ Here = Base(cursor) /\ Here' = Here
  BY <1>1, HereIs DEF Here
<1>4. /\ p \in 0..(Room - 1)
      /\ ~Starts(Payload(cursor)) => p = 0
      /\ Starts(Payload(cursor)) => /\ \E k \in DOMAIN Eit : From(k) = Here + p
                                    /\ \A k \in DOMAIN Eit : Holds(cursor, k) => Here + p <= From(k)
  BY <1>2, <1>3, PointerIs
<1>5. /\ Payload(cursor) \in Seq(Cells) /\ Len(Payload(cursor)) = Room
      /\ \A i \in 1..Room : Payload(cursor)[i] = Cycle[Here + i]
  BY <1>2, <1>3, PayloadIs
<1>6. ASSUME NEW n \in 1..Packets, n # cursor, InRow(n)' PROVE n < cursor /\ InRow(n)
  BY <1>1, <1>2, <1>6 DEF InRow
<1>7. ASSUME NEW n \in 1..Packets, n # cursor, InRow(n)',
             Starts(Payload(n))
      PROVE  Partly(Here)
  <2>1. Synced
    BY <1>6, <1>7 DEF Synced
  <2> QED BY <2>1, <1>1 DEF Idling
<1>8. Takes(Payload(cursor), Starts(Payload(cursor)), p)
  BY DEF Receives
<1> HIDE DEF p
<1>9. CASE Starts(Payload(cursor)) /\ p > 0 /\ length > 0
  <2>1. /\ input' = SubSeq(Payload(cursor), 1, p)
        /\ after' = SubSeq(Payload(cursor), p + 1, Room)
        /\ UNCHANGED <<data, length, expected>>
    BY <1>5, <1>8, <1>9 DEF Takes, assembler
  <2>2. p \in Nat /\ 0 < p /\ p < Room
    BY <1>3, <1>4, <1>9
  <2>3. after' # <<>>
    <3> DEFINE l == p + 1
    <3>1. /\ l \in Nat /\ 1 <= l /\ l <= Room /\ Room <= Len(Payload(cursor))
          /\ Room \in Nat
          /\ Payload(cursor) \in Seq(Cells)
      BY <2>2, <1>3, <1>5
    <3>2. after' = SubSeq(Payload(cursor), l, Room)
      BY <2>1
    <3> HIDE DEF l
    <3>3. SubSeq(Payload(cursor), l, Room) # <<>>
      BY <3>1, CutIs, Zenon
    <3> QED BY <3>2, <3>3, Zenon
  <2>4. /\ input' \in Seq(Cells) /\ Len(input') = p
        /\ \A i \in 1..p : input'[i] = Cycle[Here + i]
    <3>1. /\ SubSeq(Payload(cursor), 1, p) \in Seq(Cells)
          /\ Len(SubSeq(Payload(cursor), 1, p)) = p
          /\ \A i \in 1..p : SubSeq(Payload(cursor), 1, p)[i] = Payload(cursor)[i]
      <4>1. p <= Len(Payload(cursor))
        BY <2>2, <1>3, <1>5
      <4> QED BY <4>1, <2>2, <1>5, FrontIs
    <3>2. \A i \in 1..p : i \in 1..Room
      BY <2>2, <1>3
    <3> QED BY <3>1, <3>2, <2>1, <1>5
  <2>5. Placement' /\ Behind' /\ Idling' /\ Handling'
    BY <2>1, <2>2, <1>1, <1>2, <1>9 DEF Placement, Behind, Idling, Handling, p
  <2>6. End' = Here + p
    BY <2>3, <1>1, <1>3 DEF End, p
  <2>7. ASSUME Synced' PROVE Partly(Here)
    <3>1. PICK n \in 1..Packets : Starts(Payload(n)) /\ InRow(n)' /\ n # cursor
      BY <2>3, <2>7, <1>1 DEF Synced
    <3> QED BY <3>1, <1>7
  <2>8. PICK q \in Nat : q = Here
    BY <1>3
  <2>9. Reads(q)'
    <3>1. q + Len(input') <= Len(Cycle)
      BY <2>2, <2>4, <2>8, <1>3
    <3>2. \A i \in 1..Len(input') : input'[i] = Cycle[q + i]
      BY <2>4, <2>8
    <3>3. Lies(input, q)'
      BY <3>1, <3>2, <2>4 DEF Lies
    <3>4. Quiet(q + Len(input), End)'
      BY <2>2, <2>4, <2>6, <2>8, <1>3 DEF Quiet
    <3>5. ASSUME NEW k \in DOMAIN Eit PROVE From(k) < q \/ End' <= From(k)
      <4>1. From(k) \in Nat
        BY SectionsLie
      <4>2. CASE Holds(cursor, k)
        BY <4>2, <2>6, <1>4, <1>9
      <4>3. CASE ~Holds(cursor, k)
        BY <4>1, <4>3, <2>2, <2>6, <2>8, <1>3 DEF Holds
      <4> QED BY <4>2, <4>3
    <3>6. q \in Here'..End' /\ q + Len(input') <= End'
      BY <2>2, <2>4, <2>6, <2>8, <1>3
    <3> QED BY <3>3, <3>4, <3>5, <3>6 DEF Reads
  <2>10. DoneTo(q)'
    <3>1. \A k \in DOMAIN Eit : To(k) \in Nat
      BY SectionsLie
    <3> QED BY <3>1, <2>8, <1>3 DEF DoneTo
  <2>11. Synced' => Partly(q)'
    BY <2>1, <2>7, <2>8 DEF Partly, Between, Open, Held, Boundary
  <2>12. Appending'
    BY <2>9, <2>10, <2>11 DEF Appending
  <2> QED BY <2>5, <2>12 DEF Following
<1>10. CASE ~(Starts(Payload(cursor)) /\ p > 0 /\ length > 0)
  <2>1. /\ input' = SubSeq(Payload(cursor), p + 1, Room) /\ after' = <<>>
        /\ UNCHANGED data
        /\ IF Starts(Payload(cursor)) THEN length' = 0 /\ expected' = 0
           ELSE UNCHANGED <<length, expected>>
    BY <1>5, <1>8, <1>10 DEF Takes
  <2>2. Placement' /\ Behind' /\ Idling' /\ Handling'
    BY <2>1, <1>1, <1>2 DEF Placement, Behind, Idling, Handling
  <2>3. End' = Here + Room
    BY <2>1, <1>3 DEF End
  <2>4. PICK q \in Nat : q = Here + p
    BY <1>3, <1>4
  <2>5. PICK b \in Nat : p \in Nat /\ p + b = Room /\ q + b = Here + Room /\ 0 < b
    <3> DEFINE b == Room - p
    <3>1. b \in Nat /\ p \in Nat /\ p + b = Room /\ q + b = Here + Room /\ 0 < b
      BY <2>4, <1>3, <1>4
    <3> QED BY <3>1
  <2>6. /\ input' \in Seq(Cells) /\ Len(input') = b
        /\ \A i \in 1..b : input'[i] = Payload(cursor)[p + i]
    <3> DEFINE rest == SubSeq(Payload(cursor), p + 1, p + b)
    <3>1. /\ rest \in Seq(Cells) /\ Len(rest) = b
          /\ \A i \in 1..b : rest[i] = Payload(cursor)[p + i]
      <4>1. p + b <= Len(Payload(cursor))
        BY <2>5, <1>3, <1>5
      <4> QED BY <4>1, <2>5, <1>5, PartIs
    <3>2. input' = rest
      BY <2>1, <2>5
    <3> QED BY <3>1, <3>2
  <2>7. ASSUME NEW i \in 1..b PROVE input'[i] = Cycle[q + i]
    <3>1. p + i \in 1..Room /\ q + i = Here + (p + i)
      <4>1. p + i \in Nat /\ 1 <= p + i /\ p + i <= Room
        BY <2>5, <1>3
      <4>2. q + i = Here + (p + i)
        BY <2>4, <2>5, <1>3
      <4> QED BY <4>1, <4>2, <1>3
    <3> DEFINE j == p + i
    <3>2. Payload(cursor)[j] = Cycle[Here + j]
      <4>1. j \in 1..Room
        BY <3>1
      <4> HIDE DEF j
      <4> QED BY <4>1, <1>5
    <3> QED BY <3>1, <3>2, <2>6
  <2>8. Reads(q)'
    <3>1. q + Len(input') <= Len(Cycle)
      BY <2>5, <2>6, <1>3
    <3>2. \A i \in 1..Len(input') : input'[i] = Cycle[q + i]
      BY <2>6, <2>7
    <3>3. Lies(input, q)'
      BY <3>1, <3>2, <2>6 DEF Lies
    <3>4. Quiet(q + Len(input), End)'
      BY <2>3, <2>5, <2>6, <1>3 DEF Quiet
    <3>5. ASSUME length' > 0, NEW k \in DOMAIN Eit PROVE From(k) < q \/ End' <= From(k)
      <4>1. ~Starts(Payload(cursor))
        BY <3>5, <2>1
      <4>2. ~Holds(cursor, k)
        BY <4>1, <1>2, StartsIs DEF Starts
      <4>3. p = 0
        BY <4>1, <1>4
      <4> QED BY <4>2, <4>3, <2>3, <2>4, <1>3, SectionsLie DEF Holds
    <3>6. Here <= q /\ q <= Here + Room
      <4> DEFINE h == Here
      <4>1. h \in Nat /\ Room \in Nat /\ q = h + p /\ q + b = h + Room
        BY <2>4, <2>5, <1>3
      <4> HIDE DEF h
      <4>2. h <= q /\ q <= h + Room
        BY <4>1, <2>5
      <4> QED BY <4>2 DEF h
    <3>7. q \in Here'..End' /\ q + Len(input') <= End'
      BY <3>6, <2>3, <2>5, <2>6, <1>3
    <3> QED BY <3>3, <3>4, <3>5, <3>7 DEF Reads
  <2>9. ASSUME Synced' PROVE Partly(q)'
    <3>1. CASE Starts(Payload(cursor))
      <4>1. Boundary(q)
        BY <3>1, <2>4, <1>4, SectionBoundary
      <4> QED BY <4>1, <3>1, <2>1 DEF Partly, Between, Boundary
    <3>2. CASE ~Starts(Payload(cursor))
      <4>1. PICK n \in 1..Packets : Starts(Payload(n)) /\ InRow(n)'
        BY <2>9 DEF Synced
      <4>2. n # cursor
        BY <4>1, <3>2
      <4>3. Partly(Here)
        BY <4>1, <4>2, <1>7
      <4>4. q = Here
        BY <3>2, <2>4, <1>3, <1>4
      <4> QED BY <4>3, <4>4, <3>2, <2>1 DEF Partly, Between, Open, Held, Boundary
    <3> QED BY <3>1, <3>2
  <2>10. ASSUME NEW k \in DOMAIN Eit, Here < To(k), To(k) <= q, Covered(k)' PROVE FALSE
    <3>1. PICK n \in 1..Packets : Holds(n, k) /\ InRow(n)'
      BY <2>10 DEF Covered
    <3>2. From(k) \in Nat /\ To(k) \in Nat /\ From(k) < To(k)
      BY SectionsLie
    <3>3. p > 0 /\ Starts(Payload(cursor))
      <4>1. Here < q
        BY <3>2, <2>10, <1>3
      <4>2. p # 0
        BY <4>1, <2>4, <1>3
      <4>3. p > 0
        BY <4>2, <2>5
      <4> QED BY <4>2, <4>3, <1>4
    <3>4. n # cursor
      <4> SUFFICES ASSUME n = cursor PROVE FALSE
        OBVIOUS
      <4>1. Here + p <= From(k)
        BY <3>1, <3>3, <1>4
      <4>2. q <= From(k)
        BY <4>1, <2>4
      <4> QED BY <4>2, <3>2, <2>10
    <3>5. Starts(Payload(n))
      BY <3>1, StartsIs DEF Starts
    <3>6. Partly(Here) /\ n < cursor
      BY <3>1, <3>4, <3>5, <1>6, <1>7
    <3>7. From(k) < Here
      <4>1. Base(n) + Room <= Base(cursor) /\ Base(n) \in Nat
        BY <3>6, <1>2, BasesGrow, Bases
      <4> QED BY <4>1, <3>1, <3>2, <1>3 DEF Holds
    <3>8. PICK m \in DOMAIN Eit : Open(m, Here)
      BY <3>6, <3>7, <2>10 DEF Partly, Between, Boundary
    <3>9. length > 0
      BY <3>8, <1>3, SectionsLie DEF Open
    <3> QED BY <3>3, <3>9, <1>10
  <2>11. DoneTo(q)'
    BY <2>10, <1>3 DEF DoneTo
  <2>12. Appending'
    BY <2>8, <2>9, <2>11 DEF Appending
  <2> QED BY <2>2, <2>12 DEF Following
<1> QED BY <1>9, <1>10

(* What is appended begins a section or goes on with one.                  *)
LEMMA Unstuffs ==
  ASSUME Placement, Behind, NEW q \in Nat, Reads(q), Partly(q), DoneTo(q),
         Unstuffed # <<>>
  PROVE  \E r \in Nat, k \in DOMAIN Eit :
           /\ q <= r /\ Lies(Unstuffed, r) /\ r + Len(Unstuffed) = q + Len(input)
           /\ DoneTo(r) /\ Len(Unstuffed) > 0
           /\ \/ length = 0 /\ expected = 0 /\ From(k) = r
              \/ /\ length > 0 /\ Open(k, r)
                 /\ \A m \in DOMAIN Eit : From(m) < r \/ End <= From(m)
<1>1. /\ Here \in Nat /\ End \in Nat /\ End <= Len(Cycle) /\ Len(Cycle) \in Nat
      /\ Here <= q /\ q <= End
  BY HereIs DEF Reads
<1>2. /\ input \in Seq(Cells) /\ Len(input) \in Nat /\ DOMAIN input = 1..Len(input)
      /\ q + Len(input) <= End
      /\ \A i \in 1..Len(input) : input[i] = Cycle[q + i]
  BY DEF Reads, Lies
<1>3. CASE length > 0
  <2>1. Unstuffed = input /\ input # <<>>
    BY <1>3 DEF Unstuffed
  <2>2. Len(input) > 0
    BY <2>1, <1>2
  <2>3. PICK k \in DOMAIN Eit : Open(k, q)
    BY <1>3 DEF Partly, Between
  <2>4. Lies(Unstuffed, q) /\ \A m \in DOMAIN Eit : From(m) < q \/ End <= From(m)
    BY <2>1, <1>3 DEF Reads
  <2> QED BY <2>1, <2>2, <2>3, <2>4, <1>3
<1>4. CASE ~(length > 0)
  <2>1. Between(q)
    <3> SUFFICES ASSUME NEW k \in DOMAIN Eit, Open(k, q) PROVE FALSE
      BY DEF Partly
    <3>1. From(k) \in Nat /\ From(k) < q /\ length = q - From(k)
      BY SectionsLie DEF Open
    <3> QED BY <3>1, <1>4
  <2> DEFINE kept == {j \in DOMAIN input : input[j] # Stuffing}
             l == CHOOSE j \in kept : \A m \in kept : j <= m
  <2>2. kept # {} /\ Unstuffed = SubSeq(input, l, Len(input))
    BY <1>4 DEF Unstuffed
  <2>3. l \in kept /\ \A m \in kept : l <= m
    <3>1. kept \in SUBSET Nat
      BY <1>2
    <3> HIDE DEF kept
    <3> QED BY <3>1, <2>2, LeastNatural
  <2>4. l \in 1..Len(input) /\ input[l] # Stuffing
    BY <2>3, <1>2
  <2>5. ASSUME NEW j \in 1..Len(input), j < l PROVE input[j] = Stuffing
    <3>1. l \in Nat /\ j \in Nat
      BY <2>4
    <3>2. ~(l <= j)
      BY <3>1, <2>5
    <3> QED BY <3>2, <2>3, <1>2
  <2> HIDE DEF l, kept
  <2>6. PICK a \in Nat, b \in Nat : l = a + 1 /\ a + b = Len(input) /\ 0 < b
    <3>1. l - 1 \in Nat /\ Len(input) - (l - 1) \in Nat /\ l = (l - 1) + 1
          /\ (l - 1) + (Len(input) - (l - 1)) = Len(input) /\ 0 < Len(input) - (l - 1)
      BY <2>4, <1>2
    <3> QED BY <3>1
  <2>7. /\ Unstuffed \in Seq(Cells) /\ Len(Unstuffed) = b
        /\ \A i \in 1..b : Unstuffed[i] = input[a + i]
    <3>1. Unstuffed = SubSeq(input, a + 1, a + b) /\ a + b <= Len(input)
      BY <2>2, <2>6, <1>2
    <3> QED BY <3>1, <2>6, <1>2, PartIs
  <2>8. PICK r \in Nat : r = q + a
    BY <2>6
  <2>9. q <= r /\ r + b = q + Len(input) /\ r < End /\ r + b <= End /\ r < Len(Cycle)
    <3>1. /\ r = q + a /\ a + b = Len(input) /\ 0 < b
          /\ Len(input) \in Nat /\ q + Len(input) <= End
          /\ End \in Nat /\ Len(Cycle) \in Nat /\ End <= Len(Cycle)
      BY <2>6, <2>8, <1>1, <1>2
    <3> QED BY <3>1
  <2>10. ASSUME NEW i \in 1..b PROVE Unstuffed[i] = Cycle[r + i]
    <3> DEFINE j == a + i
    <3>1. j \in 1..Len(input) /\ r + i = q + j
      BY <2>6, <2>8, <1>2
    <3> HIDE DEF j
    <3>2. input[j] = Cycle[r + i]
      BY <3>1, <1>2
    <3> QED BY <3>2, <2>7 DEF j
  <2>11. Lies(Unstuffed, r)
    <3>1. r + Len(Unstuffed) <= Len(Cycle)
      BY <2>7, <2>9, <1>1
    <3> QED BY <3>1, <2>7, <2>10 DEF Lies
  <2>12. Quiet(q, r)
    <3> SUFFICES ASSUME NEW j \in (q + 1)..r PROVE Cycle[j] = Stuffing
      BY DEF Quiet
    <3>1. PICK i \in Nat : j = q + i /\ i \in 1..Len(input) /\ i < l
      <4>1. j - q \in Nat /\ j = q + (j - q) /\ j - q \in 1..Len(input) /\ j - q < l
        BY <2>6, <2>8, <1>2
      <4> QED BY <4>1
    <3> QED BY <3>1, <2>5, <1>2
  <2>13. DoneTo(r)
    <3> SUFFICES ASSUME NEW k \in DOMAIN Eit, Here < To(k), To(k) <= r,
                        Covered(k) PROVE Done(k)
      BY DEF DoneTo
    <3>1. ~(q < To(k))
      BY <2>9, <2>12, <1>1, QuietEnds
    <3>2. To(k) <= q
      BY <3>1, SectionsLie
    <3> QED BY <3>2 DEF DoneTo
  <2>14. PICK k \in DOMAIN Eit : From(k) < r + 1 /\ r + 1 <= To(k)
    <3> DEFINE j == r + 1
    <3>1. j \in 1..Len(Cycle)
      BY <2>9, <1>1
    <3>2. Cycle[j] # Stuffing
      <4>1. j = q + l
        BY <2>6, <2>8
      <4>2. input[l] = Cycle[q + l]
        BY <2>4, <1>2
      <4> QED BY <4>1, <4>2, <2>4
    <3> HIDE DEF j
    <3>3. \E k \in DOMAIN Eit : From(k) < j /\ j <= To(k)
      BY <3>1, <3>2, SectionsLie
    <3> QED BY <3>3 DEF j
  <2>15. From(k) = r
    <3>1. Boundary(r)
      BY <2>1, <2>9, <2>12, <1>1, QuietBoundary DEF Between
    <3>2. ~(From(k) < r /\ r < To(k)) /\ From(k) \in Nat /\ To(k) \in Nat
      BY <3>1, SectionsLie DEF Boundary
    <3> QED BY <3>2, <2>14
  <2> QED BY <2>1, <2>7, <2>9, <2>11, <2>13, <2>15, <2>6 DEF Between
<1> QED BY <1>3, <1>4

(* Two parts of the cycle that follow each other.                          *)
LEMMA Grown ==
  ASSUME NEW p \in Nat, NEW old \in Seq(Cells), NEW new \in Seq(Cells),
         \A i \in 1..Len(old) : old[i] = Cycle[p + i],
         \A i \in 1..Len(new) : new[i] = Cycle[p + Len(old) + i]
  PROVE  /\ old \o new \in Seq(Cells) /\ Len(old \o new) = Len(old) + Len(new)
         /\ \A i \in 1..(Len(old) + Len(new)) : (old \o new)[i] = Cycle[p + i]
<1>1. /\ Len(old) \in Nat /\ Len(new) \in Nat
      /\ old \o new \in Seq(Cells) /\ Len(old \o new) = Len(old) + Len(new)
  OBVIOUS
<1>2. IsSeq(old) /\ IsSeq(new)
  BY SeqIsSeq DEF IsSeq
<1>3. ASSUME NEW i \in 1..(Len(old) + Len(new)) PROVE (old \o new)[i] = Cycle[p + i]
  <2>1. CASE i \in 1..Len(old)
    BY <2>1, <1>2, Concatenated
  <2>2. CASE i \notin 1..Len(old)
    <3>1. PICK j \in 1..Len(new) : i = Len(old) + j
      <4>1. i - Len(old) \in 1..Len(new) /\ i = Len(old) + (i - Len(old))
        BY <2>2, <1>1
      <4> QED BY <4>1
    <3>2. i \in (Len(old) + 1)..(Len(old) + Len(new)) /\ i - Len(old) = j
      BY <3>1, <1>1
    <3>3. (old \o new)[i] = new[j]
      BY <3>2, <1>2, Concatenated
    <3>4. p + Len(old) + j = p + i
      BY <3>1, <1>1
    <3> QED BY <3>3, <3>4
  <2> QED BY <2>1, <2>2
<1> QED BY <1>1, <1>3

(* In a packet that goes on with section k no other section begins before  *)
(* its end, so what does not fit into the assembler is stuffing.           *)
LEMMA Dropped ==
  ASSUME Placement, Behind, NEW k \in DOMAIN Eit, NEW r \in Nat, Open(k, r),
         \A m \in DOMAIN Eit : From(m) < r \/ End <= From(m),
         NEW p \in Nat, To(k) <= p
  PROVE  Quiet(p, End)
<1> SUFFICES ASSUME NEW j \in (p + 1)..End, Cycle[j] # Stuffing PROVE FALSE
  BY DEF Quiet
<1>1. End \in Nat /\ End <= Len(Cycle) /\ Len(Cycle) \in Nat
  BY HereIs
<1>2. j \in 1..Len(Cycle) /\ p < j /\ j <= End
  BY <1>1
<1>3. PICK m \in DOMAIN Eit : From(m) < j /\ j <= To(m)
  BY <1>2, SectionsLie
<1>4. /\ From(k) \in Nat /\ To(k) \in Nat /\ From(k) < To(k) /\ From(m) \in Nat
      /\ To(m) \in Nat
      /\ r < To(k)
  BY SectionsLie DEF Open
<1>5. m # k /\ ~(To(m) <= From(k))
  BY <1>2, <1>3, <1>4
<1>6. To(k) <= From(m)
  BY <1>5, Apart
<1>7. From(m) < End
  BY <1>1, <1>2, <1>3, <1>4
<1>8. From(m) < r
  BY <1>1, <1>4, <1>7
<1> QED BY <1>4, <1>6, <1>8

(* A part of a section is appended; the section is complete, or goes on in *)
(* the next packet.                                                        *)
LEMMA StepAppends == ASSUME Following, Appends PROVE Following'
<1> DEFINE u == Unstuffed
           amount == IF Len(u) < Full - length THEN Len(u) ELSE Full - length
           grown == SubSeq(data, 1, length) \o SubSeq(u, 1, amount)
           sum == length + amount
<1>1. /\ Placement /\ Behind /\ Appending /\ UNCHANGED <<cursor, unbroken, after, sent>>
      /\ stage = "append" /\ u # <<>> /\ input' = <<>> /\ data' = grown
      /\ \E size \in (IF expected = 0 THEN Length(grown[1]) ELSE {expected}) :
           \/ /\ size <= sum
              /\ stage' = "measure" /\ section' = SubSeq(grown, 1, size)
              /\ extra' = sum - size
              /\ length' = sum /\ expected' = size
           \/ /\ size > sum /\ stage' = "append"
              /\ length' = (IF sum = Full THEN 0 ELSE sum)
              /\ expected' = (IF sum = Full THEN 0 ELSE size)
  BY DEF Following, Appends, air
<1>2. Placement' /\ Behind' /\ Idling'
  <2>1. stage' \in {"append", "measure"}
    BY <1>1
  <2> QED BY <2>1, <1>1, Proceeds
<1>3. ASSUME Synced'
      PROVE  \/ stage' = "measure" /\ \E k \in DOMAIN Eit : Whole(k)'
             \/ stage' = "append" /\ \E q \in Nat : (Reads(q) /\ Partly(q) /\ DoneTo(q))'
  <2>1. /\ Here' = Here /\ End' = End /\ Synced' = Synced
        /\ \A k \in DOMAIN Eit : Covered(k)' = Covered(k)
    <3>1. stage # "idle" /\ stage' # "idle"
      BY <1>1
    <3> QED BY <3>1, <1>1, Steady
  <2>2. PICK q \in Nat : Reads(q) /\ Partly(q) /\ DoneTo(q)
    BY <2>1, <1>1, <1>3 DEF Appending
  <2>3. PICK r \in Nat, k \in DOMAIN Eit :
          /\ q <= r /\ Lies(u, r) /\ r + Len(u) = q + Len(input)
          /\ DoneTo(r) /\ Len(u) > 0
          /\ \/ length = 0 /\ expected = 0 /\ From(k) = r
             \/ /\ length > 0 /\ Open(k, r)
                /\ \A m \in DOMAIN Eit : From(m) < r \/ End <= From(m)
    BY <2>2, <1>1, Unstuffs
  <2> DEFINE z == Eit[k].size
  <2>4. /\ z \in Nat /\ z > 0 /\ z <= Full /\ Full \in Nat /\ To(k) = From(k) + z
        /\ From(k) \in Nat
        /\ Len(u) \in Nat
    BY <2>3, EitIs, SizesAssumption, PacketAssumption, SectionsLie DEF Lies
  <2>5. /\ length \in Nat /\ length < z /\ r = From(k) + length /\ r < To(k)
        /\ expected = 0 \/ expected = z
        /\ expected = 0 => length = 0
    BY <2>3, <2>4 DEF Open
  <2>6. PICK copy \in Nat : /\ copy = amount /\ 0 < copy /\ copy <= Len(u)
                            /\ copy = Len(u) \/ length + copy = Full
                            /\ length + copy <= Full
    <3>1. /\ amount \in Nat /\ 0 < amount /\ amount <= Len(u)
          /\ amount = Len(u) \/ length + amount = Full
          /\ length + amount <= Full
      <4>1. Len(u) > 0
        BY <2>3
      <4> HIDE DEF u
      <4> QED BY <4>1, <2>4, <2>5
    <3> HIDE DEF amount
    <3> QED BY <3>1
  <2>7. PICK n \in Nat : n = length + copy /\ n = sum
    BY <2>5, <2>6
  <2>8. /\ grown \in Seq(Cells) /\ Len(grown) = n
        /\ \A i \in 1..n : grown[i] = Cycle[From(k) + i]
    <3> DEFINE old == SubSeq(data, 1, length)  new == SubSeq(u, 1, copy)
    <3>1. grown = old \o new
      BY <2>6
    <3>2. /\ old \in Seq(Cells) /\ Len(old) = length
          /\ \A i \in 1..length : old[i] = Cycle[From(k) + i]
      <4>1. CASE length = 0
        <5>1. SubSeq(data, 1, 0) \in Seq(Cells) /\ Len(SubSeq(data, 1, 0)) = 0
          OBVIOUS
        <5> QED BY <5>1, <4>1
      <4>2. CASE length > 0
        <5>1. /\ data \in Seq(Cells) /\ length <= Len(data)
              /\ \A i \in 1..length : data[i] = Cycle[From(k) + i]
          BY <4>2, <2>3 DEF Open, Held
        <5>2. /\ SubSeq(data, 1, length) \in Seq(Cells)
              /\ Len(SubSeq(data, 1, length)) = length
              /\ \A i \in 1..length : SubSeq(data, 1, length)[i] = data[i]
          BY <5>1, <2>5, FrontIs
        <5> QED BY <5>1, <5>2
      <4> QED BY <4>1, <4>2, <2>5
    <3> HIDE DEF u
    <3>3. /\ new \in Seq(Cells) /\ Len(new) = copy
          /\ \A i \in 1..copy : new[i] = Cycle[r + i]
      <4>1. u \in Seq(Cells) /\ \A i \in 1..Len(u) : u[i] = Cycle[r + i]
        BY <2>3 DEF Lies
      <4>2. /\ SubSeq(u, 1, copy) \in Seq(Cells) /\ Len(SubSeq(u, 1, copy)) = copy
            /\ \A i \in 1..copy : SubSeq(u, 1, copy)[i] = u[i]
        BY <4>1, <2>6, FrontIs
      <4>3. \A i \in 1..copy : i \in 1..Len(u)
        BY <2>4, <2>6
      <4> QED BY <4>1, <4>2, <4>3
    <3> HIDE DEF old, new, amount, grown
    <3>4. \A i \in 1..Len(old) : old[i] = Cycle[From(k) + i]
      BY <3>2
    <3>5. \A i \in 1..Len(new) : new[i] = Cycle[From(k) + Len(old) + i]
      BY <3>2, <3>3, <2>5
    <3>6. /\ old \o new \in Seq(Cells) /\ Len(old \o new) = Len(old) + Len(new)
          /\ \A i \in 1..(Len(old) + Len(new)) : (old \o new)[i] = Cycle[From(k) + i]
      <4>1. From(k) \in Nat
        BY <2>4
      <4>2. old \in Seq(Cells) /\ new \in Seq(Cells)
        BY <3>2, <3>3
      <4> QED BY <4>1, <4>2, <3>4, <3>5, Grown
    <3> QED BY <3>1, <3>2, <3>3, <3>6, <2>7
  <2> HIDE DEF u, amount, grown, sum
  <2>9. \A i \in 1..z : From(k) + i \in 1..Len(Cycle) /\ Cycle[From(k) + i] = CellOf(k, i)
    <3> SUFFICES ASSUME NEW i \in 1..z
                 PROVE  /\ From(k) + i \in 1..Len(Cycle)
                        /\ Cycle[From(k) + i] = CellOf(k, i)
      OBVIOUS
    <3> DEFINE j == From(k) + i
    <3>1. j \in 1..Len(Cycle) /\ From(k) < j /\ j <= To(k) /\ j - From(k) = i
      BY <2>4, SectionsLie
    <3> HIDE DEF j
    <3>2. Cycle[j] = CellOf(k, j - From(k))
      BY <3>1, SectionsLie
    <3> QED BY <3>1, <3>2 DEF j
  <2>10. \/ /\ z <= n
            /\ stage' = "measure" /\ section' = SubSeq(grown, 1, z) /\ extra' = n - z
            /\ length' = n /\ expected' = z
         \/ /\ z > n /\ stage' = "append" /\ length' = n /\ expected' = z
    <3>1. PICK size \in (IF expected = 0 THEN Length(grown[1]) ELSE {expected}) :
           \/ /\ size <= sum
              /\ stage' = "measure" /\ section' = SubSeq(grown, 1, size)
              /\ extra' = sum - size
              /\ length' = sum /\ expected' = size
           \/ /\ size > sum /\ stage' = "append"
              /\ length' = (IF sum = Full THEN 0 ELSE sum)
              /\ expected' = (IF sum = Full THEN 0 ELSE size)
      BY <1>1
    <3>2. size = z
      <4>1. CASE expected = 0
        <5>1. 1 \in 1..n /\ 1 \in 1..z
          BY <2>4, <2>5, <2>6, <2>7
        <5>2. grown[1] = CellOf(k, 1)
          BY <5>1, <2>8, <2>9
        <5>3. Begins(grown[1]) /\ grown[1].of = k
          BY <5>2, EitIs DEF Begins, CellOf
        <5> QED BY <5>3, <4>1, <3>1 DEF Length
      <4>2. CASE expected # 0
        BY <4>2, <3>1, <2>5
      <4> QED BY <4>1, <4>2
    <3>3. size > sum => sum # Full
      BY <3>2, <2>4, <2>7
    <3> QED BY <3>1, <3>2, <3>3, <2>7
  <2>11. /\ End \in Nat /\ Here \in Nat /\ Room \in Nat /\ Len(Cycle) \in Nat
         /\ End <= Len(Cycle)
         /\ End <= Here + Room /\ Room <= Full /\ Here <= q
         /\ q + Len(input) <= End /\ Quiet(q + Len(input), End)
    BY <1>1, <2>2, HereIs, AirAssumption DEF Reads
  <2>12. Here <= r /\ r + Len(u) <= End /\ Quiet(r + Len(u), End) /\ Len(u) <= Room
    BY <2>3, <2>4, <2>11
  <2>13. From(k) + n <= End /\ r < From(k) + n
    <3>1. From(k) + n = r + copy
      BY <2>4, <2>5, <2>7
    <3>2. r + copy <= End /\ r < r + copy
      BY <2>4, <2>6, <2>11, <2>12
    <3> QED BY <3>1, <3>2
  <2>14. copy = Len(u) => From(k) + n = r + Len(u)
    BY <2>4, <2>5, <2>7
  <2>15. CASE /\ z <= n
              /\ stage' = "measure" /\ section' = SubSeq(grown, 1, z) /\ extra' = n - z
              /\ length' = n /\ expected' = z
    <3>1. section' = CellsOf(Eit[k], k)
      <4>1. SubSeq(grown, 1, z) \in Seq(Cells) /\ Len(SubSeq(grown, 1, z)) = z
            /\ \A i \in 1..z : SubSeq(grown, 1, z)[i] = grown[i]
        BY <2>4, <2>8, <2>15, FrontIs
      <4>2. \A i \in 1..z : i \in 1..n
        BY <2>4, <2>15
      <4>3. \A i \in 1..z : SubSeq(grown, 1, z)[i] = CellOf(k, i)
        BY <4>1, <4>2, <2>8, <2>9
      <4>4. SubSeq(grown, 1, z) = [i \in 1..z |-> CellOf(k, i)]
        BY <4>1, <4>3, <2>4
      <4> QED BY <4>4, <2>15 DEF CellsOf, CellOf
    <3>2. ASSUME NEW i \in 1..extra' PROVE data'[expected' + i] = Cycle[To(k) + i]
      <4> DEFINE j == z + i
      <4>1. j \in 1..n /\ From(k) + j = To(k) + i
        <5>1. i \in Nat /\ 1 <= i /\ i <= n - z
          BY <2>4, <2>15
        <5>2. j \in 1..n
          BY <5>1, <2>4
        <5>3. From(k) + j = To(k) + i
          BY <5>1, <2>4
        <5> QED BY <5>2, <5>3
      <4> HIDE DEF j
      <4>2. grown[j] = Cycle[To(k) + i]
        BY <4>1, <2>8
      <4> QED BY <4>2, <2>15, <1>1 DEF j
    <3>3. Quiet(From(k) + n, End)
      <4>1. CASE copy = Len(u)
        BY <4>1, <2>12, <2>14
      <4>2. CASE copy # Len(u)
        <5>1. length + copy = Full
          BY <4>2, <2>6
        <5>2. length # 0
          BY <4>2, <5>1, <2>4, <2>5, <2>6, <2>11, <2>12
        <5>3. From(k) + n \in Nat /\ To(k) <= From(k) + n
          BY <2>4, <2>15
        <5> QED BY <5>2, <5>3, <2>3, <1>1, Dropped
      <4> QED BY <4>1, <4>2
    <3>4. /\ extra' \in Nat /\ expected' + extra' = n /\ To(k) + extra' = From(k) + n
          /\ data' \in Seq(Cells) /\ Len(data') = n
      BY <2>4, <2>8, <2>15, <1>1
    <3>5. Here < To(k)
      <4>1. r \in Nat /\ Here <= r /\ r < To(k) /\ To(k) \in Nat
        BY <2>4, <2>5, <2>12
      <4> QED BY <4>1, <2>11
    <3>6. DoneTo(From(k))'
      <4>1. \A m \in DOMAIN Eit : To(m) \in Nat
        BY SectionsLie
      <4>2. From(k) <= r
        BY <2>4, <2>5
      <4>3. \A m \in DOMAIN Eit : To(m) <= From(k) => To(m) <= r
        BY <4>1, <4>2, <2>4
      <4> QED BY <4>3, <2>1, <2>3, <1>1 DEF DoneTo, Done
    <3>7. Quiet(To(k) + extra, End)'
      BY <3>3, <3>4, <2>1 DEF Quiet
    <3>8. expected' + extra' <= Len(data') /\ To(k) + extra' <= End'
      BY <3>4, <2>1, <2>13
    <3>9. ~Sending' /\ stage' # "tell"
      BY <2>15 DEF Sending
    <3>10. length' = expected' + extra' /\ section' = SubSeq(data', 1, expected')
      BY <3>4, <2>15, <1>1
    <3>11. Whole(k)'
      BY <3>1, <3>2, <3>4, <3>5, <3>6, <3>7, <3>8, <3>9, <3>10, <2>1, <2>15 DEF Whole
    <3> QED BY <3>11, <2>15
  <2>16. CASE z > n /\ stage' = "append" /\ length' = n /\ expected' = z
    <3>1. copy = Len(u)
      BY <2>16, <2>4, <2>6, <2>7
    <3>2. PICK p \in Nat : p = From(k) + n
      BY <2>4
    <3>3. p = r + Len(u) /\ p <= End /\ r < p /\ From(k) < p /\ p < To(k)
      <4>1. p = r + Len(u) /\ p <= End /\ r < p
        BY <3>1, <3>2, <2>13, <2>14
      <4>2. From(k) <= r
        BY <2>4, <2>5
      <4>3. p < To(k)
        BY <3>2, <2>4, <2>16
      <4> QED BY <4>1, <4>2, <4>3, <2>4
    <3>4. Reads(p)'
      <4>1. Lies(input, p)'
        <5>1. input' = <<>> /\ Len(<<>>) = 0 /\ <<>> \in Seq(Cells)
          BY <1>1
        <5> QED BY <5>1, <3>3, <2>11 DEF Lies
      <4>2. Len(input') = 0
        BY <1>1
      <4>3. Quiet(p + Len(input), End)'
        BY <4>2, <3>1, <3>2, <3>3, <2>1, <2>12 DEF Quiet
      <4>4. p \in Here'..End' /\ p + Len(input') <= End'
        BY <4>2, <3>3, <2>1, <2>11, <2>12
      <4> QED BY <4>1, <4>3, <4>4, <1>1 DEF Reads
    <3>5. Partly(p)'
      <4>1. Held(k, length)'
        BY <2>8, <2>16, <1>1 DEF Held
      <4>2. length' = p - From(k)
        BY <3>2, <2>4, <2>16
      <4> QED BY <4>1, <4>2, <3>3, <2>16 DEF Partly, Open
    <3>6. DoneTo(p)'
      <4> SUFFICES ASSUME NEW m \in DOMAIN Eit, Here < To(m), To(m) <= p,
                          Covered(m) PROVE Done(m)
        BY <2>1, <1>1 DEF DoneTo, Done
      <4>1. To(m) \in Nat /\ To(k) \in Nat
        BY SectionsLie
      <4>2. m # k /\ To(m) <= To(k)
        BY <4>1, <3>3
      <4>3. To(m) <= From(k)
        BY <4>2, EndsBefore
      <4>4. To(m) <= r
        BY <4>1, <4>3, <2>4, <2>5
      <4> QED BY <4>4, <2>3 DEF DoneTo
    <3> QED BY <3>4, <3>5, <3>6, <2>16
  <2> QED BY <2>10, <2>15, <2>16
<1>4. Appending' /\ Handling'
  BY <1>3 DEF Appending, Handling
<1> QED BY <1>2, <1>4 DEF Following

-----------------------------------------------------------------------------
LEMMA StepFollowing ==
  ASSUME Following, Noted, Reheard, [Next]_vars
  PROVE  Following' /\ Noted' /\ Reheard'
<1>1. CASE Receives
  <2>1. Following'
    BY <1>1, StepReceives
  <2> QED BY <2>1, <1>1 DEF Receives, Idle, Takes, Noted, Told, Reheard, table
<1>2. CASE Appends
  <2>1. Following'
    BY <1>2, StepAppends
  <2>2. /\ UNCHANGED <<seen, heard, sent>> /\ stage = "append"
        /\ stage' \in {"append", "measure"}
    BY <1>2 DEF Appends, table
  <2> QED BY <2>1, <2>2 DEF Noted, Told, Reheard
<1>3. CASE Resets
  <2>1. Following'
    BY <1>3, StepResets
  <2> QED BY <2>1, <1>3 DEF Resets, Noted, Told, Reheard, table
<1>4. CASE Ends
  <2>1. Following' /\ Reheard'
    BY <1>4, StepEnds
  <2> QED BY <2>1, <1>4 DEF Ends, Noted, Told, table
<1>5. CASE Checks
  <2>1. Following'
    BY <1>5, StepChecks
  <2>2. UNCHANGED <<seen, heard, sent>> /\ stage = "check" /\ stage' # "tell"
    BY <1>5 DEF Checks, table
  <2> QED BY <2>1, <2>2 DEF Noted, Told, Reheard
<1>6. CASE Stores
  <2>1. Following'
    BY <1>6, StepStores
  <2>2. UNCHANGED <<seen, heard, sent>> /\ stage = "store" /\ stage' # "tell"
    BY <1>6 DEF Stores, table
  <2> QED BY <2>1, <2>2 DEF Noted, Told, Reheard
<1>7. CASE Skips
  <2>1. Following'
    BY <1>7, StepSkips
  <2> QED BY <2>1, <1>7 DEF Skips, Noted, Told, Reheard, table
<1>8. CASE Notes
  <2>1. Following' /\ Noted'
    BY <1>8, StepNotes
  <2> QED BY <2>1, <1>8 DEF Notes, Reheard
<1>9. CASE Sends
  <2>1. Following' /\ Noted'
    BY <1>9, StepSends
  <2> QED BY <2>1, <1>9 DEF Sends, Reheard
<1>10. CASE GoesOn
  <2>1. Following'
    BY <1>10, StepGoesOn
  <2> QED BY <2>1, <1>10 DEF GoesOn, Noted, Told, Reheard, table
<1>11. CASE Loses \/ ResetsLength \/ ResetsExpected
  <2>1. Following'
    BY <1>11, StepApart
  <2>2. UNCHANGED <<seen, heard, sent, stage, section, left>>
    BY <1>11 DEF Loses, ResetsLength, ResetsExpected, table, work
  <2> QED BY <2>1, <2>2 DEF Noted, Told, Reheard, Header
<1>12. CASE Forgets
  <2>1. Following'
    BY <1>12, StepApart
  <2> QED BY <2>1, <1>12 DEF Forgets, SeenCleared, Noted, Reheard
<1>14. CASE Measures
  <2>1. Following'
    BY <1>14, StepMeasures
  <2>2. UNCHANGED <<seen, heard, sent>> /\ stage = "measure" /\ stage' = "check"
    BY <1>14 DEF Measures, table
  <2> QED BY <2>1, <2>2 DEF Noted, Told, Reheard
<1>15. CASE Overruns
  <2>1. /\ UNCHANGED <<seen, heard, sent, cursor, after>>
        /\ stage = "send" /\ stage' = "overrun"
    BY <1>15 DEF Overruns, table, air
  <2>2. Placement' /\ Behind' /\ Idling' /\ Appending' /\ Handling'
    <3>1. Placement /\ Behind /\ unbroken' = unbroken
      BY <1>15 DEF Following, Overruns, air
    <3> QED BY <2>1, <3>1 DEF Placement, Behind, Idling, Appending, Handling
  <2> QED BY <2>1, <2>2 DEF Following, Noted, Told, Reheard
<1>13. CASE (\E s \in Services : SetsChannel(s)) \/ ResetsCount \/ UNCHANGED vars
  <2>1. UNCHANGED <<data, length, expected, seen, stage, input, after, section, extra, left,
                    cursor, unbroken, heard, sent>>
    BY <1>13 DEF SetsChannel, ResetsCount, vars, assembler, table, work, air
  <2>2. Here' = Here /\ End' = End /\ \A n \in 1..Packets : InRow(n)' = InRow(n)
    BY <2>1 DEF Here, End, InRow
  <2>3. Synced' = Synced /\ \A k \in DOMAIN Eit : Covered(k)' = Covered(k)
    BY <2>1, <2>2 DEF Synced, Covered
  <2>4. Placement' /\ Behind'
    BY <2>1 DEF Following, Placement, Behind
  <2>5. \A q \in Nat : DoneTo(q) => DoneTo(q)'
    BY <2>1, <2>2, <2>3 DEF DoneTo, Done
  <2>6. Idling'
    BY <2>1, <2>2, <2>3 DEF Following, Idling, Partly, Between, Open, Held, Boundary
  <2>7. Appending'
    BY <2>1, <2>2, <2>3, <2>5
       DEF Following, Appending, Reads, Lies, Quiet, Partly, Between, Open, Held, Boundary
  <2>8. \A k \in DOMAIN Eit : Whole(k) => Whole(k)'
    BY <2>1, <2>2, <2>3, <2>5, SectionsLie DEF Whole, Quiet, Left, Sending
  <2>9. Handling'
    BY <2>1, <2>3, <2>8 DEF Following, Handling
  <2> QED BY <2>1, <2>4, <2>6, <2>7, <2>9 DEF Following, Noted, Told, Reheard, Header
<1> QED BY <1>1, <1>2, <1>3, <1>4, <1>5, <1>6, <1>7, <1>8, <1>9, <1>10, <1>11, <1>12,
           <1>13, <1>14, <1>15 DEF Next

LEMMA FollowingStarts == ASSUME Init PROVE Following /\ Noted /\ Reheard
<1>1. Placement /\ Behind /\ Appending /\ Handling /\ Noted /\ Reheard
  BY DEF Init, Placement, Behind, Appending, Handling, Noted, Told, Reheard
<1>2. Idling
  <2>1. ASSUME NEW n \in 1..Packets PROVE ~InRow(n)
    <3>1. cursor \in Nat /\ n \in Nat /\ unbroken = 0 /\ stage = "idle"
      BY PacketsAre DEF Init
    <3> QED BY <3>1 DEF InRow
  <2> QED BY <2>1 DEF Idling, Synced
<1> QED BY <1>1, <1>2 DEF Following

(* "forgetting lets them be sent again on return": an event of a section   *)
(* that came in one piece since the table of those seen was cleared is     *)
(* sent when its last packet is done with, for any sections and packets,   *)
(* whatever set_channel resets meanwhile and however often the table of    *)
(* the events seen starts over.                                            *)
THEOREM ReheardHolds == Spec => []Reheard
<1>1. Init => Following /\ Noted /\ Reheard
  BY FollowingStarts
<1>2. (Following /\ Noted /\ Reheard) /\ [Next]_vars => (Following /\ Noted /\ Reheard)'
  BY StepFollowing
<1> QED BY <1>1, <1>2, PTL DEF Spec
-----------------------------------------------------------------------------
(* A section about to be stored was of the present table, and its number   *)
(* 0 or 1, at the first look.                                              *)
ToStore ==
  stage = "store" =>
    Header(section).table = "present" /\ Header(section).number <= 1

LEMMA StepToStore == ASSUME ToStore, [Next]_vars PROVE ToStore'
<1>1. CASE UNCHANGED vars
  BY <1>1 DEF vars, work, ToStore, Header
<1>2. ASSUME Receives PROVE ToStore'
  BY <1>2 DEF Receives, Takes, ToStore
<1>3. ASSUME Loses PROVE ToStore'
  BY <1>3 DEF Loses, work, ToStore, Header
<1>4. ASSUME Appends PROVE ToStore'
  BY <1>4 DEF Appends, ToStore
<1>5. ASSUME \/ Measures \/ Resets \/ Ends \/ Skips \/ Notes \/ Sends \/ GoesOn
             \/ Overruns
      PROVE  ToStore'
  BY <1>5 DEF Measures, Resets, Ends, Skips, Notes, Sends, GoesOn, Overruns, ToStore
<1>6. ASSUME Checks PROVE ToStore'
  BY <1>6 DEF Checks, Watched, ToStore, Header
<1>7. ASSUME Stores PROVE ToStore'
  BY <1>7 DEF Stores, ToStore
<1>8. ASSUME \/ \E s \in Services : SetsChannel(s)
             \/ ResetsLength \/ ResetsExpected \/ Forgets \/ ResetsCount
      PROVE  ToStore'
  BY <1>8 DEF SetsChannel, ResetsLength, ResetsExpected, Forgets, ResetsCount, work,
              ToStore, Header
<1> QED BY <1>1, <1>2, <1>3, <1>4, <1>5, <1>6, <1>7, <1>8 DEF Next

(* Of a section put together in step, each event is of its header's.       *)
LEMMA InStepIsOfSection ==
  ASSUME Following, stage = "store", NEW i \in DOMAIN EventsIn(section)
  PROVE  Shown(section, i).whole => OfSection(Shown(section, i))
<1> SUFFICES ASSUME Synced PROVE OfSection(Shown(section, i))
  BY DEF Shown
<1>1. PICK k \in DOMAIN Eit : Whole(k)
  BY DEF Following, Handling
<1>2. /\ section = CellsOf(Eit[k], k) /\ Header(section) = Eit[k]
      /\ EventsIn(section) = Eit[k].events
  BY <1>1, EventsAre DEF Whole
<1>3. /\ Eit[k].size \in Nat /\ Eit[k].size > 0
      /\ Eit[k].events \in Seq(Range(Eit[k].events))
      /\ Len(Eit[k].events) = Eit[k].size - 1
  BY EitIs, AirAssumption
<1>4. i \in 1..(Eit[k].size - 1)
  BY <1>2, <1>3
<1>5. i + 1 \in 1..Eit[k].size
  BY <1>3, <1>4
<1>6. section[i + 1].of = k
  BY <1>2, <1>5 DEF CellsOf
<1> QED BY <1>2, <1>6 DEF Shown, OfSection

(* What is stored is of the service watched at the second look; the event  *)
(* on now comes from section 0.                                            *)
LEMMA StoredIsOfService ==
  ASSUME Following, ToStore, NowOfService, Stores
  PROVE  NowOfService'
<1> DEFINE s == Header(section)
           events == EventsIn(section)
           first == FirstNow(s, events)
           coming == FirstToCome(s, events)
<1>1. svc' = svc /\ stage = "store"
  BY DEF Stores
<1>2. first # {} => s.number = 0
  BY DEF FirstNow, OnNow
<1>3. s.table = "present" /\ s.number <= 1
  BY <1>1 DEF ToStore
<1>4. ASSUME NEW i \in DOMAIN events
      PROVE  /\ Shown(section, i).svc = s.svc /\ Shown(section, i).table = s.table
             /\ Shown(section, i).number = s.number
             /\ Shown(section, i).whole => OfSection(Shown(section, i))
  <2>1. Shown(section, i).whole => OfSection(Shown(section, i))
    BY <1>1, InStepIsOfSection
  <2>2. /\ Shown(section, i).svc = s.svc /\ Shown(section, i).table = s.table
        /\ Shown(section, i).number = s.number
    BY DEF Shown
  <2> QED BY <2>1, <2>2
<1>5. ASSUME now' # None
      PROVE  /\ now'.svc = svc /\ now'.table = "present" /\ now'.number = 0
             /\ now'.whole => OfSection(now')
  <2>1. CASE StillWatched(s) /\ first # {}
    <3>1. PICK i \in first : now' = Shown(section, i)
      BY <2>1 DEF Stores
    <3>2. i \in DOMAIN events
      BY DEF FirstNow
    <3> QED BY <3>1, <3>2, <2>1, <1>2, <1>3, <1>4 DEF StillWatched
  <2>2. CASE ~(StillWatched(s) /\ first # {})
    <3>1. now' = now
      BY <2>2 DEF Stores
    <3> QED BY <3>1, <1>5 DEF NowOfService
  <2> QED BY <2>1, <2>2
<1>6. ASSUME next' # None
      PROVE  /\ next'.svc = svc /\ next'.table = "present" /\ next'.number <= 1
             /\ next'.whole => OfSection(next')
  <2>1. CASE StillWatched(s) /\ coming # {}
    <3>1. PICK i \in coming : next' = Shown(section, i)
      BY <2>1 DEF Stores
    <3>2. i \in DOMAIN events
      BY DEF FirstToCome, ToCome
    <3> QED BY <3>1, <3>2, <2>1, <1>3, <1>4 DEF StillWatched
  <2>2. CASE ~(StillWatched(s) /\ coming # {})
    <3>1. next' = next
      BY <2>2 DEF Stores
    <3> QED BY <3>1, <1>6 DEF NowOfService
  <2> QED BY <2>1, <2>2
<1> HIDE DEF s, events, first, coming
<1> QED BY <1>1, <1>5, <1>6 DEF NowOfService, OfSection

(* A change of channel clears what is shown in the same critical section;  *)
(* nothing else but Stores writes it.                                      *)
LEMMA StepNow == ASSUME Following, ToStore, NowOfService, [Next]_vars PROVE NowOfService'
<1>1. ASSUME NEW s \in Services, SetsChannel(s) PROVE NowOfService'
  BY <1>1 DEF SetsChannel, NowOfService
<1>2. ASSUME Stores PROVE NowOfService'
  BY <1>2, StoredIsOfService
<1>3. ASSUME UNCHANGED watched PROVE NowOfService'
  BY <1>3 DEF watched, NowOfService, OfSection
<1>4. ASSUME \/ Receives \/ Loses \/ Appends \/ Measures \/ Resets \/ Ends \/ Checks
             \/ Skips \/ Notes \/ Sends \/ GoesOn \/ Overruns
             \/ ResetsLength \/ ResetsExpected \/ Forgets \/ ResetsCount \/ UNCHANGED vars
      PROVE  UNCHANGED watched
  BY <1>4 DEF Receives, Loses, Appends, Measures, Resets, Ends, Checks, Skips, Notes,
              Sends, GoesOn, Overruns, ResetsLength, ResetsExpected, Forgets,
              ResetsCount, vars
<1> QED BY <1>1, <1>2, <1>3, <1>4 DEF Next

(* What is shown as on now comes behind a header of section 0 of the       *)
(* service that is watched, and the next title behind one of that service, *)
(* however set_channel falls between the two looks; and each is an event   *)
(* of that very section unless a packet was lost or set_channel fell into  *)
(* the section, since nothing checks what is behind the header.            *)
THEOREM NowOfServiceHolds == Spec => []NowOfService
<1> DEFINE NowInv == Following /\ Noted /\ Reheard /\ ToStore /\ NowOfService
<1>1. Init => NowInv
  BY FollowingStarts DEF Init, ToStore, NowOfService
<1>2. NowInv /\ [Next]_vars => NowInv'
  BY StepFollowing, StepToStore, StepNow
<1>3. NowInv => NowOfService
  OBVIOUS
<1> QED BY <1>1, <1>2, <1>3, PTL DEF Spec

-----------------------------------------------------------------------------
(* The scan of the channels, beside the guide: ScanTables over its own     *)
(* pids and tables.                                                        *)

(* FoldLeft takes the last element off a set of places until none is left. *)
LEMMA LastPlace ==
  ASSUME NEW k \in Nat, k > 0
  PROVE  /\ Max(1..k) = k /\ (1..k) \ {k} = 1..(k - 1) /\ 1..k # {}
         /\ \A S \in SUBSET (1..k) : k \in S => Max(S) = k
<1>1. ASSUME NEW S \in SUBSET (1..k), k \in S PROVE Max(S) = k
  <2>1. \A y \in S : k >= y
    BY <1>1
  <2>2. ASSUME NEW x \in S, \A y \in S : x >= y PROVE x = k
    <3>1. x >= k /\ k >= x /\ x \in Nat
      BY <1>1, <2>1, <2>2
    <3> QED BY <3>1
  <2> QED BY <1>1, <2>1, <2>2 DEF Max
<1>2. (1..k) \ {k} = 1..(k - 1)
  OBVIOUS
<1>3. k \in 1..k /\ 1..k \in SUBSET (1..k)
  OBVIOUS
<1>4. Max(1..k) = k /\ 1..k # {}
  BY <1>1, <1>3
<1> QED BY <1>1, <1>2, <1>4

(* There is such a fold of every step that stays within V ...              *)
IsFold(h, V, n, base, step) ==
  /\ h \in [SUBSET (1..n) -> V]
  /\ \A S \in SUBSET (1..n) :
       h[S] = IF S = {} THEN base ELSE step[<<Max(S), h[S \ {Max(S)}]>>]

LEMMA FoldExists ==
  ASSUME NEW V, NEW n \in Nat, NEW base \in V, NEW step \in [(1..n) \X V -> V]
  PROVE  \E h : IsFold(h, V, n, base, step)
<1> DEFINE Value(h, S) == IF S = {} THEN base ELSE step[<<Max(S), h[S \ {Max(S)}]>>]
           Is(h, k) == /\ h \in [SUBSET (1..k) -> V]
                       /\ \A S \in SUBSET (1..k) : h[S] = Value(h, S)
           Exists == {k \in 1..(n + 1) : \E h : Is(h, k - 1)}
<1>1. Is([S \in SUBSET (1..0) |-> base], 0)
  <2>1. 1..0 = {}
    OBVIOUS
  <2> QED BY <2>1
<1>2. ASSUME NEW k \in 0..n, k < n, NEW h, Is(h, k) PROVE \E g : Is(g, k + 1)
  <2> DEFINE g == [S \in SUBSET (1..(k + 1)) |->
                     IF k + 1 \in S THEN step[<<k + 1, h[S \ {k + 1}]>>] ELSE h[S]]
  <2>1. k + 1 \in 1..n /\ k \in Nat /\ k + 1 > 0 /\ 1..k \subseteq 1..(k + 1)
        /\ k + 1 \notin 1..k
    BY <1>2
  <2>2. ASSUME NEW S \in SUBSET (1..(k + 1)), k + 1 \notin S
        PROVE  S \in SUBSET (1..k) /\ g[S] = h[S]
    <3>1. ASSUME NEW i \in S PROVE i \in 1..k
      <4>1. i \in 1..(k + 1) /\ i # k + 1
        BY <2>2
      <4> QED BY <4>1, <2>1
    <3> QED BY <3>1, <2>2
  <2>3. ASSUME NEW S \in SUBSET (1..(k + 1)), k + 1 \in S
        PROVE  /\ S \ {k + 1} \in SUBSET (1..k) /\ S \ {k + 1} \in SUBSET (1..(k + 1))
               /\ k + 1 \notin S \ {k + 1} /\ g[S] = step[<<k + 1, h[S \ {k + 1}]>>]
               /\ Max(S) = k + 1
    <3>1. Max(S) = k + 1
      BY <2>1, <2>3, LastPlace
    <3>2. S \ {k + 1} \in SUBSET (1..(k + 1)) /\ k + 1 \notin S \ {k + 1}
      OBVIOUS
    <3>3. S \ {k + 1} \in SUBSET (1..k)
      <4> DEFINE T == S \ {k + 1}
      <4>1. T \in SUBSET (1..(k + 1)) /\ k + 1 \notin T
        BY <3>2
      <4> HIDE DEF T
      <4>2. T \in SUBSET (1..k)
        BY <4>1, <2>2
      <4> QED BY <4>2 DEF T
    <3> QED BY <3>1, <3>2, <3>3, <2>3
  <2>4. g \in [SUBSET (1..(k + 1)) -> V]
    <3>1. ASSUME NEW S \in SUBSET (1..(k + 1)) PROVE g[S] \in V
      <4>1. CASE k + 1 \in S
        BY <4>1, <2>3, <2>1, <1>2
      <4>2. CASE k + 1 \notin S
        <5>1. g[S] = h[S] /\ S \in SUBSET (1..k)
          BY <4>2, <2>2
        <5> HIDE DEF g
        <5> QED BY <5>1, <1>2
      <4> QED BY <4>1, <4>2
    <3>2. g = [S \in SUBSET (1..(k + 1)) |-> g[S]]
      OBVIOUS
    <3> HIDE DEF g
    <3> QED BY <3>1, <3>2
  <2>5. ASSUME NEW S \in SUBSET (1..(k + 1)) PROVE g[S] = Value(g, S)
    <3>1. CASE k + 1 \in S
      <4> DEFINE T == S \ {k + 1}
      <4>1. /\ T \in SUBSET (1..(k + 1)) /\ k + 1 \notin T
            /\ g[S] = step[<<k + 1, h[T]>>] /\ Max(S) = k + 1
        BY <3>1, <2>3
      <4>2. S # {} /\ Value(g, S) = step[<<Max(S), g[S \ {Max(S)}]>>]
        BY <3>1
      <4> HIDE DEF T, g
      <4>3. g[T] = h[T]
        BY <4>1, <2>2
      <4> QED BY <4>1, <4>2, <4>3 DEF T
    <3>2. CASE k + 1 \notin S
      <4>1. S \in SUBSET (1..k) /\ g[S] = h[S] /\ h[S] = Value(h, S)
        BY <3>2, <2>2, <1>2
      <4>2. ASSUME S # {} PROVE g[S \ {Max(S)}] = h[S \ {Max(S)}]
        <5> DEFINE T == S \ {Max(S)}
        <5>1. T \in SUBSET (1..(k + 1)) /\ k + 1 \notin T
          BY <3>2
        <5> HIDE DEF T, g
        <5>2. g[T] = h[T]
          BY <5>1, <2>2
        <5> QED BY <5>2 DEF T
      <4> HIDE DEF g
      <4> QED BY <4>1, <4>2
    <3> QED BY <3>1, <3>2
  <2> HIDE DEF g, Value
  <2> QED BY <2>4, <2>5
<1>3. ASSUME NEW k \in 1..(n + 1), k \in Exists, k < n + 1 PROVE k + 1 \in Exists
  <2>1. PICK h : Is(h, k - 1)
    BY <1>3
  <2>2. k - 1 \in 0..n /\ k - 1 < n /\ (k - 1) + 1 = k /\ (k + 1) - 1 = k
        /\ k + 1 \in 1..(n + 1)
    BY <1>3
  <2> HIDE DEF Is
  <2> DEFINE m == k - 1
  <2>3. m \in 0..n /\ m < n /\ Is(h, m) /\ m + 1 = k
    BY <2>1, <2>2
  <2> HIDE DEF m
  <2>4. \E g : Is(g, m + 1)
    BY <2>3, <1>2
  <2> QED BY <2>2, <2>3, <2>4
<1>4. 1 \in Exists
  <2> HIDE DEF Is
  <2>1. 1 \in 1..(n + 1) /\ 1 - 1 = 0
    OBVIOUS
  <2> QED BY <1>1, <2>1
<1>5. n + 1 \in Exists
  <2> HIDE DEF Exists
  <2>1. n + 1 \in Nat /\ n + 1 \in 1..(n + 1)
    OBVIOUS
  <2> QED BY <2>1, <1>3, <1>4, UpTo
<1>6. \E h : Is(h, n)
  <2> HIDE DEF Is
  <2>1. (n + 1) - 1 = n
    OBVIOUS
  <2> QED BY <1>5, <2>1
<1> QED BY <1>6 DEF IsFold

(* ... and its values at the first places form a chain.                    *)
IsChain(c, V, n, base, last, step) ==
  /\ c \in [0..n -> V] /\ c[0] = base /\ c[n] = last
  /\ \A k \in 1..n : c[k] = step[<<k, c[k - 1]>>]

LEMMA FoldChain ==
  ASSUME NEW V, NEW n \in Nat, NEW step \in [(1..n) \X V -> V], NEW h, h[{}] \in V,
         \A k \in 1..n : h[1..(k - 1)] \in V => h[1..k] = step[<<k, h[1..(k - 1)]>>]
  PROVE  \E c : IsChain(c, V, n, h[{}], h[1..n], step)
<1> DEFINE c == [k \in 0..n |-> h[1..k]]
           Typed == {k \in 1..(n + 1) : h[1..(k - 1)] \in V}
<1>1. 1..0 = {} /\ 1 - 1 = 0
  OBVIOUS
<1>2. 1 \in Typed
  BY <1>1
<1>3. ASSUME NEW k \in 1..(n + 1), k \in Typed, k < n + 1 PROVE k + 1 \in Typed
  <2>1. k \in 1..n /\ (k + 1) - 1 = k /\ k + 1 \in 1..(n + 1)
    BY <1>3
  <2>2. h[1..(k - 1)] \in V
    BY <1>3
  <2>3. h[1..k] \in V
    BY <2>1, <2>2
  <2> QED BY <2>1, <2>3
<1>4. 1..(n + 1) \subseteq Typed
  <2> HIDE DEF Typed
  <2>1. n + 1 \in Nat
    OBVIOUS
  <2> QED BY <2>1, <1>2, <1>3, UpTo
<1>5. ASSUME NEW k \in 0..n PROVE h[1..k] \in V
  <2>1. k + 1 \in 1..(n + 1) /\ (k + 1) - 1 = k
    OBVIOUS
  <2>2. k + 1 \in Typed
    BY <2>1, <1>4
  <2> QED BY <2>1, <2>2
<1>6. c \in [0..n -> V]
  BY <1>5
<1>7. c[0] = h[{}] /\ c[n] = h[1..n]
  BY <1>1
<1>8. ASSUME NEW k \in 1..n PROVE c[k] = step[<<k, c[k - 1]>>]
  <2>1. k \in 0..n /\ k - 1 \in 0..n
    OBVIOUS
  <2>2. h[1..(k - 1)] \in V
    BY <2>1, <1>5
  <2> QED BY <2>1, <2>2
<1> HIDE DEF c
<1> QED BY <1>6, <1>7, <1>8 DEF IsChain

LEMMA MaxOf ==
  ASSUME NEW n \in Nat, NEW S \in SUBSET (1..n), S # {}
  PROVE  Max(S) \in S
<1> DEFINE D == {n - y : y \in S}
<1>1. D # {} /\ D \in SUBSET Nat
  <2>1. PICK y : y \in S
    OBVIOUS
  <2>2. n - y \in D
    BY <2>1
  <2>3. ASSUME NEW m \in S PROVE n - m \in Nat
    <3>1. m \in 1..n
      OBVIOUS
    <3> QED BY <3>1
  <2> QED BY <2>2, <2>3
<1>2. PICK d \in D : \A e \in D : d <= e
  <2> HIDE DEF D
  <2> QED BY <1>1, LeastNatural
<1>3. PICK x \in S : d = n - x
  BY <1>2
<1>4. ASSUME NEW y \in S PROVE x >= y
  <2>1. n - y \in D
    OBVIOUS
  <2>2. n - x <= n - y
    BY <2>1, <1>2, <1>3
  <2>3. x \in Nat /\ y \in Nat
    OBVIOUS
  <2> QED BY <2>2, <2>3
<1> QED BY <1>4 DEF Max

ChainOfDescribed(c, V, n, f, seq) ==
  /\ c \in [0..n -> V] /\ c[0] = f
  /\ \A k \in 1..n : c[k] = Described(c[k - 1], seq[k])

LEMMA DescribedFolds ==
  ASSUME NEW V, NEW n \in Nat, NEW seq, DOMAIN seq = 1..n, NEW f \in V,
         \A v \in V : \A i \in 1..n : Described(v, seq[i]) \in V
  PROVE  /\ FoldLeft(Described, f, seq) \in V
         /\ \E c : /\ ChainOfDescribed(c, V, n, f, seq)
                   /\ c[n] = FoldLeft(Described, f, seq)
<1> DEFINE step == [x \in (1..n) \X V |-> Described(x[2], seq[x[1]])]
           Value(g, S) == IF S = {} THEN f
                          ELSE Described(g[S \ {Max(S)}], seq[Max(S)])
           P(g) == g = [S \in SUBSET (1..n) |-> Value(g, S)]
           h == CHOOSE g : P(g)
<1>1. /\ step \in [(1..n) \X V -> V]
      /\ \A k \in 1..n : \A v \in V : step[<<k, v>>] = Described(v, seq[k])
  <2>1. ASSUME NEW x \in (1..n) \X V PROVE x[1] \in 1..n /\ x[2] \in V
    OBVIOUS
  <2>2. ASSUME NEW x \in (1..n) \X V PROVE Described(x[2], seq[x[1]]) \in V
    BY <2>1
  <2>3. step \in [(1..n) \X V -> V]
    BY <2>2, Zenon
  <2>4. ASSUME NEW k \in 1..n, NEW v \in V PROVE step[<<k, v>>] = Described(v, seq[k])
    OBVIOUS
  <2> QED BY <2>3, <2>4
<1>2. FoldLeft(Described, f, seq) = h[1..n]
  BY DEF FoldLeft, MapThenFoldSet
<1> HIDE DEF step
<1>3. PICK g \in [SUBSET (1..n) -> V] : \A S \in SUBSET (1..n) :
        g[S] = IF S = {} THEN f ELSE step[<<Max(S), g[S \ {Max(S)}]>>]
  <2>1. step \in [(1..n) \X V -> V]
    BY <1>1
  <2>2. \E g : IsFold(g, V, n, f, step)
    BY <2>1, FoldExists
  <2> QED BY <2>2 DEF IsFold
<1>4. ASSUME NEW S \in SUBSET (1..n) PROVE g[S] = Value(g, S)
  <2>1. CASE S # {}
    <3>1. Max(S) \in 1..n /\ S \ {Max(S)} \in SUBSET (1..n)
      BY <2>1, MaxOf
    <3> QED BY <3>1, <2>1, <1>1, <1>3
  <2> QED BY <2>1, <1>3
<1>5. P(h)
  <2>1. g = [S \in SUBSET (1..n) |-> g[S]]
    BY <1>3
  <2> HIDE DEF Value
  <2>2. P(g)
    BY <1>4, <2>1
  <2> HIDE DEF P
  <2> QED BY <2>2
<1> HIDE DEF h
<1>6. h[{}] = f
  BY <1>5
<1>7. ASSUME NEW k \in 1..n,
             h[1..(k - 1)] \in V
      PROVE  h[1..k] = step[<<k, h[1..(k - 1)]>>]
  <2>1. k \in Nat /\ k > 0 /\ 1..k \in SUBSET (1..n)
    OBVIOUS
  <2>2. h[1..k] = Value(h, 1..k)
    BY <2>1, <1>5
  <2>3. /\ Max(1..k) = k /\ (1..k) \ {k} = 1..(k - 1) /\ 1..k # {}
    BY <2>1, LastPlace
  <2>4. Value(h, 1..k) = Described(h[1..(k - 1)], seq[k])
    BY <2>3
  <2> HIDE DEF Value
  <2> QED BY <2>2, <2>4, <1>1, <1>7
<1> HIDE DEF Value, P
<1>8. PICK c : IsChain(c, V, n, h[{}], h[1..n], step)
  <2>1. h[{}] \in V
    BY <1>6
  <2>2. step \in [(1..n) \X V -> V]
    BY <1>1
  <2> QED BY <2>1, <2>2, <1>7, FoldChain
<1>9. /\ c \in [0..n -> V] /\ c[0] = f /\ c[n] = h[1..n]
      /\ \A k \in 1..n : c[k] = step[<<k, c[k - 1]>>]
  BY <1>6, <1>8 DEF IsChain
<1>10. ASSUME NEW k \in 1..n PROVE c[k] = Described(c[k - 1], seq[k])
  <2>1. c[k - 1] \in V
    BY <1>9
  <2> QED BY <2>1, <1>1, <1>9
<1>11. n \in 0..n
  OBVIOUS
<1> QED BY <1>2, <1>9, <1>10, <1>11, SMTT(30) DEF ChainOfDescribed

ChainOfProgramme(c, V, n, f, seq) ==
  /\ c \in [0..n -> V] /\ c[0] = f
  /\ \A k \in 1..n : c[k] = Programme(c[k - 1], seq[k])

LEMMA ProgrammeFolds ==
  ASSUME NEW V, NEW n \in Nat, NEW seq, DOMAIN seq = 1..n, NEW f \in V,
         \A v \in V : \A i \in 1..n : Programme(v, seq[i]) \in V
  PROVE  /\ FoldLeft(Programme, f, seq) \in V
         /\ \E c : /\ ChainOfProgramme(c, V, n, f, seq)
                   /\ c[n] = FoldLeft(Programme, f, seq)
<1> DEFINE step == [x \in (1..n) \X V |-> Programme(x[2], seq[x[1]])]
           Value(g, S) == IF S = {} THEN f
                          ELSE Programme(g[S \ {Max(S)}], seq[Max(S)])
           P(g) == g = [S \in SUBSET (1..n) |-> Value(g, S)]
           h == CHOOSE g : P(g)
<1>1. /\ step \in [(1..n) \X V -> V]
      /\ \A k \in 1..n : \A v \in V : step[<<k, v>>] = Programme(v, seq[k])
  <2>1. ASSUME NEW x \in (1..n) \X V PROVE x[1] \in 1..n /\ x[2] \in V
    OBVIOUS
  <2>2. ASSUME NEW x \in (1..n) \X V PROVE Programme(x[2], seq[x[1]]) \in V
    BY <2>1
  <2>3. step \in [(1..n) \X V -> V]
    BY <2>2, Zenon
  <2>4. ASSUME NEW k \in 1..n, NEW v \in V PROVE step[<<k, v>>] = Programme(v, seq[k])
    OBVIOUS
  <2> QED BY <2>3, <2>4
<1>2. FoldLeft(Programme, f, seq) = h[1..n]
  BY DEF FoldLeft, MapThenFoldSet
<1> HIDE DEF step
<1>3. PICK g \in [SUBSET (1..n) -> V] : \A S \in SUBSET (1..n) :
        g[S] = IF S = {} THEN f ELSE step[<<Max(S), g[S \ {Max(S)}]>>]
  <2>1. step \in [(1..n) \X V -> V]
    BY <1>1
  <2>2. \E g : IsFold(g, V, n, f, step)
    BY <2>1, FoldExists
  <2> QED BY <2>2 DEF IsFold
<1>4. ASSUME NEW S \in SUBSET (1..n) PROVE g[S] = Value(g, S)
  <2>1. CASE S # {}
    <3>1. Max(S) \in 1..n /\ S \ {Max(S)} \in SUBSET (1..n)
      BY <2>1, MaxOf
    <3> QED BY <3>1, <2>1, <1>1, <1>3
  <2> QED BY <2>1, <1>3
<1>5. P(h)
  <2>1. g = [S \in SUBSET (1..n) |-> g[S]]
    BY <1>3
  <2> HIDE DEF Value
  <2>2. P(g)
    BY <1>4, <2>1
  <2> HIDE DEF P
  <2> QED BY <2>2
<1> HIDE DEF h
<1>6. h[{}] = f
  BY <1>5
<1>7. ASSUME NEW k \in 1..n,
             h[1..(k - 1)] \in V
      PROVE  h[1..k] = step[<<k, h[1..(k - 1)]>>]
  <2>1. k \in Nat /\ k > 0 /\ 1..k \in SUBSET (1..n)
    OBVIOUS
  <2>2. h[1..k] = Value(h, 1..k)
    BY <2>1, <1>5
  <2>3. /\ Max(1..k) = k /\ (1..k) \ {k} = 1..(k - 1) /\ 1..k # {}
    BY <2>1, LastPlace
  <2>4. Value(h, 1..k) = Programme(h[1..(k - 1)], seq[k])
    BY <2>3
  <2> HIDE DEF Value
  <2> QED BY <2>2, <2>4, <1>1, <1>7
<1> HIDE DEF Value, P
<1>8. PICK c : IsChain(c, V, n, h[{}], h[1..n], step)
  <2>1. h[{}] \in V
    BY <1>6
  <2>2. step \in [(1..n) \X V -> V]
    BY <1>1
  <2> QED BY <2>1, <2>2, <1>7, FoldChain
<1>9. /\ c \in [0..n -> V] /\ c[0] = f /\ c[n] = h[1..n]
      /\ \A k \in 1..n : c[k] = step[<<k, c[k - 1]>>]
  BY <1>6, <1>8 DEF IsChain
<1>10. ASSUME NEW k \in 1..n PROVE c[k] = Programme(c[k - 1], seq[k])
  <2>1. c[k - 1] \in V
    BY <1>9
  <2> QED BY <2>1, <1>1, <1>9
<1>11. n \in 0..n
  OBVIOUS
<1> QED BY <1>2, <1>9, <1>10, <1>11 DEF ChainOfProgramme

ChainOfStream(c, V, n, f, seq) ==
  /\ c \in [0..n -> V] /\ c[0] = f
  /\ \A k \in 1..n : c[k] = Stream(c[k - 1], seq[k])

LEMMA StreamFolds ==
  ASSUME NEW V, NEW n \in Nat, NEW seq, DOMAIN seq = 1..n, NEW f \in V,
         \A v \in V : \A i \in 1..n : Stream(v, seq[i]) \in V
  PROVE  /\ FoldLeft(Stream, f, seq) \in V
         /\ \E c : /\ ChainOfStream(c, V, n, f, seq)
                   /\ c[n] = FoldLeft(Stream, f, seq)
<1> DEFINE step == [x \in (1..n) \X V |-> Stream(x[2], seq[x[1]])]
           Value(g, S) == IF S = {} THEN f
                          ELSE Stream(g[S \ {Max(S)}], seq[Max(S)])
           P(g) == g = [S \in SUBSET (1..n) |-> Value(g, S)]
           h == CHOOSE g : P(g)
<1>1. /\ step \in [(1..n) \X V -> V]
      /\ \A k \in 1..n : \A v \in V : step[<<k, v>>] = Stream(v, seq[k])
  <2>1. ASSUME NEW x \in (1..n) \X V PROVE x[1] \in 1..n /\ x[2] \in V
    OBVIOUS
  <2>2. ASSUME NEW x \in (1..n) \X V PROVE Stream(x[2], seq[x[1]]) \in V
    BY <2>1
  <2>3. step \in [(1..n) \X V -> V]
    BY <2>2, Zenon
  <2>4. ASSUME NEW k \in 1..n, NEW v \in V PROVE step[<<k, v>>] = Stream(v, seq[k])
    OBVIOUS
  <2> QED BY <2>3, <2>4
<1>2. FoldLeft(Stream, f, seq) = h[1..n]
  BY DEF FoldLeft, MapThenFoldSet
<1> HIDE DEF step
<1>3. PICK g \in [SUBSET (1..n) -> V] : \A S \in SUBSET (1..n) :
        g[S] = IF S = {} THEN f ELSE step[<<Max(S), g[S \ {Max(S)}]>>]
  <2>1. step \in [(1..n) \X V -> V]
    BY <1>1
  <2>2. \E g : IsFold(g, V, n, f, step)
    BY <2>1, FoldExists
  <2> QED BY <2>2 DEF IsFold
<1>4. ASSUME NEW S \in SUBSET (1..n) PROVE g[S] = Value(g, S)
  <2>1. CASE S # {}
    <3>1. Max(S) \in 1..n /\ S \ {Max(S)} \in SUBSET (1..n)
      BY <2>1, MaxOf
    <3> QED BY <3>1, <2>1, <1>1, <1>3
  <2> QED BY <2>1, <1>3
<1>5. P(h)
  <2>1. g = [S \in SUBSET (1..n) |-> g[S]]
    BY <1>3
  <2> HIDE DEF Value
  <2>2. P(g)
    BY <1>4, <2>1
  <2> HIDE DEF P
  <2> QED BY <2>2
<1> HIDE DEF h
<1>6. h[{}] = f
  BY <1>5
<1>7. ASSUME NEW k \in 1..n,
             h[1..(k - 1)] \in V
      PROVE  h[1..k] = step[<<k, h[1..(k - 1)]>>]
  <2>1. k \in Nat /\ k > 0 /\ 1..k \in SUBSET (1..n)
    OBVIOUS
  <2>2. h[1..k] = Value(h, 1..k)
    BY <2>1, <1>5
  <2>3. /\ Max(1..k) = k /\ (1..k) \ {k} = 1..(k - 1) /\ 1..k # {}
    BY <2>1, LastPlace
  <2>4. Value(h, 1..k) = Stream(h[1..(k - 1)], seq[k])
    BY <2>3
  <2> HIDE DEF Value
  <2> QED BY <2>2, <2>4, <1>1, <1>7
<1> HIDE DEF Value, P
<1>8. PICK c : IsChain(c, V, n, h[{}], h[1..n], step)
  <2>1. h[{}] \in V
    BY <1>6
  <2>2. step \in [(1..n) \X V -> V]
    BY <1>1
  <2> QED BY <2>1, <2>2, <1>7, FoldChain
<1>9. /\ c \in [0..n -> V] /\ c[0] = f /\ c[n] = h[1..n]
      /\ \A k \in 1..n : c[k] = step[<<k, c[k - 1]>>]
  BY <1>6, <1>8 DEF IsChain
<1>10. ASSUME NEW k \in 1..n PROVE c[k] = Stream(c[k - 1], seq[k])
  <2>1. c[k - 1] \in V
    BY <1>9
  <2> QED BY <2>1, <1>1, <1>9
<1>11. n \in 0..n
  OBVIOUS
<1> QED BY <1>2, <1>9, <1>10, <1>11 DEF ChainOfStream

ChainOfCarrier(c, V, n, f, seq) ==
  /\ c \in [0..n -> V] /\ c[0] = f
  /\ \A k \in 1..n : c[k] = Carrier(c[k - 1], seq[k])

LEMMA CarrierFolds ==
  ASSUME NEW V, NEW n \in Nat, NEW seq, DOMAIN seq = 1..n, NEW f \in V,
         \A v \in V : \A i \in 1..n : Carrier(v, seq[i]) \in V
  PROVE  /\ FoldLeft(Carrier, f, seq) \in V
         /\ \E c : /\ ChainOfCarrier(c, V, n, f, seq)
                   /\ c[n] = FoldLeft(Carrier, f, seq)
<1> DEFINE step == [x \in (1..n) \X V |-> Carrier(x[2], seq[x[1]])]
           Value(g, S) == IF S = {} THEN f
                          ELSE Carrier(g[S \ {Max(S)}], seq[Max(S)])
           P(g) == g = [S \in SUBSET (1..n) |-> Value(g, S)]
           h == CHOOSE g : P(g)
<1>1. /\ step \in [(1..n) \X V -> V]
      /\ \A k \in 1..n : \A v \in V : step[<<k, v>>] = Carrier(v, seq[k])
  <2>1. ASSUME NEW x \in (1..n) \X V PROVE x[1] \in 1..n /\ x[2] \in V
    OBVIOUS
  <2>2. ASSUME NEW x \in (1..n) \X V PROVE Carrier(x[2], seq[x[1]]) \in V
    BY <2>1
  <2>3. step \in [(1..n) \X V -> V]
    BY <2>2, Zenon
  <2>4. ASSUME NEW k \in 1..n, NEW v \in V PROVE step[<<k, v>>] = Carrier(v, seq[k])
    OBVIOUS
  <2> QED BY <2>3, <2>4
<1>2. FoldLeft(Carrier, f, seq) = h[1..n]
  BY DEF FoldLeft, MapThenFoldSet
<1> HIDE DEF step
<1>3. PICK g \in [SUBSET (1..n) -> V] : \A S \in SUBSET (1..n) :
        g[S] = IF S = {} THEN f ELSE step[<<Max(S), g[S \ {Max(S)}]>>]
  <2>1. step \in [(1..n) \X V -> V]
    BY <1>1
  <2>2. \E g : IsFold(g, V, n, f, step)
    BY <2>1, FoldExists
  <2> QED BY <2>2 DEF IsFold
<1>4. ASSUME NEW S \in SUBSET (1..n) PROVE g[S] = Value(g, S)
  <2>1. CASE S # {}
    <3>1. Max(S) \in 1..n /\ S \ {Max(S)} \in SUBSET (1..n)
      BY <2>1, MaxOf
    <3> QED BY <3>1, <2>1, <1>1, <1>3
  <2> QED BY <2>1, <1>3
<1>5. P(h)
  <2>1. g = [S \in SUBSET (1..n) |-> g[S]]
    BY <1>3
  <2> HIDE DEF Value
  <2>2. P(g)
    BY <1>4, <2>1
  <2> HIDE DEF P
  <2> QED BY <2>2
<1> HIDE DEF h
<1>6. h[{}] = f
  BY <1>5
<1>7. ASSUME NEW k \in 1..n,
             h[1..(k - 1)] \in V
      PROVE  h[1..k] = step[<<k, h[1..(k - 1)]>>]
  <2>1. k \in Nat /\ k > 0 /\ 1..k \in SUBSET (1..n)
    OBVIOUS
  <2>2. h[1..k] = Value(h, 1..k)
    BY <2>1, <1>5
  <2>3. /\ Max(1..k) = k /\ (1..k) \ {k} = 1..(k - 1) /\ 1..k # {}
    BY <2>1, LastPlace
  <2>4. Value(h, 1..k) = Carrier(h[1..(k - 1)], seq[k])
    BY <2>3
  <2> HIDE DEF Value
  <2> QED BY <2>2, <2>4, <1>1, <1>7
<1> HIDE DEF Value, P
<1>8. PICK c : IsChain(c, V, n, h[{}], h[1..n], step)
  <2>1. h[{}] \in V
    BY <1>6
  <2>2. step \in [(1..n) \X V -> V]
    BY <1>1
  <2> QED BY <2>1, <2>2, <1>7, FoldChain
<1>9. /\ c \in [0..n -> V] /\ c[0] = f /\ c[n] = h[1..n]
      /\ \A k \in 1..n : c[k] = step[<<k, c[k - 1]>>]
  BY <1>6, <1>8 DEF IsChain
<1>10. ASSUME NEW k \in 1..n PROVE c[k] = Carrier(c[k - 1], seq[k])
  <2>1. c[k - 1] \in V
    BY <1>9
  <2> QED BY <2>1, <1>1, <1>9
<1>11. n \in 0..n
  OBVIOUS
<1> QED BY <1>2, <1>9, <1>10, <1>11 DEF ChainOfCarrier

ChainOfTransport(c, V, n, f, seq) ==
  /\ c \in [0..n -> V] /\ c[0] = f
  /\ \A k \in 1..n : c[k] = Transport(c[k - 1], seq[k])

LEMMA TransportFolds ==
  ASSUME NEW V, NEW n \in Nat, NEW seq, DOMAIN seq = 1..n, NEW f \in V,
         \A v \in V : \A i \in 1..n : Transport(v, seq[i]) \in V
  PROVE  /\ FoldLeft(Transport, f, seq) \in V
         /\ \E c : /\ ChainOfTransport(c, V, n, f, seq)
                   /\ c[n] = FoldLeft(Transport, f, seq)
<1> DEFINE step == [x \in (1..n) \X V |-> Transport(x[2], seq[x[1]])]
           Value(g, S) == IF S = {} THEN f
                          ELSE Transport(g[S \ {Max(S)}], seq[Max(S)])
           P(g) == g = [S \in SUBSET (1..n) |-> Value(g, S)]
           h == CHOOSE g : P(g)
<1>1. /\ step \in [(1..n) \X V -> V]
      /\ \A k \in 1..n : \A v \in V : step[<<k, v>>] = Transport(v, seq[k])
  <2>1. ASSUME NEW x \in (1..n) \X V PROVE x[1] \in 1..n /\ x[2] \in V
    OBVIOUS
  <2>2. ASSUME NEW x \in (1..n) \X V PROVE Transport(x[2], seq[x[1]]) \in V
    BY <2>1
  <2>3. step \in [(1..n) \X V -> V]
    BY <2>2, Zenon
  <2>4. ASSUME NEW k \in 1..n, NEW v \in V PROVE step[<<k, v>>] = Transport(v, seq[k])
    OBVIOUS
  <2> QED BY <2>3, <2>4
<1>2. FoldLeft(Transport, f, seq) = h[1..n]
  BY DEF FoldLeft, MapThenFoldSet
<1> HIDE DEF step
<1>3. PICK g \in [SUBSET (1..n) -> V] : \A S \in SUBSET (1..n) :
        g[S] = IF S = {} THEN f ELSE step[<<Max(S), g[S \ {Max(S)}]>>]
  <2>1. step \in [(1..n) \X V -> V]
    BY <1>1
  <2>2. \E g : IsFold(g, V, n, f, step)
    BY <2>1, FoldExists
  <2> QED BY <2>2 DEF IsFold
<1>4. ASSUME NEW S \in SUBSET (1..n) PROVE g[S] = Value(g, S)
  <2>1. CASE S # {}
    <3>1. Max(S) \in 1..n /\ S \ {Max(S)} \in SUBSET (1..n)
      BY <2>1, MaxOf
    <3> QED BY <3>1, <2>1, <1>1, <1>3
  <2> QED BY <2>1, <1>3
<1>5. P(h)
  <2>1. g = [S \in SUBSET (1..n) |-> g[S]]
    BY <1>3
  <2> HIDE DEF Value
  <2>2. P(g)
    BY <1>4, <2>1
  <2> HIDE DEF P
  <2> QED BY <2>2
<1> HIDE DEF h
<1>6. h[{}] = f
  BY <1>5
<1>7. ASSUME NEW k \in 1..n,
             h[1..(k - 1)] \in V
      PROVE  h[1..k] = step[<<k, h[1..(k - 1)]>>]
  <2>1. k \in Nat /\ k > 0 /\ 1..k \in SUBSET (1..n)
    OBVIOUS
  <2>2. h[1..k] = Value(h, 1..k)
    BY <2>1, <1>5
  <2>3. /\ Max(1..k) = k /\ (1..k) \ {k} = 1..(k - 1) /\ 1..k # {}
    BY <2>1, LastPlace
  <2>4. Value(h, 1..k) = Transport(h[1..(k - 1)], seq[k])
    BY <2>3
  <2> HIDE DEF Value
  <2> QED BY <2>2, <2>4, <1>1, <1>7
<1> HIDE DEF Value, P
<1>8. PICK c : IsChain(c, V, n, h[{}], h[1..n], step)
  <2>1. h[{}] \in V
    BY <1>6
  <2>2. step \in [(1..n) \X V -> V]
    BY <1>1
  <2> QED BY <2>1, <2>2, <1>7, FoldChain
<1>9. /\ c \in [0..n -> V] /\ c[0] = f /\ c[n] = h[1..n]
      /\ \A k \in 1..n : c[k] = step[<<k, c[k - 1]>>]
  BY <1>6, <1>8 DEF IsChain
<1>10. ASSUME NEW k \in 1..n PROVE c[k] = Transport(c[k - 1], seq[k])
  <2>1. c[k - 1] \in V
    BY <1>9
  <2> QED BY <2>1, <1>1, <1>9
<1>11. n \in 0..n
  OBVIOUS
<1> QED BY <1>2, <1>9, <1>10, <1>11 DEF ChainOfTransport

ChainOfAppended(p, guess, once, c, V, n, f, seq) ==
  /\ c \in [0..n -> V] /\ c[0] = f
  /\ \A k \in 1..n : c[k] = Appended(p, guess, once, c[k - 1], seq[k])
ByCells(p, guess, once, V, n, f, seq) ==
  \E c : /\ ChainOfAppended(p, guess, once, c, V, n, f, seq)
         /\ c[n] = AppendSection(p, guess, once, f, seq)

LEMMA AppendedFolds ==
  ASSUME NEW p, NEW guess, NEW once, NEW V, NEW n \in Nat, NEW seq, DOMAIN seq = 1..n,
         NEW f \in V,
         \A v \in V : \A i \in 1..n : Appended(p, guess, once, v, seq[i]) \in V
  PROVE  /\ AppendSection(p, guess, once, f, seq) \in V
         /\ ByCells(p, guess, once, V, n, f, seq)
<1> DEFINE step == [x \in (1..n) \X V |-> Appended(p, guess, once, x[2], seq[x[1]])]
           Value(g, S) == IF S = {} THEN f
                          ELSE Appended(p, guess, once, g[S \ {Max(S)}], seq[Max(S)])
           P(g) == g = [S \in SUBSET (1..n) |-> Value(g, S)]
           h == CHOOSE g : P(g)
<1>1. /\ step \in [(1..n) \X V -> V]
      /\ \A k \in 1..n : \A v \in V : step[<<k, v>>] = Appended(p, guess, once, v, seq[k])
  <2>1. ASSUME NEW x \in (1..n) \X V PROVE x[1] \in 1..n /\ x[2] \in V
    OBVIOUS
  <2>2. ASSUME NEW x \in (1..n) \X V PROVE Appended(p, guess, once, x[2], seq[x[1]]) \in V
    BY <2>1
  <2>3. step \in [(1..n) \X V -> V]
    BY <2>2, Zenon
  <2>4. ASSUME NEW k \in 1..n,
               NEW v \in V
        PROVE  step[<<k, v>>] = Appended(p, guess, once, v, seq[k])
    OBVIOUS
  <2> QED BY <2>3, <2>4
<1>2. AppendSection(p, guess, once, f, seq) = h[1..n]
  BY DEF AppendSection, FoldLeft, MapThenFoldSet
<1> HIDE DEF step
<1>3. PICK g \in [SUBSET (1..n) -> V] : \A S \in SUBSET (1..n) :
        g[S] = IF S = {} THEN f ELSE step[<<Max(S), g[S \ {Max(S)}]>>]
  <2>1. step \in [(1..n) \X V -> V]
    BY <1>1
  <2>2. \E g : IsFold(g, V, n, f, step)
    BY <2>1, FoldExists
  <2> QED BY <2>2 DEF IsFold
<1>4. ASSUME NEW S \in SUBSET (1..n) PROVE g[S] = Value(g, S)
  <2>1. CASE S # {}
    <3>1. Max(S) \in 1..n /\ S \ {Max(S)} \in SUBSET (1..n)
      BY <2>1, MaxOf
    <3> QED BY <3>1, <2>1, <1>1, <1>3
  <2> QED BY <2>1, <1>3
<1>5. P(h)
  <2>1. g = [S \in SUBSET (1..n) |-> g[S]]
    BY <1>3
  <2> HIDE DEF Value
  <2>2. P(g)
    BY <1>4, <2>1
  <2> HIDE DEF P
  <2> QED BY <2>2
<1> HIDE DEF h
<1>6. h[{}] = f
  BY <1>5
<1>7. ASSUME NEW k \in 1..n,
             h[1..(k - 1)] \in V
      PROVE  h[1..k] = step[<<k, h[1..(k - 1)]>>]
  <2>1. k \in Nat /\ k > 0 /\ 1..k \in SUBSET (1..n)
    OBVIOUS
  <2>2. h[1..k] = Value(h, 1..k)
    BY <2>1, <1>5
  <2>3. /\ Max(1..k) = k /\ (1..k) \ {k} = 1..(k - 1) /\ 1..k # {}
    BY <2>1, LastPlace
  <2>4. Value(h, 1..k) = Appended(p, guess, once, h[1..(k - 1)], seq[k])
    BY <2>3
  <2> HIDE DEF Value
  <2> QED BY <2>2, <2>4, <1>1, <1>7
<1> HIDE DEF Value, P
<1>8. PICK c : IsChain(c, V, n, h[{}], h[1..n], step)
  <2>1. h[{}] \in V
    BY <1>6
  <2>2. step \in [(1..n) \X V -> V]
    BY <1>1
  <2> QED BY <2>1, <2>2, <1>7, FoldChain
<1>9. /\ c \in [0..n -> V] /\ c[0] = f /\ c[n] = h[1..n]
      /\ \A k \in 1..n : c[k] = step[<<k, c[k - 1]>>]
  BY <1>6, <1>8 DEF IsChain
<1>10. ASSUME NEW k \in 1..n PROVE c[k] = Appended(p, guess, once, c[k - 1], seq[k])
  <2>1. c[k - 1] \in V
    BY <1>9
  <2> QED BY <2>1, <1>1, <1>9
<1>11. n \in 0..n
  OBVIOUS
<1> QED BY <1>2, <1>9, <1>10, <1>11, SMTT(30) DEF ChainOfAppended, ByCells

-----------------------------------------------------------------------------
(* Results of a scan that hold nothing but what is on the air.             *)
Ids == {e.id : e \in Programmes \union Entries} \union {s.id : s \in Broadcast("PMT")}
CaSystems == UNION {ToSet(s.cas) : s \in Broadcast("PMT")}
Streams == UNION {ToSet(s.streams) : s \in Broadcast("PMT")}
StreamPids == {None} \union {e.pid : e \in Streams}
ServiceRecords ==
  [pmt : {None} \union {e.pid : e \in Programmes}, here : BOOLEAN,
   video : StreamPids, audio : StreamPids, teletext : StreamPids,
   ca : {None} \union CaSystems, scrambled : BOOLEAN,
   name : {None} \union {e.name : e \in Entries}]
OnAir(id) == {v \in ServiceRecords : IsOnAir(id, v)}
Carriers ==
  UNION {UNION {Named(t) : t \in ToSet(s.transports)} : s \in Broadcast("NIT")}
PidsNamed == {"PAT", "SDT", "NIT"} \union {e.pid : e \in Programmes}
Results ==
  {f \in [services : UNION {[I -> ServiceRecords] : I \in SUBSET Ids},
          carriers : SUBSET Carriers, known : SUBSET PidsNamed] :
     \A id \in DOMAIN f.services : f.services[id] \in OnAir(id)}

LEMMA ResultIs ==
  ASSUME NEW f \in Results
  PROVE  /\ f = [services |-> f.services, carriers |-> f.carriers, known |-> f.known]
         /\ f.services = [i \in DOMAIN f.services |-> f.services[i]]
         /\ DOMAIN f.services \in SUBSET Ids /\ f.carriers \in SUBSET Carriers
         /\ f.known \in SUBSET PidsNamed
         /\ \A id \in DOMAIN f.services : f.services[id] \in OnAir(id)
<1>1. PICK S \in SUBSET Ids : f.services \in [S -> ServiceRecords]
  BY DEF Results
<1>2. /\ f \in [services : UNION {[I -> ServiceRecords] : I \in SUBSET Ids},
                carriers : SUBSET Carriers, known : SUBSET PidsNamed]
      /\ \A id \in DOMAIN f.services : f.services[id] \in OnAir(id)
  BY DEF Results
<1> QED BY <1>1, <1>2

LEMMA ResultWith ==
  ASSUME NEW f \in Results, NEW x
  PROVE  /\ [f EXCEPT !.services = x] = [services |-> x, carriers |-> f.carriers, known |-> f.known]
         /\ [f EXCEPT !.carriers = x] = [services |-> f.services, carriers |-> x, known |-> f.known]
         /\ [f EXCEPT !.known = x] = [services |-> f.services, carriers |-> f.carriers, known |-> x]
<1>1. f \in [services : UNION {[I -> ServiceRecords] : I \in SUBSET Ids},
            carriers : SUBSET Carriers, known : SUBSET PidsNamed]
  BY DEF Results
<1>2. PICK a, b, c : f = [services |-> a, carriers |-> b, known |-> c]
  BY <1>1
<1>3. f.services = a /\ f.carriers = b /\ f.known = c
  BY <1>2
<1>4. [f EXCEPT !.services = x] = [services |-> x, carriers |-> b, known |-> c]
  BY <1>2
<1>5. [f EXCEPT !.carriers = x] = [services |-> a, carriers |-> x, known |-> c]
  BY <1>2
<1>6. [f EXCEPT !.known = x] = [services |-> a, carriers |-> b, known |-> x]
  BY <1>2
<1> QED BY <1>3, <1>4, <1>5, <1>6

LEMMA IsResult ==
  ASSUME NEW f, NEW sv, NEW cs, NEW ps, NEW I \in SUBSET Ids,
         f = [services |-> sv, carriers |-> cs, known |-> ps],
         sv = [i \in I |-> sv[i]], cs \in SUBSET Carriers, ps \in SUBSET PidsNamed,
         \A id \in I : sv[id] \in OnAir(id)
  PROVE  f \in Results
<1>1. \A id \in I : sv[id] \in ServiceRecords
  BY DEF OnAir
<1>2. sv \in [I -> ServiceRecords]
  BY <1>1
<1>3. sv \in UNION {[J -> ServiceRecords] : J \in SUBSET Ids}
  BY <1>2
<1>4. DOMAIN sv = I
  BY <1>2
<1> QED BY <1>3, <1>4 DEF Results

(* find_service: what is found is on the air, and so is what is stored.    *)
LEMMA FoundIsOnAir ==
  ASSUME NEW f \in Results, NEW id
  PROVE  Found(f, id) \in OnAir(id)
<1>1. NewService \in ServiceRecords
  BY DEF NewService, ServiceRecords, StreamPids
<1>2. IsOnAir(id, NewService)
  BY DEF NewService, IsOnAir, Kinds
<1> QED BY <1>1, <1>2, ResultIs DEF Found, OnAir

LEMMA UpdatedIsOnAir ==
  ASSUME NEW f \in Results, NEW id \in Ids, NEW v \in OnAir(id)
  PROVE  Updated(f, id, v) \in Results
<1> DEFINE I == DOMAIN f.services \union {id}
           sv == [i \in I |-> IF i = id THEN v ELSE f.services[i]]
           g == [f EXCEPT !.services = sv]
<1>1. g = [services |-> sv, carriers |-> f.carriers, known |-> f.known]
  BY ResultWith
<1>2. sv = [i \in I |-> sv[i]]
  OBVIOUS
<1>3. ASSUME NEW i \in I PROVE sv[i] \in OnAir(i)
  BY ResultIs
<1>4. I \in SUBSET Ids /\ f.carriers \in SUBSET Carriers /\ f.known \in SUBSET PidsNamed
  BY ResultIs
<1>5. Updated(f, id, v) \in {f, g}
  BY DEF Updated
<1> HIDE DEF sv, g, I
<1>6. g \in Results
  BY <1>1, <1>2, <1>3, <1>4, IsResult
<1> QED BY <1>5, <1>6

LEMMA WithContextIsOnAir ==
  ASSUME NEW f \in Results, NEW p \in PidsNamed
  PROVE  WithContext(f, p) \in Results
<1> DEFINE g == [f EXCEPT !.known = f.known \union {p}]
<1>1. g = [services |-> f.services, carriers |-> f.carriers, known |-> f.known \union {p}]
  BY ResultWith
<1>2. f.known \union {p} \in SUBSET PidsNamed
  BY ResultIs
<1>3. g \in Results
  <2> HIDE DEF g
  <2>1. /\ DOMAIN f.services \in SUBSET Ids /\ f.carriers \in SUBSET Carriers
        /\ f.known \in SUBSET PidsNamed
        /\ f.services = [i \in DOMAIN f.services |-> f.services[i]]
        /\ \A id \in DOMAIN f.services : f.services[id] \in OnAir(id)
    BY ResultIs
  <2> QED BY <1>1, <1>2, <2>1, IsResult
<1> QED BY <1>3 DEF WithContext

LEMMA CarrierIsOnAir ==
  ASSUME NEW f \in Results, NEW c \in Carriers
  PROVE  Carrier(f, c) \in Results
<1> DEFINE g == [f EXCEPT !.carriers = f.carriers \union {c}]
<1>1. g = [services |-> f.services, carriers |-> f.carriers \union {c}, known |-> f.known]
  BY ResultWith
<1>2. f.carriers \union {c} \in SUBSET Carriers
  BY ResultIs
<1>3. g \in Results
  <2> HIDE DEF g
  <2>1. /\ DOMAIN f.services \in SUBSET Ids /\ f.carriers \in SUBSET Carriers
        /\ f.known \in SUBSET PidsNamed
        /\ f.services = [i \in DOMAIN f.services |-> f.services[i]]
        /\ \A id \in DOMAIN f.services : f.services[id] \in OnAir(id)
    BY ResultIs
  <2> QED BY <1>1, <1>2, <2>1, IsResult
<1> QED BY <1>3 DEF Carrier

(* What is listed.                                                         *)
LEMMA Listed ==
  ASSUME NEW list, IsList(list)
  PROVE  /\ Len(list) \in Nat /\ DOMAIN list = 1..Len(list)
         /\ \A i \in 1..Len(list) : list[i] \in ToSet(list)
<1>1. list \in Seq(ToSet(list))
  BY DEF IsList
<1> HIDE DEF ToSet
<1> QED BY <1>1

(* A section of the carousel is on the air, with its fields.               *)
LEMMA SectionIs ==
  ASSUME WellFormed, NEW p \in Pids, NEW k \in DOMAIN Carousel[p]
  PROVE  /\ Carousel[p][k] \in Broadcast(Carousel[p][k].table)
         /\ Carousel[p][k].table \in {"PAT", "SDT", "PMT", "NIT"}
         /\ Carousel[p][k].size \in Nat \ {0} /\ Carousel[p][k].pad \in Nat
         /\ HasFields(Carousel[p][k])
<1>1. Carousel[p][k] \in ToSet(Carousel[p])
  BY DEF ToSet
<1>2. Carousel[p][k] \in UNION {ToSet(Carousel[q]) : q \in Pids}
  BY <1>1
<1> QED BY <1>1, <1>2 DEF Broadcast, WellFormed

(* Each table keeps a result on the air: the PAT its services and their    *)
(* pids,                                                                   *)
LEMMA ProgrammeIsOnAir ==
  ASSUME NEW f \in Results, NEW e \in Programmes, e = [id |-> e.id, pid |-> e.pid]
  PROVE  Programme(f, e) \in Results
<1> DEFINE v == Found(f, e.id)
           w == [v EXCEPT !.pmt = e.pid, !.here = TRUE]
           g == Updated(f, e.id, w)
<1>1. v \in ServiceRecords /\ IsOnAir(e.id, v)
  BY FoundIsOnAir DEF OnAir
<1> HIDE DEF v
<1>2. w \in ServiceRecords
  BY <1>1 DEF ServiceRecords
<1>3. IsOnAir(e.id, w)
  BY <1>1 DEF IsOnAir, Kinds, ServiceRecords
<1>4. w \in OnAir(e.id) /\ e.id \in Ids /\ e.pid \in PidsNamed
  <2> HIDE DEF w
  <2> QED BY <1>2, <1>3 DEF OnAir, Ids, PidsNamed
<1> HIDE DEF w
<1>5. g \in Results
  BY <1>4, UpdatedIsOnAir
<1>6. Programme(f, e) = IF e.id \in DOMAIN g.services THEN WithContext(g, e.pid) ELSE g
  BY DEF Programme, g, w, v
<1> HIDE DEF g
<1> QED BY <1>4, <1>5, <1>6, WithContextIsOnAir

LEMMA PatIsOnAir ==
  ASSUME NEW f \in Results, NEW s \in Broadcast("PAT"), HasFields(s)
  PROVE  ParsePat(f, s) \in Results
<1>1. /\ s.table = "PAT" /\ IsList(s.programmes)
      /\ \A e \in ToSet(s.programmes) : e = [id |-> e.id, pid |-> e.pid]
  BY DEF Broadcast, HasFields
<1>2. ToSet(s.programmes) \subseteq Programmes
  BY DEF Programmes
<1> DEFINE n == Len(s.programmes)
<1>3. n \in Nat /\ DOMAIN s.programmes = 1..n
  BY <1>1, Listed
<1>4. ASSUME NEW i \in 1..n, NEW v \in Results
      PROVE  Programme(v, s.programmes[i]) \in Results
  BY <1>1, <1>2, Listed, ProgrammeIsOnAir
<1> HIDE DEF n
<1>5. FoldLeft(Programme, f, s.programmes) \in Results
  BY <1>3, <1>4, ProgrammeFolds
<1> QED BY <1>5 DEF ParsePat

(* the SDT their names and "scrambled",                                    *)
LEMMA DescribedIsOnAir ==
  ASSUME NEW f \in Results, NEW e \in Entries, e.scrambled \in BOOLEAN
  PROVE  Described(f, e) \in Results
<1> DEFINE v == Found(f, e.id)
           w == [v EXCEPT !.scrambled = v.scrambled \/ e.scrambled, !.name = e.name]
<1>1. v \in ServiceRecords /\ IsOnAir(e.id, v)
  BY FoundIsOnAir DEF OnAir
<1>2. Described(f, e) = Updated(f, e.id, w)
  BY DEF Described, FlagAdded
<1> HIDE DEF v
<1>3. w \in ServiceRecords
  BY <1>1 DEF ServiceRecords
<1>4. IsOnAir(e.id, w)
  BY <1>1 DEF IsOnAir, Kinds, ServiceRecords
<1> HIDE DEF w
<1>5. w \in OnAir(e.id) /\ e.id \in Ids
  BY <1>3, <1>4 DEF OnAir, Ids
<1> QED BY <1>2, <1>5, UpdatedIsOnAir

LEMMA SdtIsOnAir ==
  ASSUME NEW f \in Results, NEW s \in Broadcast("SDT"), HasFields(s)
  PROVE  ParseSdt(f, s) \in Results
<1>1. /\ s.table = "SDT" /\ IsList(s.entries)
      /\ \A e \in ToSet(s.entries) : e.scrambled \in BOOLEAN
  BY DEF Broadcast, HasFields
<1>2. ToSet(s.entries) \subseteq Entries
  BY DEF Entries
<1> DEFINE n == Len(s.entries)
<1>3. n \in Nat /\ DOMAIN s.entries = 1..n
  BY <1>1, Listed
<1>4. ASSUME NEW i \in 1..n, NEW v \in Results
      PROVE  Described(v, s.entries[i]) \in Results
  BY <1>1, <1>2, Listed, DescribedIsOnAir
<1> HIDE DEF n
<1>5. FoldLeft(Described, f, s.entries) \in Results
  BY <1>3, <1>4, DescribedFolds
<1> QED BY <1>5 DEF ParseSdt

(* the PMT its CA system and streams,                                      *)
LEMMA StreamIsOnAir ==
  ASSUME NEW s \in Broadcast("PMT"), NEW v \in OnAir(s.id), NEW e \in ToSet(s.streams),
         e = [kind |-> e.kind, pid |-> e.pid], e.kind \in Kinds
  PROVE  Stream(v, e) \in OnAir(s.id)
<1> DEFINE w == [v EXCEPT ![e.kind] = e.pid]
<1>1. v \in ServiceRecords /\ IsOnAir(s.id, v)
  BY DEF OnAir
<1>2. e.pid \in StreamPids
  BY DEF StreamPids, Streams
<1>3. e.kind \in {"video", "audio", "teletext"}
  BY DEF Kinds
<1>4. w \in ServiceRecords
  BY <1>1, <1>2, <1>3 DEF ServiceRecords
<1>5. \A kind \in Kinds : w[kind] = IF kind = e.kind THEN e.pid ELSE v[kind]
  BY <1>1, <1>3 DEF ServiceRecords, Kinds
<1>6. /\ w.pmt = v.pmt /\ w.here = v.here /\ w.ca = v.ca /\ w.scrambled = v.scrambled
      /\ w.name = v.name
  BY <1>1, <1>3 DEF ServiceRecords
<1> HIDE DEF w
<1>7. ASSUME NEW kind \in Kinds, w[kind] # None
      PROVE  \E t \in Pmts(s.id) : [kind |-> kind, pid |-> w[kind]] \in ToSet(t.streams)
  <2>1. CASE kind = e.kind
    <3>1. s \in Pmts(s.id)
      BY DEF Pmts
    <3>2. w[kind] = e.pid
      BY <2>1, <1>5
    <3>3. [kind |-> kind, pid |-> w[kind]] = e
      BY <2>1, <3>2
    <3> QED BY <3>1, <3>3
  <2>2. CASE kind # e.kind
    <3>1. w[kind] = v[kind]
      BY <2>2, <1>5
    <3> QED BY <3>1, <1>1, <1>7 DEF IsOnAir
  <2> QED BY <2>1, <2>2
<1>8. IsOnAir(s.id, w)
  <2>1. /\ w.pmt # None => [id |-> s.id, pid |-> w.pmt] \in Programmes
        /\ w.here => Pmts(s.id) # {} \/ \E q \in Programmes : q.id = s.id
        /\ w.name # None => \E q \in Entries : q.id = s.id /\ q.name = w.name
        /\ w.ca # None => \E t \in Pmts(s.id) : w.ca \in ToSet(t.cas)
        /\ w.scrambled => w.ca # None \/ \E q \in Entries : q.id = s.id /\ q.scrambled
    BY <1>1, <1>6, Zenon DEF IsOnAir
  <2> QED BY <2>1, <1>7 DEF IsOnAir
<1>9. w \in OnAir(s.id)
  BY <1>4, <1>8 DEF OnAir
<1> QED BY <1>9 DEF Stream, w

LEMMA NamesCaIsOnAir ==
  ASSUME NEW s \in Broadcast("PMT"), NEW v \in OnAir(s.id),
         IsList(s.cas), None \notin ToSet(s.cas)
  PROVE  NamesCa(v, s.cas) \in OnAir(s.id)
<1> DEFINE w == [v EXCEPT !.ca = Head(s.cas), !.scrambled = TRUE]
<1>1. v \in ServiceRecords /\ IsOnAir(s.id, v)
  BY DEF OnAir
<1>2. ASSUME s.cas # <<>> PROVE w \in OnAir(s.id)
  <2>1. Head(s.cas) \in ToSet(s.cas)
    <3>1. s.cas \in Seq(ToSet(s.cas))
      BY DEF IsList
    <3> HIDE DEF ToSet
    <3> QED BY <3>1, <1>2
  <2>2. Head(s.cas) \in CaSystems /\ Head(s.cas) # None
    BY <2>1 DEF CaSystems
  <2>3. s \in Pmts(s.id)
    BY DEF Pmts
  <2> HIDE DEF ToSet
  <2>4. w \in ServiceRecords
    BY <1>1, <2>2 DEF ServiceRecords
  <2>5. w.ca = Head(s.cas) /\ w.pmt = v.pmt /\ w.here = v.here /\ w.name = v.name
        /\ \A kind \in Kinds : w[kind] = v[kind]
    BY <1>1 DEF ServiceRecords, Kinds
  <2> HIDE DEF w
  <2>6. IsOnAir(s.id, w)
    BY <1>1, <2>1, <2>2, <2>3, <2>5 DEF IsOnAir
  <2> QED BY <2>4, <2>6 DEF OnAir
<1> HIDE DEF w
<1>3. NamesCa(v, s.cas) = IF v.ca # None \/ s.cas = <<>> THEN v ELSE w
  BY DEF NamesCa, w
<1> QED BY <1>2, <1>3

LEMMA PmtIsOnAir ==
  ASSUME NEW f \in Results, NEW s \in Broadcast("PMT"), HasFields(s)
  PROVE  ParsePmt(f, s) \in Results
<1> DEFINE n == Len(s.streams)
           v == Found(f, s.id)
           here == [v EXCEPT !.here = TRUE]
           w == NamesCa(here, s.cas)
<1>1. /\ s.table = "PMT" /\ IsList(s.cas) /\ None \notin ToSet(s.cas)
      /\ IsList(s.streams)
      /\ \A e \in ToSet(s.streams) :
           e = [kind |-> e.kind, pid |-> e.pid] /\ e.kind \in Kinds
  BY DEF Broadcast, HasFields
<1>2. v \in ServiceRecords /\ IsOnAir(s.id, v)
  BY FoundIsOnAir DEF OnAir
<1>3. ParsePmt(f, s) = Updated(f, s.id, FoldLeft(Stream, w, s.streams))
  BY DEF ParsePmt
<1> HIDE DEF v
<1>4. here \in OnAir(s.id)
  <2>1. here \in ServiceRecords
    BY <1>2 DEF ServiceRecords
  <2>2. s \in Pmts(s.id)
    BY DEF Pmts
  <2>3. IsOnAir(s.id, here)
    BY <1>2, <2>2 DEF IsOnAir, Kinds, ServiceRecords
  <2> HIDE DEF here
  <2> QED BY <2>1, <2>3 DEF OnAir
<1> HIDE DEF here
<1>5. w \in OnAir(s.id)
  BY <1>1, <1>4, NamesCaIsOnAir
<1> HIDE DEF w
<1>6. n \in Nat /\ DOMAIN s.streams = 1..n
  BY <1>1, Listed
<1>7. ASSUME NEW i \in 1..n, NEW x \in OnAir(s.id)
      PROVE  Stream(x, s.streams[i]) \in OnAir(s.id)
  BY <1>1, Listed, StreamIsOnAir
<1> HIDE DEF n
<1>8. FoldLeft(Stream, w, s.streams) \in OnAir(s.id)
  BY <1>5, <1>6, <1>7, StreamFolds
<1>9. s.id \in Ids
  BY DEF Ids
<1> QED BY <1>3, <1>8, <1>9, UpdatedIsOnAir

(* and the NIT its carriers.                                               *)
LEMMA NamedIs ==
  ASSUME NEW t, IsList(t)
  PROVE  /\ Cardinality(Named(t)) \in Nat
         /\ SetToSeq(Named(t)) \in [1..Cardinality(Named(t)) -> Named(t)]
         /\ \A x \in Named(t) : \E i \in 1..Cardinality(Named(t)) : SetToSeq(Named(t))[i] = x
<1> DEFINE N == Named(t)
           D == {i \in DOMAIN t : \A j \in 1..i : t[j] # None}
<1>1. IsFiniteSet(D)
  <2>1. D \subseteq 1..Len(t) /\ Len(t) \in Nat
    BY Listed
  <2>2. IsFiniteSet(1..Len(t))
    BY <2>1, FS_Interval
  <2> QED BY <2>1, <2>2, FS_Subset
<1>2. IsFiniteSet(N)
  <2>1. N = {t[i] : i \in D}
    BY DEF Named
  <2> HIDE DEF D, N
  <2> DEFINE g == [i \in D |-> t[i]]
  <2>2. g \in [D -> N] /\ \A x \in N : \E i \in D : g[i] = x
    BY <2>1
  <2> HIDE DEF g
  <2>3. g \in Surjection(D, N)
    BY <2>2 DEF Surjection
  <2> QED BY <1>1, <2>3, FS_Surjection
<1> HIDE DEF N
<1>3. Cardinality(N) \in Nat /\ ExistsBijection(1..Cardinality(N), N)
  BY <1>2, FS_CardinalityType
<1>4. PICK g : g \in Bijection(1..Cardinality(N), N)
  BY <1>3 DEF ExistsBijection
<1> DEFINE n == Cardinality(N)
<1>5. SetToSeq(N) \in [1..n -> N] /\ IsInjective(SetToSeq(N))
  <2>1. g \in [1..n -> N] /\ IsInjective(g)
    BY <1>4 DEF Bijection, Injection, IsInjective
  <2>2. \E h : h \in [1..n -> N] /\ IsInjective(h)
    BY <2>1
  <2> HIDE DEF IsInjective
  <2>3. SetToSeq(N) = CHOOSE h \in [1..n -> N] : IsInjective(h)
    BY DEF SetToSeq
  <2> HIDE DEF n
  <2>4. LET h == CHOOSE h : h \in [1..n -> N] /\ IsInjective(h)
        IN  h \in [1..n -> N] /\ IsInjective(h)
    BY <2>2, Zenon
  <2> QED BY <2>3, <2>4, Zenon
<1>6. SetToSeq(N) \in Surjection(1..n, N)
  <2>1. SetToSeq(N) \in Injection(1..n, N)
    BY <1>5 DEF Injection, IsInjective
  <2>2. IsFiniteSet(1..n) /\ Cardinality(1..n) = n
    BY <1>3, FS_Interval
  <2> HIDE DEF n
  <2>3. Cardinality(1..n) = Cardinality(N)
    BY <2>2 DEF n
  <2> QED BY <1>2, <2>1, <2>3, FS_Injection
<1>7. \A x \in N : \E i \in 1..n : SetToSeq(N)[i] = x
  BY <1>6 DEF Surjection
<1> QED BY <1>3, <1>5, <1>7 DEF N

LEMMA TransportIsOnAir ==
  ASSUME NEW f \in Results, NEW s \in Broadcast("NIT"), NEW t \in ToSet(s.transports),
         IsList(t)
  PROVE  Transport(f, t) \in Results
<1> DEFINE seq == SetToSeq(Named(t))
           n == Cardinality(Named(t))
<1>1. n \in Nat /\ seq \in [1..n -> Named(t)]
  BY NamedIs
<1>2. Named(t) \subseteq Carriers
  BY DEF Carriers
<1>3. Transport(f, t) = FoldLeft(Carrier, f, seq)
  BY DEF Transport
<1> HIDE DEF seq, n
<1>4. ASSUME NEW i \in 1..n, NEW v \in Results PROVE Carrier(v, seq[i]) \in Results
  BY <1>1, <1>2, CarrierIsOnAir
<1>5. FoldLeft(Carrier, f, seq) \in Results
  BY <1>1, <1>4, CarrierFolds
<1> QED BY <1>3, <1>5

LEMMA NitIsOnAir ==
  ASSUME NEW f \in Results, NEW s \in Broadcast("NIT"), HasFields(s)
  PROVE  ParseNit(f, s) \in Results
<1>1. /\ s.table = "NIT" /\ IsList(s.transports)
      /\ \A t \in ToSet(s.transports) : IsList(t)
  BY DEF Broadcast, HasFields
<1> DEFINE n == Len(s.transports)
<1>2. n \in Nat /\ DOMAIN s.transports = 1..n
  BY <1>1, Listed
<1>3. ASSUME NEW i \in 1..n, NEW v \in Results
      PROVE  Transport(v, s.transports[i]) \in Results
  BY <1>1, Listed, TransportIsOnAir
<1> HIDE DEF n
<1>4. FoldLeft(Transport, f, s.transports) \in Results
  BY <1>2, <1>3, TransportFolds
<1> QED BY <1>4 DEF ParseNit

LEMMA ParsedIsOnAir ==
  ASSUME WellFormed, NEW f \in Results, NEW p \in Pids, NEW k \in DOMAIN Carousel[p]
  PROVE  Parse(f, Carousel[p][k]) \in Results
<1> DEFINE s == Carousel[p][k]
<1>1. /\ s \in Broadcast(s.table) /\ HasFields(s)
      /\ s.table \in {"PAT", "SDT", "PMT", "NIT"}
  BY SectionIs
<1> SUFFICES Parse(f, s) \in Results
  OBVIOUS
<1> HIDE DEF s
<1>2. CASE s.table = "PAT"
  <2>1. Parse(f, s) = ParsePat(f, s)
    BY <1>2 DEF Parse
  <2>2. s \in Broadcast("PAT")
    BY <1>1, <1>2
  <2> QED BY <1>1, <2>1, <2>2, PatIsOnAir
<1>3. CASE s.table = "SDT"
  <2>1. Parse(f, s) = ParseSdt(f, s)
    BY <1>3 DEF Parse
  <2>2. s \in Broadcast("SDT")
    BY <1>1, <1>3
  <2> QED BY <1>1, <2>1, <2>2, SdtIsOnAir
<1>4. CASE s.table = "PMT"
  <2>1. Parse(f, s) = ParsePmt(f, s)
    BY <1>4 DEF Parse
  <2>2. s \in Broadcast("PMT")
    BY <1>1, <1>4
  <2> QED BY <1>1, <2>1, <2>2, PmtIsOnAir
<1>5. CASE s.table = "NIT"
  <2>1. Parse(f, s) = ParseNit(f, s)
    BY <1>5 DEF Parse
  <2>2. s \in Broadcast("NIT")
    BY <1>1, <1>5
  <2> QED BY <1>1, <2>1, <2>2, NitIsOnAir
<1> QED BY <1>1, <1>2, <1>3, <1>4, <1>5

-----------------------------------------------------------------------------
(* What a packet of a pid holds: cells.                                    *)
LEMMA ScanCycleIs ==
  ASSUME WellFormed, NEW p \in Pids
  PROVE  /\ LaidOut(Carousel[p]) /\ Cycles[p] = CycleOf(Carousel[p])
         /\ Cycles[p] \in Seq(Cells)
<1>1. Carousel[p] \in Seq(ToSet(Carousel[p]))
  BY DEF WellFormed, IsList
<1>2. \A k \in DOMAIN Carousel[p] : Carousel[p][k].size \in Nat \ {0} /\ Carousel[p][k].pad \in Nat
  BY <1>1, SectionIs
<1>3. LaidOut(Carousel[p])
  BY <1>1, <1>2, SeqIsSeq DEF LaidOut, IsSeq
<1>4. Cycles[p] = CycleOf(Carousel[p])
  BY DEF Cycles
<1> QED BY <1>3, <1>4, SectionsLieIn

LEMMA ScanPayloadIs ==
  ASSUME WellFormed, NEW p \in Pids, NEW n \in 1..PacketsOf(p)
  PROVE  PayloadOf(p, n) \in Seq(Cells) /\ Len(PayloadOf(p, n)) = Room
<1> DEFINE l == Len(Cycles[p])
           b == (n - 1) * Room
           c == Cycles[p]
<1>1. c \in Seq(Cells) /\ l \in Nat /\ Room \in Nat /\ Room > 0
  BY ScanCycleIs, SizesAssumption, PacketAssumption
<1>2. n \in 1..(l \div Room)
  BY DEF PacketsOf
<1>3. PayloadOf(p, n) = SubSeq(c, b + 1, n * Room)
  BY DEF PayloadOf, PacketOf
<1> HIDE DEF c
<1>4. l = Len(c)
  BY DEF c
<1> HIDE DEF l
<1>5. (l \div Room) \in Nat /\ (l \div Room) * Room <= l
  BY <1>1
<1> DEFINE q == l \div Room
<1>6. q \in Nat /\ q * Room <= l /\ n \in 1..q
  BY <1>2, <1>5
<1> HIDE DEF q
<1>7. n \in Nat /\ b \in Nat /\ n * Room = b + Room /\ n * Room <= q * Room
  BY <1>1, <1>6
<1> HIDE DEF b
<1>8. b + Room <= Len(c)
  BY <1>1, <1>4, <1>6, <1>7
<1>9. /\ SubSeq(c, b + 1, b + Room) \in Seq(Cells)
      /\ Len(SubSeq(c, b + 1, b + Room)) = Room
  BY <1>1, <1>7, <1>8, PartIs
<1> QED BY <1>3, <1>7, <1>9

LEMMA ScanPointerIs ==
  ASSUME NEW cells \in Seq(Cells)
  PROVE  PointerOf(cells) \in Nat
<1> DEFINE P(i) == Begins(cells[i]) /\ \A j \in 1..(i - 1) : ~Begins(cells[j])
           S == {i \in DOMAIN cells : Begins(cells[i])}
           i == CHOOSE i \in DOMAIN cells : P(i)
<1>1. CASE ~Starts(cells)
  BY <1>1 DEF PointerOf
<1>2. CASE Starts(cells)
  <2>1. DOMAIN cells = 1..Len(cells) /\ Len(cells) \in Nat
    OBVIOUS
  <2>2. S # {} /\ S \in SUBSET Nat
    BY <1>2, <2>1 DEF Starts
  <2> HIDE DEF S
  <2>3. PICK l \in S : \A m \in S : l <= m
    BY <2>2, LeastNatural
  <2>4. l \in DOMAIN cells /\ Begins(cells[l])
    BY DEF S
  <2>5. ASSUME NEW j \in 1..(l - 1) PROVE ~Begins(cells[j])
    <3>1. j \in DOMAIN cells /\ ~(l <= j)
      BY <2>1, <2>4
    <3> QED BY <3>1, <2>3 DEF S
  <2>6. \E m \in DOMAIN cells : P(m)
    BY <2>4, <2>5
  <2> HIDE DEF P
  <2>7. i \in DOMAIN cells
    BY <2>6
  <2>8. PointerOf(cells) = i - 1
    BY <1>2 DEF PointerOf, P
  <2> HIDE DEF i
  <2> QED BY <2>1, <2>7, <2>8
<1> QED BY <1>1, <1>2

-----------------------------------------------------------------------------
(* The assembler: a section is parsed only when its CRC holds, and then it *)
(* is one of the carousel.                                                 *)
LEMMA SectionIsOnAir ==
  ASSUME WellFormed, NEW f \in Results, NEW p \in Pids, NEW cells, cells # <<>>
  PROVE  ParseSection(f, p, cells) \in Results
<1>1. CASE ~CrcHolds(p, cells)
  BY <1>1 DEF ParseSection
<1>2. CASE CrcHolds(p, cells)
  <2>1. PICK k \in DOMAIN Carousel[p] : cells = CellsOf(Carousel[p][k], k)
    BY <1>2 DEF CrcHolds
  <2>2. Carousel[p][k].size \in Nat /\ Carousel[p][k].size > 0
    BY SectionIs
  <2>3. cells[1].of = k
    <3> DEFINE a == Carousel[p][k].size
    <3>1. cells = [i \in 1..a |-> [of |-> k, at |-> i]] /\ 1 \in 1..a
      BY <2>1, <2>2 DEF CellsOf
    <3> HIDE DEF a
    <3> QED BY <3>1
  <2> QED BY <1>2, <2>3, ParsedIsOnAir DEF ParseSection
<1> QED BY <1>1, <1>2

(* What the assembler of a pid may hold, and may wait for.                 *)
Expectations(p) == {0} \union {Expected(p, cell, guess) : cell \in Cells, guess \in Nat}
Accumulators(p) ==
  [f : Results, data : Seq(Cells), expected : Expectations(p), over : BOOLEAN]

LEMMA AppendedIsOnAir ==
  ASSUME WellFormed, NEW p \in Pids, NEW guess \in Nat, NEW once \in BOOLEAN,
         NEW acc \in Accumulators(p), NEW cell \in Cells
  PROVE  Appended(p, guess, once, acc, cell) \in Accumulators(p)
<1> DEFINE grown == Append(acc.data, cell)
           size == IF acc.data = <<>> THEN Expected(p, cell, guess) ELSE acc.expected
<1>1. /\ acc = [f |-> acc.f, data |-> acc.data, expected |-> acc.expected, over |-> acc.over]
      /\ acc.f \in Results /\ acc.data \in Seq(Cells)
      /\ acc.expected \in Expectations(p)
      /\ acc.over \in BOOLEAN
  BY DEF Accumulators
<1>2. grown \in Seq(Cells) /\ grown # <<>>
  BY <1>1
<1>3. size \in Expectations(p) /\ 0 \in Expectations(p)
  BY <1>1 DEF Expectations
<1> HIDE DEF grown, size
<1>4. ParseSection(acc.f, p, grown) \in Results
  BY <1>1, <1>2, SectionIsOnAir
<1> DEFINE a == [acc EXCEPT !.over = TRUE]
           b == [f |-> IF size = 0 THEN acc.f ELSE ParseSection(acc.f, p, grown),
                 data |-> <<>>, expected |-> 0, over |-> once]
           d == [acc EXCEPT !.data = grown, !.expected = size]
<1>5. Appended(p, guess, once, acc, cell) \in {acc, a, b, d}
  <2> DEFINE fresh == acc.data = <<>> /\ cell = Stuffing
  <2>1. CASE acc.over
    BY <2>1 DEF Appended
  <2>2. CASE ~acc.over /\ fresh
    BY <2>2 DEF Appended
  <2>3. CASE ~acc.over /\ ~fresh /\ size \in {0, Len(grown)}
    BY <2>3 DEF Appended, grown, size
  <2>4. CASE ~acc.over /\ ~fresh /\ size \notin {0, Len(grown)}
    BY <2>4 DEF Appended, grown, size
  <2> QED BY <2>1, <2>2, <2>3, <2>4, <1>1
<1>6. a \in Accumulators(p)
  BY <1>1 DEF Accumulators
<1>7. b \in Accumulators(p)
  BY <1>1, <1>3, <1>4 DEF Accumulators
<1>8. d \in Accumulators(p)
  BY <1>1, <1>2, <1>3 DEF Accumulators
<1> HIDE DEF a, b, d
<1> QED BY <1>5, <1>6, <1>7, <1>8

LEMMA AppendSectionIsOnAir ==
  ASSUME WellFormed, NEW p \in Pids, NEW guess \in Nat, NEW once \in BOOLEAN,
         NEW acc \in Accumulators(p), NEW cells \in Seq(Cells)
  PROVE  AppendSection(p, guess, once, acc, cells) \in Accumulators(p)
<1> DEFINE n == Len(cells)
<1>1. n \in Nat /\ DOMAIN cells = 1..n /\ \A i \in 1..n : cells[i] \in Cells
  OBVIOUS
<1> HIDE DEF n
<1>2. ASSUME NEW i \in 1..n, NEW v \in Accumulators(p)
      PROVE  Appended(p, guess, once, v, cells[i]) \in Accumulators(p)
  BY <1>1, AppendedIsOnAir
<1>3. AppendSection(p, guess, once, acc, cells) \in Accumulators(p)
  BY <1>1, <1>2, AppendedFolds
<1> QED BY <1>3

-----------------------------------------------------------------------------
(* The invariant of the scan: the result holds nothing but what is on the  *)
(* air, the assemblers hold cells, and each pid stands at one of its       *)
(* packets.                                                                *)
Assembling ==
  /\ context = [p \in Pids |-> context[p]]
  /\ \A p \in Pids : /\ context[p].data \in Seq(Cells)
                     /\ context[p].expected \in Expectations(p)
OnPacket ==
  /\ place = [p \in Pids |-> place[p]]
  /\ \A p \in Pids : place[p] \in 1..PacketsOf(p)
ScanInv == found \in Results /\ Assembling /\ OnPacket

LEMMA ProcessedIsOnAir ==
  ASSUME WellFormed, ScanInv, NEW p \in Pids, NEW guess \in Nat,
         NEW cells \in Seq(Cells),
         Len(cells) = Room, NEW start, NEW pointer \in Nat
  PROVE  Processed(p, guess, cells, start, pointer) \in Accumulators(p)
<1> DEFINE acc == Acc(found, context[p])
           head == SubSeq(cells, 1, pointer)
           rest == SubSeq(cells, pointer + 1, Room)
           added == TailAdded(p, guess, acc, head)
           fresh == Acc(added.f, NoSection)
<1>1. acc \in Accumulators(p)
  BY DEF ScanInv, Assembling, Acc, Accumulators
<1>2. ASSUME NEW f \in Results PROVE Acc(f, NoSection) \in Accumulators(p)
  BY DEF Acc, NoSection, Accumulators, Expectations
<1>3. Room \in Nat /\ found \in Results
  BY SizesAssumption, PacketAssumption DEF ScanInv
<1>4. Processed(p, guess, cells, start, pointer)
        = IF ~start THEN AppendSection(p, guess, FALSE, acc, cells)
          ELSE IF pointer > Room THEN Acc(found, NoSection)
          ELSE AppendSection(p, guess, FALSE, fresh, rest)
  BY DEF Processed
<1>5. CASE ~start
  <2> HIDE DEF acc
  <2> QED BY <1>1, <1>4, <1>5, AppendSectionIsOnAir
<1>6. CASE start /\ pointer > Room
  BY <1>2, <1>3, <1>4, <1>6
<1>7. CASE start /\ ~(pointer > Room)
  <2>1. head \in Seq(Cells) /\ rest \in Seq(Cells)
    BY <1>3, <1>7
  <2> HIDE DEF acc, head, rest
  <2>2. added \in Accumulators(p)
    BY <1>1, <2>1, AppendSectionIsOnAir DEF TailAdded
  <2> HIDE DEF added
  <2>3. fresh \in Accumulators(p)
    <3>1. added.f \in Results
      BY <2>2 DEF Accumulators
    <3> QED BY <3>1, <1>2
  <2> HIDE DEF fresh
  <2> QED BY <1>4, <1>7, <2>1, <2>3, AppendSectionIsOnAir
<1> QED BY <1>5, <1>6, <1>7

LEMMA TakesIsOnAir ==
  ASSUME WellFormed, ScanInv, NEW p \in Pids, NEW guess \in Nat,
         NEW cells \in Seq(Cells),
         Len(cells) = Room, NEW start, NEW pointer \in Nat,
         TakesOn(p, guess, cells, start, pointer)
  PROVE  (found \in Results)' /\ Assembling'
<1>1. CASE p \notin known
  BY <1>1 DEF TakesOn, ScanInv, Assembling, found
<1>2. CASE p \in known
  <2> DEFINE acc == Processed(p, guess, cells, start, pointer)
  <2>1. acc \in Accumulators(p)
    BY ProcessedIsOnAir
  <2>2. /\ services' = acc.f.services /\ carriers' = acc.f.carriers
        /\ known' = acc.f.known
        /\ context' = [context EXCEPT ![p] = [data |-> acc.data, expected |-> acc.expected]]
    BY <1>2 DEF TakesOn
  <2> HIDE DEF acc
  <2>3. acc.f \in Results /\ acc.data \in Seq(Cells) /\ acc.expected \in Expectations(p)
    BY <2>1 DEF Accumulators
  <2>4. found' = acc.f
    <3> DEFINE f == acc.f
    <3>1. f = [services |-> f.services, carriers |-> f.carriers, known |-> f.known]
      <4> HIDE DEF f
      <4>1. f \in Results
        BY <2>3 DEF f
      <4> QED BY <4>1, ResultIs
    <3> QED BY <2>2, <3>1 DEF found
  <2>5. /\ context' = [q \in Pids |-> context'[q]]
        /\ \A q \in Pids : context'[q] = IF q = p THEN [data |-> acc.data, expected |-> acc.expected]
                                         ELSE context[q]
    BY <2>2 DEF ScanInv, Assembling
  <2>6. ASSUME NEW q \in Pids
        PROVE  /\ context'[q].data \in Seq(Cells)
               /\ context'[q].expected \in Expectations(q)
    BY <2>3, <2>5 DEF ScanInv, Assembling
  <2> QED BY <2>3, <2>4, <2>5, <2>6 DEF Assembling
<1> QED BY <1>1, <1>2

LEMMA AdvancesIsOnPacket ==
  ASSUME WellFormed, OnPacket, NEW p \in Pids, Advances(p)
  PROVE  OnPacket'
<1>1. PacketsOf(p) \in Nat
  <2> DEFINE l == Len(Cycles[p])
  <2>1. l \in Nat /\ Room \in Nat /\ Room > 0
    BY ScanCycleIs, SizesAssumption, PacketAssumption
  <2> HIDE DEF l
  <2>2. (l \div Room) \in Nat
    BY <2>1
  <2> QED BY <2>2 DEF l, PacketsOf
<1>2. /\ place' = [q \in Pids |-> place'[q]]
      /\ \A q \in Pids : place'[q] = IF q = p THEN (place[p] % PacketsOf(p)) + 1 ELSE place[q]
  BY DEF OnPacket, Advances
<1>3. place[p] \in 1..PacketsOf(p)
  BY DEF OnPacket
<1> DEFINE n == PacketsOf(p)  m == place[p]
<1>4. (m % n) + 1 \in 1..n
  <2> HIDE DEF m, n
  <2>1. n \in Nat /\ m \in 1..n
    BY <1>1, <1>3 DEF m, n
  <2> QED BY <2>1
<1> QED BY <1>2, <1>4 DEF OnPacket

LEMMA ScanStep ==
  ASSUME WellFormed, ScanInv, [ScanNext]_scanVars
  PROVE  ScanInv'
<1>1. CASE UNCHANGED scanVars
  BY <1>1 DEF scanVars, ScanInv, Assembling, OnPacket, found
<1>2. ASSUME NEW p \in Pids, ReceivesOn(p) PROVE ScanInv'
  <2> DEFINE cells == PayloadOf(p, place[p])
  <2>1. place[p] \in 1..PacketsOf(p)
    BY DEF ScanInv, OnPacket
  <2>2. cells \in Seq(Cells) /\ Len(cells) = Room
    BY <2>1, ScanPayloadIs
  <2>3. /\ \E guess \in 0..LongestGuess :
             TakesOn(p, guess, cells, Starts(cells), PointerOf(cells))
        /\ Advances(p)
    BY <1>2 DEF ReceivesOn
  <2> HIDE DEF cells
  <2>4. PICK guess \in Nat : TakesOn(p, guess, cells, Starts(cells), PointerOf(cells))
    BY <2>3
  <2> QED BY <2>2, <2>3, <2>4, ScanPointerIs, TakesIsOnAir,
             AdvancesIsOnPacket DEF ScanInv
<1>3. ASSUME NEW p \in Pids, LosesOn(p) PROVE ScanInv'
  BY <1>3, AdvancesIsOnPacket DEF LosesOn, Breaks, ScanInv, Assembling, found
<1>4. ASSUME NEW p \in Pids, Damaged(p) PROVE ScanInv'
  <2> DEFINE cells == [i \in 1..Room |-> Noise]
  <2>1. cells \in Seq(Cells) /\ Len(cells) = Room
    <3>1. Noise \in Cells
      BY DEF Noise, Cells
    <3> QED BY <3>1, SizesAssumption, PacketAssumption
  <2>2. /\ \E guess \in 0..LongestGuess, start \in BOOLEAN, pointer \in 0..(Room + 1) :
             TakesOn(p, guess, cells, start, pointer)
        /\ Advances(p)
    BY <1>4 DEF Damaged, Breaks
  <2> HIDE DEF cells
  <2>3. PICK guess \in Nat, start \in BOOLEAN, pointer \in Nat :
          TakesOn(p, guess, cells, start, pointer)
    BY <2>2
  <2> QED BY <2>1, <2>2, <2>3, TakesIsOnAir, AdvancesIsOnPacket DEF ScanInv
<1> QED BY <1>1, <1>2, <1>3, <1>4 DEF ScanNext

LEMMA ScanStarts == ASSUME ScanInit PROVE ScanInv
<1>1. found \in Results
  <2>1. /\ services = [i \in {} |-> services[i]] /\ {} \in SUBSET Ids
        /\ carriers = {} /\ known \in SUBSET PidsNamed
    BY DEF ScanInit, PidsNamed
  <2> QED BY <2>1, IsResult DEF found
<1>2. Assembling
  <2>1. context = [p \in Pids |-> NoSection]
    BY DEF ScanInit
  <2>2. context = [p \in Pids |-> context[p]] /\ \A p \in Pids : context[p] = NoSection
    BY <2>1
  <2>3. NoSection.data \in Seq(Cells) /\ NoSection.expected = 0
    BY DEF NoSection
  <2>4. \A p \in Pids : 0 \in Expectations(p)
    BY DEF Expectations
  <2> QED BY <2>2, <2>3, <2>4 DEF Assembling
<1>3. OnPacket
  BY DEF ScanInit, OnPacket
<1> QED BY <1>1, <1>2, <1>3 DEF ScanInv

(* "Nothing is made up": for any tables, repeated for ever in any packets, *)
(* and however the capture is torn or damaged, a scan finds no service,    *)
(* name, pid or CA system but one that a section on the air gives that     *)
(* service.                                                                *)
THEOREM AsBroadcastHolds == ScanSpec => []AsBroadcast
<1>1. ScanInit => ScanInv
  BY ScanStarts
<1>2. ScanInv /\ [ScanNext]_scanVars => ScanInv'
  BY CarouselAssumption, ScanStep
<1>3. ScanInv => AsBroadcast
  BY ResultIs DEF ScanInv, found, AsBroadcast, OnAir
<1> QED BY <1>1, <1>2, <1>3, PTL DEF ScanSpec

-----------------------------------------------------------------------------
(* HeardIsKnown.  First what the parsers keep: the tables are within their *)
(* limits, each context but the first three is of a service, and a service *)
(* with a CA system is scrambled.                                          *)
FirstPids == {"PAT", "SDT", "NIT"}
Settled ==
  {f \in Results :
     /\ IsFiniteSet(DOMAIN f.services) /\ Cardinality(DOMAIN f.services) <= MaxServices
     /\ IsFiniteSet(f.carriers) /\ Cardinality(f.carriers) <= MaxCarriers
     /\ IsFiniteSet(f.known)
     /\ \A p \in f.known \ FirstPids : \E id \in DOMAIN f.services : f.services[id].pmt = p
     /\ \A id \in DOMAIN f.services :
          f.services[id].ca # None => f.services[id].scrambled}

(* What a later table leaves of an earlier one: all of it.                 *)
Richer(v, w) ==
  /\ v.pmt # None => w.pmt # None
  /\ v.name # None => w.name # None
  /\ \A kind \in Kinds : v[kind] # None => w[kind] # None
  /\ v.scrambled => w.scrambled
Grows(f, g) ==
  /\ f.carriers \subseteq g.carriers /\ f.known \subseteq g.known
  /\ DOMAIN f.services \subseteq DOMAIN g.services
  /\ Cardinality(DOMAIN f.services) = MaxServices => DOMAIN g.services = DOMAIN f.services
  /\ \A id \in DOMAIN f.services : Richer(f.services[id], g.services[id])

LEMMA RicherTwice ==
  ASSUME NEW u, NEW v, NEW w, Richer(u, v), Richer(v, w)
  PROVE  Richer(u, w)
BY DEF Richer

LEMMA GrowsTwice ==
  ASSUME NEW f, NEW g, NEW h, Grows(f, g), Grows(g, h)
  PROVE  Grows(f, h)
<1>1. /\ f.carriers \subseteq h.carriers /\ f.known \subseteq h.known
      /\ DOMAIN f.services \subseteq DOMAIN h.services
  BY DEF Grows
<1>2. ASSUME Cardinality(DOMAIN f.services) = MaxServices
      PROVE  DOMAIN h.services = DOMAIN f.services
  <2>1. DOMAIN g.services = DOMAIN f.services
    BY <1>2 DEF Grows
  <2> QED BY <2>1, <1>2 DEF Grows
<1>3. ASSUME NEW id \in DOMAIN f.services PROVE Richer(f.services[id], h.services[id])
  <2>1. Richer(f.services[id], g.services[id]) /\ id \in DOMAIN g.services
    BY DEF Grows
  <2>2. Richer(g.services[id], h.services[id])
    BY <2>1 DEF Grows
  <2> QED BY <2>1, <2>2, RicherTwice
<1> QED BY <1>1, <1>2, <1>3 DEF Grows

LEMMA GrowsNot == ASSUME NEW f PROVE Grows(f, f)
BY DEF Grows, Richer

(* A chain whose every step grows.                                         *)
LEMMA ChainGrows ==
  ASSUME NEW n \in Nat, NEW c, \A i \in 1..n : Grows(c[i - 1], c[i])
  PROVE  \A i \in 0..n : Grows(c[0], c[i]) /\ Grows(c[i], c[n])
<1>1. ASSUME NEW i \in 0..n PROVE Grows(c[i], c[n]) /\ Grows(c[0], c[i])
  <2> DEFINE Up == {m \in 1..(n + 1) : i <= m - 1 => Grows(c[i], c[m - 1])}
             Fore == {m \in 1..(n + 1) : Grows(c[0], c[m - 1])}
  <2>1. 1 \in Up
    <3>1. i <= 1 - 1 => i = 1 - 1
      OBVIOUS
    <3> QED BY <3>1, GrowsNot
  <2>2. ASSUME NEW m \in 1..(n + 1), m \in Up, m < n + 1 PROVE m + 1 \in Up
    <3>1. m + 1 \in 1..(n + 1) /\ (m + 1) - 1 = m /\ m \in 1..n
      BY <2>2
    <3>2. Grows(c[m - 1], c[m])
      BY <3>1
    <3>3. ASSUME i <= m PROVE Grows(c[i], c[m])
      <4>1. CASE i = m
        BY <4>1, GrowsNot
      <4>2. CASE i # m
        <5>1. i <= m - 1
          BY <4>2, <3>3, <3>1
        <5> QED BY <5>1, <2>2, <3>2, GrowsTwice
      <4> QED BY <4>1, <4>2
    <3> QED BY <3>1, <3>3
  <2>3. 1..(n + 1) \subseteq Up
    <3> HIDE DEF Up
    <3>1. n + 1 \in Nat
      OBVIOUS
    <3> QED BY <3>1, <2>1, <2>2, UpTo
  <2>4. 1 \in Fore
    BY GrowsNot
  <2>5. ASSUME NEW m \in 1..(n + 1), m \in Fore, m < n + 1 PROVE m + 1 \in Fore
    <3>1. m + 1 \in 1..(n + 1) /\ (m + 1) - 1 = m /\ m \in 1..n
      BY <2>5
    <3> QED BY <3>1, <2>5, GrowsTwice
  <2>6. 1..(n + 1) \subseteq Fore
    <3> HIDE DEF Fore
    <3>1. n + 1 \in Nat
      OBVIOUS
    <3> QED BY <3>1, <2>4, <2>5, UpTo
  <2>7. n + 1 \in Up /\ (n + 1) - 1 = n /\ i <= n
    BY <2>3
  <2>8. i + 1 \in Fore /\ (i + 1) - 1 = i
    BY <2>6
  <2> QED BY <2>7, <2>8
<1> QED BY <1>1

LEMMA SettledIs ==
  ASSUME NEW f \in Settled
  PROVE  /\ f \in Results
         /\ IsFiniteSet(DOMAIN f.services)
         /\ Cardinality(DOMAIN f.services) <= MaxServices
         /\ Cardinality(DOMAIN f.services) \in Nat
         /\ IsFiniteSet(f.carriers) /\ Cardinality(f.carriers) <= MaxCarriers
         /\ Cardinality(f.carriers) \in Nat
         /\ IsFiniteSet(f.known) /\ Cardinality(f.known) \in Nat
         /\ \A p \in f.known \ FirstPids :
              \E id \in DOMAIN f.services : f.services[id].pmt = p
         /\ \A id \in DOMAIN f.services :
              f.services[id].ca # None => f.services[id].scrambled
BY FS_CardinalityType DEF Settled

(* A service has one pmt pid.                                              *)
LEMMA OnePmt ==
  ASSUME Agreed, NEW id, NEW v \in OnAir(id), NEW w \in OnAir(id), v.pmt # None,
         w.pmt # None
  PROVE  v.pmt = w.pmt
<1> DEFINE d == [id |-> id, pid |-> v.pmt]  e == [id |-> id, pid |-> w.pmt]
<1>1. d \in Programmes /\ e \in Programmes
  BY DEF OnAir, IsOnAir
<1>2. d.id = e.id /\ d.pid = v.pmt /\ e.pid = w.pmt
  OBVIOUS
<1> HIDE DEF d, e
<1> QED BY <1>1, <1>2 DEF Agreed

LEMMA NewIs ==
  /\ NewService.pmt = None /\ NewService.name = None /\ ~NewService.scrambled
  /\ NewService.ca = None /\ \A kind \in Kinds : NewService[kind] = None
BY DEF NewService, Kinds

(* What is stored stays, or the table is full.                             *)
LEMMA UpdatedGrows ==
  ASSUME Agreed, NEW f \in Settled, NEW id \in Ids, NEW v \in OnAir(id),
         Richer(Found(f, id), v), v.ca # None => v.scrambled, NEW g, g = Updated(f, id, v)
  PROVE  /\ g \in Settled /\ Grows(f, g) /\ g.known = f.known /\ g.carriers = f.carriers
         /\ \/ ~HasRoomFor(g, id)
            \/ id \in DOMAIN g.services /\ g.services[id] = v
<1>1. g \in Results
  BY SettledIs, UpdatedIsOnAir
<1> DEFINE D == DOMAIN f.services
<1>2. CASE id \notin D /\ Cardinality(D) >= MaxServices
  <2>1. g = f
    BY <1>2 DEF Updated
  <2>2. ~HasRoomFor(g, id)
    BY <2>1, <1>2, SettledIs, TablesAssumption DEF HasRoomFor
  <2> QED BY <2>1, <2>2, GrowsNot
<1>3. CASE ~(id \notin D /\ Cardinality(D) >= MaxServices)
  <2> DEFINE E == D \union {id}
             sv == [i \in E |-> IF i = id THEN v ELSE f.services[i]]
  <2>1. g = [f EXCEPT !.services = sv]
    BY <1>3 DEF Updated
  <2>2. g = [services |-> sv, carriers |-> f.carriers, known |-> f.known]
    BY <2>1, ResultWith, SettledIs
  <2>3. /\ g.services = sv /\ g.carriers = f.carriers /\ g.known = f.known
        /\ DOMAIN g.services = E
    BY <2>2
  <2>4. \A i \in E : g.services[i] = IF i = id THEN v ELSE f.services[i]
    BY <2>3
  <2> HIDE DEF sv
  <2>5. IsFiniteSet(E) /\ Cardinality(E) <= MaxServices /\ (id \in D => E = D)
    <3>1. Cardinality(E) = IF id \in D THEN Cardinality(D) ELSE Cardinality(D) + 1
      BY SettledIs, FS_AddElement
    <3>2. IsFiniteSet(E)
      BY SettledIs, FS_AddElement
    <3>3. Cardinality(D) \in Nat /\ Cardinality(D) <= MaxServices
      BY SettledIs
    <3> HIDE DEF E
    <3>4. Cardinality(E) <= MaxServices
      BY <3>1, <3>3, <1>3, TablesAssumption
    <3>5. id \in D => E = D
      BY DEF E
    <3> QED BY <3>2, <3>4, <3>5
  <2>6. \A i \in D : Richer(f.services[i], g.services[i])
    <3> TAKE i \in D
    <3>1. CASE i = id
      BY <3>1, <2>4 DEF Found
    <3>2. CASE i # id
      BY <3>2, <2>4, GrowsNot DEF Richer
    <3> QED BY <3>1, <3>2
  <2>7. Cardinality(D) = MaxServices => E = D
    BY <1>3, <2>5, TablesAssumption
  <2>8. Grows(f, g)
    <3> HIDE DEF D, E
    <3>1. D \subseteq E
      BY DEF E
    <3> QED BY <3>1, <2>3, <2>6, <2>7 DEF Grows, D
  <2>9. ASSUME NEW p \in f.known \ FirstPids
        PROVE  \E i \in E : g.services[i].pmt = p
    <3>1. PICK i \in D : f.services[i].pmt = p
      BY SettledIs
    <3>2. p # None => g.services[i].pmt = p
      <4>1. CASE i # id
        BY <4>1, <2>4, <3>1
      <4>2. CASE i = id /\ p # None
        <5>1. f.services[id] \in OnAir(id) /\ Found(f, id) = f.services[id]
          BY <4>2, SettledIs, ResultIs DEF Found
        <5>2. v.pmt # None
          BY <5>1, <4>2, <3>1 DEF Richer
        <5>3. v.pmt = p
          BY <5>1, <5>2, <4>2, <3>1, OnePmt
        <5>4. g.services[id] = v
          BY <2>4
        <5> QED BY <5>3, <5>4, <4>2
      <4> QED BY <4>1, <4>2
    <3>3. p # None
      <4>1. p \in PidsNamed
        BY SettledIs, ResultIs
      <4> QED BY <4>1 DEF PidsNamed, FirstPids, Agreed
    <3> QED BY <3>2, <3>3
  <2>10. ASSUME NEW i \in E, g.services[i].ca # None PROVE g.services[i].scrambled
    BY <2>10, <2>4, SettledIs
  <2>11. g \in Settled
    <3> HIDE DEF E
    <3> QED BY <1>1, <2>3, <2>5, <2>9, <2>10, SettledIs DEF Settled
  <2>12. id \in DOMAIN g.services /\ g.services[id] = v
    BY <2>3, <2>4
  <2> QED BY <2>3, <2>8, <2>11, <2>12
<1> QED BY <1>2, <1>3

LEMMA OneMore ==
  ASSUME NEW S, IsFiniteSet(S), NEW x
  PROVE  /\ IsFiniteSet(S \cup {x}) /\ Cardinality(S \cup {x}) \in Nat
         /\ Cardinality(S \cup {x}) <= Cardinality(S) + 1
<1>1. Cardinality(S) \in Nat
  BY FS_CardinalityType
<1>2. /\ IsFiniteSet(S \cup {x})
      /\ Cardinality(S \cup {x}) = IF x \in S THEN Cardinality(S) ELSE Cardinality(S) + 1
  BY FS_AddElement
<1> QED BY <1>1, <1>2

LEMMA FirstPidsAre ==
  IsFiniteSet(FirstPids) /\ Cardinality(FirstPids) <= 3 /\ Cardinality(FirstPids) \in Nat
<1>1. IsFiniteSet({}) /\ Cardinality({}) = 0
  BY FS_EmptySet
<1> DEFINE A == {} \cup {"PAT"}  B == A \cup {"SDT"}  C == B \cup {"NIT"}
<1>2. IsFiniteSet(A) /\ Cardinality(A) \in Nat /\ Cardinality(A) <= 1
  <2> DEFINE E == {}
  <2>1. IsFiniteSet(E) /\ Cardinality(E) = 0 /\ A = E \cup {"PAT"}
    BY <1>1
  <2> HIDE DEF E, A
  <2>2. Cardinality(A) <= Cardinality(E) + 1 /\ IsFiniteSet(A) /\ Cardinality(A) \in Nat
    BY <2>1, OneMore
  <2> QED BY <2>1, <2>2
<1> HIDE DEF A
<1>3. IsFiniteSet(B) /\ Cardinality(B) \in Nat /\ Cardinality(B) <= 2
  <2>1. Cardinality(B) <= Cardinality(A) + 1 /\ IsFiniteSet(B) /\ Cardinality(B) \in Nat
    BY <1>2, OneMore
  <2> QED BY <1>2, <2>1
<1> HIDE DEF B
<1>4. IsFiniteSet(C) /\ Cardinality(C) \in Nat /\ Cardinality(C) <= 3
  <2>1. Cardinality(C) <= Cardinality(B) + 1 /\ IsFiniteSet(C) /\ Cardinality(C) \in Nat
    BY <1>3, OneMore
  <2> QED BY <1>3, <2>1
<1>5. FirstPids = C
  BY DEF FirstPids, A, B, C
<1> HIDE DEF C
<1> QED BY <1>4, <1>5

(* "a reassembly context per possible service": with all contexts taken    *)
(* the services are too.                                                   *)
LEMMA ContextsFull ==
  ASSUME NEW f \in Settled, NEW id \in DOMAIN f.services,
         f.services[id].pmt \notin f.known, ~(Cardinality(f.known) < MaxServices + 2)
  PROVE  TableFull(f)
<1> DEFINE D == DOMAIN f.services
           K == f.known \ FirstPids
           R == {i \in D : f.services[i].pmt \in K}
           pid == [i \in R |-> f.services[i].pmt]
<1>1. /\ IsFiniteSet(D) /\ Cardinality(D) \in Nat /\ Cardinality(D) <= MaxServices
      /\ IsFiniteSet(f.known) /\ Cardinality(f.known) \in Nat
  BY SettledIs
<1>2. IsFiniteSet(D \ {id}) /\ Cardinality(D \ {id}) = Cardinality(D) - 1
  BY <1>1, FS_RemoveElement
<1>3. R \in SUBSET (D \ {id})
  OBVIOUS
<1>4. IsFiniteSet(R) /\ Cardinality(R) <= Cardinality(D) - 1 /\ Cardinality(R) \in Nat
  <2> HIDE DEF R, D
  <2> QED BY <1>2, <1>3, FS_Subset, FS_CardinalityType
<1>5. Cardinality(K) <= Cardinality(R)
  <2>1. pid \in [R -> K] /\ \A p \in K : \E i \in R : pid[i] = p
    BY SettledIs
  <2> HIDE DEF pid, R, K
  <2>2. pid \in Surjection(R, K)
    BY <2>1 DEF Surjection
  <2> QED BY <2>2, <1>4, FS_Surjection
<1>6. Cardinality(K) >= Cardinality(f.known) - 3
  <2>1. Cardinality(K) = Cardinality(f.known) - Cardinality(f.known \cap FirstPids)
    BY <1>1, FS_Difference
  <2>2. /\ IsFiniteSet(FirstPids) /\ Cardinality(FirstPids) <= 3
        /\ Cardinality(FirstPids) \in Nat
    BY FirstPidsAre
  <2>3. Cardinality(f.known \cap FirstPids) <= Cardinality(FirstPids)
        /\ Cardinality(f.known \cap FirstPids) \in Nat
    <3>1. f.known \cap FirstPids \in SUBSET FirstPids
      OBVIOUS
    <3> QED BY <3>1, <2>2, FS_Subset, FS_CardinalityType
  <2> QED BY <1>1, <2>1, <2>2, <2>3
<1>7. Cardinality(K) \in Nat
  <2>1. IsFiniteSet(K)
    BY <1>1, FS_Difference
  <2> QED BY <2>1, FS_CardinalityType
<1> HIDE DEF D, K, R
<1>8. Cardinality(D) = MaxServices
  BY <1>1, <1>4, <1>5, <1>6, <1>7, TablesAssumption
<1> QED BY <1>8 DEF TableFull, D

(* What stays.                                                             *)
LEMMA RoomStays ==
  ASSUME NEW f \in Settled, NEW g, Grows(f, g), NEW id, ~HasRoomFor(f, id)
  PROVE  ~HasRoomFor(g, id)
<1>1. /\ id \notin DOMAIN f.services /\ Cardinality(DOMAIN f.services) = MaxServices
  BY SettledIs, TablesAssumption DEF HasRoomFor
<1>2. DOMAIN g.services = DOMAIN f.services
  BY <1>1 DEF Grows
<1> QED BY <1>1, <1>2, TablesAssumption DEF HasRoomFor

LEMMA FullStays ==
  ASSUME NEW f, NEW g, Grows(f, g), TableFull(f)
  PROVE  TableFull(g)
<1>1. DOMAIN g.services = DOMAIN f.services
  BY DEF Grows, TableFull
<1> QED BY <1>1 DEF TableFull

LEMMA PmtStays ==
  ASSUME Agreed, NEW f \in Settled, NEW g \in Settled, Grows(f, g),
         NEW id \in DOMAIN f.services, f.services[id].pmt # None
  PROVE  id \in DOMAIN g.services /\ g.services[id].pmt = f.services[id].pmt
<1>1. id \in DOMAIN g.services /\ g.services[id].pmt # None
  BY DEF Grows, Richer
<1>2. f.services[id] \in OnAir(id) /\ g.services[id] \in OnAir(id)
  BY <1>1, SettledIs, ResultIs
<1> QED BY <1>1, <1>2, OnePmt

LEMMA NameStays ==
  ASSUME Agreed, NEW f \in Settled, NEW g \in Settled, Grows(f, g),
         NEW id \in DOMAIN f.services, f.services[id].name # None
  PROVE  id \in DOMAIN g.services /\ g.services[id].name = f.services[id].name
<1>1. id \in DOMAIN g.services /\ g.services[id].name # None
  BY DEF Grows, Richer
<1>2. f.services[id] \in OnAir(id) /\ g.services[id] \in OnAir(id)
  BY <1>1, SettledIs, ResultIs
<1>3. PICK d \in Entries : d.id = id /\ d.name = f.services[id].name
  BY <1>2 DEF OnAir, IsOnAir
<1>4. PICK e \in Entries : e.id = id /\ e.name = g.services[id].name
  BY <1>1, <1>2 DEF OnAir, IsOnAir
<1>5. d.name = e.name
  BY <1>3, <1>4 DEF Agreed
<1> QED BY <1>1, <1>3, <1>4, <1>5

(* The PAT: each programme it names.                                       *)
ToldProgramme(f, e) ==
  \/ ~HasRoomFor(f, e.id)
  \/ e.id \in DOMAIN f.services /\ f.services[e.id].pmt = e.pid
     /\ (e.pid \in f.known \/ TableFull(f))

LEMMA ProgrammeStays ==
  ASSUME Agreed, NEW f \in Settled, NEW g \in Settled, Grows(f, g),
         NEW e \in Programmes,
         ToldProgramme(f, e)
  PROVE  ToldProgramme(g, e)
<1>1. CASE ~HasRoomFor(f, e.id)
  BY <1>1, RoomStays DEF ToldProgramme
<1>2. CASE HasRoomFor(f, e.id)
  <2>1. /\ e.id \in DOMAIN f.services /\ f.services[e.id].pmt = e.pid /\ e.pid # None
        /\ e.pid \in f.known \/ TableFull(f)
    BY <1>2 DEF ToldProgramme, Agreed
  <2>2. e.id \in DOMAIN g.services /\ g.services[e.id].pmt = e.pid
    BY <2>1, PmtStays
  <2>3. e.pid \in g.known \/ TableFull(g)
    BY <2>1, FullStays DEF Grows
  <2> QED BY <2>2, <2>3 DEF ToldProgramme
<1> QED BY <1>1, <1>2

LEMMA WithContextGrows ==
  ASSUME NEW f \in Settled, NEW id \in DOMAIN f.services,
         f.services[id].pmt \in PidsNamed,
         NEW g, g = WithContext(f, f.services[id].pmt)
  PROVE  /\ g \in Settled /\ Grows(f, g) /\ g.services = f.services
         /\ f.services[id].pmt \in g.known \/ TableFull(g)
<1> DEFINE p == f.services[id].pmt
<1>1. g \in Results
  BY SettledIs, WithContextIsOnAir
<1>2. CASE Cardinality(f.known) < MaxServices + 2
  <2>1. g = [f EXCEPT !.known = f.known \union {p}]
    BY <1>2 DEF WithContext
  <2>2. g = [services |-> f.services, carriers |-> f.carriers, known |-> f.known \union {p}]
    BY <2>1, ResultWith, SettledIs
  <2>3. /\ g.services = f.services /\ g.carriers = f.carriers
        /\ g.known = f.known \union {p}
    BY <2>2
  <2>4. IsFiniteSet(g.known)
    <3>1. IsFiniteSet(f.known)
      BY SettledIs
    <3> HIDE DEF p
    <3>2. IsFiniteSet(f.known \union {p})
      BY <3>1, FS_AddElement, SMTT(30)
    <3> QED BY <3>2, <2>3
  <2>5. g \in Settled
    <3>1. \A q \in g.known \ FirstPids : \E i \in DOMAIN g.services : g.services[i].pmt = q
      BY <2>3, SettledIs
    <3> QED BY <1>1, <2>3, <2>4, <3>1, SettledIs DEF Settled
  <2>6. Grows(f, g)
    BY <2>3 DEF Grows, Richer
  <2> QED BY <2>3, <2>5, <2>6
<1>3. CASE ~(Cardinality(f.known) < MaxServices + 2)
  <2>1. g = f
    BY <1>3 DEF WithContext
  <2>2. p \in f.known \/ TableFull(f)
    BY <1>3, ContextsFull
  <2> QED BY <2>1, <2>2, GrowsNot
<1> QED BY <1>2, <1>3

LEMMA ProgrammeGrows ==
  ASSUME Agreed, NEW f \in Settled, NEW e \in Programmes,
         e = [id |-> e.id, pid |-> e.pid]
  PROVE  /\ Programme(f, e) \in Settled /\ Grows(f, Programme(f, e))
         /\ ToldProgramme(Programme(f, e), e)
<1> DEFINE v == Found(f, e.id)
           w == [v EXCEPT !.pmt = e.pid, !.here = TRUE]
           g == Updated(f, e.id, w)
           h == WithContext(g, e.pid)
<1>1. v \in ServiceRecords /\ IsOnAir(e.id, v)
  BY SettledIs, FoundIsOnAir DEF OnAir
<1>2. v.ca # None => v.scrambled
  BY SettledIs, NewIs DEF Found
<1>3. Programme(f, e) = IF e.id \in DOMAIN g.services THEN h ELSE g
  BY DEF Programme
<1> HIDE DEF v
<1>4. w \in ServiceRecords
  BY <1>1 DEF ServiceRecords
<1>5. IsOnAir(e.id, w)
  BY <1>1 DEF IsOnAir, Kinds, ServiceRecords
<1>6. /\ w.pmt = e.pid /\ e.pid # None /\ w.ca = v.ca /\ w.scrambled = v.scrambled
      /\ w.name = v.name /\ \A kind \in Kinds : w[kind] = v[kind]
  BY <1>1 DEF ServiceRecords, Kinds, Agreed
<1> HIDE DEF w
<1>7. w \in OnAir(e.id) /\ e.id \in Ids /\ e.pid \in PidsNamed
  BY <1>4, <1>5 DEF OnAir, Ids, PidsNamed
<1>8. Richer(v, w) /\ (w.ca # None => w.scrambled)
  BY <1>2, <1>6 DEF Richer
<1>9. /\ g \in Settled /\ Grows(f, g)
      /\ ~HasRoomFor(g, e.id) \/ (e.id \in DOMAIN g.services /\ g.services[e.id] = w)
  <2>1. Richer(Found(f, e.id), w)
    BY <1>8 DEF v
  <2> QED BY <2>1, <1>7, <1>8, UpdatedGrows
<1> HIDE DEF g
<1>10. CASE e.id \notin DOMAIN g.services
  <2>1. Programme(f, e) = g /\ ~HasRoomFor(g, e.id)
    BY <1>3, <1>9, <1>10
  <2> QED BY <2>1, <1>9 DEF ToldProgramme
<1>11. CASE e.id \in DOMAIN g.services
  <2>1. g.services[e.id] = w
    BY <1>9, <1>11 DEF HasRoomFor
  <2>2. /\ h \in Settled /\ Grows(g, h) /\ h.services = g.services
        /\ e.pid \in h.known \/ TableFull(h)
    BY <2>1, <1>6, <1>7, <1>9, <1>11, WithContextGrows
  <2> HIDE DEF h
  <2>3. ToldProgramme(h, e)
    BY <2>1, <2>2, <1>6, <1>11 DEF ToldProgramme
  <2> QED BY <2>2, <2>3, <1>3, <1>9, <1>11, GrowsTwice
<1> QED BY <1>10, <1>11

LEMMA PatTells ==
  ASSUME Agreed, NEW f \in Settled, NEW s \in Broadcast("PAT"), HasFields(s)
  PROVE  /\ ParsePat(f, s) \in Settled /\ Grows(f, ParsePat(f, s))
         /\ Tells(ParsePat(f, s), s)
<1>1. /\ s.table = "PAT" /\ IsList(s.programmes)
      /\ \A e \in ToSet(s.programmes) : e = [id |-> e.id, pid |-> e.pid]
  BY DEF Broadcast, HasFields
<1>2. ToSet(s.programmes) \subseteq Programmes
  BY DEF Programmes
<1> DEFINE n == Len(s.programmes)  seq == s.programmes  g == ParsePat(f, s)
<1>3. n \in Nat /\ DOMAIN seq = 1..n /\ \A i \in 1..n : seq[i] \in ToSet(seq)
  BY <1>1, Listed
<1>4. ASSUME NEW i \in 1..n, NEW x \in Settled
      PROVE  /\ Programme(x, seq[i]) \in Settled /\ Grows(x, Programme(x, seq[i]))
             /\ ToldProgramme(Programme(x, seq[i]), seq[i])
  BY <1>1, <1>2, <1>3, ProgrammeGrows
<1> HIDE DEF n
<1>5. PICK c : ChainOfProgramme(c, Settled, n, f, seq) /\ c[n] = g
  <2>1. g = FoldLeft(Programme, f, seq)
    BY DEF ParsePat
  <2> HIDE DEF g, seq
  <2>2. \E c : ChainOfProgramme(c, Settled, n, f, seq) /\ c[n] = FoldLeft(Programme, f, seq)
    BY <1>3, <1>4, ProgrammeFolds
  <2> QED BY <2>1, <2>2
<1>6. /\ c \in [0..n -> Settled] /\ c[0] = f
      /\ \A k \in 1..n : c[k] = Programme(c[k - 1], seq[k]) /\ c[k - 1] \in Settled
  BY <1>3, <1>5 DEF ChainOfProgramme
<1> HIDE DEF g, seq
<1>7. \A k \in 0..n : Grows(c[0], c[k]) /\ Grows(c[k], c[n])
  <2>1. \A k \in 1..n : Grows(c[k - 1], c[k])
    BY <1>4, <1>6
  <2> QED BY <1>3, <2>1, ChainGrows
<1>8. g \in Settled /\ Grows(f, g)
  <2>1. n \in 0..n
    BY <1>3
  <2> QED BY <2>1, <1>5, <1>6, <1>7
<1>9. ASSUME NEW i \in 1..n PROVE ToldProgramme(g, seq[i])
  <2>1. ToldProgramme(c[i], seq[i]) /\ i \in 0..n
    BY <1>4, <1>6
  <2>2. c[i] \in Settled /\ Grows(c[i], g)
    BY <2>1, <1>5, <1>6, <1>7
  <2>3. seq[i] \in Programmes
    BY <1>2, <1>3 DEF seq
  <2> QED BY <2>1, <2>2, <2>3, <1>8, ProgrammeStays
<1>10. \A e \in ToSet(s.programmes) : ToldProgramme(g, e)
  BY <1>3, <1>9 DEF ToSet, seq
<1>11. Tells(g, s)
  BY <1>1, <1>10 DEF Tells, ToldProgramme
<1> QED BY <1>8, <1>11 DEF g

(* The SDT: each entry.                                                    *)
ToldEntry(f, e) ==
  \/ ~HasRoomFor(f, e.id)
  \/ e.id \in DOMAIN f.services /\ f.services[e.id].name = e.name
     /\ (e.scrambled => f.services[e.id].scrambled)

LEMMA EntryStays ==
  ASSUME Agreed, NEW f \in Settled, NEW g \in Settled, Grows(f, g), NEW e \in Entries,
         ToldEntry(f, e)
  PROVE  ToldEntry(g, e)
<1>1. CASE ~HasRoomFor(f, e.id)
  BY <1>1, RoomStays DEF ToldEntry
<1>2. CASE HasRoomFor(f, e.id)
  <2>1. /\ e.id \in DOMAIN f.services /\ f.services[e.id].name = e.name /\ e.name # None
        /\ e.scrambled => f.services[e.id].scrambled
    BY <1>2 DEF ToldEntry, Agreed
  <2>2. e.id \in DOMAIN g.services /\ g.services[e.id].name = e.name
    BY <2>1, NameStays
  <2>3. e.scrambled => g.services[e.id].scrambled
    BY <2>1 DEF Grows, Richer
  <2> QED BY <2>2, <2>3 DEF ToldEntry
<1> QED BY <1>1, <1>2

LEMMA DescribedGrows ==
  ASSUME Agreed, NEW f \in Settled, NEW e \in Entries, e.scrambled \in BOOLEAN
  PROVE  /\ Described(f, e) \in Settled /\ Grows(f, Described(f, e))
         /\ ToldEntry(Described(f, e), e)
<1> DEFINE v == Found(f, e.id)
           w == [v EXCEPT !.scrambled = v.scrambled \/ e.scrambled, !.name = e.name]
           g == Described(f, e)
<1>1. v \in ServiceRecords /\ IsOnAir(e.id, v)
  BY SettledIs, FoundIsOnAir DEF OnAir
<1>2. v.ca # None => v.scrambled
  BY SettledIs, NewIs DEF Found
<1>3. g = Updated(f, e.id, w)
  BY DEF Described, FlagAdded
<1> HIDE DEF v, g
<1>4. w \in ServiceRecords
  BY <1>1 DEF ServiceRecords
<1>5. IsOnAir(e.id, w)
  BY <1>1 DEF IsOnAir, Kinds, ServiceRecords
<1>6. /\ w.pmt = v.pmt /\ e.name # None /\ w.ca = v.ca /\ w.name = e.name
      /\ w.scrambled = (v.scrambled \/ e.scrambled)
      /\ \A kind \in Kinds : w[kind] = v[kind]
  BY <1>1 DEF ServiceRecords, Kinds, Agreed
<1> HIDE DEF w
<1>7. w \in OnAir(e.id) /\ e.id \in Ids
  BY <1>4, <1>5 DEF OnAir, Ids
<1>8. Richer(v, w) /\ (w.ca # None => w.scrambled)
  BY <1>2, <1>6 DEF Richer
<1>9. /\ g \in Settled /\ Grows(f, g)
      /\ ~HasRoomFor(g, e.id) \/ (e.id \in DOMAIN g.services /\ g.services[e.id] = w)
  <2>1. Richer(Found(f, e.id), w)
    BY <1>8 DEF v
  <2> QED BY <2>1, <1>3, <1>7, <1>8, UpdatedGrows
<1>10. ToldEntry(g, e)
  BY <1>6, <1>9 DEF ToldEntry
<1> QED BY <1>9, <1>10 DEF g

LEMMA SdtTells ==
  ASSUME Agreed, NEW f \in Settled, NEW s \in Broadcast("SDT"), HasFields(s)
  PROVE  /\ ParseSdt(f, s) \in Settled /\ Grows(f, ParseSdt(f, s))
         /\ Tells(ParseSdt(f, s), s)
<1>1. /\ s.table = "SDT" /\ IsList(s.entries)
      /\ \A e \in ToSet(s.entries) : e.scrambled \in BOOLEAN
  BY DEF Broadcast, HasFields
<1>2. ToSet(s.entries) \subseteq Entries
  BY DEF Entries
<1> DEFINE n == Len(s.entries)  seq == s.entries  g == ParseSdt(f, s)
<1>3. n \in Nat /\ DOMAIN seq = 1..n /\ \A i \in 1..n : seq[i] \in ToSet(seq)
  BY <1>1, Listed
<1>4. ASSUME NEW i \in 1..n, NEW x \in Settled
      PROVE  /\ Described(x, seq[i]) \in Settled /\ Grows(x, Described(x, seq[i]))
             /\ ToldEntry(Described(x, seq[i]), seq[i])
  BY <1>1, <1>2, <1>3, DescribedGrows
<1> HIDE DEF n
<1>5. PICK c : ChainOfDescribed(c, Settled, n, f, seq) /\ c[n] = g
  <2>1. g = FoldLeft(Described, f, seq)
    BY DEF ParseSdt
  <2> HIDE DEF g, seq
  <2>2. \E c : ChainOfDescribed(c, Settled, n, f, seq) /\ c[n] = FoldLeft(Described, f, seq)
    BY <1>3, <1>4, DescribedFolds
  <2> QED BY <2>1, <2>2
<1>6. /\ c \in [0..n -> Settled] /\ c[0] = f
      /\ \A k \in 1..n : c[k] = Described(c[k - 1], seq[k]) /\ c[k - 1] \in Settled
  BY <1>3, <1>5 DEF ChainOfDescribed
<1> HIDE DEF g, seq
<1>7. \A k \in 0..n : Grows(c[0], c[k]) /\ Grows(c[k], c[n])
  <2>1. \A k \in 1..n : Grows(c[k - 1], c[k])
    BY <1>4, <1>6
  <2> QED BY <1>3, <2>1, ChainGrows
<1>8. g \in Settled /\ Grows(f, g)
  <2>1. n \in 0..n
    BY <1>3
  <2> QED BY <2>1, <1>5, <1>6, <1>7
<1>9. ASSUME NEW i \in 1..n PROVE ToldEntry(g, seq[i])
  <2>1. ToldEntry(c[i], seq[i]) /\ i \in 0..n
    BY <1>4, <1>6
  <2>2. c[i] \in Settled /\ Grows(c[i], g)
    BY <2>1, <1>5, <1>6, <1>7
  <2>3. seq[i] \in Entries
    BY <1>2, <1>3 DEF seq
  <2> QED BY <2>1, <2>2, <2>3, <1>8, EntryStays
<1>10. \A e \in ToSet(s.entries) : ToldEntry(g, e)
  BY <1>3, <1>9 DEF ToSet, seq
<1>11. Tells(g, s)
  BY <1>1, <1>10 DEF Tells, ToldEntry
<1> QED BY <1>8, <1>11 DEF g

(* The NIT: the carriers of each transport.                                *)
CarriersFull(f) == Cardinality(f.carriers) = MaxCarriers

LEMMA CarriersStay ==
  ASSUME NEW f \in Settled, NEW g \in Settled, Grows(f, g), CarriersFull(f)
  PROVE  CarriersFull(g)
<1>1. f.carriers \in SUBSET g.carriers
  BY DEF Grows
<1>2. Cardinality(f.carriers) <= Cardinality(g.carriers)
  BY <1>1, SettledIs, FS_Subset
<1> QED BY <1>2, SettledIs, TablesAssumption DEF CarriersFull

LEMMA CarrierGrows ==
  ASSUME NEW f \in Settled, NEW c \in Carriers
  PROVE  /\ Carrier(f, c) \in Settled /\ Grows(f, Carrier(f, c))
         /\ c \in Carrier(f, c).carriers \/ CarriersFull(Carrier(f, c))
<1> DEFINE g == Carrier(f, c)
<1>1. g \in Results
  BY SettledIs, CarrierIsOnAir
<1>2. CASE Cardinality(f.carriers) < MaxCarriers
  <2>1. g = [f EXCEPT !.carriers = f.carriers \union {c}]
    BY <1>2 DEF Carrier
  <2>2. g = [services |-> f.services, carriers |-> f.carriers \union {c}, known |-> f.known]
    BY <2>1, ResultWith, SettledIs
  <2> HIDE DEF g
  <2>3. /\ g.services = f.services /\ g.carriers = f.carriers \union {c}
        /\ g.known = f.known
    BY <2>2
  <2>4. IsFiniteSet(g.carriers) /\ Cardinality(g.carriers) <= MaxCarriers
    <3>1. IsFiniteSet(f.carriers) /\ Cardinality(f.carriers) \in Nat
      BY SettledIs
    <3>2. /\ IsFiniteSet(f.carriers \union {c})
          /\ Cardinality(f.carriers \union {c}) \in Nat
          /\ Cardinality(f.carriers \union {c}) <= Cardinality(f.carriers) + 1
      BY <3>1, OneMore
    <3> QED BY <3>1, <3>2, <2>3, <1>2, TablesAssumption
  <2>5. g \in Settled
    BY <1>1, <2>3, <2>4, SettledIs, ZenonT(60) DEF Settled, g
  <2>6. Grows(f, g)
    BY <2>3 DEF Grows, Richer
  <2> QED BY <2>3, <2>5, <2>6 DEF g
<1>3. CASE ~(Cardinality(f.carriers) < MaxCarriers)
  <2>1. g = f
    BY <1>3 DEF Carrier
  <2>2. CarriersFull(f)
    BY <1>3, SettledIs, TablesAssumption DEF CarriersFull
  <2> QED BY <2>1, <2>2, GrowsNot
<1> QED BY <1>2, <1>3

LEMMA TransportGrows ==
  ASSUME NEW f \in Settled, NEW s \in Broadcast("NIT"), NEW t \in ToSet(s.transports),
         IsList(t)
  PROVE  /\ Transport(f, t) \in Settled /\ Grows(f, Transport(f, t))
         /\ Named(t) \subseteq Transport(f, t).carriers \/ CarriersFull(Transport(f, t))
<1> DEFINE seq == SetToSeq(Named(t))
           n == Cardinality(Named(t))
           g == Transport(f, t)
<1>1. /\ n \in Nat /\ seq \in [1..n -> Named(t)]
      /\ \A x \in Named(t) : \E i \in 1..n : seq[i] = x
  BY NamedIs
<1>2. Named(t) \subseteq Carriers
  BY DEF Carriers
<1>3. g = FoldLeft(Carrier, f, seq)
  BY DEF Transport
<1> HIDE DEF seq, n, g
<1>4. ASSUME NEW i \in 1..n, NEW x \in Settled
      PROVE  /\ Carrier(x, seq[i]) \in Settled /\ Grows(x, Carrier(x, seq[i]))
             /\ seq[i] \in Carrier(x, seq[i]).carriers \/ CarriersFull(Carrier(x, seq[i]))
  BY <1>1, <1>2, CarrierGrows
<1>5. PICK c : ChainOfCarrier(c, Settled, n, f, seq) /\ c[n] = g
  <2>1. DOMAIN seq = 1..n
    BY <1>1
  <2>2. \E c : ChainOfCarrier(c, Settled, n, f, seq) /\ c[n] = FoldLeft(Carrier, f, seq)
    <3>1. \A x \in Settled : \A i \in 1..n : Carrier(x, seq[i]) \in Settled
      BY <1>4
    <3> QED BY <1>1, <2>1, <3>1, CarrierFolds, ZenonT(60)
  <2> QED BY <2>2, <1>3
<1>6. /\ c \in [0..n -> Settled] /\ c[0] = f
      /\ \A k \in 1..n : c[k] = Carrier(c[k - 1], seq[k]) /\ c[k - 1] \in Settled
  BY <1>1, <1>5 DEF ChainOfCarrier
<1>7. \A k \in 0..n : Grows(c[0], c[k]) /\ Grows(c[k], c[n])
  <2>1. \A k \in 1..n : Grows(c[k - 1], c[k])
    BY <1>4, <1>6
  <2> QED BY <1>1, <2>1, ChainGrows
<1>8. g \in Settled /\ Grows(f, g)
  <2>1. n \in 0..n
    BY <1>1
  <2> QED BY <2>1, <1>5, <1>6, <1>7
<1>9. ASSUME NEW i \in 1..n, ~CarriersFull(g) PROVE seq[i] \in g.carriers
  <2>1. (seq[i] \in c[i].carriers \/ CarriersFull(c[i])) /\ i \in 0..n
    BY <1>4, <1>6
  <2>2. c[i] \in Settled /\ Grows(c[i], g)
    BY <2>1, <1>5, <1>6, <1>7
  <2>3. ~CarriersFull(c[i])
    BY <2>2, <1>8, <1>9, CarriersStay
  <2> QED BY <2>1, <2>2, <2>3 DEF Grows
<1>10. ~CarriersFull(g) => Named(t) \subseteq g.carriers
  BY <1>1, <1>9
<1> QED BY <1>8, <1>10 DEF g

LEMMA NitTells ==
  ASSUME NEW f \in Settled, NEW s \in Broadcast("NIT"), HasFields(s)
  PROVE  /\ ParseNit(f, s) \in Settled /\ Grows(f, ParseNit(f, s))
         /\ Tells(ParseNit(f, s), s)
<1>1. /\ s.table = "NIT" /\ IsList(s.transports)
      /\ \A t \in ToSet(s.transports) : IsList(t)
  BY DEF Broadcast, HasFields
<1> DEFINE n == Len(s.transports)  seq == s.transports  g == ParseNit(f, s)
<1>3. n \in Nat /\ DOMAIN seq = 1..n /\ \A i \in 1..n : seq[i] \in ToSet(seq)
  BY <1>1, Listed
<1>4. ASSUME NEW i \in 1..n, NEW x \in Settled
      PROVE  /\ Transport(x, seq[i]) \in Settled /\ Grows(x, Transport(x, seq[i]))
             /\ \/ Named(seq[i]) \subseteq Transport(x, seq[i]).carriers
                \/ CarriersFull(Transport(x, seq[i]))
  BY <1>1, <1>3, TransportGrows
<1> HIDE DEF n
<1>5. PICK c : ChainOfTransport(c, Settled, n, f, seq) /\ c[n] = g
  <2>1. g = FoldLeft(Transport, f, seq)
    BY DEF ParseNit
  <2> HIDE DEF g, seq
  <2>2. \E c : ChainOfTransport(c, Settled, n, f, seq) /\ c[n] = FoldLeft(Transport, f, seq)
    BY <1>3, <1>4, TransportFolds
  <2> QED BY <2>1, <2>2
<1>6. /\ c \in [0..n -> Settled] /\ c[0] = f
      /\ \A k \in 1..n : c[k] = Transport(c[k - 1], seq[k]) /\ c[k - 1] \in Settled
  BY <1>3, <1>5 DEF ChainOfTransport
<1> HIDE DEF g, seq
<1>7. \A k \in 0..n : Grows(c[0], c[k]) /\ Grows(c[k], c[n])
  <2>1. \A k \in 1..n : Grows(c[k - 1], c[k])
    BY <1>4, <1>6
  <2> QED BY <1>3, <2>1, ChainGrows
<1>8. g \in Settled /\ Grows(f, g)
  <2>1. n \in 0..n
    BY <1>3
  <2> QED BY <2>1, <1>5, <1>6, <1>7
<1>9. ASSUME NEW i \in 1..n PROVE Named(seq[i]) \subseteq g.carriers \/ CarriersFull(g)
  <2>1. (Named(seq[i]) \subseteq c[i].carriers \/ CarriersFull(c[i])) /\ i \in 0..n
    <3>1. c[i] = Transport(c[i - 1], seq[i]) /\ c[i - 1] \in Settled /\ i \in 0..n
      BY <1>6
    <3>2. \/ Named(seq[i]) \subseteq Transport(c[i - 1], seq[i]).carriers
          \/ CarriersFull(Transport(c[i - 1], seq[i]))
      BY <3>1, <1>4
    <3> QED BY <3>1, <3>2
  <2>2. c[i] \in Settled /\ Grows(c[i], g)
    BY <2>1, <1>5, <1>6, <1>7
  <2> QED BY <2>1, <2>2, <1>8, CarriersStay DEF Grows
<1>11. Tells(g, s)
  BY <1>1, <1>3, <1>9 DEF Tells, CarriersFull, seq
<1> QED BY <1>8, <1>11 DEF g

(* The PMT: its streams and its CA system.                                 *)
LEMMA StreamKeeps ==
  ASSUME Agreed, NEW s \in Broadcast("PMT"), NEW v \in OnAir(s.id),
         NEW e \in ToSet(s.streams),
         e = [kind |-> e.kind, pid |-> e.pid], e.kind \in Kinds
  PROVE  /\ Richer(v, Stream(v, e)) /\ Stream(v, e)[e.kind] # None
         /\ Stream(v, e).ca = v.ca /\ Stream(v, e).scrambled = v.scrambled
<1> DEFINE w == [v EXCEPT ![e.kind] = e.pid]
<1>1. v \in ServiceRecords /\ e.kind \in {"video", "audio", "teletext"} /\ e.pid # None
  BY DEF OnAir, Kinds, Agreed
<1>2. \A kind \in Kinds : w[kind] = IF kind = e.kind THEN e.pid ELSE v[kind]
  BY <1>1 DEF ServiceRecords, Kinds
<1>3. w.pmt = v.pmt /\ w.ca = v.ca /\ w.scrambled = v.scrambled /\ w.name = v.name
  BY <1>1 DEF ServiceRecords
<1>4. Stream(v, e) = IF v[e.kind] = None THEN w ELSE v
  BY DEF Stream
<1> HIDE DEF w
<1>5. Richer(v, w) /\ Richer(v, v) /\ w[e.kind] # None
  BY <1>1, <1>2, <1>3 DEF Richer
<1> QED BY <1>3, <1>4, <1>5

LEMMA NamesCaKeeps ==
  ASSUME NEW v \in ServiceRecords, NEW cas, v.ca # None => v.scrambled
  PROVE  /\ Richer(v, NamesCa(v, cas))
         /\ NamesCa(v, cas).ca # None => NamesCa(v, cas).scrambled
         /\ cas # <<>> => NamesCa(v, cas).scrambled
<1> DEFINE w == [v EXCEPT !.ca = Head(cas), !.scrambled = TRUE]
<1>1. /\ w.pmt = v.pmt /\ w.name = v.name /\ w.scrambled
      /\ \A kind \in Kinds : w[kind] = v[kind]
  BY DEF ServiceRecords, Kinds
<1>2. NamesCa(v, cas) = IF v.ca # None \/ cas = <<>> THEN v ELSE w
  BY DEF NamesCa
<1> HIDE DEF w
<1>3. Richer(v, w) /\ Richer(v, v)
  BY <1>1 DEF Richer
<1> QED BY <1>1, <1>2, <1>3

LEMMA PmtTells ==
  ASSUME Agreed, NEW f \in Settled, NEW s \in Broadcast("PMT"), HasFields(s)
  PROVE  /\ ParsePmt(f, s) \in Settled /\ Grows(f, ParsePmt(f, s))
         /\ Tells(ParsePmt(f, s), s)
<1> DEFINE n == Len(s.streams)
           seq == s.streams
           v == Found(f, s.id)
           here == [v EXCEPT !.here = TRUE]
           w == NamesCa(here, s.cas)
           x == FoldLeft(Stream, w, seq)
           V == {u \in OnAir(s.id) : /\ Richer(v, u) /\ (u.ca # None => u.scrambled)
                                     /\ (s.cas # <<>> => u.scrambled)}
<1>1. /\ s.table = "PMT" /\ IsList(s.cas) /\ None \notin ToSet(s.cas)
      /\ IsList(s.streams)
      /\ \A e \in ToSet(s.streams) :
           e = [kind |-> e.kind, pid |-> e.pid] /\ e.kind \in Kinds
  BY DEF Broadcast, HasFields
<1>2. v \in ServiceRecords /\ IsOnAir(s.id, v) /\ (v.ca # None => v.scrambled)
  <2>1. v \in ServiceRecords /\ IsOnAir(s.id, v)
    BY SettledIs, FoundIsOnAir DEF OnAir
  <2>2. v.ca # None => v.scrambled
    BY SettledIs, NewIs DEF Found
  <2> QED BY <2>1, <2>2
<1>3. ParsePmt(f, s) = Updated(f, s.id, x)
  BY DEF ParsePmt
<1> HIDE DEF v
<1>4. /\ here \in OnAir(s.id) /\ Richer(v, here) /\ here.ca = v.ca
      /\ here.scrambled = v.scrambled
  <2>1. here \in ServiceRecords
    BY <1>2 DEF ServiceRecords
  <2>2. s \in Pmts(s.id)
    BY DEF Pmts
  <2>3. IsOnAir(s.id, here)
    BY <1>2, <2>2 DEF IsOnAir, Kinds, ServiceRecords
  <2>4. /\ here.ca = v.ca /\ here.scrambled = v.scrambled /\ here.pmt = v.pmt
        /\ here.name = v.name /\ \A kind \in Kinds : here[kind] = v[kind]
    BY <1>2 DEF ServiceRecords, Kinds
  <2> HIDE DEF here
  <2> QED BY <2>1, <2>3, <2>4 DEF OnAir, Richer
<1> HIDE DEF here
<1>5. w \in V
  <2>1. w \in OnAir(s.id)
    BY <1>1, <1>4, NamesCaIsOnAir
  <2>2. here \in ServiceRecords /\ (here.ca # None => here.scrambled)
    BY <1>2, <1>4 DEF OnAir
  <2>3. Richer(here, w) /\ (w.ca # None => w.scrambled) /\ (s.cas # <<>> => w.scrambled)
    BY <2>2, NamesCaKeeps
  <2>4. Richer(v, w)
    BY <2>3, <1>4, RicherTwice
  <2> HIDE DEF w
  <2> QED BY <2>1, <2>3, <2>4
<1> HIDE DEF w
<1>6. n \in Nat /\ DOMAIN seq = 1..n /\ \A i \in 1..n : seq[i] \in ToSet(seq)
  BY <1>1, Listed
<1>7. ASSUME NEW i \in 1..n, NEW u \in V
      PROVE  /\ Stream(u, seq[i]) \in V /\ Richer(u, Stream(u, seq[i]))
             /\ Stream(u, seq[i])[seq[i].kind] # None /\ seq[i].kind \in Kinds
  <2> DEFINE e == seq[i]  y == Stream(u, e)
  <2>1. /\ e \in ToSet(s.streams) /\ e = [kind |-> e.kind, pid |-> e.pid]
        /\ e.kind \in Kinds
    BY <1>1, <1>6
  <2> HIDE DEF e
  <2>2. y \in OnAir(s.id)
    BY <2>1, StreamIsOnAir
  <2>3. Richer(u, y) /\ y[e.kind] # None /\ y.ca = u.ca /\ y.scrambled = u.scrambled
    BY <2>1, StreamKeeps
  <2> HIDE DEF y
  <2>4. Richer(v, y)
    BY <2>3, RicherTwice
  <2>5. y \in V
    BY <2>2, <2>3, <2>4
  <2> QED BY <2>1, <2>3, <2>5 DEF y, e
<1> HIDE DEF n, V
<1>8. PICK c : ChainOfStream(c, V, n, w, seq) /\ c[n] = x
  <2> HIDE DEF seq
  <2>1. \A u \in V : \A i \in 1..n : Stream(u, seq[i]) \in V
    BY <1>7
  <2> QED BY <1>5, <1>6, <2>1, StreamFolds
<1> HIDE DEF x
<1>9. /\ c \in [0..n -> V] /\ \A k \in 1..n : c[k] = Stream(c[k - 1], seq[k]) /\ c[k - 1] \in V
  BY <1>6, <1>8 DEF ChainOfStream
<1> HIDE DEF seq
<1>10. x \in V
  <2>1. n \in 0..n
    BY <1>6
  <2> QED BY <2>1, <1>8, <1>9
<1>11. ASSUME NEW m \in 1..n PROVE x[seq[m].kind] # None
  <2> DEFINE G == {k \in 1..n : k >= m => c[k][seq[m].kind] # None}
  <2>1. ASSUME NEW k \in 1..n, k - 1 >= m => c[k - 1][seq[m].kind] # None
        PROVE  k \in G
    <3>1. c[k] = Stream(c[k - 1], seq[k]) /\ c[k - 1] \in V
      BY <1>9
    <3>2. CASE k = m
      BY <3>1, <3>2, <1>7
    <3>3. CASE k > m
      <4>1. c[k - 1][seq[m].kind] # None
        BY <3>3, <2>1, <1>6
      <4>2. Richer(c[k - 1], c[k]) /\ seq[m].kind \in Kinds
        BY <3>1, <1>7
      <4> QED BY <4>1, <4>2 DEF Richer
    <3>4. CASE k < m
      BY <3>4, <1>6
    <3> QED BY <3>2, <3>3, <3>4, <1>6
  <2>2. 1 \in 1..n /\ ~(1 - 1 >= m)
    BY <1>6
  <2>3. 1 \in G
    BY <2>1, <2>2
  <2>4. ASSUME NEW k \in 1..n, k \in G, k < n PROVE k + 1 \in G
    <3>1. k + 1 \in 1..n /\ (k + 1) - 1 = k
      BY <1>6, <2>4
    <3> QED BY <3>1, <2>1, <2>4
  <2>5. 1..n \subseteq G
    <3> HIDE DEF G
    <3> QED BY <1>6, <2>3, <2>4, UpTo
  <2>6. n \in 1..n /\ n >= m
    BY <1>6
  <2>7. c[n][seq[m].kind] # None
    BY <2>5, <2>6
  <2> QED BY <2>7, <1>8
<1> DEFINE g == ParsePmt(f, s)
<1>12. /\ x \in OnAir(s.id) /\ Richer(v, x) /\ (x.ca # None => x.scrambled)
       /\ (s.cas # <<>> => x.scrambled) /\ s.id \in Ids
  BY <1>10 DEF V, Ids
<1> HIDE DEF V, g
<1>13. /\ g \in Settled /\ Grows(f, g)
       /\ ~HasRoomFor(g, s.id) \/ (s.id \in DOMAIN g.services /\ g.services[s.id] = x)
  <2>1. Richer(Found(f, s.id), x) /\ g = Updated(f, s.id, x)
    BY <1>3, <1>12 DEF v, g
  <2> QED BY <2>1, <1>12, UpdatedGrows
<1>14. \A e \in ToSet(s.streams) : x[e.kind] # None
  BY <1>6, <1>11 DEF ToSet, seq
<1>15. Tells(g, s)
  BY <1>1, <1>12, <1>13, <1>14 DEF Tells
<1> QED BY <1>13, <1>15 DEF g

(* Whatever a result tells, each later one tells.                          *)
LEMMA PmtTellingStays ==
  ASSUME NEW f \in Settled, NEW g, Grows(f, g), NEW s \in Broadcast("PMT"),
         HasFields(s),
         Tells(f, s)
  PROVE  Tells(g, s)
<1>1. s.table = "PMT" /\ \A e \in ToSet(s.streams) : e.kind \in Kinds
  BY DEF Broadcast, HasFields
<1>2. CASE ~HasRoomFor(f, s.id)
  BY <1>1, <1>2, RoomStays DEF Tells
<1>3. CASE HasRoomFor(f, s.id)
  <2>1. /\ s.id \in DOMAIN f.services
        /\ \A e \in ToSet(s.streams) : f.services[s.id][e.kind] # None
        /\ s.cas # <<>> => f.services[s.id].scrambled
    BY <1>1, <1>3 DEF Tells
  <2>2. s.id \in DOMAIN g.services /\ Richer(f.services[s.id], g.services[s.id])
    BY <2>1 DEF Grows
  <2>3. /\ \A e \in ToSet(s.streams) : g.services[s.id][e.kind] # None
        /\ s.cas # <<>> => g.services[s.id].scrambled
    BY <1>1, <2>1, <2>2 DEF Richer
  <2> QED BY <1>1, <2>2, <2>3 DEF Tells
<1> QED BY <1>2, <1>3

LEMMA TellingStays ==
  ASSUME Agreed, WellFormed, NEW f \in Settled, NEW g \in Settled, Grows(f, g),
         NEW p \in Pids, NEW k \in DOMAIN Carousel[p], Tells(f, Carousel[p][k])
  PROVE  Tells(g, Carousel[p][k])
<1> DEFINE s == Carousel[p][k]
<1>1. /\ s \in Broadcast(s.table) /\ HasFields(s)
      /\ s.table \in {"PAT", "SDT", "PMT", "NIT"}
  BY SectionIs
<1> SUFFICES Tells(g, s)
  OBVIOUS
<1>2. Tells(f, s)
  OBVIOUS
<1> HIDE DEF s
<1>3. CASE s.table = "PAT"
  <2>1. s \in Broadcast("PAT") /\ \A e \in ToSet(s.programmes) : ToldProgramme(f, e)
    BY <1>1, <1>2, <1>3 DEF Tells, ToldProgramme
  <2>2. ToSet(s.programmes) \subseteq Programmes
    BY <2>1 DEF Programmes
  <2>3. \A e \in ToSet(s.programmes) : ToldProgramme(g, e)
    BY <2>1, <2>2, ProgrammeStays
  <2> QED BY <1>3, <2>3 DEF Tells, ToldProgramme
<1>4. CASE s.table = "SDT"
  <2>1. s \in Broadcast("SDT") /\ \A e \in ToSet(s.entries) : ToldEntry(f, e)
    BY <1>1, <1>2, <1>4 DEF Tells, ToldEntry
  <2>2. ToSet(s.entries) \subseteq Entries
    BY <2>1 DEF Entries
  <2>3. \A e \in ToSet(s.entries) : ToldEntry(g, e)
    BY <2>1, <2>2, EntryStays
  <2> QED BY <1>4, <2>3 DEF Tells, ToldEntry
<1>5. CASE s.table = "PMT"
  BY <1>1, <1>2, <1>5, PmtTellingStays
<1>6. CASE s.table = "NIT"
  <2>1. \A i \in DOMAIN s.transports :
          Named(s.transports[i]) \subseteq f.carriers \/ CarriersFull(f)
    BY <1>2, <1>6 DEF Tells, CarriersFull
  <2>2. \A i \in DOMAIN s.transports :
          Named(s.transports[i]) \subseteq g.carriers \/ CarriersFull(g)
    BY <2>1, CarriersStay DEF Grows
  <2> QED BY <1>6, <2>2 DEF Tells, CarriersFull
<1> QED BY <1>1, <1>3, <1>4, <1>5, <1>6

LEMMA ParsedTells ==
  ASSUME Agreed, WellFormed, NEW f \in Settled, NEW p \in Pids,
         NEW k \in DOMAIN Carousel[p],
         NEW g, g = Parse(f, Carousel[p][k])
  PROVE  g \in Settled /\ Grows(f, g) /\ Tells(g, Carousel[p][k])
<1> DEFINE s == Carousel[p][k]
<1>1. /\ s \in Broadcast(s.table) /\ HasFields(s)
      /\ s.table \in {"PAT", "SDT", "PMT", "NIT"}
  BY SectionIs
<1> SUFFICES g \in Settled /\ Grows(f, g) /\ Tells(g, s)
  OBVIOUS
<1>2. g = Parse(f, s)
  OBVIOUS
<1> HIDE DEF s
<1>3. CASE s.table = "PAT"
  <2>1. g = ParsePat(f, s) /\ s \in Broadcast("PAT")
    BY <1>1, <1>2, <1>3 DEF Parse
  <2> QED BY <1>1, <2>1, PatTells
<1>4. CASE s.table = "SDT"
  <2>1. g = ParseSdt(f, s) /\ s \in Broadcast("SDT")
    BY <1>1, <1>2, <1>4 DEF Parse
  <2> QED BY <1>1, <2>1, SdtTells
<1>5. CASE s.table = "PMT"
  <2>1. g = ParsePmt(f, s) /\ s \in Broadcast("PMT")
    BY <1>1, <1>2, <1>5 DEF Parse
  <2> QED BY <1>1, <2>1, PmtTells
<1>6. CASE s.table = "NIT"
  <2>1. g = ParseNit(f, s) /\ s \in Broadcast("NIT")
    BY <1>1, <1>2, <1>6 DEF Parse
  <2> QED BY <1>1, <2>1, NitTells
<1> QED BY <1>1, <1>3, <1>4, <1>5, <1>6

-----------------------------------------------------------------------------
(* Then where the sections of a pid lie, as for the guide.                 *)
Opens(p, k) == Start(Carousel[p], k)
Closes(p, k) == Stop(Carousel[p], k)

LEMMA ScanLies ==
  ASSUME WellFormed, NEW p \in Pids
  PROVE  /\ Cycles[p] \in Seq(Cells) /\ Len(Cycles[p]) \in Nat
         /\ \A k \in DOMAIN Carousel[p] :
              /\ k \in Nat /\ k > 0 /\ Carousel[p][k].size \in Nat
              /\ Opens(p, k) \in Nat /\ Closes(p, k) \in Nat
              /\ Opens(p, k) < Closes(p, k)
              /\ Closes(p, k) <= Len(Cycles[p])
              /\ Closes(p, k) = Opens(p, k) + Carousel[p][k].size
              /\ \A j \in 1..Len(Cycles[p]) :
                   Opens(p, k) < j /\ j <= Closes(p, k) => Cycles[p][j] = CellOf(k, j - Opens(p, k))
         /\ \A j \in 1..Len(Cycles[p]) :
              \/ Cycles[p][j] = Stuffing
              \/ \E k \in DOMAIN Carousel[p] : Opens(p, k) < j /\ j <= Closes(p, k)
<1> DEFINE ss == Carousel[p]
<1>1. LaidOut(ss) /\ Cycles[p] = CycleOf(ss)
  BY ScanCycleIs
<1> HIDE DEF ss
<1>2. /\ CycleOf(ss) \in Seq(Cells) /\ Len(CycleOf(ss)) \in Nat
      /\ \A k \in DOMAIN ss :
           /\ Start(ss, k) \in Nat /\ Stop(ss, k) \in Nat /\ Start(ss, k) < Stop(ss, k)
           /\ Stop(ss, k) <= Len(CycleOf(ss)) /\ Stop(ss, k) = Start(ss, k) + ss[k].size
           /\ \A j \in 1..Len(CycleOf(ss)) :
                Start(ss, k) < j /\ j <= Stop(ss, k) => CycleOf(ss)[j] = CellOf(k, j - Start(ss, k))
      /\ \A j \in 1..Len(CycleOf(ss)) :
           CycleOf(ss)[j] = Stuffing \/ \E k \in DOMAIN ss : Start(ss, k) < j /\ j <= Stop(ss, k)
  BY <1>1, SectionsLieIn
<1>3. \A k \in DOMAIN ss : k \in Nat /\ k > 0 /\ ss[k].size \in Nat
  BY <1>1, LaidOutIs
<1> QED BY <1>1, <1>2, <1>3 DEF Opens, Closes, ss

LEMMA ScanApart ==
  ASSUME WellFormed, NEW p \in Pids, NEW k \in DOMAIN Carousel[p],
         NEW m \in DOMAIN Carousel[p],
         k # m
  PROVE  Closes(p, k) <= Opens(p, m) \/ Closes(p, m) <= Opens(p, k)
BY ScanCycleIs, ApartIn DEF Opens, Closes

LEMMA ScanStuffing ==
  ASSUME WellFormed, NEW p \in Pids, NEW k \in DOMAIN Carousel[p],
         NEW j \in 1..Len(Cycles[p]),
         Cycles[p][j] = Stuffing
  PROVE  ~(Opens(p, k) < j /\ j <= Closes(p, k))
BY ScanCycleIs, StuffingIsIn DEF Opens, Closes

LEMMA ScanPackets ==
  ASSUME WellFormed, NEW p \in Pids, Fills(p)
  PROVE  /\ Packed(Carousel[p]) /\ PacketsOf(p) = PacketsIn(Carousel[p])
         /\ PacketsOf(p) \in Nat /\ Room \in Nat /\ Room > 0
         /\ \A n : PayloadOf(p, n) = PacketIn(Carousel[p], n)
<1>1. Packed(Carousel[p])
  BY ScanCycleIs DEF Packed, Fills
<1>2. /\ PacketsOf(p) = PacketsIn(Carousel[p])
      /\ \A n : PayloadOf(p, n) = PacketIn(Carousel[p], n)
  BY ScanCycleIs DEF PacketsOf, PacketsIn, PayloadOf, PacketIn
<1> QED BY <1>1, <1>2, PacketsAreIn

(* Where the packets lie, and their pointers.                              *)
LEMMA ScanPayloadLies ==
  ASSUME WellFormed, NEW p \in Pids, Fills(p), NEW n \in 1..PacketsOf(p)
  PROVE  /\ Base(n) \in Nat /\ Base(n + 1) = Base(n) + Room
         /\ Base(n) + Room <= Len(Cycles[p])
         /\ Base(1) = 0
         /\ PayloadOf(p, n) \in Seq(Cells) /\ Len(PayloadOf(p, n)) = Room
         /\ \A i \in 1..Room : PayloadOf(p, n)[i] = Cycles[p][Base(n) + i]
BY ScanPackets, ScanCycleIs, BasesIn, PayloadIsIn

LEMMA ScanPointerLies ==
  ASSUME WellFormed, NEW p \in Pids, Fills(p), NEW n \in 1..PacketsOf(p),
         Starts(PayloadOf(p, n))
  PROVE  /\ PointerOf(PayloadOf(p, n)) \in 0..(Room - 1)
         /\ \E k \in DOMAIN Carousel[p] : Opens(p, k) = Base(n) + PointerOf(PayloadOf(p, n))
         /\ \A k \in DOMAIN Carousel[p] :
              Begun(Carousel[p], n, k) => Base(n) + PointerOf(PayloadOf(p, n)) <= Opens(p, k)
<1> DEFINE ss == Carousel[p]  m == PointerOf(PacketIn(ss, n))
<1>1. /\ Packed(ss) /\ n \in 1..PacketsIn(ss) /\ Starts(PacketIn(ss, n))
      /\ PointerOf(PayloadOf(p, n)) = m
  BY ScanPackets
<1>2. /\ m \in 0..(Room - 1)
      /\ \E k \in DOMAIN ss : Start(ss, k) = Base(n) + m
      /\ \A k \in DOMAIN ss : Begun(ss, n, k) => Base(n) + m <= Start(ss, k)
  <2> HIDE DEF ss
  <2> QED BY <1>1, PointerIsIn
<1> QED BY <1>1, <1>2 DEF Opens

(* Stuffing in a packet goes on to its end.                                *)
LEMMA StuffingGoesOn ==
  ASSUME WellFormed, NEW p \in Pids, Fills(p), NEW n \in 1..PacketsOf(p),
         NEW i \in 1..Room,
         PayloadOf(p, n)[i] = Stuffing
  PROVE  \A j \in i..Room : PayloadOf(p, n)[j] = Stuffing
<1> DEFINE Good == {m \in 1..Room : m >= i => PayloadOf(p, n)[m] = Stuffing}
<1>1. Room \in Nat /\ Room > 0 /\ i \in Nat /\ 1 <= i /\ i <= Room
  BY PacketAssumption
<1>2. 1 \in Good
  BY <1>1
<1>3. ASSUME NEW m \in 1..Room, m \in Good, m < Room PROVE m + 1 \in Good
  <2>1. CASE m + 1 = i
    BY <2>1, <1>1
  <2>2. CASE m + 1 # i /\ m + 1 >= i
    <3>1. m >= i /\ m \in 1..(Room - 1)
      BY <2>2, <1>1, <1>3
    <3>2. PayloadOf(p, n)[m] = Stuffing
      BY <3>1, <1>3
    <3> QED BY <3>1, <3>2, <1>1, <1>3 DEF Fills
  <2>3. CASE ~(m + 1 >= i)
    BY <2>3, <1>1, <1>3
  <2> QED BY <2>1, <2>2, <2>3
<1>4. 1..Room \subseteq Good
  <2> HIDE DEF Good
  <2> QED BY <1>1, <1>2, <1>3, UpTo
<1> QED BY <1>1, <1>4

-----------------------------------------------------------------------------
(* The assembler of a pid: whatever it is given, the result grows.         *)
Growing(p, f) == {acc \in Accumulators(p) : acc.f \in Settled /\ Grows(f, acc.f)}

LEMMA SectionGrows ==
  ASSUME Agreed, WellFormed, NEW f \in Settled, NEW p \in Pids, NEW cells
  PROVE  ParseSection(f, p, cells) \in Settled /\ Grows(f, ParseSection(f, p, cells))
<1>1. CASE ~CrcHolds(p, cells)
  BY <1>1, GrowsNot DEF ParseSection
<1>2. CASE CrcHolds(p, cells)
  <2>1. PICK k \in DOMAIN Carousel[p] : cells = CellsOf(Carousel[p][k], k)
    BY <1>2 DEF CrcHolds
  <2>2. 1 \in 1..Carousel[p][k].size
    BY SectionIs
  <2>3. cells[1].of = k
    BY <2>1, <2>2 DEF CellsOf
  <2>4. ParseSection(f, p, cells) = Parse(f, Carousel[p][k])
    BY <1>2, <2>3 DEF ParseSection
  <2> QED BY <2>4, ParsedTells
<1> QED BY <1>1, <1>2

LEMMA AppendedGrows ==
  ASSUME Agreed, WellFormed, NEW f, NEW p \in Pids, NEW guess \in Nat,
         NEW once \in BOOLEAN,
         NEW acc \in Growing(p, f), NEW cell \in Cells
  PROVE  /\ Appended(p, guess, once, acc, cell) \in Growing(p, f)
         /\ Grows(acc.f, Appended(p, guess, once, acc, cell).f)
<1> DEFINE g == Appended(p, guess, once, acc, cell)
           parsed == ParseSection(acc.f, p, Append(acc.data, cell))
<1>1. acc \in Accumulators(p) /\ acc.f \in Settled /\ Grows(f, acc.f)
  BY DEF Growing
<1>2. acc = [f |-> acc.f, data |-> acc.data, expected |-> acc.expected, over |-> acc.over]
  BY <1>1 DEF Accumulators
<1>3. g.f \in {acc.f, parsed}
  <2> DEFINE fresh == acc.data = <<>> /\ cell = Stuffing
             grown == Append(acc.data, cell)
             size == IF acc.data = <<>> THEN Expected(p, cell, guess) ELSE acc.expected
  <2>1. CASE acc.over
    BY <2>1 DEF Appended
  <2>2. CASE ~acc.over /\ fresh
    BY <2>2, <1>2 DEF Appended
  <2>3. CASE ~acc.over /\ ~fresh /\ size \in {0, Len(grown)}
    BY <2>3 DEF Appended
  <2>4. CASE ~acc.over /\ ~fresh /\ size \notin {0, Len(grown)}
    BY <2>4, <1>2 DEF Appended
  <2> QED BY <2>1, <2>2, <2>3, <2>4
<1>4. parsed \in Settled /\ Grows(acc.f, parsed)
  BY <1>1, SectionGrows
<1>5. g.f \in Settled /\ Grows(acc.f, g.f)
  <2> HIDE DEF g, parsed
  <2> QED BY <1>1, <1>3, <1>4, GrowsNot
<1>6. g \in Accumulators(p)
  BY <1>1, AppendedIsOnAir
<1> HIDE DEF g
<1>7. Grows(f, g.f)
  BY <1>1, <1>5, GrowsTwice
<1> QED BY <1>5, <1>6, <1>7 DEF Growing, g

(* What AppendSection does, cell after cell.                               *)
GrowingChain(p, guess, once, f, acc, cells, c) ==
  /\ ChainOfAppended(p, guess, once, c, Growing(p, f), Len(cells), acc, cells)
  /\ c[Len(cells)] = AppendSection(p, guess, once, acc, cells)
  /\ \A i \in 1..Len(cells) : Grows(c[i - 1].f, c[i].f)

LEMMA AppendSectionGrows ==
  ASSUME Agreed, WellFormed, NEW f, NEW p \in Pids, NEW guess \in Nat,
         NEW once \in BOOLEAN,
         NEW acc \in Growing(p, f), NEW cells \in Seq(Cells)
  PROVE  /\ AppendSection(p, guess, once, acc, cells) \in Growing(p, f)
         /\ \E c : GrowingChain(p, guess, once, f, acc, cells, c)
<1> DEFINE n == Len(cells)  V == Growing(p, f)
<1>1. n \in Nat /\ DOMAIN cells = 1..n /\ \A i \in 1..n : cells[i] \in Cells
  OBVIOUS
<1>2. \A v \in V : \A i \in 1..n :
        /\ Appended(p, guess, once, v, cells[i]) \in V
        /\ Grows(v.f, Appended(p, guess, once, v, cells[i]).f)
  BY <1>1, AppendedGrows
<1> HIDE DEF n, V
<1>3. /\ AppendSection(p, guess, once, acc, cells) \in V
      /\ \E c : /\ ChainOfAppended(p, guess, once, c, V, n, acc, cells)
                /\ c[n] = AppendSection(p, guess, once, acc, cells)
  <2>1. acc \in V
    BY DEF V
  <2>2. \A v \in V : \A i \in 1..n : Appended(p, guess, once, v, cells[i]) \in V
    BY <1>2
  <2>3. AppendSection(p, guess, once, acc, cells) \in V
    BY <1>1, <2>1, <2>2, AppendedFolds
  <2>4. ByCells(p, guess, once, V, n, acc, cells)
    BY <1>1, <2>1, <2>2, AppendedFolds
  <2> QED BY <2>3, <2>4 DEF ByCells
<1>4. PICK c : /\ ChainOfAppended(p, guess, once, c, V, n, acc, cells)
               /\ c[n] = AppendSection(p, guess, once, acc, cells)
  BY <1>3
<1>5. ASSUME NEW i \in 1..n PROVE Grows(c[i - 1].f, c[i].f)
  <2>1. i - 1 \in 0..n
    BY <1>1
  <2>2. c[i - 1] \in V /\ c[i] = Appended(p, guess, once, c[i - 1], cells[i])
    BY <2>1, <1>4 DEF ChainOfAppended
  <2> QED BY <2>2, <1>2
<1> QED BY <1>3, <1>4, <1>5 DEF GrowingChain, n, V

(* From 0 up to n, about a set.                                            *)
LEMMA FromNought ==
  ASSUME NEW n \in Nat, NEW G, 0 \in G, \A k \in 0..n : k \in G /\ k < n => k + 1 \in G
  PROVE  0..n \subseteq G
<1> DEFINE H == {k \in 1..(n + 1) : k - 1 \in G}
<1>1. 1 \in H
  OBVIOUS
<1>2. ASSUME NEW k \in 1..(n + 1), k \in H, k < n + 1 PROVE k + 1 \in H
  <2>1. k - 1 \in 0..n /\ k - 1 < n /\ (k - 1) + 1 = k /\ k - 1 \in G
    BY <1>2
  <2>2. k \in G
    BY <2>1
  <2>3. k + 1 \in 1..(n + 1) /\ (k + 1) - 1 = k
    BY <1>2
  <2> QED BY <2>2, <2>3
<1>3. 1..(n + 1) \subseteq H
  <2>1. n + 1 \in Nat
    OBVIOUS
  <2> HIDE DEF H
  <2> QED BY <1>1, <1>2, <2>1, UpTo
<1>4. ASSUME NEW k \in 0..n PROVE k \in G
  <2>1. k + 1 \in 1..(n + 1) /\ (k + 1) - 1 = k
    OBVIOUS
  <2>2. k + 1 \in H
    BY <2>1, <1>3
  <2> QED BY <2>1, <2>2
<1> QED BY <1>4

-----------------------------------------------------------------------------
(* The assembler at place q of the cycle, in section k, holds the cells of *)
(* it that have passed.                                                    *)
Passed(p, k, q) == [i \in 1..(q - Opens(p, k)) |-> CellOf(k, i)]
Within(p, k, q) == Opens(p, k) < q /\ q < Closes(p, k)
Collects(p, acc, k, q) ==
  ~acc.over /\ acc.data = Passed(p, k, q) /\ acc.expected = Carousel[p][k].size

LEMMA PassedIs ==
  ASSUME WellFormed, NEW p \in Pids, NEW k \in DOMAIN Carousel[p],
         NEW q \in Nat, Opens(p, k) <= q
  PROVE  /\ Passed(p, k, q) \in Seq(Cells) /\ Len(Passed(p, k, q)) = q - Opens(p, k)
         /\ (Opens(p, k) < q => Passed(p, k, q) # <<>>)
         /\ (Opens(p, k) = q => Passed(p, k, q) = <<>>)
         /\ Append(Passed(p, k, q), CellOf(k, (q + 1) - Opens(p, k))) = Passed(p, k, q + 1)
<1> DEFINE n == q - Opens(p, k)  s == [i \in 1..n |-> CellOf(k, i)]
           t == [i \in 1..(n + 1) |-> CellOf(k, i)]
<1>1. Opens(p, k) \in Nat /\ k \in Nat
  BY ScanLies
<1>2. n \in Nat /\ (q + 1) - Opens(p, k) = n + 1
  BY <1>1
<1>3. Passed(p, k, q) = s /\ Passed(p, k, q + 1) = t
  <2> DEFINE m == (q + 1) - Opens(p, k)
  <2>1. Passed(p, k, q + 1) = [i \in 1..m |-> CellOf(k, i)]
    BY DEF Passed
  <2>2. m = n + 1
    BY <1>2
  <2> HIDE DEF m
  <2> QED BY <2>1, <2>2 DEF Passed
<1>4. (Opens(p, k) < q => n > 0) /\ (Opens(p, k) = q => n = 0)
  BY <1>1
<1> HIDE DEF n
<1>5. \A i \in 1..(n + 1) : CellOf(k, i) \in Cells
  BY <1>1, <1>2 DEF CellOf, Cells
<1>6. s \in Seq(Cells) /\ Len(s) = n /\ t \in Seq(Cells) /\ Len(t) = n + 1
  BY <1>2, <1>5
<1>7. \A i \in 1..n : s[i] = CellOf(k, i) /\ t[i] = CellOf(k, i)
  BY <1>2
<1>8. t[n + 1] = CellOf(k, n + 1)
  BY <1>2
<1>9. CellOf(k, n + 1) \in Cells
  BY <1>2, <1>5
<1> DEFINE a == CellOf(k, n + 1)
<1> HIDE DEF s, t, a
<1>10. /\ Append(s, a) \in Seq(Cells) /\ Len(Append(s, a)) = n + 1
       /\ \A i \in 1..n : Append(s, a)[i] = s[i]
       /\ Append(s, a)[n + 1] = a
  BY <1>2, <1>6, <1>9 DEF a
<1>11. \A i \in 1..(n + 1) : Append(s, a)[i] = t[i]
  BY <1>2, <1>7, <1>8, <1>10 DEF a
<1>12. Append(s, a) = t
  BY <1>6, <1>10, <1>11, SameMembers
<1>13. (n > 0 => s # <<>>) /\ (n = 0 => s = <<>>)
  BY <1>2, <1>6
<1> QED BY <1>2, <1>3, <1>4, <1>6, <1>12, <1>13 DEF n, a

(* The next cell of a section, its first or one behind those held: the     *)
(* section is parsed when it is complete.                                  *)
Awaits(p, acc, k, q) ==
  \/ Opens(p, k) = q /\ acc.data = <<>> /\ ~acc.over
  \/ Within(p, k, q) /\ Collects(p, acc, k, q)
HasNext(p, acc, once, k, q, g) ==
  /\ q + 1 < Closes(p, k) => Collects(p, g, k, q + 1) /\ g.f = acc.f
  /\ q + 1 = Closes(p, k) =>
       g.f = Parse(acc.f, Carousel[p][k]) /\ g.data = <<>> /\ g.over = once

LEMMA NextCell ==
  ASSUME WellFormed, NEW p \in Pids, NEW guess, NEW once, NEW acc \in Accumulators(p),
         NEW k \in DOMAIN Carousel[p], NEW q \in Nat, Awaits(p, acc, k, q),
         NEW cell, cell = CellOf(k, (q + 1) - Opens(p, k)), NEW g,
         g = Appended(p, guess, once, acc, cell)
  PROVE  HasNext(p, acc, once, k, q, g)
<1> DEFINE size == Carousel[p][k].size
           long == IF acc.data = <<>> THEN Expected(p, cell, guess) ELSE acc.expected
           grown == Append(acc.data, cell)
<1>1. /\ Opens(p, k) \in Nat /\ Closes(p, k) \in Nat
      /\ Closes(p, k) = Opens(p, k) + size
      /\ size \in Nat /\ Opens(p, k) < Closes(p, k) /\ k \in Nat /\ k > 0
  BY ScanLies
<1>2. Opens(p, k) <= q /\ ~acc.over
  BY <1>1 DEF Within, Awaits, Collects
<1>3. acc.data = Passed(p, k, q)
  BY <1>2, PassedIs DEF Collects, Awaits
<1>4. grown = Passed(p, k, q + 1) /\ Len(grown) = (q + 1) - Opens(p, k) /\ grown # <<>>
  <2>1. q + 1 \in Nat /\ Opens(p, k) <= q + 1 /\ Opens(p, k) < q + 1
    BY <1>1, <1>2
  <2>2. /\ Passed(p, k, q + 1) # <<>>
        /\ Len(Passed(p, k, q + 1)) = (q + 1) - Opens(p, k)
    BY <2>1, PassedIs
  <2>3. grown = Passed(p, k, q + 1)
    BY <1>2, <1>3, PassedIs
  <2> QED BY <2>2, <2>3
<1>5. long = size
  <2>1. CASE Opens(p, k) = q
    <3>1. acc.data = <<>> /\ cell = CellOf(k, 1)
      BY <2>1, <1>3, <1>1, PassedIs
    <3>2. Begins(cell) /\ cell.of = k
      BY <3>1, <1>1 DEF CellOf, Begins
    <3> QED BY <3>1, <3>2 DEF Expected
  <2>2. CASE Within(p, k, q) /\ Collects(p, acc, k, q)
    <3>1. acc.data # <<>>
      BY <2>2, <1>2, <1>3, PassedIs DEF Within
    <3> QED BY <3>1, <2>2 DEF Collects
  <2> QED BY <2>1, <2>2 DEF Awaits
<1>6. cell # Stuffing
  BY <1>1 DEF CellOf, Stuffing
<1> HIDE DEF size, long, grown
<1>7. g = IF long \in {0, Len(grown)}
          THEN [f |-> IF long = 0 THEN acc.f ELSE ParseSection(acc.f, p, grown),
                data |-> <<>>, expected |-> 0, over |-> once]
          ELSE [acc EXCEPT !.data = grown, !.expected = long]
  BY <1>2, <1>6 DEF Appended, long, grown
<1>8. acc = [f |-> acc.f, data |-> acc.data, expected |-> acc.expected, over |-> acc.over]
  BY DEF Accumulators
<1>9. ASSUME q + 1 < Closes(p, k) PROVE Collects(p, g, k, q + 1) /\ g.f = acc.f
  <2>1. long \notin {0, Len(grown)}
    BY <1>9, <1>1, <1>4, <1>5
  <2>2. g = [f |-> acc.f, data |-> grown, expected |-> long, over |-> acc.over]
    BY <2>1, <1>7, <1>8
  <2> QED BY <2>2, <1>2, <1>4, <1>5 DEF Collects, size
<1>10. ASSUME q + 1 = Closes(p, k)
       PROVE  g.f = Parse(acc.f, Carousel[p][k]) /\ g.data = <<>> /\ g.over = once
  <2>1. long = Len(grown) /\ long # 0
    BY <1>10, <1>1, <1>4, <1>5
  <2>2. g = [f |-> ParseSection(acc.f, p, grown), data |-> <<>>, expected |-> 0, over |-> once]
    BY <2>1, <1>7
  <2>3. (q + 1) - Opens(p, k) = size
    BY <1>10, <1>1
  <2>4. grown = CellsOf(Carousel[p][k], k)
    <3> DEFINE m == (q + 1) - Opens(p, k)
    <3>1. Passed(p, k, q + 1) = [i \in 1..m |-> CellOf(k, i)]
      BY DEF Passed
    <3>2. m = Carousel[p][k].size
      BY <2>3 DEF size
    <3> HIDE DEF m
    <3> QED BY <3>1, <3>2, <1>4 DEF CellsOf, CellOf
  <2>5. 1 \in 1..Carousel[p][k].size
    BY <1>1 DEF size
  <2>6. grown[1].of = k
    BY <2>4, <2>5 DEF CellsOf
  <2>7. ParseSection(acc.f, p, grown) = Parse(acc.f, Carousel[p][k])
    BY <2>4, <2>6 DEF ParseSection, CrcHolds
  <2> QED BY <2>2, <2>7
<1> QED BY <1>9, <1>10 DEF HasNext

(* A section whose first cells are held goes on through what follows them. *)
LiesIn(p, cells, a) ==
  /\ a \in Nat /\ a + Len(cells) <= Len(Cycles[p])
  /\ \A i \in 1..Len(cells) : cells[i] = Cycles[p][a + i]
HeldOrTold(p, acc, k, q) ==
  /\ q < Closes(p, k) => Collects(p, acc, k, q)
  /\ Closes(p, k) <= q => Tells(acc.f, Carousel[p][k])

LEMMA GoesThrough ==
  ASSUME Agreed, WellFormed, NEW f, NEW p \in Pids, NEW guess \in Nat,
         NEW once \in BOOLEAN,
         NEW acc \in Growing(p, f), NEW cells \in Seq(Cells), NEW a,
         LiesIn(p, cells, a),
         NEW k \in DOMAIN Carousel[p], Within(p, k, a), Collects(p, acc, k, a),
         NEW g, g = AppendSection(p, guess, once, acc, cells), NEW q, q = a + Len(cells)
  PROVE  HeldOrTold(p, g, k, q)
<1> DEFINE n == Len(cells)
<1>1. PICK c : GrowingChain(p, guess, once, f, acc, cells, c)
  BY AppendSectionGrows
<1>2. /\ n \in Nat /\ \A i \in 1..n : cells[i] \in Cells /\ cells[i] = Cycles[p][a + i]
      /\ a \in Nat /\ a + n <= Len(Cycles[p])
  BY DEF LiesIn
<1>3. /\ c \in [0..n -> Growing(p, f)] /\ c[0] = acc /\ c[n] = g
      /\ \A i \in 1..n : /\ c[i] = Appended(p, guess, once, c[i - 1], cells[i])
                         /\ Grows(c[i - 1].f, c[i].f)
  BY <1>1 DEF GrowingChain, ChainOfAppended
<1>4. /\ Opens(p, k) \in Nat /\ Closes(p, k) \in Nat /\ Len(Cycles[p]) \in Nat
      /\ \A j \in 1..Len(Cycles[p]) :
           Opens(p, k) < j /\ j <= Closes(p, k) => Cycles[p][j] = CellOf(k, j - Opens(p, k))
  BY ScanLies
<1> HIDE DEF n
<1> DEFINE Good == {i \in 0..n : HeldOrTold(p, c[i], k, a + i)}
<1>5. 0 \in Good
  <2>1. a + 0 = a /\ a < Closes(p, k)
    BY <1>2 DEF Within
  <2> QED BY <2>1, <1>2, <1>3, <1>4 DEF HeldOrTold
<1>6. ASSUME NEW i \in 0..n, i \in Good, i < n PROVE i + 1 \in Good
  <2> DEFINE b == c[i]  d == c[i + 1]  r == a + i
  <2>1. i + 1 \in 1..n /\ i + 1 \in 0..n /\ (i + 1) - 1 = i /\ i \in Nat
    BY <1>2, <1>6
  <2>2. b \in Growing(p, f) /\ d \in Growing(p, f)
    BY <2>1, <1>3
  <2>3. /\ b \in Accumulators(p) /\ b.f \in Settled /\ d.f \in Settled
    BY <2>2 DEF Growing
  <2>4. d = Appended(p, guess, once, b, cells[i + 1]) /\ Grows(b.f, d.f)
    BY <2>1, <1>3
  <2>5. /\ r < Closes(p, k) => Collects(p, b, k, r)
        /\ Closes(p, k) <= r => Tells(b.f, Carousel[p][k])
    BY <1>6 DEF HeldOrTold
  <2>6. /\ r \in Nat /\ r + 1 = a + (i + 1) /\ r + 1 \in 1..Len(Cycles[p])
        /\ cells[i + 1] = Cycles[p][r + 1] /\ Opens(p, k) < r
    <3>1. r \in Nat /\ r + 1 = a + (i + 1) /\ r + 1 \in 1..Len(Cycles[p])
      BY <2>1, <1>2, <1>4
    <3>2. cells[i + 1] = Cycles[p][a + (i + 1)]
      BY <2>1, <1>2
    <3>3. Opens(p, k) < a
      BY DEF Within
    <3>4. Opens(p, k) < r
      BY <3>3, <2>1, <1>2, <1>4
    <3> QED BY <3>1, <3>2, <3>4
  <2> HIDE DEF b, d, r
  <2>7. CASE r < Closes(p, k)
    <3>1. Awaits(p, b, k, r)
      BY <2>5, <2>6, <2>7 DEF Within, Awaits
    <3>2. cells[i + 1] = CellOf(k, (r + 1) - Opens(p, k))
      BY <2>6, <2>7, <1>4, SMTT(30)
    <3>3. /\ r + 1 < Closes(p, k) => Collects(p, d, k, r + 1)
          /\ r + 1 = Closes(p, k) => d.f = Parse(b.f, Carousel[p][k])
      BY <3>1, <3>2, <2>3, <2>4, <2>6, NextCell DEF HasNext
    <3>4. r + 1 < Closes(p, k) \/ r + 1 = Closes(p, k)
      BY <2>6, <2>7, <1>4
    <3>5. Closes(p, k) <= r + 1 => Tells(d.f, Carousel[p][k])
      BY <3>3, <3>4, <2>3, <2>6, <1>4, ParsedTells
    <3> QED BY <3>3, <3>5, <2>1, <2>6 DEF d, HeldOrTold
  <2>8. CASE Closes(p, k) <= r
    <3>1. Tells(d.f, Carousel[p][k])
      BY <2>3, <2>4, <2>5, <2>8, TellingStays
    <3>2. ~(r + 1 < Closes(p, k))
      BY <2>6, <2>8, <1>4
    <3> QED BY <3>1, <3>2, <2>1, <2>6 DEF d, HeldOrTold
  <2> QED BY <2>6, <2>7, <2>8, <1>4
<1>7. n \in Good
  <2> HIDE DEF Good
  <2>1. 0..n \subseteq Good
    BY <1>2, <1>5, <1>6, FromNought
  <2> QED BY <2>1, <1>2
<1> QED BY <1>3, <1>7 DEF n

(* From a place between two sections on each is told when it has passed,   *)
(* and the one that has not is held.                                       *)
Gap(p, q) == \A k \in DOMAIN Carousel[p] : ~Within(p, k, q)
ToldTo(p, f, a, q) ==
  \A k \in DOMAIN Carousel[p] :
    a <= Opens(p, k) /\ Closes(p, k) <= q => Tells(f, Carousel[p][k])
ReadsTo(p, acc, a, q, end) ==
  /\ ToldTo(p, acc.f, a, q)
  /\ \A k \in DOMAIN Carousel[p] : Within(p, k, q) => Collects(p, acc, k, q)
  /\ Gap(p, q) /\ ~acc.over => acc.data = <<>>
  /\ acc.over => \A j \in (q + 1)..end : Cycles[p][j] = Stuffing
FilledTo(p, a, end) ==
  \A j \in (a + 1)..end :
    Cycles[p][j] = Stuffing => \A m \in j..end : Cycles[p][m] = Stuffing

LEMMA ReadsOn ==
  ASSUME Agreed, WellFormed, NEW f, NEW p \in Pids, NEW guess \in Nat,
         NEW acc \in Growing(p, f),
         NEW a \in Nat, NEW end \in Nat, end <= Len(Cycles[p]), FilledTo(p, a, end),
         Gap(p, a),
         NEW q \in Nat, a <= q, q < end, ReadsTo(p, acc, a, q, end),
         NEW g, g = Appended(p, guess, FALSE, acc, Cycles[p][q + 1])
  PROVE  ReadsTo(p, g, a, q + 1, end)
<1> DEFINE cell == Cycles[p][q + 1]
<1>1. /\ acc \in Accumulators(p) /\ acc.f \in Settled
      /\ acc = [f |-> acc.f, data |-> acc.data, expected |-> acc.expected, over |-> acc.over]
      /\ acc.over \in BOOLEAN
  BY DEF Growing, Accumulators
<1>2. q + 1 \in 1..Len(Cycles[p]) /\ Len(Cycles[p]) \in Nat /\ cell \in Cells
  BY ScanLies
<1>3. g \in Growing(p, f) /\ Grows(acc.f, g.f)
  BY <1>2, AppendedGrows
<1>4. g.f \in Settled /\ g = Appended(p, guess, FALSE, acc, cell)
  BY <1>3 DEF Growing
<1> HIDE DEF cell
<1>5. ASSUME NEW k \in DOMAIN Carousel[p], a <= Opens(p, k), Closes(p, k) <= q
      PROVE  Tells(g.f, Carousel[p][k])
  BY <1>1, <1>3, <1>4, <1>5, TellingStays DEF ReadsTo, ToldTo
<1>6. \A k \in DOMAIN Carousel[p] :
        Opens(p, k) \in Nat /\ Closes(p, k) \in Nat /\ Opens(p, k) < Closes(p, k)
  BY ScanLies
<1>7. CASE cell = Stuffing
  <2>1. \A k \in DOMAIN Carousel[p] : ~(Opens(p, k) < q + 1 /\ q + 1 <= Closes(p, k))
    BY <1>2, <1>7, ScanStuffing DEF cell
  <2>2. Gap(p, q) /\ Gap(p, q + 1)
    BY <2>1, <1>6 DEF Gap, Within
  <2>3. ToldTo(p, g.f, a, q + 1)
    <3> SUFFICES ASSUME NEW k \in DOMAIN Carousel[p], a <= Opens(p, k),
                        Closes(p, k) <= q + 1
                 PROVE  Tells(g.f, Carousel[p][k])
      BY DEF ToldTo
    <3>1. Closes(p, k) <= q
      BY <2>1, <1>6
    <3> QED BY <3>1, <1>5
  <2>4. g.over
    <3>1. CASE acc.over
      BY <3>1, <1>4 DEF Appended
    <3>2. CASE ~acc.over
      <4>1. acc.data = <<>>
        BY <3>2, <2>2 DEF ReadsTo
      <4>2. g = [acc EXCEPT !.over = TRUE]
        BY <3>2, <4>1, <1>4, <1>7 DEF Appended
      <4> QED BY <4>2, <1>1
    <3> QED BY <3>1, <3>2
  <2>5. \A j \in (q + 1)..end : Cycles[p][j] = Stuffing
    <3>1. q + 1 \in (a + 1)..end
      OBVIOUS
    <3> QED BY <3>1, <1>7 DEF FilledTo, cell
  <2>6. \A j \in ((q + 1) + 1)..end : j \in (q + 1)..end
    OBVIOUS
  <2> QED BY <2>2, <2>3, <2>4, <2>5, <2>6 DEF ReadsTo, Gap
<1>8. CASE cell # Stuffing
  <2>1. PICK k \in DOMAIN Carousel[p] : Opens(p, k) < q + 1 /\ q + 1 <= Closes(p, k)
    BY <1>2, <1>8, ScanLies DEF cell
  <2>2. cell = CellOf(k, (q + 1) - Opens(p, k))
    BY <2>1, <1>2, ScanLies DEF cell
  <2>3. ~acc.over
    <3>1. q + 1 \in (q + 1)..end
      OBVIOUS
    <3> QED BY <3>1, <1>8 DEF ReadsTo, cell
  <2>4. ASSUME NEW m \in DOMAIN Carousel[p], Opens(p, m) < q + 1, q + 1 <= Closes(p, m)
        PROVE  m = k
    BY <2>1, <2>4, <1>6, ScanApart
  <2>5. Awaits(p, acc, k, q)
    <3>1. CASE Opens(p, k) = q
      <4>1. Gap(p, q)
        BY <3>1, <2>4, <1>6 DEF Gap, Within
      <4> QED BY <4>1, <3>1, <2>3 DEF ReadsTo, Awaits
    <3>2. CASE Opens(p, k) # q
      <4>1. Within(p, k, q)
        BY <3>2, <2>1, <1>6 DEF Within
      <4> QED BY <4>1 DEF ReadsTo, Awaits
    <3> QED BY <3>1, <3>2
  <2>6. /\ q + 1 < Closes(p, k) => Collects(p, g, k, q + 1)
        /\ q + 1 = Closes(p, k) => /\ g.f = Parse(acc.f, Carousel[p][k]) /\ g.data = <<>>
                                   /\ g.over = FALSE
    <3>1. HasNext(p, acc, FALSE, k, q, g)
      BY <2>2, <2>5, <1>1, <1>4, NextCell
    <3> QED BY <3>1 DEF HasNext
  <2>7. ToldTo(p, g.f, a, q + 1)
    <3> SUFFICES ASSUME NEW m \in DOMAIN Carousel[p], a <= Opens(p, m),
                        Closes(p, m) = q + 1
                 PROVE  Tells(g.f, Carousel[p][m])
      <4> SUFFICES ASSUME NEW m \in DOMAIN Carousel[p], a <= Opens(p, m),
                          Closes(p, m) <= q + 1
                   PROVE  Tells(g.f, Carousel[p][m])
        BY DEF ToldTo
      <4>1. Closes(p, m) <= q \/ Closes(p, m) = q + 1
        BY <1>6
      <4> QED BY <4>1, <1>5
    <3>1. m = k
      BY <2>4, <1>6
    <3> QED BY <3>1, <2>6, <1>1, ParsedTells
  <2>8. ASSUME NEW m \in DOMAIN Carousel[p],
               Within(p, m, q + 1)
        PROVE  Collects(p, g, m, q + 1)
    <3>1. m = k
      BY <2>4, <2>8, <1>6 DEF Within
    <3> QED BY <3>1, <2>6, <2>8 DEF Within
  <2>9. Gap(p, q + 1) => q + 1 = Closes(p, k)
    BY <2>1, <1>6 DEF Gap, Within
  <2>10. ~g.over
    <3>1. q + 1 < Closes(p, k) \/ q + 1 = Closes(p, k)
      BY <2>1, <1>6
    <3> QED BY <3>1, <2>6 DEF Collects
  <2> QED BY <2>6, <2>7, <2>8, <2>9, <2>10 DEF ReadsTo
<1> QED BY <1>7, <1>8

LEMMA ReadsThrough ==
  ASSUME Agreed, WellFormed, NEW p \in Pids, NEW guess \in Nat, NEW f \in Settled,
         NEW cells \in Seq(Cells), NEW a, LiesIn(p, cells, a), NEW end,
         end = a + Len(cells),
         FilledTo(p, a, end), Gap(p, a),
         NEW g, g = AppendSection(p, guess, FALSE, Acc(f, NoSection), cells)
  PROVE  g \in Growing(p, f) /\ ReadsTo(p, g, a, end, end)
<1> DEFINE n == Len(cells)  acc == Acc(f, NoSection)
<1>1. acc = [f |-> f, data |-> <<>>, expected |-> 0, over |-> FALSE]
  BY DEF Acc, NoSection
<1>2. acc \in Growing(p, f)
  <2>1. f \in Results /\ 0 \in Expectations(p)
    BY DEF Settled, Expectations
  <2> QED BY <2>1, <1>1, GrowsNot DEF Growing, Accumulators
<1> HIDE DEF acc
<1>3. /\ n \in Nat /\ \A i \in 1..n : cells[i] \in Cells /\ cells[i] = Cycles[p][a + i]
      /\ a \in Nat /\ a + n <= Len(Cycles[p]) /\ end = a + n /\ end \in Nat
      /\ end <= Len(Cycles[p])
  BY DEF LiesIn
<1>4. AppendSection(p, guess, FALSE, acc, cells) \in Growing(p, f)
  BY <1>2, AppendSectionGrows
<1>5. PICK c : GrowingChain(p, guess, FALSE, f, acc, cells, c)
  BY <1>2, AppendSectionGrows
<1>6. /\ c \in [0..n -> Growing(p, f)] /\ c[0] = acc /\ c[n] = g
      /\ \A i \in 1..n : c[i] = Appended(p, guess, FALSE, c[i - 1], cells[i])
  BY <1>5 DEF GrowingChain, ChainOfAppended, acc
<1> HIDE DEF n
<1> DEFINE Good == {i \in 0..n : ReadsTo(p, c[i], a, a + i, end)}
<1>7. 0 \in Good
  <2>1. \A k \in DOMAIN Carousel[p] :
          Opens(p, k) \in Nat /\ Closes(p, k) \in Nat /\ Opens(p, k) < Closes(p, k)
    BY ScanLies
  <2>2. ToldTo(p, acc.f, a, a)
    BY <2>1, <1>3 DEF ToldTo
  <2>3. ReadsTo(p, acc, a, a, end)
    BY <2>2, <1>1 DEF ReadsTo, Gap
  <2>4. 0 \in 0..n /\ a + 0 = a
    BY <1>3
  <2> QED BY <2>3, <2>4, <1>6
<1>8. ASSUME NEW i \in 0..n, i \in Good, i < n PROVE i + 1 \in Good
  <2> DEFINE b == c[i]  d == c[i + 1]  q == a + i
  <2>1. i + 1 \in 1..n /\ i + 1 \in 0..n /\ (i + 1) - 1 = i /\ i \in Nat
    BY <1>3, <1>8
  <2>2. b \in Growing(p, f) /\ d = Appended(p, guess, FALSE, b, cells[i + 1])
    BY <2>1, <1>6
  <2>3. ReadsTo(p, b, a, q, end)
    BY <1>8
  <2>4. q \in Nat /\ a <= q /\ q < end /\ q + 1 = a + (i + 1)
    BY <2>1, <1>3, <1>8
  <2>5. cells[i + 1] = Cycles[p][q + 1]
    <3>1. cells[i + 1] = Cycles[p][a + (i + 1)]
      BY <2>1, <1>3
    <3> QED BY <2>4, <3>1
  <2> HIDE DEF b, d, q
  <2>6. ReadsTo(p, d, a, q + 1, end)
    BY <2>2, <2>3, <2>4, <2>5, <1>3, ReadsOn
  <2> QED BY <2>1, <2>4, <2>6 DEF d
<1>9. n \in Good
  <2> HIDE DEF Good
  <2>1. 0..n \subseteq Good
    BY <1>3, <1>7, <1>8, FromNought
  <2> QED BY <2>1, <1>3
<1> QED BY <1>3, <1>4, <1>6, <1>9 DEF acc

-----------------------------------------------------------------------------
(* The invariant of HeardIsKnown: a section of which every packet so far   *)
(* was received is held in the assembler of its pid.                       *)
InARow(p, k) ==
  \E m \in 1..PacketsOf(p) :
    Begun(Carousel[p], m, k) /\ m < place[p] /\ inRow[p] >= place[p] - m
Collecting ==
  \A p \in Pids : \A k \in DOMAIN Carousel[p] :
    Within(p, k, Base(place[p])) /\ InARow(p, k) =>
      /\ context[p].data = Passed(p, k, Base(place[p]))
      /\ context[p].expected = Carousel[p][k].size
Counted ==
  /\ inRow \in [Pids -> Nat] /\ received = [p \in Pids |-> received[p]]
  /\ \A p \in Pids : received[p] \subseteq DOMAIN Carousel[p]
HearingInv == ScanInv /\ found \in Settled /\ Counted /\ Collecting

LEMMA ProcessedGrows ==
  ASSUME Agreed, WellFormed, ScanInv, found \in Settled, NEW p \in Pids,
         NEW guess \in Nat,
         NEW cells \in Seq(Cells), Len(cells) = Room, NEW start, NEW pointer \in Nat
  PROVE  Processed(p, guess, cells, start, pointer) \in Growing(p, found)
<1> DEFINE acc == Acc(found, context[p])
           head == SubSeq(cells, 1, pointer)
           rest == SubSeq(cells, pointer + 1, Room)
           added == TailAdded(p, guess, acc, head)
           fresh == Acc(added.f, NoSection)
<1>1. acc \in Growing(p, found)
  <2>1. acc \in Accumulators(p)
    BY DEF ScanInv, Assembling, Acc, Accumulators
  <2> QED BY <2>1, GrowsNot DEF Acc, Growing
<1>2. ASSUME NEW f \in Settled,
             Grows(found, f)
      PROVE  Acc(f, NoSection) \in Growing(p, found)
  <2>1. f \in Results
    BY DEF Settled
  <2>2. Acc(f, NoSection) \in Accumulators(p)
    BY <2>1 DEF Acc, NoSection, Accumulators, Expectations
  <2> QED BY <2>2, <1>2 DEF Growing, Acc
<1>3. Room \in Nat
  BY PacketAssumption
<1>4. Processed(p, guess, cells, start, pointer)
        = IF ~start THEN AppendSection(p, guess, FALSE, acc, cells)
          ELSE IF pointer > Room THEN Acc(found, NoSection)
          ELSE AppendSection(p, guess, FALSE, fresh, rest)
  BY DEF Processed
<1>5. CASE ~start
  <2> HIDE DEF acc
  <2> QED BY <1>1, <1>4, <1>5, AppendSectionGrows
<1>6. CASE start /\ pointer > Room
  BY <1>2, <1>4, <1>6, GrowsNot
<1>7. CASE start /\ ~(pointer > Room)
  <2>1. head \in Seq(Cells) /\ rest \in Seq(Cells)
    BY <1>3, <1>7
  <2> HIDE DEF acc, head, rest
  <2>2. added \in Growing(p, found)
    BY <1>1, <2>1, AppendSectionGrows DEF TailAdded
  <2> HIDE DEF added
  <2>3. fresh \in Growing(p, found)
    BY <2>2, <1>2 DEF Growing
  <2> HIDE DEF fresh
  <2> QED BY <1>4, <1>7, <2>1, <2>3, AppendSectionGrows
<1> QED BY <1>5, <1>6, <1>7

(* A packet read from its pointer on, and what of it comes before.         *)
LEMMA CutLies ==
  ASSUME WellFormed, NEW p \in Pids, Fills(p), NEW n \in 1..PacketsOf(p),
         NEW b \in 0..Room
  PROVE  /\ LiesIn(p, SubSeq(PayloadOf(p, n), 1, b), Base(n))
         /\ SubSeq(PayloadOf(p, n), 1, b) \in Seq(Cells)
         /\ Len(SubSeq(PayloadOf(p, n), 1, b)) = b
         /\ LiesIn(p, SubSeq(PayloadOf(p, n), b + 1, Room), Base(n) + b)
         /\ SubSeq(PayloadOf(p, n), b + 1, Room) \in Seq(Cells)
         /\ Len(SubSeq(PayloadOf(p, n), b + 1, Room)) = Room - b
<1> DEFINE s == PayloadOf(p, n)  a == Base(n)
<1>1. /\ a \in Nat /\ a + Room <= Len(Cycles[p]) /\ s \in Seq(Cells) /\ Len(s) = Room
      /\ \A i \in 1..Room : s[i] = Cycles[p][a + i]
  BY ScanPayloadLies
<1>2. Room \in Nat /\ Len(Cycles[p]) \in Nat /\ b \in Nat /\ b <= Room
  BY PacketAssumption, ScanLies
<1> HIDE DEF s, a
<1>3. /\ SubSeq(s, 1, b) \in Seq(Cells) /\ Len(SubSeq(s, 1, b)) = b
      /\ \A i \in 1..b : SubSeq(s, 1, b)[i] = s[i]
  BY <1>1, <1>2
<1>4. /\ SubSeq(s, b + 1, Room) \in Seq(Cells) /\ Len(SubSeq(s, b + 1, Room)) = Room - b
      /\ \A i \in 1..(Room - b) : SubSeq(s, b + 1, Room)[i] = s[b + i]
  BY <1>1, <1>2
<1>5. LiesIn(p, SubSeq(s, 1, b), a)
  BY <1>1, <1>2, <1>3 DEF LiesIn
<1>6. LiesIn(p, SubSeq(s, b + 1, Room), a + b)
  <2>1. ASSUME NEW i \in 1..(Room - b) PROVE SubSeq(s, b + 1, Room)[i] = Cycles[p][(a + b) + i]
    <3>1. b + i \in 1..Room /\ (a + b) + i = a + (b + i)
      BY <1>1, <1>2
    <3> QED BY <3>1, <1>1, <1>4
  <2>2. a + b \in Nat /\ (a + b) + (Room - b) <= Len(Cycles[p])
    BY <1>1, <1>2
  <2> QED BY <2>1, <2>2, <1>4 DEF LiesIn
<1> QED BY <1>3, <1>4, <1>5, <1>6 DEF s, a

LEMMA PacketFilled ==
  ASSUME WellFormed, NEW p \in Pids, Fills(p), NEW n \in 1..PacketsOf(p), NEW a \in Nat,
         Base(n) <= a
  PROVE  FilledTo(p, a, Base(n) + Room)
<1> SUFFICES ASSUME NEW j \in (a + 1)..(Base(n) + Room), Cycles[p][j] = Stuffing,
                    NEW m \in j..(Base(n) + Room)
             PROVE  Cycles[p][m] = Stuffing
  BY DEF FilledTo
<1>1. /\ Base(n) \in Nat /\ Room \in Nat
      /\ \A i \in 1..Room : PayloadOf(p, n)[i] = Cycles[p][Base(n) + i]
  BY ScanPayloadLies, PacketAssumption
<1> DEFINE i == j - Base(n)  l == m - Base(n)
<1>2. /\ i \in 1..Room /\ l \in i..Room /\ l \in 1..Room /\ Base(n) + i = j
      /\ Base(n) + l = m
  BY <1>1
<1> HIDE DEF i, l
<1>3. PayloadOf(p, n)[i] = Stuffing
  BY <1>1, <1>2
<1>4. PayloadOf(p, n)[l] = Stuffing
  BY <1>2, <1>3, StuffingGoesOn
<1> QED BY <1>1, <1>2, <1>4

(* What a packet does for a section that began in it, or in one before it  *)
(* and was held since.                                                     *)
LEMMA ProcessedTells ==
  ASSUME Agreed, WellFormed, HearingInv, NEW p \in Pids, Fills(p), NEW guess \in Nat,
         NEW n, n = place[p], NEW cells, cells = PayloadOf(p, n),
         NEW acc, acc = Processed(p, guess, cells, Starts(cells), PointerOf(cells)),
         NEW k \in DOMAIN Carousel[p], NEW m \in 1..n, Begun(Carousel[p], m, k),
         inRow[p] >= n - m, Base(n) < Closes(p, k), NEW q, q = Base(n) + Room
  PROVE  HeldOrTold(p, acc, k, q)
<1> DEFINE old == Acc(found, context[p])  a == Base(n)
<1>1. /\ n \in 1..PacketsOf(p) /\ PacketsOf(p) \in Nat /\ Room \in Nat /\ Room > 0
      /\ n \in Nat
  BY ScanPackets DEF HearingInv, ScanInv, OnPacket
<1>2. /\ a \in Nat /\ q \in Nat /\ a + Room <= Len(Cycles[p]) /\ Len(Cycles[p]) \in Nat
      /\ cells \in Seq(Cells) /\ Len(cells) = Room
      /\ \A i \in 1..Room : cells[i] = Cycles[p][a + i]
  <2>1. Len(Cycles[p]) \in Nat
    BY ScanLies
  <2>2. /\ a \in Nat /\ a + Room <= Len(Cycles[p]) /\ cells \in Seq(Cells)
        /\ Len(cells) = Room
        /\ \A i \in 1..Room : cells[i] = Cycles[p][a + i]
    BY <1>1, ScanPayloadLies
  <2> HIDE DEF a
  <2>3. q \in Nat
    BY <2>2, <1>1 DEF a
  <2> QED BY <2>1, <2>2, <2>3
<1>3. \A j \in DOMAIN Carousel[p] :
        Opens(p, j) \in Nat /\ Closes(p, j) \in Nat /\ Opens(p, j) < Closes(p, j)
  BY ScanLies
<1>4. old \in Growing(p, found) /\ old.f = found /\ found \in Settled
  <2>1. old \in Accumulators(p) /\ found \in Settled
    BY DEF HearingInv, ScanInv, Assembling, Acc, Accumulators
  <2> QED BY <2>1, GrowsNot DEF Acc, Growing
<1>5. LiesIn(p, cells, a)
  BY <1>2 DEF LiesIn
(* A section begun before is held. *)
<1>6. ASSUME m # n PROVE Within(p, k, a) /\ Collects(p, old, k, a) /\ ~Begun(Carousel[p], n, k)
  <2>1. m \in 1..PacketsOf(p) /\ m < n /\ m \in Nat
    BY <1>1, <1>6
  <2>2. Base(m) + Room <= a
    BY <2>1, <1>1, ScanPackets, BasesGrowIn
  <2>3. Opens(p, k) < Base(m) + Room /\ Base(m) \in Nat
    BY <2>1, ScanPayloadLies DEF Begun, Opens
  <2>4. Opens(p, k) < a
    BY <2>2, <2>3, <1>1, <1>2, <1>3, SMTT(30)
  <2>5. Within(p, k, a)
    BY <2>4 DEF Within
  <2>6. InARow(p, k)
    BY <2>1 DEF InARow
  <2>7. context[p].data = Passed(p, k, a) /\ context[p].expected = Carousel[p][k].size
    BY <2>5, <2>6 DEF HearingInv, Collecting
  <2>8. Collects(p, old, k, a)
    BY <2>7 DEF Collects, Acc
  <2>9. ~Begun(Carousel[p], n, k)
    BY <2>4, <1>2, <1>3 DEF Begun, Opens
  <2> QED BY <2>5, <2>8, <2>9
<1> HIDE DEF old, a
<1>7. CASE ~Starts(cells)
  <2>1. acc = AppendSection(p, guess, FALSE, old, cells)
    BY <1>7 DEF Processed, old
  <2>2. m # n
    <3>1. ~Begun(Carousel[p], n, k)
      <4>1. Starts(PacketIn(Carousel[p], n)) <=> \E j \in DOMAIN Carousel[p] : Begun(Carousel[p], n, j)
        BY <1>1, ScanPackets, StartsIsIn
      <4> QED BY <4>1, <1>1, <1>7, ScanPackets
    <3> QED BY <3>1
  <2>3. q = a + Len(cells) /\ Within(p, k, a) /\ Collects(p, old, k, a)
    BY <2>2, <1>2, <1>6 DEF a
  <2>4. cells \in Seq(Cells) /\ old \in Growing(p, found)
    BY <1>2, <1>4
  <2> QED BY <2>1, <2>3, <2>4, <1>5, GoesThrough
<1>8. CASE Starts(cells)
  <2> DEFINE b == PointerOf(cells)
             head == SubSeq(cells, 1, b)  rest == SubSeq(cells, b + 1, Room)
             added == TailAdded(p, guess, old, head)
  <2>1. /\ b \in 0..(Room - 1)
        /\ \E j \in DOMAIN Carousel[p] : Opens(p, j) = a + b
        /\ \A j \in DOMAIN Carousel[p] : Begun(Carousel[p], n, j) => a + b <= Opens(p, j)
    BY <1>1, <1>8, ScanPointerLies DEF a
  <2>2. acc = AppendSection(p, guess, FALSE, Acc(added.f, NoSection), rest)
    <3>1. ~(b > Room)
      BY <2>1, <1>1
    <3> HIDE DEF b
    <3>2. acc = Processed(p, guess, cells, Starts(cells), b)
      BY DEF b
    <3> QED BY <3>1, <3>2, <1>8 DEF Processed, old
  <2>3. PICK j \in DOMAIN Carousel[p] : Opens(p, j) = a + b
    BY <2>1
  <2>4. /\ LiesIn(p, head, a) /\ head \in Seq(Cells) /\ Len(head) = b
        /\ LiesIn(p, rest, a + b) /\ rest \in Seq(Cells) /\ Len(rest) = Room - b
    BY <2>1, <1>1, CutLies DEF a
  <2>5. b \in Nat /\ a + b \in Nat /\ a <= a + b /\ (a + b) + (Room - b) = q
    BY <2>1, <1>1, <1>2, SMTT(30) DEF a
  <2>6. Gap(p, a + b)
    <3> SUFFICES ASSUME NEW i \in DOMAIN Carousel[p], Within(p, i, a + b) PROVE FALSE
      BY DEF Gap
    <3>1. i # j
      BY <2>3, <1>3 DEF Within
    <3> QED BY <3>1, <2>3, <1>3, ScanApart DEF Within
  <2>7. FilledTo(p, a + b, q)
    BY <2>5, <1>1, PacketFilled DEF a
  <2>8. added \in Growing(p, found)
    <3> HIDE DEF head
    <3> QED BY <1>4, <2>4, AppendSectionGrows DEF TailAdded
  <2> DEFINE e == added.f
  <2>9. e \in Settled /\ acc = AppendSection(p, guess, FALSE, Acc(e, NoSection), rest)
    BY <2>2, <2>8 DEF Growing
  <2> HIDE DEF rest, e
  <2>10. acc \in Growing(p, e) /\ ReadsTo(p, acc, a + b, q, q)
    BY <2>4, <2>5, <2>6, <2>7, <2>9, ReadsThrough, ZenonT(60)
  <2>11. acc.f \in Settled /\ Grows(e, acc.f)
    BY <2>10 DEF Growing
  <2>12. CASE m = n
    <3>1. a + b <= Opens(p, k)
      BY <2>1, <2>12
    <3>2. Opens(p, k) < q
      BY <2>12, <1>1 DEF Begun, Opens
    <3>3. q < Closes(p, k) => Collects(p, acc, k, q)
      BY <3>2, <2>10 DEF ReadsTo, Within
    <3>4. Closes(p, k) <= q => Tells(acc.f, Carousel[p][k])
      BY <3>1, <2>10 DEF ReadsTo, ToldTo
    <3> QED BY <3>3, <3>4 DEF HeldOrTold
  <2>13. CASE m # n
    <3>1. Within(p, k, a) /\ Collects(p, old, k, a)
      BY <2>13, <1>6
    <3>2. Closes(p, k) <= a + b
      <4>1. k # j
        BY <3>1, <2>3, <2>5, <1>3, <1>2 DEF Within, a
      <4> QED BY <4>1, <3>1, <2>3, <2>5, <1>2, <1>3, ScanApart, SMTT(30) DEF Within, a
    <3>3. old.data # <<>>
      <4>1. a \in Nat /\ Opens(p, k) <= a /\ Opens(p, k) < a
        BY <3>1, <1>2, <1>3 DEF Within, a
      <4> QED BY <4>1, <3>1, PassedIs DEF Collects
    <3>4. added = AppendSection(p, guess, TRUE, old, head)
      BY <3>3 DEF TailAdded
    <3>5. Tells(e, Carousel[p][k])
      <4> HIDE DEF head, added
      <4>1. HeldOrTold(p, added, k, a + b)
        BY <3>1, <3>4, <2>4, <1>4, GoesThrough
      <4> QED BY <4>1, <3>2 DEF e, HeldOrTold
    <3>6. Tells(acc.f, Carousel[p][k])
      BY <3>5, <2>9, <2>11, TellingStays
    <3>7. ~(q < Closes(p, k))
      <4> HIDE DEF a, b
      <4>1. Closes(p, k) \in Nat /\ q \in Nat /\ a \in Nat
        BY <1>2, <1>3 DEF a
      <4>2. b \in Nat /\ Room \in Nat /\ b <= Room
        BY <2>1, <1>1
      <4>3. a + b <= q /\ a + b \in Nat
        BY <4>1, <4>2, <2>5
      <4> QED BY <4>1, <4>3, <3>2
    <3> QED BY <3>6, <3>7 DEF HeldOrTold
  <2> QED BY <2>12, <2>13
<1> QED BY <1>7, <1>8

-----------------------------------------------------------------------------
(* What a packet of pid p does to the result and to the assemblers.        *)
LEMMA TakesGrows ==
  ASSUME Agreed, WellFormed, ScanInv, found \in Settled, NEW p \in Pids,
         NEW guess \in Nat,
         NEW cells \in Seq(Cells), Len(cells) = Room, NEW start, NEW pointer \in Nat,
         TakesOn(p, guess, cells, start, pointer),
         NEW acc, acc = Processed(p, guess, cells, start, pointer)
  PROVE  /\ found' \in Settled /\ Grows(found, found')
         /\ \A q \in Pids : q # p => context'[q] = context[q]
         /\ p \in known => found' = acc.f /\ context'[p].data = acc.data
                           /\ context'[p].expected = acc.expected
<1>1. CASE p \notin known
  <2>1. found' = found /\ context' = context
    BY <1>1 DEF TakesOn, found
  <2> QED BY <2>1, <1>1, GrowsNot
<1>2. CASE p \in known
  <2>1. acc \in Growing(p, found)
    BY ProcessedGrows
  <2>2. /\ services' = acc.f.services /\ carriers' = acc.f.carriers
        /\ known' = acc.f.known
        /\ context' = [context EXCEPT ![p] = [data |-> acc.data, expected |-> acc.expected]]
    BY <1>2 DEF TakesOn
  <2>3. acc.f \in Settled /\ Grows(found, acc.f)
    BY <2>1 DEF Growing
  <2>4. found' = acc.f
    <3> DEFINE f == acc.f
    <3>1. f = [services |-> f.services, carriers |-> f.carriers, known |-> f.known]
      <4> HIDE DEF f
      <4>1. f \in Results
        BY <2>3 DEF f, Settled
      <4> QED BY <4>1, ResultIs
    <3> QED BY <2>2, <3>1 DEF found
  <2>5. \A q \in Pids : context'[q] = IF q = p THEN [data |-> acc.data, expected |-> acc.expected]
                                      ELSE context[q]
    BY <2>2 DEF ScanInv, Assembling
  <2> QED BY <2>3, <2>4, <2>5
<1> QED BY <1>1, <1>2

(* The sections of the other pids are held as they were.                   *)
LEMMA CollectingStep ==
  ASSUME Collecting, NEW p \in Pids,
         \A q \in Pids : q # p =>
           place'[q] = place[q] /\ inRow'[q] = inRow[q] /\ context'[q] = context[q],
         \A k \in DOMAIN Carousel[p] : Within(p, k, Base(place'[p])) /\ InARow(p, k)' =>
           /\ context'[p].data = Passed(p, k, Base(place'[p]))
           /\ context'[p].expected = Carousel[p][k].size
  PROVE  Collecting'
<1> SUFFICES ASSUME NEW q \in Pids, NEW k \in DOMAIN Carousel[q],
                    Within(q, k, Base(place'[q])), InARow(q, k)'
             PROVE  /\ context'[q].data = Passed(q, k, Base(place'[q]))
                    /\ context'[q].expected = Carousel[q][k].size
  BY DEF Collecting
<1>1. CASE q = p
  BY <1>1
<1>2. CASE q # p
  <2>1. place'[q] = place[q] /\ inRow'[q] = inRow[q] /\ context'[q] = context[q]
    BY <1>2
  <2>2. InARow(q, k)
    BY <2>1 DEF InARow
  <2> QED BY <2>1, <2>2 DEF Collecting
<1> QED BY <1>1, <1>2

(* A packet that is not received ends the row: nothing of it is held.      *)
LEMMA RowEnds ==
  ASSUME Agreed, WellFormed, HearingInv, HeardIsKnown, NEW p \in Pids, Advances(p),
         inRow' = [inRow EXCEPT ![p] = 0], received' = received,
         found' \in Settled, Grows(found, found'),
         \A q \in Pids : q # p => context'[q] = context[q]
  PROVE  (found \in Settled)' /\ Counted' /\ Collecting' /\ HeardIsKnown'
<1>1. /\ place = [q \in Pids |-> place[q]] /\ inRow \in [Pids -> Nat]
      /\ place' = [place EXCEPT ![p] = (place[p] % PacketsOf(p)) + 1]
  BY DEF HearingInv, ScanInv, OnPacket, Counted, Advances
<1>2. /\ \A q \in Pids : q # p => place'[q] = place[q] /\ inRow'[q] = inRow[q]
      /\ inRow'[p] = 0 /\ inRow' \in [Pids -> Nat]
  BY <1>1
<1>3. Counted'
  BY <1>2 DEF HearingInv, Counted
<1>4. ASSUME NEW k \in DOMAIN Carousel[p] PROVE ~InARow(p, k)'
  <2> SUFFICES ASSUME NEW m \in 1..PacketsOf(p), m < place'[p],
                      inRow'[p] >= place'[p] - m
               PROVE  FALSE
    BY DEF InARow
  <2>1. place'[p] \in Nat /\ m \in Nat
    BY AdvancesIsOnPacket DEF HearingInv, ScanInv, OnPacket
  <2> QED BY <2>1, <1>2
<1>5. Collecting'
  BY <1>2, <1>4, CollectingStep DEF HearingInv
<1>6. HeardIsKnown'
  BY TellingStays DEF HeardIsKnown, HearingInv, Counted
<1> QED BY <1>3, <1>5, <1>6

(* A packet that is received: what it ends is told, and what it does not   *)
(* end is held.                                                            *)
LEMMA StepHears ==
  ASSUME Agreed, WellFormed, HearingInv, HeardIsKnown, NEW p \in Pids, Fills(p),
         ReceivesOn(p)
  PROVE  (found \in Settled)' /\ Counted' /\ Collecting' /\ HeardIsKnown'
<1> DEFINE n == place[p]  cells == PayloadOf(p, n)  q == Base(n) + Room
<1>1. /\ n \in 1..PacketsOf(p) /\ PacketsOf(p) \in Nat /\ Room \in Nat /\ n \in Nat
      /\ cells \in Seq(Cells) /\ Len(cells) = Room
  BY ScanPackets, ScanPayloadLies DEF HearingInv, ScanInv, OnPacket
<1>2. PICK guess \in Nat : TakesOn(p, guess, cells, Starts(cells), PointerOf(cells))
  BY DEF ReceivesOn
<1> DEFINE acc == Processed(p, guess, cells, Starts(cells), PointerOf(cells))
<1>3. /\ found' \in Settled /\ Grows(found, found')
      /\ \A r \in Pids : r # p => context'[r] = context[r]
      /\ p \in known => found' = acc.f /\ context'[p].data = acc.data
                        /\ context'[p].expected = acc.expected
  <2> HIDE DEF cells
  <2> QED BY <1>1, <1>2, ScanPointerIs, TakesGrows DEF HearingInv
<1>4. /\ place' = [place EXCEPT ![p] = (n % PacketsOf(p)) + 1]
      /\ inRow' = [inRow EXCEPT ![p] = IF p \notin known THEN 0
                     ELSE IF inRow[p] = PacketsOf(p) THEN inRow[p] ELSE inRow[p] + 1]
      /\ received' = [received EXCEPT ![p] = received[p] \union
           {k \in LastOn(p, n) : Cardinality(SpansOn[p][k]) <= inRow'[p]}]
  BY DEF ReceivesOn, Advances
<1>5. /\ place = [r \in Pids |-> place[r]] /\ inRow \in [Pids -> Nat]
      /\ found \in Settled
      /\ received = [r \in Pids |-> received[r]]
      /\ \A r \in Pids : received[r] \subseteq DOMAIN Carousel[r]
  BY DEF HearingInv, ScanInv, OnPacket, Counted
<1>6. /\ \A r \in Pids : r # p => /\ place'[r] = place[r] /\ inRow'[r] = inRow[r]
                                  /\ received'[r] = received[r]
      /\ place'[p] = (n % PacketsOf(p)) + 1
      /\ inRow' \in [Pids -> Nat] /\ inRow'[p] <= inRow[p] + 1 /\ inRow[p] \in Nat
      /\ inRow'[p] > 0 => p \in known
  <2> DEFINE l == IF p \notin known THEN 0
                  ELSE IF inRow[p] = PacketsOf(p) THEN inRow[p] ELSE inRow[p] + 1
  <2>1. inRow[p] \in Nat /\ l \in Nat /\ l <= inRow[p] + 1 /\ (l > 0 => p \in known)
    BY <1>5
  <2>2. inRow' = [inRow EXCEPT ![p] = l]
    BY <1>4
  <2> HIDE DEF l, n
  <2> QED BY <2>1, <2>2, <1>4, <1>5
<1>7. received'[p] = received[p] \union {k \in LastOn(p, n) : Cardinality(SpansOn[p][k]) <= inRow'[p]}
  BY <1>4, <1>5
<1>8. received' = [r \in Pids |-> received'[r]]
  BY <1>4, <1>5
<1> HIDE DEF acc, cells
(* The packets of a section that are counted in the row. *)
<1>9. ASSUME NEW k \in DOMAIN Carousel[p], NEW m \in 1..n, Begun(Carousel[p], m, k),
             inRow'[p] >= n - m + 1, Base(n) < Closes(p, k)
      PROVE  p \in known /\ HeldOrTold(p, acc, k, q)
  <2>1. inRow'[p] > 0 /\ inRow[p] >= n - m /\ m \in Nat
    <3>1. inRow'[p] \in Nat /\ m \in Nat /\ m <= n
      BY <1>1, <1>6
    <3> HIDE DEF n
    <3> QED BY <3>1, <1>1, <1>6, <1>9
  <2>2. p \in known
    BY <2>1, <1>6
  <2> HIDE DEF n, q
  <2>3. n = place[p] /\ q = Base(n) + Room
    BY DEF n, q
  <2> QED BY <2>1, <2>2, <2>3, <1>1, <1>2, <1>9, ProcessedTells DEF acc, cells
<1>10. Counted'
  <2>1. LastOn(p, n) \subseteq DOMAIN Carousel[p]
    BY DEF LastOn
  <2>2. ASSUME NEW r \in Pids PROVE received'[r] \subseteq DOMAIN Carousel[r]
    <3>1. CASE r = p
      BY <2>1, <3>1, <1>5, <1>7
    <3>2. CASE r # p
      BY <3>2, <1>5, <1>6
    <3> QED BY <3>1, <3>2
  <2> QED BY <2>2, <1>6, <1>8 DEF Counted
<1>11. ASSUME NEW k \in DOMAIN Carousel[p], Within(p, k, Base(place'[p])), InARow(p, k)'
       PROVE  /\ context'[p].data = Passed(p, k, Base(place'[p]))
              /\ context'[p].expected = Carousel[p][k].size
  <2>1. PICK m \in 1..PacketsOf(p) :
          Begun(Carousel[p], m, k) /\ m < place'[p] /\ inRow'[p] >= place'[p] - m
    BY <1>11 DEF InARow
  <2>2. place'[p] = n + 1 /\ m \in 1..n
    <3> HIDE DEF n
    <3>1. CASE n = PacketsOf(p)
      <4>1. n % n = 0
        BY <1>1
      <4> QED BY <4>1, <3>1, <2>1, <1>1, <1>6
    <3>2. CASE n # PacketsOf(p)
      <4> DEFINE l == PacketsOf(p)
      <4>1. l \in Nat /\ n \in 1..l /\ n # l
        BY <3>2, <1>1
      <4> HIDE DEF l
      <4>2. n % l = n
        BY <4>1
      <4> QED BY <4>1, <4>2, <2>1, <1>1, <1>6 DEF l
    <3> QED BY <3>1, <3>2
  <2>3. Base(place'[p]) = q
    BY <2>2, <1>1, ScanPayloadLies
  <2>4. q < Closes(p, k) /\ Base(n) < Closes(p, k)
    <3>1. Base(n) \in Nat /\ Closes(p, k) \in Nat /\ Room \in Nat
      BY <1>1, ScanPayloadLies, ScanLies
    <3>2. q < Closes(p, k)
      BY <2>3, <1>11 DEF Within
    <3> QED BY <3>1, <3>2
  <2>5. inRow'[p] >= n - m + 1
    <3> HIDE DEF n
    <3> QED BY <2>1, <2>2, <1>1
  <2>6. p \in known /\ Collects(p, acc, k, q)
    BY <2>1, <2>2, <2>4, <2>5, <1>9 DEF HeldOrTold
  <2> QED BY <2>3, <2>6, <1>3 DEF Collects
<1>12. Collecting'
  BY <1>3, <1>6, <1>11, CollectingStep DEF HearingInv
<1>13. ASSUME NEW k \in LastOn(p, n), Cardinality(SpansOn[p][k]) <= inRow'[p]
       PROVE  Tells(found', Carousel[p][k])
  <2> DEFINE ss == Carousel[p]
  <2>1. /\ k \in DOMAIN ss /\ SpansOn[p][k] = SpansOf(CycleOf(ss), Room, k)
        /\ k \in LastOf(ss, n)
    <3>1. Cycles[p] = CycleOf(ss)
      BY ScanCycleIs
    <3>2. \A j \in DOMAIN ss : SpansOn[p][j] = SpansOf(CycleOf(ss), Room, j)
      BY <3>1 DEF SpansOn
    <3> QED BY <3>2 DEF LastOn, LastOf
  <2>2. Packed(ss) /\ n \in 1..PacketsIn(ss)
    BY <1>1, ScanPackets
  <2> HIDE DEF ss, n
  <2>3. /\ Base(n) < Stop(ss, k) /\ Stop(ss, k) <= Base(n) + Room
        /\ \E m \in 1..n : /\ Begun(ss, m, k)
                           /\ Cardinality(SpansOf(CycleOf(ss), Room, k)) = n - m + 1
    BY <2>1, <2>2, LastIsIn
  <2>4. PICK m \in 1..n : Begun(ss, m, k) /\ Cardinality(SpansOn[p][k]) = n - m + 1
    BY <2>1, <2>3
  <2>5. Base(n) < Closes(p, k) /\ Closes(p, k) <= q
    BY <2>3 DEF Closes, ss, q
  <2>6. p \in known /\ HeldOrTold(p, acc, k, q)
    <3>1. inRow'[p] >= n - m + 1 /\ m \in 1..n
      <4>1. inRow'[p] \in Nat
        BY <1>6
      <4> QED BY <4>1, <2>4, <1>1, <1>13
    <3> QED BY <3>1, <2>1, <2>4, <2>5, <1>9 DEF ss
  <2> QED BY <2>5, <2>6, <1>3 DEF HeldOrTold
<1>14. HeardIsKnown'
  <2> SUFFICES ASSUME NEW r \in Pids,
                      NEW k \in received'[r] PROVE Tells(found', Carousel[r][k])
    BY DEF HeardIsKnown
  <2>1. CASE k \in received[r]
    <3>1. k \in DOMAIN Carousel[r] /\ Tells(found, Carousel[r][k])
      BY <2>1, <1>5 DEF HeardIsKnown
    <3> QED BY <3>1, <1>3, <1>5, TellingStays
  <2>2. CASE k \notin received[r]
    BY <2>2, <1>6, <1>7, <1>13
  <2> QED BY <2>1, <2>2
<1> QED BY <1>3, <1>10, <1>12, <1>14

LEMMA StepHearing ==
  ASSUME Agreed, WellFormed, \A p \in Pids : Fills(p), HearingInv, HeardIsKnown,
         [ScanNext]_scanVars
  PROVE  HearingInv' /\ HeardIsKnown'
<1>1. ScanInv'
  BY ScanStep DEF HearingInv
<1>2. CASE UNCHANGED scanVars
  BY <1>1, <1>2 DEF scanVars, HearingInv, HeardIsKnown, Counted, Collecting, InARow,
     found
<1>3. ASSUME NEW p \in Pids, ReceivesOn(p) PROVE HearingInv' /\ HeardIsKnown'
  BY <1>1, <1>3, StepHears DEF HearingInv
<1>4. ASSUME NEW p \in Pids, LosesOn(p) PROVE HearingInv' /\ HeardIsKnown'
  <2>1. /\ Advances(p) /\ inRow' = [inRow EXCEPT ![p] = 0] /\ received' = received
        /\ found' = found /\ context' = context /\ found \in Settled
    BY <1>4 DEF LosesOn, Breaks, found, HearingInv
  <2>2. Grows(found, found')
    BY <2>1, GrowsNot
  <2> QED BY <1>1, <2>1, <2>2, RowEnds DEF HearingInv
<1>5. ASSUME NEW p \in Pids, Damaged(p) PROVE HearingInv' /\ HeardIsKnown'
  <2> DEFINE cells == [i \in 1..Room |-> Noise]
  <2>1. cells \in Seq(Cells) /\ Len(cells) = Room
    <3>1. Noise \in Cells
      BY DEF Noise, Cells
    <3> QED BY <3>1, PacketAssumption
  <2>2. /\ \E guess \in 0..LongestGuess, start \in BOOLEAN, pointer \in 0..(Room + 1) :
             TakesOn(p, guess, cells, start, pointer)
        /\ Advances(p) /\ inRow' = [inRow EXCEPT ![p] = 0] /\ received' = received
    BY <1>5 DEF Damaged, Breaks
  <2> HIDE DEF cells
  <2>3. PICK guess \in Nat, start \in BOOLEAN, pointer \in Nat :
          TakesOn(p, guess, cells, start, pointer)
    BY <2>2
  <2>4. /\ found' \in Settled /\ Grows(found, found')
        /\ \A q \in Pids : q # p => context'[q] = context[q]
    BY <2>1, <2>3, TakesGrows DEF HearingInv
  <2> QED BY <1>1, <2>2, <2>4, RowEnds DEF HearingInv
<1> QED BY <1>2, <1>3, <1>4, <1>5 DEF ScanNext

(* What was received whole is in the result to the end of the scan, for    *)
(* any tables and packets and whatever was lost between: "a table naming a *)
(* CA system beats the SDT flag", a service without its PAT entry waits    *)
(* for it, and only a table that is full leaves one out.                   *)
THEOREM HeardIsKnownHolds == ScanSpec => []HeardIsKnown
<1>1. ScanInit => HearingInv /\ HeardIsKnown
  <2> SUFFICES ASSUME ScanInit PROVE HearingInv /\ HeardIsKnown
    OBVIOUS
  <2>1. ScanInv
    BY ScanStarts
  <2>2. found \in Settled
    <3>1. services = << >> /\ carriers = {} /\ known = FirstPids
      BY DEF ScanInit, FirstPids
    <3>2. /\ DOMAIN services = {} /\ Cardinality({}) = 0 /\ IsFiniteSet({})
          /\ IsFiniteSet(FirstPids)
      BY <3>1, FS_EmptySet, FirstPidsAre
    <3>3. found \in Results
      BY <2>1 DEF ScanInv
    <3>4. found.services = services /\ found.carriers = carriers /\ found.known = known
      BY DEF found
    <3>5. /\ MaxServices \in Nat /\ MaxCarriers \in Nat
          /\ Cardinality(DOMAIN services) = 0 /\ Cardinality(carriers) = 0
      BY <3>1, <3>2, TablesAssumption
    <3>6. /\ Cardinality(DOMAIN services) <= MaxServices
          /\ Cardinality(carriers) <= MaxCarriers
      BY <3>5
    <3> QED BY <3>1, <3>2, <3>3, <3>4, <3>6 DEF Settled
  <2>3. Counted
    BY DEF ScanInit, Counted
  <2>4. Collecting
    BY <2>1 DEF ScanInit, Collecting, InARow, ScanInv, OnPacket
  <2>5. HeardIsKnown
    BY DEF ScanInit, HeardIsKnown
  <2> QED BY <2>1, <2>2, <2>3, <2>4, <2>5 DEF HearingInv
<1>2. HearingInv /\ HeardIsKnown /\ [ScanNext]_scanVars => HearingInv' /\ HeardIsKnown'
  BY CarouselAssumption, BroadcastAssumption, StepHearing
<1> QED BY <1>1, <1>2, PTL DEF ScanSpec
=============================================================================
