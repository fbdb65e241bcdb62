---------------------------- MODULE Board_proofs ----------------------------
(***************************************************************************)
(* Proofs about Board.  The programs of the threads are sequences of any   *)
(* length, so a state says what holds of all that is left to run.  The     *)
(* inductive invariant has six layers:                                     *)
(*   Shape     programs are made of procedures that fit, and only the cold *)
(*             init has a part in the pacing and the patch;                *)
(*   Tone      each value of TX_CONTROL still to be written is free of the *)
(*             tone or of the message, whatever is read for it;            *)
(*   Pacing    every way on leads through the end of the pacing;           *)
(*   Patching  the records before the next one were run or passed over;    *)
(*   Channel   whose the answers in the queue are, and which can be taken  *)
(*             for another's;                                              *)
(*   Lit       what is left to run settles the supply and its flag.        *)
(* All need Shape, and Lit needs Channel: without a fault no answer is     *)
(* taken for another's.  Otherwise they do not need each other.            *)
(* The lemmas before them say how a procedure and a program shrink: what   *)
(* holds of a sequence holds of its tail, and of one put before it if it   *)
(* holds of both.                                                          *)
(***************************************************************************)
EXTENDS Board, TLAPS, NaturalsInduction, WellFoundedInduction, FiniteSetTheorems

-----------------------------------------------------------------------------
(* Sequences of anything.                                                  *)
IsSeq(s) == s \in Seq(Range(s))

LEMMA SeqIsSeq == ASSUME NEW S, NEW s \in Seq(S) PROVE IsSeq(s)
  BY DEF IsSeq, Range

LEMMA ElementsOf ==
  ASSUME NEW s, IsSeq(s)
  PROVE  Len(s) \in Nat /\ DOMAIN s = 1..Len(s) /\ (s = <<>> <=> Len(s) = 0)
  BY DEF IsSeq

LEMMA EmptyIsSeq == IsSeq(<<>>)
  BY DEF IsSeq

LEMMA SingleIsSeq == ASSUME NEW x PROVE IsSeq(<<x>>)
  BY DEF IsSeq, Range

LEMMA Concatenated ==
  ASSUME NEW s, NEW t, IsSeq(s), IsSeq(t)
  PROVE  /\ IsSeq(s \o t)
         /\ Len(s \o t) = Len(s) + Len(t)
         /\ \A i \in 1..Len(s) : (s \o t)[i] = s[i]
         /\ \A i \in (Len(s) + 1)..(Len(s) + Len(t)) : (s \o t)[i] = t[i - Len(s)]
<1> DEFINE S == Range(s) \union Range(t)
<1>1. s \in Seq(S) /\ t \in Seq(S)
  BY DEF IsSeq
<1>2. s \o t \in Seq(S)
  BY <1>1
<1>3. IsSeq(s \o t)
  BY <1>2, SeqIsSeq
<1> HIDE DEF S
<1> QED BY <1>1, <1>3

(* Sequences with the same members are the same.                           *)
LEMMA SameMembers ==
  ASSUME NEW s, NEW t, IsSeq(s), IsSeq(t), Len(s) = Len(t),
         \A i \in 1..Len(s) : s[i] = t[i]
  PROVE  s = t
<1>1. s \in Seq(Range(s) \union Range(t)) /\ t \in Seq(Range(s) \union Range(t))
  BY DEF IsSeq
<1> QED BY <1>1

LEMMA Paired == ASSUME NEW a, NEW b PROVE <<a>> \o <<b>> = <<a, b>>
<1> DEFINE p == <<a, b>>  s == <<a>>  t == <<b>>
<1>1. IsSeq(p) /\ Len(p) = 2 /\ p[1] = a /\ p[2] = b
  BY DEF IsSeq, Range
<1>2. IsSeq(s) /\ IsSeq(t) /\ Len(s) = 1 /\ Len(t) = 1 /\ s[1] = a /\ t[1] = b
  BY SingleIsSeq
<1> HIDE DEF p, s, t
<1>3. IsSeq(s \o t) /\ Len(s \o t) = 2 /\ (s \o t)[1] = a /\ (s \o t)[2] = b
  <2>1. /\ IsSeq(s \o t) /\ Len(s \o t) = Len(s) + Len(t)
        /\ \A i \in 1..Len(s) : (s \o t)[i] = s[i]
        /\ \A i \in (Len(s) + 1)..(Len(s) + Len(t)) : (s \o t)[i] = t[i - Len(s)]
    BY <1>2, Concatenated
  <2>2. 1 \in 1..Len(s) /\ 2 \in (Len(s) + 1)..(Len(s) + Len(t)) /\ 2 - Len(s) = 1
    BY <1>2
  <2> QED BY <2>1, <2>2, <1>2
<1>4. \A i \in 1..Len(p) : i = 1 \/ i = 2
  BY <1>1
<1>5. s \o t = p
  BY <1>1, <1>3, <1>4, SameMembers
<1> QED BY <1>5 DEF p, s, t

LEMMA Tailed ==
  ASSUME NEW s, IsSeq(s), s # <<>>
  PROVE  /\ IsSeq(Tail(s)) /\ Len(Tail(s)) = Len(s) - 1 /\ Len(s) \in Nat \ {0}
         /\ Head(s) = s[1]
         /\ \A i \in 1..(Len(s) - 1) : Tail(s)[i] = s[i + 1]
<1> DEFINE S == Range(s)
<1>1. s \in Seq(S)
  BY DEF IsSeq
<1>2. Tail(s) \in Seq(S)
  BY <1>1
<1>3. IsSeq(Tail(s))
  BY <1>2, SeqIsSeq
<1> HIDE DEF S
<1> QED BY <1>1, <1>3

(* What stands before the rest of a sequence.                              *)
LEMMA Prefixed ==
  ASSUME NEW x, NEW s, IsSeq(s), s # <<>>
  PROVE  /\ IsSeq(<<x>> \o Tail(s)) /\ Len(<<x>> \o Tail(s)) = Len(s)
         /\ (<<x>> \o Tail(s))[1] = x
         /\ \A i \in 2..Len(s) : (<<x>> \o Tail(s))[i] = s[i]
<1>1. IsSeq(<<x>>) /\ Len(<<x>>) = 1 /\ <<x>>[1] = x
  BY SingleIsSeq
<1> QED BY <1>1, Tailed, Concatenated

(* Every set of natural numbers that is not empty has a least element:     *)
(* what an argument by induction over data comes down to here.             *)
LEMMA LeastNatural ==
  ASSUME NEW S \in SUBSET Nat, S # {}
  PROVE  \E n \in S : \A m \in S : n <= m
<1> DEFINE R == OpToRel(<, Nat)
<1>1. \A x, y \in Nat : x < y => <<x, y>> \in R
  BY DEF OpToRel
<1>2. IsWellFoundedOn(R, Nat)
  BY NatLessThanWellFounded
<1> HIDE DEF R
<1>3. PICK x \in S : \A y \in S : ~(<<y, x>> \in R)
  BY <1>2, WFMin
<1>4. ASSUME NEW m \in S PROVE x <= m
  <2>1. ~(<<m, x>> \in R)
    BY <1>3
  <2>2. ~(m < x)
    BY <2>1, <1>1
  <2>3. m \in Nat /\ x \in Nat
    OBVIOUS
  <2> QED BY <2>2, <2>3
<1> QED BY <1>4

(* Induction up to n, about a set.                                         *)
LEMMA UpTo ==
  ASSUME NEW n \in Nat, NEW G, 1 \in G, \A k \in 1..n : k \in G /\ k < n => k + 1 \in G
  PROVE  1..n \subseteq G
<1> DEFINE Bad == (1..n) \ G
<1>1. SUFFICES ASSUME Bad # {} PROVE FALSE
  OBVIOUS
<1>2. Bad \in SUBSET Nat
  OBVIOUS
<1> HIDE DEF Bad
<1>3. PICK k \in Bad : \A m \in Bad : k <= m
  BY <1>1, <1>2, LeastNatural
<1>4. k \in 1..n /\ k \notin G /\ k # 1
  BY <1>3 DEF Bad
<1>5. k - 1 \in 1..n /\ k - 1 < n /\ ~(k <= k - 1)
  BY <1>4
<1>6. k - 1 \in G
  BY <1>5, <1>3 DEF Bad
<1>7. (k - 1) + 1 \in G
  BY <1>5, <1>6
<1> QED BY <1>7, <1>4

(* FlattenSeq: flattening sequences over S gives a sequence over S.        *)
LEMMA FlattenSeqType ==
  ASSUME NEW S, NEW ss \in Seq(Seq(S)), ss # <<>>
  PROVE  FlattenSeq(ss) \in Seq(S)
<1> DEFINE n == Len(ss)
           Value(g, i) == IF i = 1 THEN ss[i] ELSE g[i - 1] \o ss[i]
           Is(g, k) == g \in [1..k -> Seq(S)] /\ \A i \in 1..k : g[i] = Value(g, i)
           flatten[i \in 1..n] == IF i = 1 THEN ss[i] ELSE flatten[i - 1] \o ss[i]
           Exists == {k \in 1..n : \E g : Is(g, k)}
           Typed == {k \in 1..n : flatten[k] \in Seq(S)}
<1>1. n \in Nat /\ n >= 1 /\ \A i \in 1..n : ss[i] \in Seq(S)
  OBVIOUS
<1>f. FlattenSeq(ss) = flatten[n]
  BY <1>1 DEF FlattenSeq
<1> HIDE DEF n, flatten
<1>2. 1 \in Exists
  <2>1. Is([i \in 1..1 |-> ss[1]], 1)
    BY <1>1
  <2> HIDE DEF Is
  <2> QED BY <2>1, <1>1
<1>3. ASSUME NEW k \in 1..n, k \in Exists, k < n PROVE k + 1 \in Exists
  <2>1. PICK g : Is(g, k)
    BY <1>3
  <2> DEFINE h == [i \in 1..(k + 1) |-> IF i = k + 1 THEN g[k] \o ss[k + 1] ELSE g[i]]
  <2>2. k + 1 \in 1..n /\ g[k] \in Seq(S) /\ ss[k + 1] \in Seq(S)
    BY <2>1, <1>1, <1>3
  <2>3. g[k] \o ss[k + 1] \in Seq(S)
    BY <2>2
  <2>4. h \in [1..(k + 1) -> Seq(S)]
    <3>1. ASSUME NEW i \in 1..(k + 1), i # k + 1 PROVE g[i] \in Seq(S)
      BY <3>1, <2>1, <1>1
    <3> QED BY <3>1, <2>3
  <2>5. ASSUME NEW i \in 1..(k + 1) PROVE h[i] = Value(h, i)
    <3>1. CASE i = k + 1
      <4>1. i # 1 /\ k \in 1..(k + 1) /\ k # k + 1 /\ i - 1 = k
        BY <3>1, <1>1
      <4> QED BY <4>1, <3>1
    <3>2. CASE i # k + 1 /\ i = 1
      <4>1. h[i] = g[i] /\ i \in 1..k
        BY <3>2, <1>1
      <4> HIDE DEF h
      <4> QED BY <4>1, <3>2, <2>1
    <3>3. CASE i # k + 1 /\ i # 1
      <4>1. h[i] = g[i] /\ i \in 1..k /\ h[i - 1] = g[i - 1]
        BY <3>3, <1>1
      <4> HIDE DEF h
      <4> QED BY <4>1, <3>3, <2>1
    <3> QED BY <3>1, <3>2, <3>3
  <2> HIDE DEF h
  <2>6. Is(h, k + 1)
    BY <2>4, <2>5
  <2> HIDE DEF Is
  <2> QED BY <2>6, <2>2
<1>4. 1..n \subseteq Exists
  <2> HIDE DEF Exists
  <2> QED BY <1>1, <1>2, <1>3, UpTo
<1>5. \A i \in 1..n : flatten[i] = Value(flatten, i)
  <2> HIDE DEF Is
  <2>0. n \in Exists
    <3> HIDE DEF Exists
    <3> QED BY <1>1, <1>4
  <2>1. \E g : Is(g, n)
    BY <2>0
  <2> USE DEF Is
  <2>2. PICK g : g \in [1..n -> Seq(S)] /\ \A i \in 1..n : g[i] = Value(g, i)
    <3> HIDE DEF Value
    <3> QED BY <2>1
  <2>3. g = [i \in 1..n |-> Value(g, i)]
    BY <2>2
  <2>4. flatten = [i \in 1..n |-> Value(flatten, i)]
    BY <2>3 DEF flatten
  <2> QED BY <2>4
<1>6. 1 \in Typed
  BY <1>1, <1>5
<1>7. ASSUME NEW k \in 1..n, k \in Typed, k < n PROVE k + 1 \in Typed
  <2>1. k + 1 \in 1..n /\ flatten[k] \in Seq(S) /\ ss[k + 1] \in Seq(S)
    BY <1>1, <1>7
  <2>2. k + 1 # 1 /\ (k + 1) - 1 = k
    BY <1>1
  <2>3. flatten[k + 1] = Value(flatten, k + 1)
    BY <2>1, <1>5
  <2>4. flatten[k + 1] = flatten[k] \o ss[k + 1]
    BY <2>2, <2>3
  <2>5. flatten[k] \o ss[k + 1] \in Seq(S)
    BY <2>1
  <2> QED BY <2>1, <2>4, <2>5
<1>8. 1..n \subseteq Typed
  <2> HIDE DEF Typed
  <2> QED BY <1>1, <1>6, <1>7, UpTo
<1> QED BY <1>f, <1>1, <1>8

-----------------------------------------------------------------------------
(* Commands that may follow each other.  A reading follows the write of    *)
(* its address; the LNB supply and what is done once comes first in its    *)
(* procedure, the records of the patch last.                               *)
Supplies(op) == op.cmd = "write" /\ op.reg = "LNB_ENABLE"
OnBus(op) == op.cmd \notin LocalOps /\ ~Supplies(op)

Follows(a, b) ==
  /\ b.cmd = "read" => a.cmd = "point" /\ a.reg = b.reg
  /\ b.cmd \notin {"enabled", "ifenabled", "pace", "result"} /\ ~Supplies(b)
  /\ a.cmd \notin {"script", "ifenabled"} /\ (a.cmd = "ran" => b.cmd = "script")

Linked(s) == IsSeq(s) /\ \A k \in 2..Len(s) : Follows(s[k - 1], s[k])
Addressed(s) == s # <<>> => s[1].cmd # "read"

(* A value of TX_CONTROL written without the tone or without the message.  *)
Drops(op, bit) == bit \in op.clear /\ bit \notin op.add
Tidy(op) == Drops(op, "tone") \/ Drops(op, "send")
Cleared(a, b) == a.cmd = "tx" /\ Drops(a, "send") /\ "send" \notin b.add
Toned(s) ==
  \A k \in 1..Len(s) :
    s[k].cmd = "tx" => Tidy(s[k]) \/ (k > 1 /\ Cleared(s[k - 1], s[k]))

(* What is sent between the stop of the tone and its return.               *)
KeepsQuiet(op) ==
  /\ op.cmd = "tx" => "tone" \notin op.add
  /\ op.cmd = "read" => op.use \notin {"control", "modulate"}
Message(s) ==
  /\ Linked(s) /\ Addressed(s) /\ s # <<>>
  /\ \A k \in 1..Len(s) : OnBus(s[k]) /\ KeepsQuiet(s[k])

OpOK(op) ==
  /\ op.cmd = "read" /\ op.use = "modulate" => Message(op.body)
  /\ op.cmd = "ifenabled" => op.val = PowerDown
  /\ op.cmd \in {"enabled", "pace"} \/ Supplies(op) => op.val \in BOOLEAN
Fitting(s) == Linked(s) /\ \A k \in 1..Len(s) : OpOK(s[k])

(* Commands of the bus alone.                                              *)
Bus(s) == Fitting(s) /\ Toned(s) /\ Addressed(s) /\ \A k \in 1..Len(s) : OnBus(s[k])

LEMMA LinkedConcatenated ==
  ASSUME NEW s, NEW t, Linked(s), Linked(t),
         s # <<>> /\ t # <<>> => Follows(s[Len(s)], t[1])
  PROVE  Linked(s \o t)
<1>1. IsSeq(s) /\ IsSeq(t) /\ IsSeq(s \o t) /\ Len(s \o t) = Len(s) + Len(t)
  BY Concatenated DEF Linked
<1>2. Len(s) \in Nat /\ Len(t) \in Nat
  BY <1>1, ElementsOf
<1>3. ASSUME NEW k \in 2..(Len(s) + Len(t)) PROVE Follows((s \o t)[k - 1], (s \o t)[k])
  <2>1. CASE k <= Len(s)
    <3>1. (s \o t)[k] = s[k] /\ (s \o t)[k - 1] = s[k - 1]
      BY <1>1, <1>2, <2>1, Concatenated
    <3> QED BY <3>1, <2>1, <1>2 DEF Linked
  <2>2. CASE k = Len(s) + 1
    <3>1. (s \o t)[k] = t[1] /\ (s \o t)[k - 1] = s[Len(s)]
      BY <1>1, <1>2, <2>2, Concatenated
    <3>2. s # <<>> /\ t # <<>>
      BY <1>1, <1>2, <2>2, ElementsOf
    <3> QED BY <3>1, <3>2
  <2>3. CASE k > Len(s) + 1
    <3>1. (s \o t)[k] = t[k - Len(s)] /\ (s \o t)[k - 1] = t[k - 1 - Len(s)]
      BY <1>1, <1>2, <2>3, Concatenated
    <3>2. k - Len(s) \in 2..Len(t) /\ k - 1 - Len(s) = (k - Len(s)) - 1
      BY <1>2, <2>3
    <3> QED BY <3>1, <3>2 DEF Linked
  <2> QED BY <2>1, <2>2, <2>3, <1>2
<1> QED BY <1>1, <1>3 DEF Linked

(* What holds of the members of two sequences holds of those of both.      *)
LEMMA MembersConcatenated ==
  ASSUME NEW s, NEW t, IsSeq(s), IsSeq(t), NEW k \in 1..Len(s \o t)
  PROVE  \/ k \in 1..Len(s) /\ (s \o t)[k] = s[k]
         \/ k - Len(s) \in 1..Len(t) /\ (s \o t)[k] = t[k - Len(s)]
  BY Concatenated, ElementsOf

LEMMA BusConcatenated ==
  ASSUME NEW s, NEW t, Bus(s), Bus(t)
  PROVE  Bus(s \o t) /\ (s \o t = <<>> => s = <<>> /\ t = <<>>)
<1> DEFINE st == s \o t
<1>1. IsSeq(s) /\ IsSeq(t) /\ Len(s) \in Nat /\ Len(t) \in Nat
  BY ElementsOf DEF Bus, Fitting, Linked
<1>2. Len(st) = Len(s) + Len(t)
  BY <1>1, Concatenated
<1>3. s # <<>> /\ t # <<>> => Follows(s[Len(s)], t[1])
  <2> SUFFICES ASSUME s # <<>>, t # <<>> PROVE Follows(s[Len(s)], t[1])
    OBVIOUS
  <2>1. Len(s) \in 1..Len(s) /\ 1 \in 1..Len(t)
    BY <1>1, ElementsOf
  <2>2. OnBus(s[Len(s)]) /\ OnBus(t[1]) /\ t[1].cmd # "read"
    BY <2>1 DEF Bus, Addressed
  <2> QED BY <2>2 DEF OnBus, Follows, LocalOps
<1>4. Linked(st)
  BY <1>3, LinkedConcatenated DEF Bus, Fitting
<1>5. \A k \in 1..Len(st) : OpOK(st[k]) /\ OnBus(st[k])
  BY <1>1, MembersConcatenated DEF Bus, Fitting
<1>8. /\ IsSeq(st)
      /\ \A k \in 1..Len(s) : st[k] = s[k]
      /\ \A k \in (Len(s) + 1)..(Len(s) + Len(t)) : st[k] = t[k - Len(s)]
  BY <1>1, Concatenated
<1> HIDE DEF st
<1>6. Toned(st)
  <2> SUFFICES ASSUME NEW k \in 1..(Len(s) + Len(t)), st[k].cmd = "tx"
               PROVE  Tidy(st[k]) \/ (k > 1 /\ Cleared(st[k - 1], st[k]))
    BY <1>2 DEF Toned
  <2>1. CASE k <= Len(s)
    <3>1. st[k] = s[k] /\ k \in 1..Len(s)
      BY <2>1, <1>1, <1>8
    <3>2. k > 1 => st[k - 1] = s[k - 1]
      BY <2>1, <1>1, <1>8
    <3>3. Tidy(s[k]) \/ (k > 1 /\ Cleared(s[k - 1], s[k]))
      BY <3>1 DEF Bus, Toned
    <3> QED BY <3>1, <3>2, <3>3
  <2>2. CASE k > Len(s)
    <3>1. k - Len(s) \in 1..Len(t) /\ st[k] = t[k - Len(s)]
      BY <2>2, <1>1, <1>8
    <3>2. k - Len(s) > 1 => st[k - 1] = t[(k - Len(s)) - 1] /\ k > 1
      <4>1. k - Len(s) > 1 =>
              /\ k - 1 \in (Len(s) + 1)..(Len(s) + Len(t)) /\ k > 1
              /\ (k - 1) - Len(s) = (k - Len(s)) - 1
        BY <2>2, <1>1
      <4> QED BY <4>1, <1>8
    <3>3. \/ Tidy(t[k - Len(s)])
          \/ k - Len(s) > 1 /\ Cleared(t[(k - Len(s)) - 1], t[k - Len(s)])
      BY <3>1 DEF Bus, Toned
    <3> QED BY <3>1, <3>2, <3>3
  <2> QED BY <2>1, <2>2, <1>1
<1>7. Addressed(st)
  <2>1. CASE s = <<>>
    <3>1. Len(s) = 0 /\ (st # <<>> => 1 \in 1..Len(t))
      BY <2>1, <1>1, <1>2, <1>8, ElementsOf
    <3>2. st # <<>> => st[1] = t[1] /\ t # <<>>
      BY <3>1, <1>1, <1>8, ElementsOf
    <3> QED BY <3>2 DEF Addressed, Bus
  <2>2. CASE s # <<>>
    <3>1. st[1] = s[1]
      BY <2>2, <1>1, <1>8, ElementsOf
    <3> QED BY <3>1, <2>2 DEF Addressed, Bus
  <2> QED BY <2>1, <2>2
<1>9. st = <<>> => s = <<>> /\ t = <<>>
  BY <1>1, <1>2, <1>8, ElementsOf
<1> QED BY <1>4, <1>5, <1>6, <1>7, <1>9 DEF Bus, Fitting, st

-----------------------------------------------------------------------------
(* The pieces procedures are made of.                                      *)
Single(op) == OpOK(op) /\ OnBus(op) /\ op.cmd # "read" /\ (op.cmd = "tx" => Tidy(op))

LEMMA SingleIsBus == ASSUME NEW op, Single(op) PROVE Bus(<<op>>)
<1> DEFINE s == <<op>>
<1>1. IsSeq(s) /\ Len(s) = 1 /\ s[1] = op
  BY SingleIsSeq
<1> HIDE DEF s
<1>2. Bus(s)
  BY <1>1 DEF Bus, Fitting, Linked, Toned, Addressed, Single
<1> QED BY <1>2 DEF s

LEMMA EmptyIsBus == Bus(<<>>)
<1> DEFINE s == <<>>
<1>1. IsSeq(s) /\ Len(s) = 0 /\ s = <<>>
  BY EmptyIsSeq
<1> HIDE DEF s
<1>2. Bus(s)
  BY <1>1 DEF Bus, Fitting, Linked, Toned, Addressed, s
<1> QED BY <1>2 DEF s

(* The address of a register and its reading.                              *)
LEMMA ReadingIsBus ==
  ASSUME NEW r, NEW use, NEW n, use # "modulate"
  PROVE  Bus(<<Point(r), Rd(r, use, n)>>)
<1> DEFINE a == Point(r)  b == Rd(r, use, n)  s == <<a, b>>
<1>1. IsSeq(s) /\ Len(s) = 2 /\ s[1] = a /\ s[2] = b
  BY DEF IsSeq, Range
<1>2. OpOK(a) /\ OnBus(a) /\ a.cmd = "point" /\ a.reg = r
  BY DEF Point, OpOK, OnBus, Supplies, LocalOps
<1>3. OpOK(b) /\ OnBus(b) /\ b.cmd = "read" /\ b.reg = r
  BY DEF Rd, OpOK, OnBus, Supplies, LocalOps
<1> HIDE DEF a, b, s
<1>4. Follows(a, b)
  BY <1>2, <1>3 DEF Follows, OnBus, LocalOps
<1>5. \A k \in 1..Len(s) : k = 1 \/ k = 2
  BY <1>1
<1>6. \A k \in 2..Len(s) : k = 2 /\ k - 1 = 1
  BY <1>1
<1>7. Bus(s)
  BY <1>1, <1>2, <1>3, <1>4, <1>5, <1>6 DEF Bus, Fitting, Linked, Toned, Addressed
<1> QED BY <1>7 DEF a, b, s

LEMMA ReadIsBus ==
  ASSUME NEW r, NEW use, use # "modulate" PROVE Bus(Read(r, use)) /\ Read(r, use) # <<>>
  BY ReadingIsBus DEF Read

LEMMA PollIsBus == ASSUME NEW r PROVE Bus(Poll(r)) /\ Poll(r) # <<>>
  BY ReadingIsBus DEF Poll

LEMMA PutIsBus == ASSUME NEW r, NEW v, r # "LNB_ENABLE" PROVE Bus(<<Put(r, v)>>)
<1>1. Single(Put(r, v))
  BY DEF Put, Single, OpOK, OnBus, Supplies, LocalOps
<1> QED BY <1>1, SingleIsBus

LEMMA WIsBus == ASSUME NEW r, r # "LNB_ENABLE" PROVE Bus(<<W(r)>>)
<1>1. Single(W(r))
  BY DEF W, Single, OpOK, OnBus, Supplies, LocalOps
<1> QED BY <1>1, SingleIsBus

LEMMA SendCommandIsBus ==
  ASSUME NEW c PROVE Bus(SendCommand(c)) /\ SendCommand(c) # <<>>
<1>1. Bus(Poll("COMMAND")) /\ Poll("COMMAND") # <<>> /\ Bus(<<Put("COMMAND", c)>>)
  BY PollIsBus, PutIsBus
<1> QED BY <1>1, BusConcatenated DEF SendCommand

(* The same write, or other writes, one after the other.                   *)
LEMMA PutsIsBus ==
  ASSUME NEW s, IsSeq(s), \A k \in 1..Len(s) : s[k].cmd = "write" /\ ~Supplies(s[k])
  PROVE  Bus(s)
<1>1. Len(s) \in Nat
  BY ElementsOf
<1>2. \A k \in 1..Len(s) : OpOK(s[k]) /\ OnBus(s[k])
  BY DEF OpOK, OnBus, LocalOps
<1>3. \A k \in 2..Len(s) : Follows(s[k - 1], s[k])
  <2> TAKE k \in 2..Len(s)
  <2>1. k \in 1..Len(s) /\ k - 1 \in 1..Len(s)
    BY <1>1
  <2> QED BY <2>1 DEF Follows
<1>4. Addressed(s)
  <2>1. s # <<>> => 1 \in 1..Len(s)
    BY ElementsOf
  <2> QED BY <2>1 DEF Addressed
<1>5. Toned(s)
  BY DEF Toned
<1> QED BY <1>2, <1>3, <1>4, <1>5 DEF Bus, Fitting, Linked

LEMMA TunerI2cIsBus == ASSUME NEW on PROVE Bus(TunerI2c(on)) /\ TunerI2c(on) # <<>>
<1> DEFINE s == TunerI2c(on)
<1>1. IsSeq(s) /\ Len(s) = 3
  BY DEF TunerI2c, IsSeq, Range
<1>2. \A k \in 1..3 : s[k] = Put("REPEATER", on)
  BY DEF TunerI2c
<1> HIDE DEF s
<1>3. \A k \in 1..Len(s) : s[k].cmd = "write" /\ ~Supplies(s[k])
  BY <1>1, <1>2 DEF Put, Supplies
<1>4. Bus(s)
  BY <1>1, <1>3, PutsIsBus
<1>5. s # <<>>
  BY <1>1
<1> QED BY <1>4, <1>5 DEF s

(* The registers written with a value of no consequence here.              *)
Registers == {
  "ADAPT", "AGC", "AGC1", "AGC2", "ARG0", "ARG1", "ARG2", "ARGS", "BIT_ORDER",
  "BLIND_CFO", "BLIND_SR", "BUS_ENABLE", "BUS_OFF", "CONTINUOUS", "DISEQC_RESET",
  "DIVIDER", "EDGE", "ERROR", "FIFO", "FORMAT", "FRAC_D", "FRAC_N", "GPIO_CLOCK",
  "GPIO_DATA", "GPIO_SCL", "GPIO_SDA", "MAX_GAIN", "MEMORY", "MIN_GAIN", "MODE",
  "MPEG_CLOCK", "NOM_CFO", "NOM_SR", "PHASE", "PIN", "PL_SCRAMBLE", "POLARITY", "RX",
  "RX_TIMEOUT", "SAMPLE_D", "SAMPLE_N", "SELECT", "SPECTRUM", "STREAM_ID", "STREAM_RAW",
  "STREAM_TYPE", "STRENGTH", "TS_FORMAT", "TUNER", "TUNER_04", "TUNER_07", "TUNER_08",
  "TUNER_09", "TUNER_0A", "TUNER_0B", "TUNER_2B", "TUNER_SRST", "TUNER_TABLE", "VALID",
  "XTAL"}

LEMMA WritesIsBus ==
  ASSUME NEW rs \in Seq(Registers)
  PROVE  /\ Bus(Writes(rs)) /\ Len(Writes(rs)) = Len(rs)
         /\ (rs # <<>> => Writes(rs) # <<>>)
<1> DEFINE s == Writes(rs)
<1>1. "LNB_ENABLE" \notin Registers
  BY DEF Registers
<1>2. Len(rs) \in Nat /\ \A k \in 1..Len(rs) : rs[k] \in Registers
  OBVIOUS
<1>3. s = [k \in 1..Len(rs) |-> W(rs[k])]
  BY DEF Writes
<1> HIDE DEF s
<1>4. IsSeq(s) /\ Len(s) = Len(rs)
  BY <1>2, <1>3 DEF IsSeq, Range
<1>5. \A k \in 1..Len(s) : s[k] = W(rs[k]) /\ rs[k] # "LNB_ENABLE"
  BY <1>1, <1>2, <1>3, <1>4
<1>6. \A r : r # "LNB_ENABLE" => W(r).cmd = "write" /\ ~Supplies(W(r))
  BY DEF W, Supplies
<1>8. \A k \in 1..Len(s) : s[k].cmd = "write" /\ ~Supplies(s[k])
  BY <1>5, <1>6
<1>7. Bus(s) /\ (rs # <<>> => s # <<>>)
  BY <1>4, <1>8, PutsIsBus, ElementsOf
<1> QED BY <1>4, <1>7 DEF s

-----------------------------------------------------------------------------
(* The procedures of the tuning.                                           *)
LEMMA TxIsSingle ==
  ASSUME NEW clear, NEW add, \/ "tone" \in clear /\ "tone" \notin add
                             \/ "send" \in clear /\ "send" \notin add
  PROVE  Single(Tx(clear, add))
  BY DEF Tx, Single, Tidy, Drops, OpOK, OnBus, Supplies, LocalOps

(* A second value of TX_CONTROL over a first one without the message.      *)
LEMMA TwoValuesAreBus ==
  ASSUME NEW c1, NEW a1, NEW c2, NEW a2,
         "send" \in c1, "send" \notin a1, "send" \notin a2
  PROVE  Bus(<<Tx(c1, a1), Tx(c2, a2)>>)
<1> DEFINE a == Tx(c1, a1)  b == Tx(c2, a2)  s == <<a, b>>
<1>1. IsSeq(s) /\ Len(s) = 2 /\ s[1] = a /\ s[2] = b
  BY DEF IsSeq, Range
<1>2. Single(a)
  BY TxIsSingle
<1>3. OpOK(b) /\ OnBus(b) /\ b.cmd = "tx" /\ Cleared(a, b) /\ Follows(a, b)
  BY DEF Tx, OpOK, OnBus, Supplies, LocalOps, Cleared, Drops, Follows
<1> HIDE DEF a, b, s
<1>4. \A k \in 1..Len(s) : k = 1 \/ (k = 2 /\ k > 1 /\ k - 1 = 1)
  BY <1>1
<1>5. \A k \in 2..Len(s) : k = 2 /\ k - 1 = 1
  BY <1>1
<1>6. Toned(s)
  BY <1>1, <1>2, <1>3, <1>4 DEF Toned, Single
<1>7. Bus(s)
  BY <1>1, <1>2, <1>3, <1>4, <1>5, <1>6 DEF Bus, Fitting, Linked, Addressed, Single
<1> QED BY <1>7 DEF a, b, s

LEMMA SetToneIsBus == ASSUME NEW on PROVE Bus(SetTone(on)) /\ SetTone(on) # <<>>
<1>1. Bus(Read("TX", "control")) /\ Read("TX", "control") # <<>>
  BY ReadIsBus
<1>2. Bus(<<Tx(Wave, {"w0", "w1"}), Tx({}, {"tone"})>>)
  BY TwoValuesAreBus DEF Wave
<1>3. Bus(<<Tx({"tone"}, {})>>)
  BY TxIsSingle, SingleIsBus
<1>4. CASE on
  BY <1>1, <1>2, <1>4, BusConcatenated DEF SetTone
<1>5. CASE ~on
  BY <1>1, <1>3, <1>5, BusConcatenated DEF SetTone
<1> QED BY <1>4, <1>5

(* A message with the command that sends it.                               *)
Quietly(s) == Bus(s) /\ \A k \in 1..Len(s) : KeepsQuiet(s[k])

LEMMA QuietlyConcatenated ==
  ASSUME NEW s, NEW t, Quietly(s), Quietly(t) PROVE Quietly(s \o t)
<1>1. Bus(s \o t)
  BY BusConcatenated DEF Quietly
<1>2. IsSeq(s) /\ IsSeq(t)
  BY DEF Quietly, Bus, Fitting, Linked
<1>3. \A k \in 1..Len(s \o t) : KeepsQuiet((s \o t)[k])
  BY <1>2, MembersConcatenated DEF Quietly
<1> QED BY <1>1, <1>3 DEF Quietly

LEMMA WritesAreQuiet == ASSUME NEW rs \in Seq(Registers) PROVE Quietly(Writes(rs))
<1> DEFINE s == Writes(rs)
<1>1. Bus(s) /\ Len(s) = Len(rs)
  BY WritesIsBus
<1>2. Len(rs) \in Nat /\ s = [k \in 1..Len(rs) |-> W(rs[k])]
  BY DEF Writes
<1> HIDE DEF s
<1>3. \A r : KeepsQuiet(W(r))
  BY DEF KeepsQuiet, W
<1>4. \A k \in 1..Len(s) : KeepsQuiet(s[k])
  BY <1>1, <1>2, <1>3
<1>5. Quietly(s)
  BY <1>1, <1>4 DEF Quietly
<1> QED BY <1>5 DEF s

LEMMA ReadingIsQuiet ==
  ASSUME NEW r, NEW use, NEW n, use \notin {"modulate", "control"}
  PROVE  Quietly(<<Point(r), Rd(r, use, n)>>)
<1> DEFINE a == Point(r)  b == Rd(r, use, n)  s == <<a, b>>
<1>1. Bus(s)
  BY ReadingIsBus
<1>2. Len(s) = 2 /\ s[1] = a /\ s[2] = b
  OBVIOUS
<1>3. KeepsQuiet(a) /\ KeepsQuiet(b)
  BY DEF KeepsQuiet, Point, Rd
<1> HIDE DEF a, b, s
<1>4. \A k \in 1..Len(s) : k = 1 \/ k = 2
  BY <1>2
<1>5. Quietly(s)
  BY <1>1, <1>2, <1>3, <1>4 DEF Quietly
<1> QED BY <1>5 DEF a, b, s

LEMMA TxIsQuiet ==
  ASSUME NEW clear, NEW add, "send" \in clear, "send" \notin add, "tone" \notin add
  PROVE  Quietly(<<Tx(clear, add)>>)
<1> DEFINE a == Tx(clear, add)  s == <<a>>
<1>1. Bus(s)
  BY TxIsSingle, SingleIsBus
<1>2. Len(s) = 1 /\ s[1] = a
  OBVIOUS
<1>3. KeepsQuiet(a)
  BY DEF KeepsQuiet, Tx
<1> HIDE DEF a, s
<1>4. Quietly(s)
  BY <1>1, <1>2, <1>3 DEF Quietly
<1> QED BY <1>4 DEF a, s

LEMMA TransmitIsBus ==
  ASSUME NEW body, Quietly(body), body # <<>>
  PROVE  Bus(Transmit(body)) /\ Transmit(body) # <<>>
<1> DEFINE start == Tx({}, {"send"})
           m == body \o <<start>> \o Poll("TX_STATUS")
           a == Point("TX")
           b == [cmd |-> "read", reg |-> "TX", use |-> "modulate", polls |-> 0, body |-> m]
           s == <<a, b>>
<1>1. start.cmd = "tx" /\ KeepsQuiet(start) /\ OnBus(start) /\ \A x : OnBus(x) => Follows(x, start)
  BY DEF Tx, KeepsQuiet, OnBus, Supplies, LocalOps, Follows
<1> HIDE DEF start
<1>2. Linked(<<start>>) /\ Len(<<start>>) = 1 /\ <<start>>[1] = start /\ <<start>> # <<>>
  BY SingleIsSeq DEF Linked
<1>3. IsSeq(body) /\ Len(body) \in Nat \ {0} /\ Linked(body)
  BY ElementsOf DEF Quietly, Bus, Fitting, Linked
<1>4. Linked(body \o <<start>>)
  <2>1. Len(body) \in 1..Len(body)
    BY <1>3
  <2>2. Follows(body[Len(body)], start)
    BY <2>1, <1>1 DEF Quietly, Bus
  <2> QED BY <2>2, <1>2, <1>3, LinkedConcatenated
<1>5. Quietly(Poll("TX_STATUS"))
  BY ReadingIsQuiet DEF Poll
<1> DEFINE u == body \o <<start>>  p == Poll("TX_STATUS")
<1>6. /\ IsSeq(u) /\ Len(u) = Len(body) + 1 /\ u[Len(u)] = start
      /\ \A k \in 1..Len(body) : u[k] = body[k]
  BY <1>2, <1>3, Concatenated, SingleIsSeq
<1>7. \A k \in 1..Len(u) : OnBus(u[k]) /\ KeepsQuiet(u[k])
  <2> TAKE k \in 1..Len(u)
  <2>1. CASE k \in 1..Len(body)
    BY <2>1, <1>6 DEF Quietly, Bus
  <2>2. CASE k = Len(u)
    BY <2>2, <1>1, <1>6
  <2> QED BY <2>1, <2>2, <1>3, <1>6
<1>8. m = u \o p
  OBVIOUS
<1>9. Linked(u) /\ Linked(p) /\ IsSeq(p) /\ Addressed(p) /\ u # <<>>
  BY <1>4, <1>5, <1>6, <1>3, ElementsOf DEF Quietly, Bus, Fitting, Linked
<1> HIDE DEF u, p, m
<1>10. p # <<>> => Follows(u[Len(u)], p[1])
  <2> SUFFICES ASSUME p # <<>> PROVE Follows(start, p[1])
    BY <1>6
  <2>1. 1 \in 1..Len(p)
    BY <1>9, ElementsOf
  <2>2. OnBus(p[1]) /\ p[1].cmd # "read"
    BY <2>1, <1>5, <1>9 DEF Quietly, Bus, Addressed, p
  <2> QED BY <2>2, <1>1 DEF Follows, OnBus, LocalOps
<1>11. Linked(m)
  BY <1>8, <1>9, <1>10, LinkedConcatenated
<1>12. \A k \in 1..Len(m) : OnBus(m[k]) /\ KeepsQuiet(m[k])
  <2> TAKE k \in 1..Len(m)
  <2>1. \/ k \in 1..Len(u) /\ m[k] = u[k]
        \/ k - Len(u) \in 1..Len(p) /\ m[k] = p[k - Len(u)]
    BY <1>6, <1>8, <1>9, MembersConcatenated
  <2> QED BY <2>1, <1>7, <1>5 DEF Quietly, Bus, p
<1>13. m # <<>> /\ m[1].cmd # "read"
  <2>0. Len(p) \in Nat /\ Len(u) \in Nat \ {0}
    BY <1>3, <1>6, <1>9, ElementsOf
  <2>a. /\ Len(m) = Len(u) + Len(p) /\ IsSeq(m)
        /\ \A i \in 1..Len(u) : m[i] = u[i]
    BY <1>6, <1>8, <1>9, Concatenated
  <2>b. 1 \in 1..Len(u) /\ 1 \in 1..Len(body)
    BY <2>0, <1>3
  <2>1. m[1] = u[1] /\ u[1] = body[1] /\ Len(m) = Len(u) + Len(p) /\ IsSeq(m)
    BY <2>a, <2>b, <1>6
  <2>2. m # <<>>
    BY <2>0, <2>1, ElementsOf
  <2> QED BY <2>1, <2>2 DEF Quietly, Bus, Addressed
<1>14. Message(m)
  BY <1>11, <1>12, <1>13 DEF Message, Addressed
<1>15. IsSeq(s) /\ Len(s) = 2 /\ s[1] = a /\ s[2] = b
  BY DEF IsSeq, Range
<1>16. OpOK(a) /\ OnBus(a) /\ a.cmd = "point" /\ a.reg = "TX"
  BY DEF Point, OpOK, OnBus, Supplies, LocalOps
<1>17. OpOK(b) /\ OnBus(b) /\ b.cmd = "read" /\ b.reg = "TX"
  BY <1>14 DEF OpOK, OnBus, Supplies, LocalOps
<1>18. Transmit(body) = s
  BY DEF Transmit, m, u, p, start
<1> HIDE DEF a, b, s
<1>19. Follows(a, b)
  BY <1>16, <1>17 DEF Follows, OnBus, LocalOps
<1>20. (\A k \in 1..Len(s) : k = 1 \/ k = 2) /\ \A k \in 2..Len(s) : k = 2 /\ k - 1 = 1
  BY <1>15
<1>22. s # <<>>
  BY <1>15
<1>21. Bus(s)
  BY <1>15, <1>16, <1>17, <1>19, <1>20 DEF Bus, Fitting, Linked, Toned, Addressed
<1> QED BY <1>18, <1>21, <1>22

LEMMA SendDiseqcIsBus ==
  /\ Bus(SendDiseqc) /\ SendDiseqc # <<>>
  /\ \A second \in BOOLEAN : Bus(ToneBurst(second)) /\ ToneBurst(second) # <<>>
<1>1. Quietly(Read("RX", ""))
  BY ReadingIsQuiet DEF Read
<1>2. Quietly(Writes(<<"RX", "RX">>)) /\ Quietly(Writes(<<"FIFO", "FIFO", "FIFO", "FIFO">>))
  <2>1. <<"RX", "RX">> \in Seq(Registers) /\ <<"FIFO", "FIFO", "FIFO", "FIFO">> \in Seq(Registers)
    BY DEF Registers
  <2> QED BY <2>1, WritesAreQuiet
<1>3. /\ Quietly(<<Tx(Wave, {})>>)
      /\ Quietly(<<Tx(Wave, {"w0"})>>) /\ Quietly(<<Tx(Wave, {"w1"})>>)
  BY TxIsQuiet DEF Wave
<1> DEFINE body == Read("RX", "") \o Writes(<<"RX", "RX">>) \o <<Tx(Wave, {})>>
                   \o Writes(<<"FIFO", "FIFO", "FIFO", "FIFO">>)
<1>4. Quietly(body)
  BY <1>1, <1>2, <1>3, QuietlyConcatenated
<1>5. Len(body) >= 2
  <2> DEFINE a == Read("RX", "")
             b == Writes(<<"RX", "RX">>)
             c == <<Tx(Wave, {})>>
             d == Writes(<<"FIFO", "FIFO", "FIFO", "FIFO">>)
  <2>1. IsSeq(a) /\ IsSeq(b) /\ IsSeq(c) /\ IsSeq(d)
    BY <1>1, <1>2, <1>3 DEF Quietly, Bus, Fitting, Linked
  <2>2. Len(a) = 2
    BY DEF Read
  <2> HIDE DEF a, b, c, d
  <2>3. /\ IsSeq(a \o b) /\ Len(a \o b) = Len(a) + Len(b)
        /\ IsSeq((a \o b) \o c) /\ Len((a \o b) \o c) = Len(a \o b) + Len(c)
        /\ Len(((a \o b) \o c) \o d) = Len((a \o b) \o c) + Len(d)
    BY <2>1, Concatenated
  <2>4. Len(b) \in Nat /\ Len(c) \in Nat /\ Len(d) \in Nat
    BY <2>1, ElementsOf
  <2>5. Len(((a \o b) \o c) \o d) >= 2
    BY <2>2, <2>3, <2>4
  <2> QED BY <2>5 DEF a, b, c, d
<1>6. body # <<>>
  <2> HIDE DEF body
  <2> QED BY <1>4, <1>5, ElementsOf DEF Quietly, Bus, Fitting, Linked
<1>7. Bus(Transmit(body)) /\ Transmit(body) # <<>>
  <2> HIDE DEF body
  <2> QED BY <1>4, <1>6, TransmitIsBus
<1>8. \A w \in {"w0", "w1"} :
        Bus(Transmit(<<Tx(Wave, {w})>>)) /\ Transmit(<<Tx(Wave, {w})>>) # <<>>
  <2>1. <<Tx(Wave, {"w0"})>> # <<>> /\ <<Tx(Wave, {"w1"})>> # <<>>
    OBVIOUS
  <2> QED BY <2>1, <1>3, TransmitIsBus
<1> DEFINE bit(second) == IF second THEN "w1" ELSE "w0"
<1>9. \A second \in BOOLEAN : ToneBurst(second) = Transmit(<<Tx(Wave, {bit(second)})>>)
  BY DEF ToneBurst
<1>10. \A second \in BOOLEAN : bit(second) \in {"w0", "w1"}
  OBVIOUS
<1> HIDE DEF bit
<1>11. \A second \in BOOLEAN : Bus(ToneBurst(second)) /\ ToneBurst(second) # <<>>
  BY <1>8, <1>9, <1>10
<1> QED BY <1>7, <1>11 DEF SendDiseqc

(* The other procedures of a tune.                                         *)
LEMMA TuneProcedures ==
  /\ Bus(TunerInit) /\ TunerInit # <<>> /\ Bus(TunerTune) /\ TunerTune # <<>>
  /\ Bus(Acquire) /\ Acquire # <<>> /\ Bus(SignalStatus) /\ SignalStatus # <<>>
<1>1. /\ <<"TUNER", "TUNER", "TUNER_TABLE">> \in Seq(Registers)
      /\ <<"TUNER_04", "TUNER_2B", "TUNER_07", "TUNER_08", "TUNER_09",
           "TUNER_0A", "TUNER_0B", "TUNER_04", "TUNER_2B">> \in Seq(Registers)
      /\ <<"BLIND_SR", "BLIND_CFO", "NOM_SR", "NOM_CFO", "PL_SCRAMBLE", "STREAM_TYPE",
           "STREAM_ID", "STREAM_RAW">> \in Seq(Registers)
  BY DEF Registers
<1>2. Bus(TunerInit) /\ TunerInit # <<>> /\ Bus(TunerTune) /\ TunerTune # <<>>
  BY <1>1, WritesIsBus DEF TunerInit, TunerTune
<1>3. Bus(Acquire) /\ Acquire # <<>>
  BY <1>1, WritesIsBus, SendCommandIsBus, BusConcatenated DEF Acquire
<1>4. Bus(SignalStatus) /\ SignalStatus # <<>>
  BY ReadIsBus, BusConcatenated DEF SignalStatus
<1> QED BY <1>2, <1>3, <1>4

-----------------------------------------------------------------------------
(* The procedures of the cold init.                                        *)
LEMMA MemReadIsBus == ASSUME NEW r PROVE Bus(<<MemRead(r)>>)
<1>1. Single(MemRead(r))
  BY DEF MemRead, Single, OpOK, OnBus, Supplies, LocalOps
<1> QED BY <1>1, SingleIsBus

LEMMA IdentifyIsBus ==
  Bus(Identify) /\ Identify # <<>> /\ Bus(QueryFirmware) /\ QueryFirmware # <<>>
<1>1. Identify = <<MemRead("1222")>> \o <<MemRead("384f")>>
  BY DEF Identify
<1> QED BY <1>1, MemReadIsBus, BusConcatenated DEF Identify, QueryFirmware

LEMMA ColdInitProcedures ==
  /\ Bus(LoadDefaults) /\ LoadDefaults # <<>> /\ Bus(InitTunerI2c) /\ InitTunerI2c # <<>>
  /\ Bus(InitDemodInput) /\ InitDemodInput # <<>> /\ Bus(ConfigureTs) /\ ConfigureTs # <<>>
  /\ Bus(InitDiseqc) /\ InitDiseqc # <<>>
<1>1. /\ <<"MPEG_CLOCK", "XTAL">> \in Seq(Registers)
      /\ <<"TUNER_SRST", "TUNER_SRST">> \in Seq(Registers)
      /\ <<"DIVIDER", "GPIO_CLOCK", "GPIO_DATA", "GPIO_SCL", "GPIO_SDA">> \in Seq(Registers)
      /\ <<"FORMAT", "SELECT", "SPECTRUM", "POLARITY", "MIN_GAIN", "MAX_GAIN">>
           \in Seq(Registers)
      /\ <<"AGC", "AGC1", "AGC2">> \in Seq(Registers)
      /\ <<"DISEQC_RESET", "SAMPLE_N", "SAMPLE_D", "FRAC_N", "FRAC_D">> \in Seq(Registers)
      /\ <<"RX", "RX_TIMEOUT", "DISEQC_RESET">> \in Seq(Registers)
  BY DEF Registers
<1>2. <<"MODE", "TS_FORMAT", "EDGE", "PHASE", "ADAPT", "STRENGTH", "ERROR", "VALID",
        "PIN", "BIT_ORDER", "CONTINUOUS", "BUS_OFF", "BUS_ENABLE">> \in Seq(Registers)
  BY DEF Registers
<1>3. Bus(LoadDefaults) /\ LoadDefaults # <<>>
  BY <1>1, WritesIsBus, SendCommandIsBus, ReadIsBus, BusConcatenated DEF LoadDefaults
<1>4. Bus(InitTunerI2c) /\ InitTunerI2c # <<>>
  <2> DEFINE off == Put("REPEATER", FALSE)
  <2>0. Bus(<<off>>)
    <3>1. Single(off)
      BY DEF Put, Single, OpOK, OnBus, Supplies, LocalOps
    <3> HIDE DEF off
    <3> QED BY <3>1, SingleIsBus
  <2>1. Bus(<<W("TUNER_CONTROL")>> \o <<off>>)
    <3> HIDE DEF off
    <3> QED BY <2>0, WIsBus, BusConcatenated
  <2>2. Bus(<<W("TUNER_CONTROL"), off>>)
    <3> HIDE DEF off
    <3> QED BY <2>1, Paired
  <2> QED BY <1>1, <2>2, WritesIsBus, ReadIsBus, BusConcatenated DEF InitTunerI2c
<1>5. Bus(InitDemodInput) /\ InitDemodInput # <<>>
  BY <1>1, WritesIsBus, ReadIsBus, BusConcatenated DEF InitDemodInput
<1>6. Bus(ConfigureTs) /\ ConfigureTs # <<>>
  BY <1>2, WritesIsBus DEF ConfigureTs
<1>7. Bus(InitDiseqc) /\ InitDiseqc # <<>>
  <2>1. Bus(<<Tx(Wave \union {"tone"}, {"gap", "fifo"}), Tx({"fifo"}, {})>>)
    BY TwoValuesAreBus DEF Wave
  <2> QED BY <1>1, <2>1, WritesIsBus, ReadIsBus, BusConcatenated DEF InitDiseqc
<1> QED BY <1>3, <1>4, <1>5, <1>6, <1>7

(* The download of the firmware, in either format.                         *)
Firmware == {Bridge(c) : c \in {"fw_begin", "fw_dl", "fw_end", "fw_scatter", "fw_boot"}}

LEMMA FirmwareIsBus == ASSUME NEW s \in Seq(Firmware) PROVE Bus(s)
<1>1. IsSeq(s) /\ Len(s) \in Nat /\ \A k \in 1..Len(s) : s[k] \in Firmware
  BY SeqIsSeq
<1>2. \A op \in Firmware : Single(op) /\ op.cmd # "tx" /\ \A a \in Firmware : Follows(a, op)
  <2>1. \A op \in Firmware :
          op.cmd \in {"fw_begin", "fw_dl", "fw_end", "fw_scatter", "fw_boot"}
    <3>1. \A c : Bridge(c).cmd = c
      BY DEF Bridge
    <3> QED BY <3>1 DEF Firmware
  <2>2. \A op \in Firmware :
          op.cmd \notin LocalOps \union {"read", "tx", "write", "script", "ran"}
    BY <2>1 DEF LocalOps
  <2>3. \A op \in Firmware : Single(op) /\ op.cmd # "tx"
    BY <2>2 DEF Single, OpOK, OnBus, Supplies, LocalOps
  <2>4. \A a, op \in Firmware : Follows(a, op)
    BY <2>2 DEF Follows, Supplies, LocalOps
  <2> QED BY <2>3, <2>4
<1>3. ASSUME NEW k \in 2..Len(s) PROVE Follows(s[k - 1], s[k])
  <2>1. k \in 1..Len(s) /\ k - 1 \in 1..Len(s)
    BY <1>1
  <2> QED BY <2>1, <1>1, <1>2
<1>4. \A k \in 1..Len(s) : Single(s[k]) /\ s[k].cmd # "tx"
  BY <1>1, <1>2
<1>5. s # <<>> => 1 \in 1..Len(s)
  BY <1>1
<1> QED BY <1>1, <1>3, <1>4, <1>5 DEF Bus, Fitting, Linked, Toned, Addressed, Single

LEMMA DownloadIsBus ==
  ASSUME NEW image \in Images PROVE Bus(Download(image)) /\ Download(image) # <<>>
<1> DEFINE pieces == image.pieces
           begin == Bridge("fw_begin")  dl == Bridge("fw_dl")  end == Bridge("fw_end")
           scatter == Bridge("fw_scatter")  boot == Bridge("fw_boot")
           piece(i) == <<begin>> \o [j \in 1..pieces[i] |-> dl] \o <<end>>
           old == [i \in DOMAIN pieces |-> piece(i)]
           new == [i \in DOMAIN pieces |-> scatter]
<1>1. pieces \in Seq(Nat) /\ image.old \in BOOLEAN
  BY ImagesAssumption
<1>2. Len(pieces) \in Nat /\ DOMAIN pieces = 1..Len(pieces)
  BY <1>1
<1>3. {begin, dl, end, scatter, boot} \subseteq Firmware
  BY DEF Firmware
<1>4. Download(image) =
        (IF image.old THEN FlattenSeq(old) ELSE new) \o <<boot>> \o QueryFirmware
  BY DEF Download
<1> HIDE DEF begin, dl, end, scatter, boot, pieces
<1>5. \A i \in 1..Len(pieces) : piece(i) \in Seq(Firmware)
  <2> TAKE i \in 1..Len(pieces)
  <2>1. pieces[i] \in Nat
    BY <1>1, <1>2
  <2>2. [j \in 1..pieces[i] |-> dl] \in Seq(Firmware)
    BY <2>1, <1>3
  <2>3. <<begin>> \in Seq(Firmware) /\ <<end>> \in Seq(Firmware)
    BY <1>3
  <2> QED BY <2>2, <2>3
<1>6. old \in Seq(Seq(Firmware))
  <2> HIDE DEF piece
  <2> QED BY <1>2, <1>5
<1>7. Bus(FlattenSeq(old))
  <2>1. CASE old # <<>>
    <3> HIDE DEF old
    <3> QED BY <2>1, <1>6, FlattenSeqType, FirmwareIsBus
  <2>2. CASE old = <<>>
    <3> HIDE DEF old
    <3>1. FlattenSeq(old) = <<>>
      BY <2>2 DEF FlattenSeq
    <3> QED BY <3>1, EmptyIsBus
  <2> QED BY <2>1, <2>2
<1>8. Bus(new)
  <2>1. new \in Seq(Firmware)
    BY <1>2, <1>3
  <2> QED BY <2>1, FirmwareIsBus
<1>9. Bus(<<boot>>)
  <2>1. <<boot>> \in Seq(Firmware)
    BY <1>3
  <2> QED BY <2>1, FirmwareIsBus
<1> HIDE DEF old, new
<1>10. Bus(IF image.old THEN FlattenSeq(old) ELSE new)
  BY <1>1, <1>7, <1>8
<1> DEFINE front == IF image.old THEN FlattenSeq(old) ELSE new
<1> HIDE DEF front
<1>11. Bus(front) /\ Download(image) = (front \o <<boot>>) \o QueryFirmware
  BY <1>4, <1>10 DEF front
<1>12. Bus(front \o <<boot>>)
  BY <1>9, <1>11, BusConcatenated
<1> QED BY <1>11, <1>12, IdentifyIsBus, BusConcatenated

(* A command of the patch script.                                          *)
LEMMA CommandOpsIsBus == ASSUME NEW r PROVE Bus(CommandOps(r))
<1>1. /\ <<"ARGS", "ARG0", "ARG1">> \in Seq(Registers)
      /\ <<"MEMORY", "ARGS">> \in Seq(Registers)
      /\ <<"ARGS", "ARG0", "ARG1", "ARG2">> \in Seq(Registers)
  BY DEF Registers
<1>2. CASE r.command = "VALIDATE_CRC"
  BY <1>1, <1>2, WritesIsBus, SendCommandIsBus, ReadIsBus, BusConcatenated DEF CommandOps
<1>3. CASE r.command \in {"LOAD", "LOAD_IMMEDIATE", "LOAD_PACKED"}
  BY <1>3, WIsBus DEF CommandOps
<1>4. CASE r.command = "READ"
  BY <1>4, ReadIsBus DEF CommandOps
<1>5. CASE r.command = "DMA"
  BY <1>1, <1>5, WritesIsBus, SendCommandIsBus, BusConcatenated DEF CommandOps
<1>6. CASE r.command = "EXTRACT"
  BY <1>1, <1>6, WritesIsBus, SendCommandIsBus, BusConcatenated DEF CommandOps
<1>7. CASE r.command = "ASSERT_RESET"
  BY <1>7, PutIsBus DEF CommandOps
<1>8. CASE r.command = "RELEASE_RESET"
  BY <1>8, PutIsBus DEF CommandOps
<1>9. CASE r.command = "DMA_HW"
  BY <1>9, WIsBus, PollIsBus, BusConcatenated DEF CommandOps
<1>10. CASE r.command = "POLL"
  BY <1>10, PollIsBus DEF CommandOps
<1>11. CASE r.command \notin {"VALIDATE_CRC", "LOAD", "LOAD_IMMEDIATE", "LOAD_PACKED", "READ",
                              "DMA", "EXTRACT", "ASSERT_RESET", "RELEASE_RESET", "DMA_HW", "POLL"}
  BY <1>11, EmptyIsBus DEF CommandOps
<1> QED BY <1>2, <1>3, <1>4, <1>5, <1>6, <1>7, <1>8, <1>9, <1>10, <1>11

-----------------------------------------------------------------------------
(* Procedures.  A procedure of a program that has not begun is fresh; the  *)
(* first one may have begun.                                               *)
Fields == {"ops", "checked", "then", "sticks", "orelse"}
PaceOff == Pace(FALSE)
Thens == {<<>>, <<Off>>, <<PaceOff>>, <<Off, PaceOff>>}

Eventful(op) == op.cmd \in {"enabled", "ifenabled", "pace", "script", "ran"} \/ Supplies(op)

ProcOK(p) ==
  /\ DOMAIN p = Fields
  /\ p.checked \in BOOLEAN /\ p.sticks \in BOOLEAN /\ p.orelse \in BOOLEAN
  /\ p.then \in Thens
  /\ p.ops # <<>> /\ Fitting(p.ops)
  /\ \A k \in 1..Len(p.ops) :
       /\ p.ops[k].cmd = "script" => p.checked
       /\ p.sticks => p.ops[k].cmd \in {"write", "memread"} /\ p.ops[k].reg # "FW_VERSION"
       /\ p.orelse => ~Eventful(p.ops[k])
Fresh(p) == ProcOK(p) /\ Toned(p.ops) /\ Addressed(p.ops)

(* What most procedures have no part in: the LNB supply, the pacing and    *)
(* the patch.                                                              *)
Calm(p) == Fresh(p) /\ \A k \in 1..Len(p.ops) : ~Eventful(p.ops[k])

ProgOK(q) ==
  /\ IsSeq(q) /\ \A i \in 1..Len(q) : ProcOK(q[i])
  /\ \A i \in 2..Len(q) : Fresh(q[i])
FreshProg(q) == IsSeq(q) /\ \A i \in 1..Len(q) : Fresh(q[i])
CalmProg(q) == IsSeq(q) /\ \A i \in 1..Len(q) : Calm(q[i])

LEMMA FreshProc ==
  ASSUME NEW ops, ops # <<>>, Fitting(ops), Toned(ops), Addressed(ops),
         NEW checked \in BOOLEAN, NEW then \in Thens,
         \A k \in 1..Len(ops) : ops[k].cmd = "script" => checked
  PROVE  Fresh(Proc(ops, checked, then)) /\ Proc(ops, checked, then).ops = ops
<1> DEFINE p == Proc(ops, checked, then)
<1>1. /\ DOMAIN p = Fields /\ p.ops = ops /\ p.checked = checked /\ p.then = then
      /\ p.sticks = FALSE /\ p.orelse = FALSE
  BY DEF Proc, Fields
<1> HIDE DEF p
<1>2. Fresh(p)
  BY <1>1 DEF Fresh, ProcOK
<1> QED BY <1>1, <1>2 DEF p

LEMMA CalmProc ==
  ASSUME NEW ops, ops # <<>>, Bus(ops), NEW checked \in BOOLEAN, NEW then \in Thens
  PROVE  Calm(Proc(ops, checked, then)) /\ Proc(ops, checked, then).ops = ops
<1>1. \A k \in 1..Len(ops) : ops[k].cmd # "script" /\ ~Eventful(ops[k])
  BY DEF Bus, OnBus, LocalOps, Eventful
<1>2. Fresh(Proc(ops, checked, then)) /\ Proc(ops, checked, then).ops = ops
  BY <1>1, FreshProc DEF Bus
<1> QED BY <1>1, <1>2 DEF Calm

LEMMA PlainProcs ==
  ASSUME NEW ops, ops # <<>>, Bus(ops)
  PROVE  /\ Calm(Unchecked(ops)) /\ Calm(Checked(ops)) /\ Calm(Paced(ops))
         /\ Unchecked(ops).ops = ops /\ Checked(ops).ops = ops /\ Paced(ops).ops = ops
<1>1. <<>> \in Thens /\ <<Pace(FALSE)>> \in Thens
  BY Zenon DEF Thens, PaceOff
<1>2. TRUE \in BOOLEAN /\ FALSE \in BOOLEAN
  OBVIOUS
<1>3. Calm(Unchecked(ops)) /\ Unchecked(ops).ops = ops
  BY <1>1, <1>2, CalmProc, Zenon DEF Unchecked
<1>4. Calm(Checked(ops)) /\ Checked(ops).ops = ops
  BY <1>1, <1>2, CalmProc, Zenon DEF Checked
<1>5. Calm(Paced(ops)) /\ Paced(ops).ops = ops
  BY <1>1, <1>2, CalmProc, Zenon DEF Paced
<1> QED BY <1>3, <1>4, <1>5

(* A procedure of one operation that is done without the bus.              *)
LEMMA LocalIsFitting ==
  ASSUME NEW op, OpOK(op), op.cmd \in LocalOps
  PROVE  Fitting(<<op>>) /\ Toned(<<op>>) /\ Addressed(<<op>>) /\ <<op>> # <<>>
<1> DEFINE s == <<op>>
<1>1. IsSeq(s) /\ Len(s) = 1 /\ s[1] = op /\ s # <<>>
  BY SingleIsSeq
<1> HIDE DEF s
<1>2. op.cmd # "tx" /\ op.cmd # "read"
  BY DEF LocalOps
<1>3. Fitting(s) /\ Toned(s) /\ Addressed(s)
  BY <1>1, <1>2 DEF Fitting, Linked, Toned, Addressed
<1> QED BY <1>1, <1>3 DEF s

(* The supply of the LNB: its procedures are the ones that begin so.       *)
Lights(p) == Supplies(p.ops[1]) /\ p.ops[1].val
Darkens(p) == Supplies(p.ops[1]) /\ ~p.ops[1].val
Notes(p) == p.ops[1].cmd = "enabled" /\ p.ops[1].val
Unnotes(p) == p.ops[1].cmd = "enabled" /\ ~p.ops[1].val

LEMMA SetVoltageIsFitting ==
  ASSUME NEW v \in BOOLEAN
  PROVE  LET s == SetVoltage(v)
         IN  /\ Fitting(s) /\ Toned(s) /\ Addressed(s) /\ s # <<>> /\ Len(s) = 2
             /\ Supplies(s[1]) /\ s[1].val = v
             /\ \A k \in 1..Len(s) : s[k].cmd = "write"
<1> DEFINE a == Put("LNB_ENABLE", v)  b == W("LNB_SELECT")  s == <<a, b>>
<1>1. IsSeq(s) /\ Len(s) = 2 /\ s[1] = a /\ s[2] = b /\ s # <<>>
  BY DEF IsSeq, Range
<1>2. Supplies(a) /\ a.val = v /\ a.cmd = "write" /\ b.cmd = "write" /\ ~Supplies(b)
  BY DEF Put, W, Supplies
<1> HIDE DEF a, b
<1>3. SetVoltage(v) = s
  BY DEF SetVoltage, a, b
<1> HIDE DEF s
<1>4. OpOK(a) /\ OpOK(b) /\ Follows(a, b)
  BY <1>2 DEF OpOK, Follows
<1>5. (\A k \in 1..Len(s) : k = 1 \/ k = 2) /\ \A k \in 2..Len(s) : k = 2 /\ k - 1 = 1
  BY <1>1
<1>6. Fitting(s) /\ Toned(s) /\ Addressed(s) /\ \A k \in 1..Len(s) : s[k].cmd = "write"
  BY <1>1, <1>2, <1>4, <1>5 DEF Fitting, Linked, Toned, Addressed
<1> QED BY <1>1, <1>2, <1>3, <1>6

(* The procedures that are not calm, by what they begin with.              *)
LEMMA VoltageProcs ==
  ASSUME NEW v \in BOOLEAN, NEW checked \in BOOLEAN
  PROVE  LET p == Proc(SetVoltage(v), checked, <<>>)
         IN  /\ Fresh(p) /\ Supplies(p.ops[1]) /\ p.ops[1].val = v
             /\ p.checked = checked /\ p.then = <<>> /\ p.orelse = FALSE
             /\ \A k \in 1..Len(p.ops) : p.ops[k].cmd = "write"
<1> DEFINE s == SetVoltage(v)  p == Proc(s, checked, <<>>)
<1>1. /\ Fitting(s) /\ Toned(s) /\ Addressed(s) /\ s # <<>>
      /\ Supplies(s[1]) /\ s[1].val = v /\ \A k \in 1..Len(s) : s[k].cmd = "write"
  BY SetVoltageIsFitting
<1> HIDE DEF s
<1>2. <<>> \in Thens
  BY Zenon DEF Thens
<1>3. Fresh(p) /\ p.ops = s
  BY <1>1, <1>2, FreshProc
<1>4. p.checked = checked /\ p.then = <<>> /\ p.orelse = FALSE
  BY DEF Proc
<1> HIDE DEF p
<1>5. /\ Supplies(p.ops[1]) /\ p.ops[1].val = v
      /\ \A k \in 1..Len(p.ops) : p.ops[k].cmd = "write"
  BY <1>1, <1>3
<1> QED BY <1>3, <1>4, <1>5 DEF p, s

LEMMA OneLocal ==
  ASSUME NEW op, OpOK(op), op.cmd \in LocalOps, NEW checked \in BOOLEAN, NEW then \in Thens,
         op.cmd = "script" => checked
  PROVE  LET p == Proc(<<op>>, checked, then)
         IN  /\ Fresh(p) /\ p.ops = <<op>> /\ Len(p.ops) = 1 /\ p.ops[1] = op
             /\ p.checked = checked /\ p.then = then /\ p.orelse = FALSE
<1> DEFINE s == <<op>>  p == Proc(s, checked, then)
<1>1. Fitting(s) /\ Toned(s) /\ Addressed(s) /\ s # <<>> /\ Len(s) = 1 /\ s[1] = op
  BY LocalIsFitting
<1> HIDE DEF s
<1>2. \A k \in 1..Len(s) : s[k].cmd = "script" => checked
  BY <1>1
<1>3. Fresh(p) /\ p.ops = s
  BY <1>1, <1>2, FreshProc
<1>4. p.checked = checked /\ p.then = then /\ p.orelse = FALSE
  BY DEF Proc
<1> QED BY <1>1, <1>3, <1>4 DEF s

-----------------------------------------------------------------------------
(* Programs.  What runs after the cold init has no part in the pacing and  *)
(* the patch.                                                              *)
Later(p) ==
  /\ Fresh(p) /\ p.then \in {<<>>, <<Off>>}
  /\ \A k \in 1..Len(p.ops) : p.ops[k].cmd \notin {"script", "ran", "pace"}
Steady(p) == Later(p) /\ Calm(p)
LaterProg(q) == IsSeq(q) /\ \A i \in 1..Len(q) : Later(q[i])
SteadyProg(q) == IsSeq(q) /\ \A i \in 1..Len(q) : Steady(q[i])

LEMMA SteadyProcs ==
  ASSUME NEW ops, ops # <<>>, Bus(ops)
  PROVE  Steady(Unchecked(ops)) /\ Steady(Checked(ops)) /\ Steady(Proc(ops, TRUE, <<Off>>))
<1>1. <<>> \in Thens /\ <<Off>> \in Thens
  BY Zenon DEF Thens
<1>2. TRUE \in BOOLEAN /\ FALSE \in BOOLEAN
  OBVIOUS
<1>3. ASSUME NEW checked \in BOOLEAN, NEW then \in {<<>>, <<Off>>}
      PROVE  Steady(Proc(ops, checked, then))
  <2> DEFINE p == Proc(ops, checked, then)
  <2>1. p.then = then
    BY DEF Proc
  <2>2. Calm(p)
    BY <1>1, CalmProc
  <2> HIDE DEF p
  <2>3. Steady(p)
    BY <2>1, <2>2 DEF Steady, Later, Calm, Eventful
  <2> QED BY <2>3 DEF p
<1>4. Steady(Unchecked(ops))
  BY <1>2, <1>3, Zenon DEF Unchecked
<1>5. Steady(Checked(ops))
  BY <1>2, <1>3, Zenon DEF Checked
<1>6. Steady(Proc(ops, TRUE, <<Off>>))
  BY <1>2, <1>3, Zenon
<1> QED BY <1>4, <1>5, <1>6

LEMMA OffIsSteady == Steady(Off)
<1>1. Bus(TunerI2c(FALSE)) /\ TunerI2c(FALSE) # <<>>
  BY TunerI2cIsBus, Zenon
<1> DEFINE ops == TunerI2c(FALSE)
<1> HIDE DEF ops
<1>2. Off = Unchecked(ops)
  BY Zenon DEF Off, ops
<1>3. Bus(ops) /\ ops # <<>>
  BY <1>1 DEF ops
<1> QED BY <1>2, <1>3, SteadyProcs

LEMMA LaterConcatenated ==
  ASSUME NEW s, NEW t, LaterProg(s), LaterProg(t) PROVE LaterProg(s \o t)
<1>1. IsSeq(s) /\ IsSeq(t) /\ IsSeq(s \o t)
  BY Concatenated DEF LaterProg
<1> QED BY <1>1, MembersConcatenated DEF LaterProg

LEMMA SteadyConcatenated ==
  ASSUME NEW s, NEW t, SteadyProg(s), SteadyProg(t) PROVE SteadyProg(s \o t)
<1>1. IsSeq(s) /\ IsSeq(t) /\ IsSeq(s \o t)
  BY Concatenated DEF SteadyProg
<1> QED BY <1>1, MembersConcatenated DEF SteadyProg

LEMMA CalmConcatenated ==
  ASSUME NEW s, NEW t, CalmProg(s), CalmProg(t) PROVE CalmProg(s \o t)
<1>1. IsSeq(s) /\ IsSeq(t) /\ IsSeq(s \o t)
  BY Concatenated DEF CalmProg
<1> QED BY <1>1, MembersConcatenated DEF CalmProg

LEMMA SteadyIsLater == ASSUME NEW q, SteadyProg(q) PROVE LaterProg(q)
  BY DEF SteadyProg, LaterProg, Steady

LEMMA EmptyProg == SteadyProg(<<>>)
<1>1. IsSeq(<<>>) /\ Len(<<>>) = 0
  BY EmptyIsSeq
<1> QED BY <1>1 DEF SteadyProg

LEMMA OneSteady == ASSUME NEW p, Steady(p) PROVE SteadyProg(<<p>>)
<1>1. IsSeq(<<p>>) /\ Len(<<p>>) = 1 /\ <<p>>[1] = p
  BY SingleIsSeq
<1> QED BY <1>1 DEF SteadyProg

LEMMA OneLater == ASSUME NEW p, Later(p) PROVE LaterProg(<<p>>)
<1>1. IsSeq(<<p>>) /\ Len(<<p>>) = 1 /\ <<p>>[1] = p
  BY SingleIsSeq
<1> QED BY <1>1 DEF LaterProg

LEMMA TwoSteady == ASSUME NEW p, NEW r, Steady(p), Steady(r) PROVE SteadyProg(<<p, r>>)
  BY OneSteady, SteadyConcatenated, Paired

(* The LNB supply in a program: how it ends when the program runs to its   *)
(* end from a supply lit or not, known to be lit or not.                   *)
KnownAhead(q) ==
  \E i \in 1..Len(q) :
    /\ Notes(q[i])
    /\ \A j \in (i + 1)..Len(q) : ~Lights(q[j]) /\ ~Unnotes(q[j])
DarkAhead(q) ==
  \E i \in 1..Len(q) : Darkens(q[i]) /\ \A j \in (i + 1)..Len(q) : ~Lights(q[j])
KeptAhead(q, lit, known) ==
  /\ \A i \in 1..Len(q) : ~Lights(q[i])
  /\ lit => known /\ \A i \in 1..Len(q) : ~Unnotes(q[i])
Settles(q, lit, known) == KnownAhead(q) \/ DarkAhead(q) \/ KeptAhead(q, lit, known)

LEMMA CalmIsUnlit ==
  ASSUME NEW p, Calm(p) PROVE ~Lights(p) /\ ~Unnotes(p)
<1>1. 1 \in 1..Len(p.ops)
  BY ElementsOf DEF Calm, Fresh, ProcOK, Fitting, Linked
<1> QED BY <1>1 DEF Calm, Eventful, Lights, Unnotes

(* What comes before does not matter, nor what is calm after.              *)
LEMMA AheadOf ==
  ASSUME NEW s, NEW t, IsSeq(s), IsSeq(t)
  PROVE  /\ KnownAhead(t) => KnownAhead(s \o t)
         /\ DarkAhead(t) => DarkAhead(s \o t)
<1> DEFINE st == s \o t
<1>1. /\ Len(s) \in Nat /\ Len(t) \in Nat /\ Len(st) = Len(s) + Len(t)
      /\ \A i \in (Len(s) + 1)..(Len(s) + Len(t)) : st[i] = t[i - Len(s)]
  BY Concatenated, ElementsOf
<1> HIDE DEF st
<1>2. ASSUME NEW i \in 1..Len(t)
      PROVE  /\ Len(s) + i \in 1..Len(st) /\ st[Len(s) + i] = t[i]
             /\ \A j \in (Len(s) + i + 1)..Len(st) :
                  j - Len(s) \in (i + 1)..Len(t) /\ st[j] = t[j - Len(s)]
  <2>1. (Len(s) + i) - Len(s) = i /\ Len(s) + i \in (Len(s) + 1)..(Len(s) + Len(t))
    BY <1>1
  <2>2. \A j \in (Len(s) + i + 1)..Len(st) :
          j - Len(s) \in (i + 1)..Len(t) /\ j \in (Len(s) + 1)..(Len(s) + Len(t))
    BY <1>1
  <2>3. Len(s) + i \in 1..Len(st)
    BY <1>1
  <2>4. st[Len(s) + i] = t[i]
    BY <1>1, <2>1
  <2>5. \A j \in (Len(s) + i + 1)..Len(st) : st[j] = t[j - Len(s)]
    BY <1>1, <2>2
  <2> QED BY <2>2, <2>3, <2>4, <2>5
<1>3. KnownAhead(t) => KnownAhead(st)
  BY <1>2 DEF KnownAhead
<1>4. DarkAhead(t) => DarkAhead(st)
  BY <1>2 DEF DarkAhead
<1> QED BY <1>3, <1>4 DEF st

LEMMA CalmAfter ==
  ASSUME NEW s, NEW t, IsSeq(s), CalmProg(t), KnownAhead(s)
  PROVE  KnownAhead(s \o t)
<1> DEFINE st == s \o t
<1>1. /\ Len(s) \in Nat /\ Len(t) \in Nat /\ Len(st) = Len(s) + Len(t)
      /\ \A i \in 1..Len(s) : st[i] = s[i]
      /\ \A i \in (Len(s) + 1)..(Len(s) + Len(t)) : st[i] = t[i - Len(s)]
  BY Concatenated, ElementsOf DEF CalmProg
<1> HIDE DEF st
<1>2. PICK i \in 1..Len(s) :
        Notes(s[i]) /\ \A j \in (i + 1)..Len(s) : ~Lights(s[j]) /\ ~Unnotes(s[j])
  BY DEF KnownAhead
<1>3. i \in 1..Len(st) /\ Notes(st[i])
  BY <1>1, <1>2
<1>4. ASSUME NEW j \in (i + 1)..Len(st) PROVE ~Lights(st[j]) /\ ~Unnotes(st[j])
  <2>1. CASE j <= Len(s)
    <3>1. j \in (i + 1)..Len(s) /\ j \in 1..Len(s)
      BY <2>1, <1>1
    <3> QED BY <3>1, <1>1, <1>2
  <2>2. CASE j > Len(s)
    <3>1. j - Len(s) \in 1..Len(t) /\ st[j] = t[j - Len(s)]
      BY <2>2, <1>1
    <3> QED BY <3>1, CalmIsUnlit DEF CalmProg
  <2> QED BY <2>1, <2>2, <1>1
<1>5. KnownAhead(st)
  BY <1>3, <1>4 DEF KnownAhead
<1> QED BY <1>5 DEF st

LEMMA UnlitAfter ==
  ASSUME NEW s, NEW t, IsSeq(s), IsSeq(t), DarkAhead(s), \A i \in 1..Len(t) : ~Lights(t[i])
  PROVE  DarkAhead(s \o t)
<1> DEFINE st == s \o t
<1>1. /\ Len(s) \in Nat /\ Len(t) \in Nat /\ Len(st) = Len(s) + Len(t)
      /\ \A i \in 1..Len(s) : st[i] = s[i]
      /\ \A i \in (Len(s) + 1)..(Len(s) + Len(t)) : st[i] = t[i - Len(s)]
  BY Concatenated, ElementsOf
<1> HIDE DEF st
<1>2. PICK i \in 1..Len(s) : Darkens(s[i]) /\ \A j \in (i + 1)..Len(s) : ~Lights(s[j])
  BY DEF DarkAhead
<1>3. i \in 1..Len(st) /\ Darkens(st[i])
  BY <1>1, <1>2
<1>4. ASSUME NEW j \in (i + 1)..Len(st) PROVE ~Lights(st[j])
  <2>1. CASE j <= Len(s)
    <3>1. j \in (i + 1)..Len(s) /\ j \in 1..Len(s)
      BY <2>1, <1>1
    <3> QED BY <3>1, <1>1, <1>2
  <2>2. CASE j > Len(s)
    <3>1. j - Len(s) \in 1..Len(t) /\ j \in (Len(s) + 1)..(Len(s) + Len(t))
      BY <2>2, <1>1
    <3> QED BY <3>1, <1>1
  <2> QED BY <2>1, <2>2, <1>1
<1>5. DarkAhead(st)
  BY <1>3, <1>4 DEF DarkAhead
<1> QED BY <1>5 DEF st

(* lnb_power_down.                                                         *)
LEMMA LocalEnabled ==
  ASSUME NEW v \in BOOLEAN
  PROVE  LET p == Unchecked(<<Local("enabled", v)>>)
         IN  Later(p) /\ p.ops[1].cmd = "enabled" /\ p.ops[1].val = v
<1> DEFINE op == Local("enabled", v)
<1>1. op.cmd = "enabled" /\ op.val = v
  BY DEF Local
<1> HIDE DEF op
<1>2. OpOK(op) /\ op.cmd \in LocalOps /\ op.cmd # "script"
  BY <1>1 DEF OpOK, Supplies, LocalOps
<1> DEFINE no == FALSE
<1>0. no \in BOOLEAN /\ <<>> \in Thens
  BY Zenon DEF Thens
<1> HIDE DEF no
<1> DEFINE p == Proc(<<op>>, no, <<>>)
<1>3. Fresh(p) /\ Len(p.ops) = 1 /\ p.ops[1] = op /\ p.then = <<>>
  <2>1. op.cmd = "script" => no
    BY <1>2
  <2>2. Fresh(p)
    BY <1>0, <1>2, <2>1, OneLocal
  <2>3. p.ops = <<op>> /\ p.then = <<>>
    BY DEF Proc
  <2> QED BY <2>2, <2>3
<1> HIDE DEF p
<1>4. \A k \in 1..Len(p.ops) : p.ops[k] = op
  BY <1>3
<1>5. Later(p) /\ p.ops[1].cmd = "enabled" /\ p.ops[1].val = v
  BY <1>1, <1>3, <1>4 DEF Later
<1> QED BY <1>5, Zenon DEF p, op, no, Unchecked

LEMMA LocalVoltage ==
  ASSUME NEW v \in BOOLEAN, NEW checked \in BOOLEAN
  PROVE  LET p == Proc(SetVoltage(v), checked, <<>>)
         IN  Later(p) /\ Supplies(p.ops[1]) /\ p.ops[1].val = v
<1> DEFINE p == Proc(SetVoltage(v), checked, <<>>)
<1>1. /\ Fresh(p) /\ Supplies(p.ops[1]) /\ p.ops[1].val = v /\ p.then = <<>>
      /\ \A k \in 1..Len(p.ops) : p.ops[k].cmd = "write"
  BY VoltageProcs
<1> HIDE DEF p
<1>2. Later(p)
  BY <1>1 DEF Later
<1> QED BY <1>1, <1>2 DEF p

LEMMA PowerDownProg ==
  /\ LaterProg(PowerDown) /\ PowerDown # <<>> /\ DarkAhead(PowerDown)
<1> DEFINE a == Unchecked(SetTone(FALSE))
           b == Unchecked(SetVoltage(FALSE))
           c == Unchecked(<<Local("enabled", FALSE)>>)
           s == <<a, b, c>>
<1>0. TRUE \in BOOLEAN /\ FALSE \in BOOLEAN
  OBVIOUS
<1>1. Later(a)
  <2>0. Bus(SetTone(FALSE)) /\ SetTone(FALSE) # <<>>
    BY SetToneIsBus, Zenon
  <2> DEFINE ops == SetTone(FALSE)
  <2> HIDE DEF ops
  <2>1. Bus(ops) /\ ops # <<>>
    BY <2>0 DEF ops
  <2>2. Steady(Unchecked(ops))
    BY <2>1, SteadyProcs
  <2> QED BY <2>2, Zenon DEF Steady, ops
<1>2. Later(b) /\ Supplies(b.ops[1]) /\ b.ops[1].val = FALSE
  BY <1>0, LocalVoltage, Zenon DEF Unchecked
<1>3. Later(c) /\ c.ops[1].cmd = "enabled"
  BY <1>0, LocalEnabled, Zenon
<1>4. PowerDown = s
  BY Zenon DEF PowerDown
<1> HIDE DEF a, b, c
<1>5. IsSeq(s) /\ Len(s) = 3 /\ s[1] = a /\ s[2] = b /\ s[3] = c /\ s # <<>>
  BY DEF IsSeq, Range
<1> HIDE DEF s
<1>6. LaterProg(s)
  <2>1. \A i \in 1..Len(s) : i = 1 \/ i = 2 \/ i = 3
    BY <1>5
  <2>2. \A i \in 1..Len(s) : Later(s[i])
    BY <1>1, <1>2, <1>3, <1>5, <2>1
  <2> QED BY <1>5, <2>2 DEF LaterProg
<1>7. DarkAhead(s)
  <2>1. 2 \in 1..Len(s) /\ \A j \in (2 + 1)..Len(s) : j = 3
    BY <1>5
  <2>2. Darkens(s[2])
    BY <1>2, <1>5 DEF Darkens
  <2>3. ~Lights(s[3])
    BY <1>3, <1>5 DEF Lights, Supplies
  <2> QED BY <2>1, <2>2, <2>3 DEF DarkAhead
<1> QED BY <1>4, <1>5, <1>6, <1>7

(* daemon_tune.                                                            *)
LEMMA DiseqcSequenceIsSteady ==
  ASSUME NEW a PROVE SteadyProg(DiseqcSequence(a))
<1> DEFINE d == IF a.uncommitted THEN <<Checked(SendDiseqc)>> ELSE <<>>
           e == IF a.port THEN <<Checked(SendDiseqc)>> ELSE <<>>
           f == IF a.repeat THEN d \o e ELSE <<>>
           second == a.burst = 2
           g == IF a.burst # 0 THEN <<Checked(ToneBurst(second))>> ELSE <<>>
<1>1. SteadyProg(<<>>)
  BY EmptyProg
<1>2. SteadyProg(<<Checked(SendDiseqc)>>)
  BY SendDiseqcIsBus, SteadyProcs, OneSteady
<1>3. second \in BOOLEAN
  OBVIOUS
<1>4. SteadyProg(<<Checked(ToneBurst(second))>>)
  <2> HIDE DEF second
  <2>1. Bus(ToneBurst(second)) /\ ToneBurst(second) # <<>>
    BY <1>3, SendDiseqcIsBus
  <2> QED BY <2>1, SteadyProcs, OneSteady
<1>5. DiseqcSequence(a) = (d \o e) \o f \o g
  BY Zenon DEF DiseqcSequence
<1>6. SteadyProg(d) /\ SteadyProg(e) /\ SteadyProg(g)
  <2> HIDE DEF second
  <2> QED BY <1>1, <1>2, <1>4
<1> HIDE DEF d, e, g
<1>7. SteadyProg(d \o e)
  BY <1>6, SteadyConcatenated
<1>8. SteadyProg(f)
  BY <1>1, <1>7
<1> HIDE DEF f
<1>9. SteadyProg((d \o e) \o f)
  BY <1>7, <1>8, SteadyConcatenated
<1> QED BY <1>5, <1>6, <1>9, SteadyConcatenated

LEMMA TuneEnds == SteadyProg(TuneRf) /\ SteadyProg(<<Checked(Acquire), Unchecked(SignalStatus)>>)
<1>1. SteadyProg(<<Checked(Acquire), Unchecked(SignalStatus)>>)
  BY TuneProcedures, SteadyProcs, TwoSteady
<1> DEFINE on == TunerI2c(TRUE)
           a == Proc(on, TRUE, <<Off>>)
           b == Proc(TunerTune, TRUE, <<Off>>)
           s == <<a, b, Off>>
<1>2. Bus(on) /\ on # <<>>
  BY TunerI2cIsBus, Zenon
<1>3. TuneRf = s
  BY Zenon DEF TuneRf
<1> HIDE DEF on
<1>4. Steady(a) /\ Steady(b) /\ Steady(Off)
  BY <1>2, TuneProcedures, SteadyProcs, OffIsSteady
<1> HIDE DEF a, b
<1>5. IsSeq(s) /\ Len(s) = 3 /\ s[1] = a /\ s[2] = b /\ s[3] = Off
  BY DEF IsSeq, Range
<1> HIDE DEF s
<1>6. \A i \in 1..Len(s) : i = 1 \/ i = 2 \/ i = 3
  BY <1>5
<1>7. \A i \in 1..Len(s) : Steady(s[i])
  BY <1>4, <1>5, <1>6
<1> QED BY <1>1, <1>3, <1>5, <1>7 DEF SteadyProg

LEMMA SteadyIsCalm == ASSUME NEW q, SteadyProg(q) PROVE CalmProg(q)
  BY DEF SteadyProg, CalmProg, Steady

(* The supply of a tune: either it is cut when it is known to be lit, or   *)
(* it is lit and noted, and nothing after cuts it or forgets it.           *)
UnlitProg(q) == \A i \in 1..Len(q) : ~Lights(q[i]) /\ ~Unnotes(q[i])

LEMMA SupplyLit ==
  ASSUME NEW a \in Tunes, a.volts, NEW relight \in BOOLEAN
  PROVE  LaterProg(Supply(a, relight)) /\ KnownAhead(Supply(a, relight))
<1> DEFINE dark == Unchecked(SetVoltage(FALSE))
           forgotten == Unchecked(<<Local("enabled", FALSE)>>)
           lit == Checked(SetVoltage(TRUE))
           noted == Unchecked(<<Local("enabled", TRUE)>>)
           before == IF relight THEN <<dark, forgotten>> ELSE <<>>
           after == DiseqcSequence(a)
           tone == Unchecked(SetTone(a.tone))
<1>0. TRUE \in BOOLEAN /\ FALSE \in BOOLEAN
  OBVIOUS
<1>1. Later(dark) /\ Later(lit)
  BY <1>0, LocalVoltage, Zenon DEF Unchecked, Checked
<1>2. Later(forgotten) /\ Later(noted) /\ noted.ops[1].cmd = "enabled" /\ noted.ops[1].val = TRUE
  BY <1>0, LocalEnabled, Zenon
<1>3. SteadyProg(after) /\ Steady(tone)
  BY DiseqcSequenceIsSteady, SetToneIsBus, SteadyProcs
<1>4. Supply(a, relight) = before \o <<lit>> \o <<noted>> \o after \o <<tone>>
  BY Zenon DEF Supply, Relight, Noted
<1> HIDE DEF dark, forgotten, lit, noted, after, tone
<1>5. LaterProg(before)
  <2>1. LaterProg(<<dark, forgotten>>)
    BY <1>1, <1>2, OneLater, LaterConcatenated, Paired
  <2> QED BY <2>1, EmptyProg, SteadyIsLater
<1> HIDE DEF before
<1> DEFINE s1 == before \o <<lit>>
           s2 == s1 \o <<noted>>
           s3 == s2 \o after
           s4 == s3 \o <<tone>>
<1>6. LaterProg(s1)
  BY <1>1, <1>5, OneLater, LaterConcatenated
<1>7. LaterProg(<<noted>>) /\ KnownAhead(<<noted>>)
  <2>1. Len(<<noted>>) = 1 /\ <<noted>>[1] = noted
    OBVIOUS
  <2>2. Notes(noted)
    BY <1>2 DEF Notes
  <2>3. KnownAhead(<<noted>>)
    BY <2>1, <2>2 DEF KnownAhead
  <2> QED BY <2>3, <1>2, OneLater
<1> HIDE DEF s1
<1>8. LaterProg(s2) /\ KnownAhead(s2)
  BY <1>6, <1>7, LaterConcatenated, AheadOf DEF LaterProg
<1> HIDE DEF s2
<1>9. LaterProg(s3) /\ KnownAhead(s3)
  BY <1>3, <1>8, SteadyIsLater, SteadyIsCalm, LaterConcatenated, CalmAfter DEF LaterProg
<1> HIDE DEF s3
<1>10. LaterProg(s4) /\ KnownAhead(s4)
  BY <1>3, <1>9, OneSteady, SteadyIsLater, SteadyIsCalm, LaterConcatenated, CalmAfter
     DEF LaterProg
<1> QED BY <1>4, <1>10 DEF s1, s2, s3, s4

LEMMA SupplyDark ==
  ASSUME NEW a \in Tunes, ~a.volts, NEW relight \in BOOLEAN
  PROVE  LaterProg(Supply(a, relight)) /\ UnlitProg(Supply(a, relight))
<1> DEFINE op == Local("ifenabled", PowerDown)  no == FALSE
           p == Proc(<<op>>, no, <<>>)
<1>0. no \in BOOLEAN /\ <<>> \in Thens
  BY Zenon DEF Thens
<1>1. op.cmd = "ifenabled" /\ op.val = PowerDown
  BY DEF Local
<1>2. Supply(a, relight) = <<p>>
  BY Zenon DEF Supply, Unchecked
<1> HIDE DEF op, no
<1>3. OpOK(op) /\ op.cmd \in LocalOps /\ (op.cmd = "script" => no)
  BY <1>1 DEF OpOK, Supplies, LocalOps
<1>4. Fresh(p) /\ Len(p.ops) = 1 /\ p.ops[1] = op /\ p.then = <<>>
  <2>1. Fresh(p)
    BY <1>0, <1>3, OneLocal
  <2>2. p.ops = <<op>> /\ p.then = <<>>
    BY DEF Proc
  <2> QED BY <2>1, <2>2
<1> HIDE DEF p
<1>5. \A k \in 1..Len(p.ops) : p.ops[k].cmd = "ifenabled"
  BY <1>1, <1>4
<1>6. Later(p) /\ ~Lights(p) /\ ~Unnotes(p)
  BY <1>1, <1>4, <1>5 DEF Later, Lights, Unnotes, Supplies
<1>7. LaterProg(<<p>>)
  BY <1>6, OneLater
<1>8. UnlitProg(<<p>>)
  <2>1. Len(<<p>>) = 1 /\ <<p>>[1] = p
    OBVIOUS
  <2> QED BY <1>6, <2>1 DEF UnlitProg
<1> QED BY <1>2, <1>7, <1>8

LEMMA UnlitConcatenated ==
  ASSUME NEW s, NEW t, IsSeq(s), IsSeq(t), UnlitProg(s), UnlitProg(t)
  PROVE  UnlitProg(s \o t)
  BY MembersConcatenated DEF UnlitProg

LEMMA SteadyIsUnlit == ASSUME NEW q, SteadyProg(q) PROVE UnlitProg(q) /\ IsSeq(q)
  BY CalmIsUnlit DEF SteadyProg, Steady, UnlitProg

LEMMA TuneProg ==
  ASSUME NEW a \in Tunes, NEW changed \in BOOLEAN, NEW relight \in BOOLEAN,
         NEW lit, NEW known, lit => known
  PROVE  LET q == Tune(a, changed, relight)
         IN  LaterProg(q) /\ q # <<>> /\ Settles(q, lit, known)
<1> DEFINE ends == <<Checked(Acquire), Unchecked(SignalStatus)>>
           middle == IF changed THEN Supply(a, relight) ELSE <<>>
           front == TuneRf \o middle
           q == front \o ends
<1>1. Tune(a, changed, relight) = q
  BY Zenon DEF Tune
<1>2. SteadyProg(TuneRf) /\ SteadyProg(ends)
  BY TuneEnds
<1>3. LaterProg(middle) /\ (KnownAhead(middle) \/ UnlitProg(middle))
  <2>1. SteadyProg(<<>>)
    BY EmptyProg
  <2> QED BY <2>1, SupplyLit, SupplyDark, SteadyIsLater, SteadyIsUnlit
<1>4. Len(ends) = 2
  OBVIOUS
<1> HIDE DEF ends, middle
<1>5. LaterProg(front) /\ (KnownAhead(front) \/ UnlitProg(front))
  BY <1>2, <1>3, SteadyIsLater, SteadyIsUnlit, LaterConcatenated, AheadOf, UnlitConcatenated
     DEF LaterProg
<1> HIDE DEF front
<1>6. LaterProg(q) /\ (KnownAhead(q) \/ UnlitProg(q))
  BY <1>2, <1>5, SteadyIsLater, SteadyIsUnlit, SteadyIsCalm, LaterConcatenated, CalmAfter,
     UnlitConcatenated DEF LaterProg
<1>7. q # <<>>
  <2>1. IsSeq(front) /\ IsSeq(ends)
    BY <1>2, <1>5, SteadyIsUnlit DEF LaterProg
  <2>2. Len(q) = Len(front) + Len(ends) /\ IsSeq(q) /\ Len(front) \in Nat
    BY <2>1, Concatenated, ElementsOf
  <2> QED BY <2>2, <1>4, ElementsOf
<1> HIDE DEF q
<1>8. UnlitProg(q) => KeptAhead(q, lit, known)
  BY DEF UnlitProg, KeptAhead
<1> QED BY <1>1, <1>6, <1>7, <1>8 DEF Settles

-----------------------------------------------------------------------------
(* The cold init: first the bridge, without an event, ...                  *)
BridgeNames == {
  "f6a7", "f103", "da1a", "f41f", "da10", "f41a", "da1d", "dd11", "dd13", "dd88", "dd0c",
  "da05", "da06", "d920", "d833", "d830", "d831", "d832", "4976", "da58", "da51", "da73",
  "da78", "da4c", "da5a", "gpio5_mode", "gpio5_en", "gpio5_out"}
Setups == {Plain(r) : r \in BridgeNames} \union {Masked(r) : r \in BridgeNames}

LEMMA SetupsAreBus ==
  ASSUME NEW ops \in Setups
  PROVE  /\ Bus(ops) /\ ops # <<>>
         /\ \A k \in 1..Len(ops) :
              ops[k].cmd \in {"write", "memread"} /\ ops[k].reg # "FW_VERSION"
<1>1. PICK r \in BridgeNames : ops = Plain(r) \/ ops = Masked(r)
  BY DEF Setups
<1>2. r # "LNB_ENABLE" /\ r # "FW_VERSION"
  BY DEF BridgeNames
<1> DEFINE a == MemRead(r)  b == W(r)  s == <<a>>  t == <<b>>
<1>3. /\ a.cmd = "memread" /\ a.reg = r /\ b.cmd = "write" /\ b.reg = r
  BY DEF MemRead, W
<1>4. Bus(s) /\ Bus(t)
  BY <1>2, MemReadIsBus, WIsBus
<1>5. Plain(r) = t /\ Masked(r) = <<a, b>>
  BY DEF Plain, Masked
<1> HIDE DEF a, b
<1>6. IsSeq(s) /\ Len(s) = 1 /\ s[1] = a /\ IsSeq(t) /\ Len(t) = 1 /\ t[1] = b
  BY SingleIsSeq
<1>7. Masked(r) = s \o t
  BY <1>5, Paired
<1> HIDE DEF s, t
<1>8. Bus(s \o t) /\ Len(s \o t) = 2 /\ (s \o t)[1] = a /\ (s \o t)[2] = b
  <2>1. 1 \in 1..Len(s) /\ 2 \in (Len(s) + 1)..(Len(s) + Len(t)) /\ 2 - Len(s) = 1
    BY <1>6
  <2>2. /\ Len(s \o t) = Len(s) + Len(t)
        /\ \A i \in 1..Len(s) : (s \o t)[i] = s[i]
        /\ \A i \in (Len(s) + 1)..(Len(s) + Len(t)) : (s \o t)[i] = t[i - Len(s)]
    BY <1>6, Concatenated
  <2>3. (s \o t)[1] = a /\ (s \o t)[2] = b /\ Len(s \o t) = 2
    BY <1>6, <2>1, <2>2
  <2> QED BY <1>4, <2>3, BusConcatenated
<1>9. CASE ops = Plain(r)
  <2>1. \A k \in 1..Len(ops) : ops[k] = b
    BY <1>5, <1>6, <1>9
  <2>2. ops # <<>>
    BY <1>5, <1>6, <1>9
  <2> QED BY <1>2, <1>3, <1>4, <1>5, <1>9, <2>1, <2>2
<1>10. CASE ops = Masked(r)
  <2> DEFINE u == s \o t
  <2>1. ops = u
    BY <1>7, <1>10
  <2> HIDE DEF u
  <2>2. Bus(u) /\ Len(u) = 2 /\ u[1] = a /\ u[2] = b
    BY <1>8 DEF u
  <2>3. \A k \in 1..Len(u) : u[k] = a \/ u[k] = b
    BY <2>2
  <2> QED BY <1>2, <1>3, <2>1, <2>2, <2>3
<1> QED BY <1>1, <1>9, <1>10

LEMMA BridgeRegistersAreSetups ==
  /\ IsSeq(BridgeRegisters) /\ Len(BridgeRegisters) = 30
  /\ \A i \in 1..30 : BridgeRegisters[i] \in Setups
<1>1. \A r \in BridgeNames : Plain(r) \in Setups /\ Masked(r) \in Setups
  BY DEF Setups
<1>2. /\ Plain("f6a7") \in Setups /\ Plain("f103") \in Setups /\ Plain("da1a") \in Setups
      /\ Masked("f41f") \in Setups /\ Masked("da10") \in Setups /\ Masked("f41a") \in Setups
      /\ Masked("da1d") \in Setups /\ Masked("dd11") \in Setups /\ Masked("dd13") \in Setups
      /\ Plain("dd88") \in Setups /\ Plain("dd0c") \in Setups /\ Masked("da05") \in Setups
      /\ Masked("da06") \in Setups /\ Plain("d920") \in Setups /\ Plain("d833") \in Setups
      /\ Plain("d830") \in Setups /\ Plain("d831") \in Setups /\ Plain("d832") \in Setups
  BY <1>1 DEF BridgeNames
<1>3. /\ Plain("4976") \in Setups /\ Masked("da58") \in Setups /\ Plain("da51") \in Setups
      /\ Plain("da73") \in Setups /\ Plain("da78") \in Setups /\ Plain("da4c") \in Setups
      /\ Plain("da5a") \in Setups /\ Plain("gpio5_mode") \in Setups
      /\ Plain("gpio5_en") \in Setups /\ Plain("gpio5_out") \in Setups
  BY <1>1 DEF BridgeNames
<1>4. BridgeRegisters \in Seq(Setups)
  BY <1>2, <1>3 DEF BridgeRegisters
<1>5. Len(BridgeRegisters) = 30
  BY DEF BridgeRegisters
<1>6. \A s \in Seq(Setups) : \A i \in 1..Len(s) : s[i] \in Setups
  OBVIOUS
<1> QED BY <1>4, <1>5, <1>6, SeqIsSeq

LEMMA MarkedIsCalm ==
  ASSUME NEW p, Calm(p)
  PROVE  /\ Calm([p EXCEPT !.orelse = TRUE])
         /\ (\A k \in 1..Len(p.ops) :
               p.ops[k].cmd \in {"write", "memread"} /\ p.ops[k].reg # "FW_VERSION")
              => Calm([p EXCEPT !.sticks = TRUE])
<1> DEFINE u == [p EXCEPT !.orelse = TRUE]  v == [p EXCEPT !.sticks = TRUE]
<1>1. DOMAIN p = Fields
  BY DEF Calm, Fresh, ProcOK
<1>2. /\ DOMAIN u = Fields /\ u.ops = p.ops /\ u.checked = p.checked /\ u.then = p.then
      /\ u.sticks = p.sticks /\ u.orelse = TRUE
  BY <1>1 DEF Fields
<1>3. /\ DOMAIN v = Fields /\ v.ops = p.ops /\ v.checked = p.checked /\ v.then = p.then
      /\ v.sticks = TRUE /\ v.orelse = p.orelse
  BY <1>1 DEF Fields
<1> HIDE DEF u, v
<1>4. Calm(u)
  BY <1>2 DEF Calm, Fresh, ProcOK
<1>5. (\A k \in 1..Len(p.ops) :
         p.ops[k].cmd \in {"write", "memread"} /\ p.ops[k].reg # "FW_VERSION") => Calm(v)
  BY <1>3 DEF Calm, Fresh, ProcOK
<1> QED BY <1>4, <1>5 DEF u, v

LEMMA CalmFromElements ==
  ASSUME NEW q, IsSeq(q), \A i \in 1..Len(q) : Calm(q[i]) PROVE CalmProg(q)
  BY DEF CalmProg

LEMMA OneCalm == ASSUME NEW p, Calm(p) PROVE CalmProg(<<p>>)
<1>1. IsSeq(<<p>>) /\ Len(<<p>>) = 1 /\ <<p>>[1] = p
  BY SingleIsSeq
<1> QED BY <1>1 DEF CalmProg

LEMMA BridgeInitIsCalm == CalmProg(BridgeInit)
<1> DEFINE n == DOMAIN BridgeRegisters
           p(i) == Unchecked(BridgeRegisters[i])
           stick(x) == [x EXCEPT !.sticks = TRUE]
           s == [i \in n |-> stick(p(i))]
           op == Local("result", {})  yes == TRUE
           e == Proc(<<op>>, yes, <<>>)
<1>1. BridgeInit = s \o <<e>>
  <2>1. BridgeInit = s \o <<Checked(<<op>>)>>
    BY DEF BridgeInit
  <2>2. Checked(<<op>>) = e
    BY Zenon DEF Checked
  <2> QED BY <2>1, <2>2, Zenon
<1>2. n = 1..30 /\ \A i \in 1..30 : BridgeRegisters[i] \in Setups
  BY BridgeRegistersAreSetups, ElementsOf
<1>3. ASSUME NEW i \in 1..30 PROVE Calm(stick(p(i)))
  <2> DEFINE r == BridgeRegisters[i]
  <2>1. /\ Bus(r) /\ r # <<>>
        /\ \A k \in 1..Len(r) : r[k].cmd \in {"write", "memread"} /\ r[k].reg # "FW_VERSION"
    <3>1. r \in Setups
      BY <1>2
    <3> HIDE DEF r
    <3> QED BY <3>1, SetupsAreBus
  <2> HIDE DEF r
  <2>2. Calm(Unchecked(r)) /\ Unchecked(r).ops = r
    BY <2>1, PlainProcs
  <2> DEFINE u == Unchecked(r)
  <2> HIDE DEF u
  <2>3. Calm(u) /\ u.ops = r
    BY <2>2 DEF u
  <2>4. Calm([u EXCEPT !.sticks = TRUE])
    BY <2>1, <2>3, MarkedIsCalm
  <2> QED BY <2>4, Zenon DEF u, r
<1> HIDE DEF p, stick
<1>4. IsSeq(s) /\ Len(s) = 30 /\ \A i \in 1..30 : s[i] = stick(p(i))
  BY <1>2 DEF IsSeq, Range
<1> HIDE DEF s
<1>5. CalmProg(s)
  BY <1>3, <1>4 DEF CalmProg
<1>6. op.cmd = "result"
  BY DEF Local
<1>7. yes \in BOOLEAN /\ <<>> \in Thens
  BY Zenon DEF Thens
<1> HIDE DEF op, yes
<1>8. Calm(e)
  <2>1. OpOK(op) /\ op.cmd \in LocalOps /\ (op.cmd = "script" => yes) /\ ~Eventful(op)
    BY <1>6 DEF OpOK, Supplies, LocalOps, Eventful
  <2>2. Fresh(e) /\ Len(e.ops) = 1 /\ e.ops[1] = op
    <3>1. Fresh(e)
      BY <2>1, <1>7, OneLocal
    <3>2. e.ops = <<op>>
      BY DEF Proc
    <3> QED BY <3>1, <3>2
  <2> HIDE DEF e
  <2>3. \A k \in 1..Len(e.ops) : e.ops[k] = op
    BY <2>2
  <2> QED BY <2>1, <2>2, <2>3 DEF Calm
<1> HIDE DEF e
<1>9. CalmProg(s \o <<e>>)
  BY <1>5, <1>8, OneCalm, CalmConcatenated
<1> QED BY <1>1, <1>9

LEMMA GpioSetIsCalm == CalmProg(GpioSet)
<1> DEFINE p == Unchecked(<<W("GPIO")>>)  s == [i \in 1..3 |-> p]
<1>1. Calm(p)
  <2>1. Bus(<<W("GPIO")>>) /\ <<W("GPIO")>> # <<>>
    BY WIsBus
  <2> DEFINE ops == <<W("GPIO")>>
  <2> HIDE DEF ops
  <2>2. Calm(Unchecked(ops))
    BY <2>1, PlainProcs DEF ops
  <2> QED BY <2>2 DEF ops
<1>2. GpioSet = s
  BY DEF GpioSet
<1> HIDE DEF p
<1>3. IsSeq(s) /\ Len(s) = 3 /\ \A i \in 1..3 : s[i] = p
  BY DEF IsSeq, Range
<1> HIDE DEF s
<1>4. CalmProg(s)
  BY <1>1, <1>3 DEF CalmProg
<1> QED BY <1>2, <1>4

LEMMA BridgeStartsIsCalm ==
  ASSUME NEW image \in Images PROVE CalmProg(BridgeStarts(image))
<1> DEFINE a == Checked(Identify)
           b == Unchecked(QueryFirmware)
           d == Checked(Download(image))
           c == [d EXCEPT !.orelse = TRUE]
           e == Checked(Read("CHIP_ID", "poll"))
           s == <<a, b, c>>
<1>1. Calm(a) /\ Calm(b)
  BY IdentifyIsBus, PlainProcs
<1>2. Calm(c)
  <2>1. Calm(d)
    BY DownloadIsBus, PlainProcs
  <2> HIDE DEF d
  <2> QED BY <2>1, MarkedIsCalm
<1>3. Calm(e)
  <2>1. Bus(Read("CHIP_ID", "poll")) /\ Read("CHIP_ID", "poll") # <<>>
    BY ReadIsBus
  <2> DEFINE ops == Read("CHIP_ID", "poll")
  <2> HIDE DEF ops
  <2>2. Calm(Checked(ops))
    BY <2>1, PlainProcs DEF ops
  <2> QED BY <2>2 DEF ops
<1>4. BridgeStarts(image) = s \o BridgeInit \o GpioSet \o GpioSet \o GpioSet \o <<e>>
  BY Zenon DEF BridgeStarts
<1> HIDE DEF a, b, c, e
<1>5. IsSeq(s) /\ Len(s) = 3 /\ s[1] = a /\ s[2] = b /\ s[3] = c
  BY DEF IsSeq, Range
<1> HIDE DEF s
<1>6. \A i \in 1..Len(s) : i = 1 \/ i = 2 \/ i = 3
  BY <1>5
<1>7. CalmProg(s)
  BY <1>1, <1>2, <1>5, <1>6 DEF CalmProg
<1> DEFINE s1 == s \o BridgeInit
           s2 == s1 \o GpioSet
           s3 == s2 \o GpioSet
           s4 == s3 \o GpioSet
<1>8. CalmProg(s1)
  BY <1>7, BridgeInitIsCalm, CalmConcatenated
<1> HIDE DEF s1
<1>9. CalmProg(s2)
  BY <1>8, GpioSetIsCalm, CalmConcatenated
<1> HIDE DEF s2
<1>10. CalmProg(s3)
  BY <1>9, GpioSetIsCalm, CalmConcatenated
<1> HIDE DEF s3
<1>11. CalmProg(s4)
  BY <1>10, GpioSetIsCalm, CalmConcatenated
<1> HIDE DEF s4
<1>12. CalmProg(s4 \o <<e>>)
  BY <1>3, <1>11, OneCalm, CalmConcatenated
<1> QED BY <1>4, <1>12 DEF s1, s2, s3, s4

(* ... then the board.  Under the pacing every failure leads to a program  *)
(* that ends it.                                                           *)
PaceThens == {<<PaceOff>>, <<Off, PaceOff>>}
Sheltered(p) == ~p.orelse /\ (p.checked => p.then \in PaceThens)
Starts(p) == p.ops[1].cmd = "pace" /\ p.ops[1].val
Stops(p) == p.ops[1].cmd = "pace" /\ ~p.ops[1].val
Guard(q, k) ==
  k \in 1..Len(q) /\ Stops(q[Len(q)]) /\ \A j \in k..Len(q) : Sheltered(q[j])
Guarded(q) == \A i \in 1..Len(q) : Starts(q[i]) => Guard(q, i)

HasScript(p) == p.ops[Len(p.ops)].cmd = "script"
Scriptless(p) == \A k \in 1..Len(p.ops) : p.ops[k].cmd \notin {"script", "ran"}
OneScript(q) ==
  \E n \in 1..Len(q) :
    /\ HasScript(q[n]) /\ \A k \in 1..Len(q[n].ops) : q[n].ops[k].cmd # "ran"
    /\ \A i \in 1..Len(q) : i # n => Scriptless(q[i])

LEMMA CalmHasNoEvent ==
  ASSUME NEW p, Calm(p)
  PROVE  ~Starts(p) /\ ~Stops(p) /\ Scriptless(p) /\ ~Lights(p) /\ 1 \in 1..Len(p.ops)
<1>1. 1 \in 1..Len(p.ops)
  BY ElementsOf DEF Calm, Fresh, ProcOK, Fitting, Linked
<1> QED BY <1>1 DEF Calm, Eventful, Starts, Stops, Scriptless, Lights

LEMMA BusIsSheltered ==
  ASSUME NEW ops, ops # <<>>, Bus(ops)
  PROVE  /\ Calm(Paced(ops)) /\ Sheltered(Paced(ops))
         /\ Calm(Unchecked(ops)) /\ Sheltered(Unchecked(ops))
         /\ Calm(Proc(ops, TRUE, AfterTunerInit)) /\ Sheltered(Proc(ops, TRUE, AfterTunerInit))
<1>1. \A checked, then : /\ Proc(ops, checked, then).orelse = FALSE
                         /\ Proc(ops, checked, then).checked = checked
                         /\ Proc(ops, checked, then).then = then
  BY DEF Proc
<1>2. AfterTunerInit = <<Off, PaceOff>> /\ AfterTunerInit \in Thens /\ AfterTunerInit \in PaceThens
  BY Zenon DEF AfterTunerInit, PaceOff, Thens, PaceThens
<1>3. TRUE \in BOOLEAN
  OBVIOUS
<1>4. Calm(Proc(ops, TRUE, AfterTunerInit))
  BY <1>2, <1>3, CalmProc, Zenon
<1>s. \A p : p.orelse = FALSE /\ p.then \in PaceThens => Sheltered(p)
  BY DEF Sheltered
<1>5. Sheltered(Proc(ops, TRUE, AfterTunerInit))
  <2> DEFINE yes == TRUE  p == Proc(ops, yes, AfterTunerInit)
  <2>1. p.orelse = FALSE /\ p.then = AfterTunerInit
    BY DEF Proc
  <2> HIDE DEF p
  <2>2. Sheltered(p)
    BY <1>2, <1>s, <2>1
  <2> QED BY <2>2, Zenon DEF p
<1>6. Paced(ops) = Proc(ops, TRUE, <<PaceOff>>) /\ <<PaceOff>> \in PaceThens
  BY Zenon DEF Paced, PaceOff, PaceThens
<1>7. Sheltered(Paced(ops))
  BY <1>1, <1>6, <1>s, Zenon
<1>8. Sheltered(Unchecked(ops))
  BY <1>1, Zenon DEF Sheltered, Unchecked
<1> QED BY <1>4, <1>5, <1>7, <1>8, PlainProcs

LEMMA PaceProc ==
  ASSUME NEW v \in BOOLEAN
  PROVE  /\ Fresh(Pace(v)) /\ Sheltered(Pace(v)) /\ Scriptless(Pace(v)) /\ ~Lights(Pace(v))
         /\ (Starts(Pace(v)) <=> v) /\ (Stops(Pace(v)) <=> ~v)
<1> DEFINE op == Local("pace", v)  no == FALSE  p == Proc(<<op>>, no, <<>>)
<1>1. op.cmd = "pace" /\ op.val = v
  BY DEF Local
<1>2. Pace(v) = p
  BY Zenon DEF Pace, Unchecked
<1>3. ~no /\ no \in BOOLEAN /\ <<>> \in Thens
  BY Zenon DEF Thens
<1> HIDE DEF op, no
<1>4. OpOK(op) /\ op.cmd \in LocalOps /\ (op.cmd = "script" => no)
  BY <1>1 DEF OpOK, Supplies, LocalOps
<1>5. Fresh(p)
  BY <1>3, <1>4, OneLocal
<1>6. p.ops = <<op>> /\ p.orelse = FALSE /\ p.checked = no
  BY DEF Proc
<1> HIDE DEF p
<1>7. Len(p.ops) = 1 /\ p.ops[1] = op /\ \A k \in 1..Len(p.ops) : p.ops[k] = op
  BY <1>6
<1>8. Sheltered(p) /\ Scriptless(p) /\ ~Lights(p) /\ (Starts(p) <=> v) /\ (Stops(p) <=> ~v)
  BY <1>1, <1>3, <1>6, <1>7 DEF Sheltered, Scriptless, Lights, Starts, Stops, Supplies
<1> QED BY <1>2, <1>5, <1>8

LEMMA LoadPatchProc ==
  LET p == LoadPatch
  IN  /\ Fresh(p) /\ Sheltered(p) /\ HasScript(p) /\ ~Starts(p)
      /\ \A k \in 1..Len(p.ops) : p.ops[k].cmd # "ran"
<1> DEFINE op == Local("script", {})  yes == TRUE  p == Proc(<<op>>, yes, <<PaceOff>>)
<1>1. op.cmd = "script"
  BY DEF Local
<1>2. LoadPatch = p
  BY Zenon DEF LoadPatch, Paced, PaceOff
<1>3. yes /\ yes \in BOOLEAN /\ <<PaceOff>> \in Thens /\ <<PaceOff>> \in PaceThens
  BY Zenon DEF Thens, PaceThens
<1> HIDE DEF op, yes
<1>4. OpOK(op) /\ op.cmd \in LocalOps /\ (op.cmd = "script" => yes)
  BY <1>1, <1>3 DEF OpOK, Supplies, LocalOps
<1>5. Fresh(p)
  BY <1>3, <1>4, OneLocal
<1>6. p.ops = <<op>> /\ p.orelse = FALSE /\ p.then = <<PaceOff>>
  BY DEF Proc
<1> HIDE DEF p
<1>7. Len(p.ops) = 1 /\ p.ops[1] = op /\ \A k \in 1..Len(p.ops) : p.ops[k] = op
  BY <1>6
<1>8. Sheltered(p) /\ HasScript(p) /\ ~Starts(p) /\ \A k \in 1..Len(p.ops) : p.ops[k].cmd # "ran"
  BY <1>1, <1>3, <1>6, <1>7 DEF Sheltered, HasScript, Starts
<1> QED BY <1>2, <1>5, <1>8

LEMMA BoardStartsProg ==
  LET q == BoardStarts
  IN  /\ FreshProg(q) /\ Len(q) = 14 /\ Guarded(q) /\ DarkAhead(q) /\ OneScript(q)
<1> DEFINE Plainest(p) == Calm(p) /\ Sheltered(p)
           on == TunerI2c(TRUE)  tone == SetTone(FALSE)  volts == SetVoltage(FALSE)
           b1 == Pace(TRUE)  b2 == LoadPatch  b3 == Paced(Poll("READY"))
           b4 == Paced(LoadDefaults)  b5 == Paced(InitTunerI2c)  b6 == Paced(on)
           b7 == Proc(TunerInit, TRUE, AfterTunerInit)  b8 == Off
           b9 == Paced(InitDemodInput)  b10 == Paced(ConfigureTs)
           b11 == Paced(InitDiseqc)  b12 == Unchecked(tone)
           b13 == Unchecked(volts)  b14 == Pace(FALSE)
           q == <<b1, b2, b3, b4, b5, b6, b7, b8, b9, b10, b11, b12, b13, b14>>
<1>1. BoardStarts = q
  BY Zenon DEF BoardStarts
<1>2. /\ Fresh(b1) /\ Sheltered(b1) /\ Scriptless(b1)
      /\ Fresh(b14) /\ Sheltered(b14) /\ Scriptless(b14) /\ ~Lights(b14)
      /\ ~Starts(b14) /\ Stops(b14)
  <2>1. TRUE \in BOOLEAN /\ FALSE \in BOOLEAN
    OBVIOUS
  <2> QED BY <2>1, PaceProc, Zenon
<1>3. /\ Fresh(b2) /\ Sheltered(b2) /\ HasScript(b2) /\ ~Starts(b2)
      /\ \A k \in 1..Len(b2.ops) : b2.ops[k].cmd # "ran"
  BY LoadPatchProc
<1>4. Plainest(b3)
  <2>1. Bus(Poll("READY")) /\ Poll("READY") # <<>>
    BY PollIsBus
  <2> QED BY <2>1, BusIsSheltered
<1>5. Plainest(b4) /\ Plainest(b5) /\ Plainest(b9) /\ Plainest(b10) /\ Plainest(b11)
  BY ColdInitProcedures, BusIsSheltered
<1>6. Plainest(b6) /\ Plainest(b8)
  <2>1. /\ Bus(TunerI2c(TRUE)) /\ TunerI2c(TRUE) # <<>>
        /\ Bus(TunerI2c(FALSE)) /\ TunerI2c(FALSE) # <<>>
    BY TunerI2cIsBus, Zenon
  <2> QED BY <2>1, BusIsSheltered, Zenon DEF Off
<1>7. Plainest(b7)
  BY TuneProcedures, BusIsSheltered, Zenon
<1>8. Plainest(b12)
  <2>1. Bus(SetTone(FALSE)) /\ SetTone(FALSE) # <<>>
    BY SetToneIsBus, Zenon
  <2> QED BY <2>1, BusIsSheltered, Zenon
<1>9. /\ Fresh(b13) /\ Sheltered(b13) /\ Scriptless(b13) /\ Darkens(b13) /\ ~Starts(b13)
  <2> DEFINE no == FALSE  p == Proc(SetVoltage(no), no, <<>>)
  <2>1. b13 = p
    BY Zenon DEF Unchecked
  <2>2. ~no /\ no \in BOOLEAN
    OBVIOUS
  <2> HIDE DEF no
  <2>3. /\ Fresh(p) /\ Supplies(p.ops[1]) /\ p.ops[1].val = no /\ p.checked = no
        /\ p.orelse = FALSE /\ \A k \in 1..Len(p.ops) : p.ops[k].cmd = "write"
    BY <2>2, VoltageProcs
  <2> HIDE DEF p
  <2>4. /\ Sheltered(p) /\ Scriptless(p) /\ Darkens(p) /\ ~Starts(p)
    BY <2>2, <2>3 DEF Sheltered, Scriptless, Darkens, Starts, Supplies
  <2> QED BY <2>1, <2>3, <2>4
<1>10. \A p : Plainest(p) => Fresh(p) /\ Sheltered(p) /\ Scriptless(p) /\ ~Starts(p)
  BY CalmHasNoEvent DEF Calm
<1> HIDE DEF Plainest, b1, b2, b3, b4, b5, b6, b7, b8, b9, b10, b11, b12, b13, b14
<1>11. /\ IsSeq(q) /\ Len(q) = 14
       /\ q[1] = b1 /\ q[2] = b2 /\ q[13] = b13 /\ q[14] = b14
       /\ \A i \in 3..12 : Plainest(q[i])
  <2>1. Len(q) = 14 /\ q[1] = b1 /\ q[2] = b2 /\ q[13] = b13 /\ q[14] = b14
    OBVIOUS
  <2>2. /\ q[3] = b3 /\ q[4] = b4 /\ q[5] = b5 /\ q[6] = b6 /\ q[7] = b7 /\ q[8] = b8
        /\ q[9] = b9 /\ q[10] = b10 /\ q[11] = b11 /\ q[12] = b12
    OBVIOUS
  <2>3. q \in Seq({b1, b2, b3, b4, b5, b6, b7, b8, b9, b10, b11, b12, b13, b14})
    OBVIOUS
  <2> HIDE DEF q
  <2>4. \A i \in 3..12 : Plainest(q[i])
    <3>1. \A i \in 3..12 : i \in {3, 4, 5, 6, 7, 8, 9, 10, 11, 12}
      OBVIOUS
    <3> QED BY <3>1, <2>2, <1>4, <1>5, <1>6, <1>7, <1>8
  <2> QED BY <2>1, <2>3, <2>4, SeqIsSeq
<1> HIDE DEF q
<1>12. \A i \in 1..Len(q) : i = 1 \/ i = 2 \/ i \in 3..12 \/ i = 13 \/ i = 14
  BY <1>11
<1>13. \A i \in 1..Len(q) : Fresh(q[i]) /\ Sheltered(q[i]) /\ (i # 1 => ~Starts(q[i]))
  BY <1>2, <1>3, <1>9, <1>10, <1>11, <1>12
<1>14. \A i \in 1..Len(q) : i # 2 => Scriptless(q[i])
  BY <1>2, <1>3, <1>9, <1>10, <1>11, <1>12
<1>15. FreshProg(q)
  BY <1>11, <1>13 DEF FreshProg
<1>16. Guarded(q)
  <2>1. Stops(q[Len(q)]) /\ 1 \in 1..Len(q)
    BY <1>2, <1>11
  <2> QED BY <2>1, <1>11, <1>13 DEF Guarded, Guard
<1>17. DarkAhead(q)
  <2>1. 13 \in 1..Len(q) /\ \A j \in (13 + 1)..Len(q) : j = 14
    BY <1>11
  <2> QED BY <2>1, <1>2, <1>9, <1>11 DEF DarkAhead
<1>18. OneScript(q)
  <2>1. 2 \in 1..Len(q)
    BY <1>11
  <2> QED BY <2>1, <1>3, <1>11, <1>14 DEF OneScript
<1> QED BY <1>1, <1>11, <1>15, <1>16, <1>17, <1>18

(* The properties of the second part are those of the whole.               *)
LEMMA FreshConcatenated ==
  ASSUME NEW s, NEW t, FreshProg(s), FreshProg(t) PROVE FreshProg(s \o t)
<1>1. IsSeq(s) /\ IsSeq(t) /\ IsSeq(s \o t)
  BY Concatenated DEF FreshProg
<1> QED BY <1>1, MembersConcatenated DEF FreshProg

LEMMA ColdInitProg ==
  ASSUME NEW image \in Images
  PROVE  LET q == ColdInit(image)
         IN  FreshProg(q) /\ q # <<>> /\ Guarded(q) /\ DarkAhead(q) /\ OneScript(q)
<1> DEFINE s == BridgeStarts(image)  t == BoardStarts  q == s \o t
<1>1. CalmProg(s)
  BY BridgeStartsIsCalm
<1>2. FreshProg(t) /\ Len(t) = 14 /\ Guarded(t) /\ DarkAhead(t) /\ OneScript(t)
  BY BoardStartsProg
<1>3. ColdInit(image) = q
  BY DEF ColdInit
<1> HIDE DEF s, t
<1>4. FreshProg(q) /\ DarkAhead(q)
  <2>1. FreshProg(s) /\ IsSeq(s) /\ IsSeq(t)
    BY <1>1, <1>2 DEF CalmProg, FreshProg, Calm
  <2> QED BY <2>1, <1>2, FreshConcatenated, AheadOf
<1>5. /\ IsSeq(q) /\ Len(q) = Len(s) + Len(t) /\ Len(s) \in Nat
      /\ \A i \in 1..Len(s) : q[i] = s[i]
      /\ \A i \in (Len(s) + 1)..(Len(s) + Len(t)) : q[i] = t[i - Len(s)]
  BY <1>1, <1>2, Concatenated, ElementsOf DEF CalmProg, FreshProg
<1> HIDE DEF q
<1>6. \A i \in 1..Len(q) : \/ i \in 1..Len(s) /\ Calm(q[i])
                           \/ i - Len(s) \in 1..Len(t) /\ q[i] = t[i - Len(s)]
  <2> TAKE i \in 1..Len(q)
  <2>1. CASE i <= Len(s)
    <3>1. i \in 1..Len(s) /\ q[i] = s[i]
      BY <2>1, <1>5
    <3> QED BY <3>1, <1>1 DEF CalmProg
  <2>2. CASE i > Len(s)
    <3>1. i \in (Len(s) + 1)..(Len(s) + Len(t)) /\ i - Len(s) \in 1..Len(t)
      BY <2>2, <1>2, <1>5
    <3> QED BY <3>1, <1>5
  <2> QED BY <2>1, <2>2, <1>5
<1>7. \A j \in 1..Len(t) : Len(s) + j \in 1..Len(q) /\ q[Len(s) + j] = t[j]
  <2> TAKE j \in 1..Len(t)
  <2>1. (Len(s) + j) - Len(s) = j /\ Len(s) + j \in (Len(s) + 1)..(Len(s) + Len(t))
    BY <1>2, <1>5
  <2>2. Len(s) + j \in 1..Len(q)
    BY <1>2, <1>5
  <2>3. q[Len(s) + j] = t[(Len(s) + j) - Len(s)]
    BY <2>1, <1>5
  <2> QED BY <2>1, <2>2, <2>3
<1>8. Guarded(q)
  <2> SUFFICES ASSUME NEW i \in 1..Len(q), Starts(q[i]) PROVE Guard(q, i)
    BY DEF Guarded
  <2>1. i - Len(s) \in 1..Len(t) /\ q[i] = t[i - Len(s)]
    BY <1>6, CalmHasNoEvent
  <2>2. Guard(t, i - Len(s))
    BY <2>1, <1>2 DEF Guarded
  <2>3. q[Len(q)] = t[Len(t)]
    BY <1>2, <1>5, <1>7
  <2>4. ASSUME NEW j \in i..Len(q) PROVE Sheltered(q[j])
    <3>1. j - Len(s) \in (i - Len(s))..Len(t) /\ q[j] = t[j - Len(s)]
      <4>1. j \in (Len(s) + 1)..(Len(s) + Len(t)) /\ j - Len(s) \in (i - Len(s))..Len(t)
        BY <2>1, <1>2, <1>5
      <4> QED BY <4>1, <1>5
    <3> QED BY <3>1, <2>2 DEF Guard
  <2> QED BY <2>2, <2>3, <2>4 DEF Guard
<1>9. OneScript(q)
  <2>1. PICK n \in 1..Len(t) :
          /\ HasScript(t[n]) /\ \A k \in 1..Len(t[n].ops) : t[n].ops[k].cmd # "ran"
          /\ \A i \in 1..Len(t) : i # n => Scriptless(t[i])
    BY <1>2 DEF OneScript
  <2>2. Len(s) + n \in 1..Len(q) /\ q[Len(s) + n] = t[n]
    BY <1>7
  <2>3. ASSUME NEW i \in 1..Len(q), i # Len(s) + n PROVE Scriptless(q[i])
    <3>1. CASE Calm(q[i])
      BY <3>1, CalmHasNoEvent
    <3>2. CASE i - Len(s) \in 1..Len(t) /\ q[i] = t[i - Len(s)]
      <4>1. i - Len(s) # n
        BY <2>3, <1>5
      <4> QED BY <4>1, <3>2, <2>1
    <3> QED BY <3>1, <3>2, <1>6
  <2> QED BY <2>1, <2>2, <2>3 DEF OneScript
<1>10. q # <<>>
  BY <1>2, <1>5, ElementsOf
<1> QED BY <1>3, <1>4, <1>8, <1>9, <1>10

-----------------------------------------------------------------------------
(* How a step changes a program: the first procedure goes on with other    *)
(* commands, or procedures at the front are done.                          *)
Became(q, n, left) ==
  /\ IsSeq(n) /\ Len(n) = Len(q) /\ n[1] = [q[1] EXCEPT !.ops = left]
  /\ \A i \in 2..Len(q) : n[i] = q[i]
Dropped(q, n, d) ==
  /\ IsSeq(n) /\ d \in 1..2 /\ Len(q) = Len(n) + d /\ \A i \in 1..Len(n) : n[i] = q[i + d]
Advanced(q, n, left) ==
  \/ left # <<>> /\ Became(q, n, left)
  \/ left = <<>> /\ Dropped(q, n, 1)
  \/ left = <<>> /\ Dropped(q, n, 2) /\ q[2].orelse

Suits(p, left) ==
  /\ Fitting(left)
  /\ \A k \in 1..Len(left) :
       /\ left[k].cmd = "script" => p.checked
       /\ p.sticks => left[k].cmd \in {"write", "memread"} /\ left[k].reg # "FW_VERSION"
       /\ p.orelse => ~Eventful(left[k])

LEMMA TailDrops == ASSUME NEW q, IsSeq(q), q # <<>> PROVE Dropped(q, Tail(q), 1)
<1>1. /\ IsSeq(Tail(q)) /\ Len(Tail(q)) = Len(q) - 1 /\ Len(q) \in Nat \ {0}
      /\ \A i \in 1..(Len(q) - 1) : Tail(q)[i] = q[i + 1]
  BY Tailed
<1>2. Len(q) = Len(Tail(q)) + 1
  BY <1>1
<1>3. \A i \in 1..Len(Tail(q)) : Tail(q)[i] = q[i + 1]
  BY <1>1
<1> QED BY <1>1, <1>2, <1>3 DEF Dropped

LEMMA RestAdvances ==
  ASSUME NEW t, IsSeq(prog[t]), prog[t] # <<>>, IsSeq(prog[t][1].ops), prog[t][1].ops # <<>>,
         NEW x, IsSeq(x)
  PROVE  Advanced(prog[t], Rest(t, x), x \o Tail(prog[t][1].ops))
<1> DEFINE q == prog[t]  p == Head(q)  later == Tail(q)  left == x \o Tail(p.ops)
           first == [p EXCEPT !.ops = left]
<1>1. Rest(t, x) = IF left # <<>> THEN <<first>> \o later
                   ELSE IF later # <<>> /\ Head(later).orelse THEN Tail(later) ELSE later
  BY DEF Rest
<1>2. IsSeq(q) /\ q # <<>> /\ p = q[1] /\ IsSeq(later) /\ Len(q) \in Nat \ {0}
  BY Tailed
<1> HIDE DEF q
<1>3. CASE left # <<>>
  <2>1. Rest(t, x) = <<first>> \o later
    BY <1>1, <1>3
  <2>2. first = [q[1] EXCEPT !.ops = left]
    BY <1>2
  <2> HIDE DEF first, left, p
  <2>3. Became(q, <<first>> \o later, left)
    BY <1>2, <2>2, Prefixed DEF Became
  <2> QED BY <1>2, <1>3, <2>1, <2>3 DEF Advanced, q, left
<1>4. CASE left = <<>> /\ later # <<>> /\ Head(later).orelse
  <2>1. Rest(t, x) = Tail(later)
    BY <1>1, <1>4
  <2>2. Dropped(q, later, 1) /\ Dropped(later, Tail(later), 1)
    BY <1>2, <1>4, TailDrops
  <2>3. Head(later) = later[1] /\ Len(later) \in Nat \ {0}
    BY <1>2, <1>4, Tailed
  <2> HIDE DEF later, left, p
  <2>4. later[1] = q[2]
    BY <2>2, <2>3 DEF Dropped
  <2>6. Len(q) = Len(Tail(later)) + 2 /\ IsSeq(Tail(later)) /\ Len(Tail(later)) \in Nat
    BY <2>2, ElementsOf DEF Dropped
  <2>7. \A i \in 1..Len(Tail(later)) : Tail(later)[i] = q[i + 2]
    <3> TAKE i \in 1..Len(Tail(later))
    <3>1. Tail(later)[i] = later[i + 1]
      BY <2>2 DEF Dropped
    <3>2. i + 1 \in 1..Len(later) /\ (i + 1) + 1 = i + 2
      BY <2>2, <2>6 DEF Dropped
    <3>3. later[i + 1] = q[(i + 1) + 1]
      BY <3>2, <2>2 DEF Dropped
    <3> QED BY <3>1, <3>2, <3>3
  <2>5. Dropped(q, Tail(later), 2)
    BY <2>6, <2>7 DEF Dropped
  <2> QED BY <1>2, <1>4, <2>1, <2>3, <2>4, <2>5 DEF Advanced, left, p, q
<1>5. CASE left = <<>> /\ ~(later # <<>> /\ Head(later).orelse)
  <2>1. Rest(t, x) = later
    BY <1>1, <1>5
  <2>2. Dropped(q, later, 1)
    BY <1>2, TailDrops
  <2> HIDE DEF later
  <2> QED BY <1>2, <1>5, <2>1, <2>2 DEF Advanced, left, p, q
<1> QED BY <1>3, <1>4, <1>5

(* What is left of a fitting procedure fits.                               *)
LEMMA TailFits ==
  ASSUME NEW s, Fitting(s), s # <<>>
  PROVE  /\ Fitting(Tail(s)) /\ IsSeq(Tail(s)) /\ Len(Tail(s)) = Len(s) - 1
         /\ Len(s) \in Nat \ {0} /\ Head(s) = s[1]
         /\ \A k \in 1..Len(Tail(s)) : k + 1 \in 2..Len(s) /\ Tail(s)[k] = s[k + 1]
<1> DEFINE u == Tail(s)
<1>1. /\ IsSeq(u) /\ Len(u) = Len(s) - 1 /\ Len(s) \in Nat \ {0} /\ Head(s) = s[1]
      /\ \A i \in 1..(Len(s) - 1) : u[i] = s[i + 1]
  BY Tailed DEF Fitting, Linked
<1> HIDE DEF u
<1>2. \A k \in 1..Len(u) : k + 1 \in 2..Len(s) /\ u[k] = s[k + 1]
  BY <1>1
<1>3. ASSUME NEW k \in 2..Len(u) PROVE Follows(u[k - 1], u[k])
  <2>1. u[k] = s[k + 1] /\ u[k - 1] = s[k] /\ k + 1 \in 2..Len(s) /\ (k + 1) - 1 = k
    <3>1. k \in 1..Len(u) /\ k - 1 \in 1..Len(u) /\ (k - 1) + 1 = k /\ (k + 1) - 1 = k
      BY <1>1
    <3> QED BY <3>1, <1>2
  <2> QED BY <2>1 DEF Fitting, Linked
<1>4. \A k \in 1..Len(u) : OpOK(u[k])
  <2> TAKE k \in 1..Len(u)
  <2>1. k + 1 \in 1..Len(s) /\ u[k] = s[k + 1]
    BY <1>1, <1>2
  <2> QED BY <2>1 DEF Fitting
<1>5. Fitting(u)
  BY <1>1, <1>3, <1>4 DEF Fitting, Linked
<1> QED BY <1>1, <1>2, <1>5 DEF u

LEMMA TailSuits == ASSUME NEW p, ProcOK(p) PROVE Suits(p, Tail(p.ops))
<1>1. Fitting(p.ops) /\ p.ops # <<>>
  BY DEF ProcOK
<1>2. \A k \in 1..Len(Tail(p.ops)) : k + 1 \in 1..Len(p.ops) /\ Tail(p.ops)[k] = p.ops[k + 1]
  BY <1>1, TailFits
<1> QED BY <1>1, <1>2, TailFits DEF Suits, ProcOK

(* Commands of the bus in the place of a reading.                          *)
LEMMA InsertSuits ==
  ASSUME NEW p, ProcOK(p), p.ops[1].cmd = "read",
         NEW x, Fitting(x), x # <<>>, \A k \in 1..Len(x) : OnBus(x[k])
  PROVE  Suits(p, x \o Tail(p.ops)) /\ x \o Tail(p.ops) # <<>>
<1> DEFINE s == p.ops  u == Tail(s)  l == x \o u
<1>1. /\ Fitting(u) /\ IsSeq(u) /\ Len(u) = Len(s) - 1 /\ Len(s) \in Nat \ {0} /\ Fitting(s)
      /\ \A k \in 1..Len(u) : k + 1 \in 2..Len(s) /\ u[k] = s[k + 1]
  BY TailFits DEF ProcOK
<1>2. IsSeq(x) /\ Len(x) \in Nat \ {0}
  BY ElementsOf DEF Fitting, Linked
<1> HIDE DEF u
<1>3. u # <<>> => Follows(x[Len(x)], u[1])
  <2> SUFFICES ASSUME u # <<>> PROVE Follows(x[Len(x)], u[1])
    OBVIOUS
  <2>1. 1 \in 1..Len(u) /\ Len(x) \in 1..Len(x)
    BY <1>1, <1>2, ElementsOf
  <2>2. u[1] = s[2] /\ 2 \in 2..Len(s)
    BY <1>1, <2>1
  <2>4. Follows(s[2 - 1], s[2])
    BY <2>2, <1>1 DEF Fitting, Linked
  <2>5. Follows(s[1], s[2]) /\ OnBus(x[Len(x)])
    BY <2>1, <2>4
  <2> QED BY <2>2, <2>5 DEF Follows, OnBus, LocalOps
<1>4. Linked(l)
  BY <1>1, <1>3, LinkedConcatenated DEF Fitting
<1>5. \A k \in 1..Len(l) : \/ k \in 1..Len(x) /\ l[k] = x[k]
                           \/ k - Len(x) \in 1..Len(u) /\ l[k] = u[k - Len(x)]
  BY <1>1, <1>2, MembersConcatenated
<1>6. l # <<>> /\ IsSeq(l)
  <2>1. IsSeq(l) /\ Len(l) = Len(x) + Len(u) /\ Len(u) \in Nat
    BY <1>1, <1>2, Concatenated, ElementsOf
  <2> QED BY <2>1, <1>2, ElementsOf
<1> HIDE DEF l
<1>7. Fitting(l)
  BY <1>1, <1>4, <1>5 DEF Fitting
<1>8. ~p.sticks
  <2>1. 1 \in 1..Len(s)
    BY <1>1
  <2> QED BY <2>1 DEF ProcOK
<1>9. \A k \in 1..Len(u) : u[k].cmd = "script" => p.checked
  BY <1>1 DEF ProcOK
<1>10. \A k \in 1..Len(u) : p.orelse => ~Eventful(u[k])
  BY <1>1 DEF ProcOK
<1>11. \A k \in 1..Len(x) : ~Eventful(x[k]) /\ x[k].cmd # "script"
  BY DEF OnBus, LocalOps, Eventful
<1>12. Suits(p, l)
  BY <1>5, <1>7, <1>8, <1>9, <1>10, <1>11 DEF Suits
<1> QED BY <1>6, <1>12 DEF l, u

(* The procedures of later programs, the first one of which may have begun.*)
Plainly(p) ==
  /\ p.then \in {<<>>, <<Off>>}
  /\ \A k \in 1..Len(p.ops) : p.ops[k].cmd \notin {"script", "ran", "pace"}
PlainlyProg(q) == \A i \in 1..Len(q) : Plainly(q[i])

LEMMA LaterIsPlain == ASSUME NEW q, LaterProg(q) PROVE PlainlyProg(q) /\ ProgOK(q)
<1>1. \A i \in 1..Len(q) : Fresh(q[i]) /\ Plainly(q[i])
  BY DEF LaterProg, Later, Plainly
<1>2. \A i \in 2..Len(q) : i \in 1..Len(q)
  BY ElementsOf DEF LaterProg
<1> QED BY <1>1, <1>2 DEF PlainlyProg, ProgOK, Fresh, LaterProg

LEMMA FreshIsOK == ASSUME NEW q, FreshProg(q) PROVE ProgOK(q)
<1>1. \A i \in 2..Len(q) : i \in 1..Len(q)
  BY ElementsOf DEF FreshProg
<1> QED BY <1>1 DEF ProgOK, Fresh, FreshProg

(* The first procedure with other commands.                                *)
LEMMA FirstOf ==
  ASSUME NEW p, ProcOK(p), NEW left
  PROVE  LET r == [p EXCEPT !.ops = left]
         IN  /\ DOMAIN r = Fields /\ r.ops = left /\ r.checked = p.checked /\ r.then = p.then
             /\ r.sticks = p.sticks /\ r.orelse = p.orelse
             /\ (left # <<>> /\ Suits(p, left) => ProcOK(r))
<1> DEFINE r == [p EXCEPT !.ops = left]
<1>1. DOMAIN p = Fields
  BY DEF ProcOK
<1>2. /\ DOMAIN r = Fields /\ r.ops = left /\ r.checked = p.checked /\ r.then = p.then
      /\ r.sticks = p.sticks /\ r.orelse = p.orelse
  BY <1>1 DEF Fields
<1> HIDE DEF r
<1>3. left # <<>> /\ Suits(p, left) => ProcOK(r)
  BY <1>2 DEF ProcOK, Suits
<1> QED BY <1>2, <1>3 DEF r

LEMMA FirstIsOK ==
  ASSUME NEW q, ProgOK(q), q # <<>>
  PROVE  /\ IsSeq(q) /\ Len(q) \in Nat \ {0} /\ Head(q) = q[1] /\ ProcOK(q[1])
         /\ IsSeq(q[1].ops) /\ Len(q[1].ops) \in Nat \ {0} /\ q[1].ops # <<>>
         /\ Head(q[1].ops) = q[1].ops[1] /\ OpOK(q[1].ops[1]) /\ Fitting(q[1].ops)
<1>1. IsSeq(q) /\ Len(q) \in Nat \ {0} /\ Head(q) = q[1]
  BY Tailed DEF ProgOK
<1>2. ProcOK(q[1])
  BY <1>1 DEF ProgOK
<1>3. Fitting(q[1].ops) /\ q[1].ops # <<>>
  BY <1>2 DEF ProcOK
<1> QED BY <1>1, <1>2, <1>3, TailFits DEF Fitting, Linked

LEMMA DroppedIsOK ==
  ASSUME NEW q, ProgOK(q), NEW n, NEW d \in 1..2, Dropped(q, n, d)
  PROVE  FreshProg(n) /\ (PlainlyProg(q) => PlainlyProg(n))
<1>1. \A i \in 1..Len(n) : i + d \in 2..Len(q) /\ i + d \in 1..Len(q) /\ n[i] = q[i + d]
  BY ElementsOf DEF Dropped
<1> QED BY <1>1 DEF Dropped, ProgOK, FreshProg, PlainlyProg

LEMMA BecameIsOK ==
  ASSUME NEW q, ProgOK(q), q # <<>>, NEW n, NEW left, left # <<>>, Suits(q[1], left),
         Became(q, n, left)
  PROVE  /\ ProgOK(n) /\ n[1].ops = left /\ n # <<>>
         /\ n[1].checked = q[1].checked /\ n[1].then = q[1].then
         /\ n[1].sticks = q[1].sticks /\ n[1].orelse = q[1].orelse
         /\ (PlainlyProg(q)
               /\ (\A k \in 1..Len(left) : left[k].cmd \notin {"script", "ran", "pace"})
               => PlainlyProg(n))
<1>1. /\ IsSeq(n) /\ Len(n) = Len(q) /\ n[1] = [q[1] EXCEPT !.ops = left]
      /\ \A i \in 2..Len(q) : n[i] = q[i]
  BY DEF Became
<1>2. Len(q) \in Nat \ {0} /\ ProcOK(q[1])
  BY FirstIsOK
<1> DEFINE r == [q[1] EXCEPT !.ops = left]
<1>3. /\ r.ops = left /\ r.checked = q[1].checked /\ r.then = q[1].then
      /\ r.sticks = q[1].sticks /\ r.orelse = q[1].orelse /\ ProcOK(r)
  BY <1>2, FirstOf
<1> HIDE DEF r
<1>4. n[1] = r
  BY <1>1 DEF r
<1>5. \A i \in 1..Len(n) : i = 1 \/ i \in 2..Len(q)
  BY <1>1, <1>2
<1>6. 1 \in 1..Len(q) /\ \A i \in 2..Len(q) : i \in 1..Len(q)
  BY <1>2
<1>7. ProgOK(n)
  BY <1>1, <1>3, <1>4, <1>5, <1>6 DEF ProgOK
<1>8. ASSUME PlainlyProg(q), \A k \in 1..Len(left) : left[k].cmd \notin {"script", "ran", "pace"}
      PROVE  PlainlyProg(n)
  <2>1. Plainly(r)
    BY <1>3, <1>6, <1>8 DEF PlainlyProg, Plainly
  <2> QED BY <2>1, <1>1, <1>4, <1>5, <1>6, <1>8 DEF PlainlyProg
<1>9. n # <<>>
  BY <1>1, <1>2, ElementsOf
<1> QED BY <1>3, <1>4, <1>7, <1>8, <1>9

LEMMA AdvancedIsOK ==
  ASSUME NEW q, ProgOK(q), q # <<>>, NEW n, NEW left, Suits(q[1], left), Advanced(q, n, left)
  PROVE  /\ ProgOK(n)
         /\ (PlainlyProg(q)
               /\ (\A k \in 1..Len(left) : left[k].cmd \notin {"script", "ran", "pace"})
               => PlainlyProg(n))
<1>1. CASE left # <<>> /\ Became(q, n, left)
  BY <1>1, BecameIsOK
<1>2. CASE \E d \in 1..2 : Dropped(q, n, d)
  BY <1>2, DroppedIsOK, FreshIsOK
<1> QED BY <1>1, <1>2 DEF Advanced

(* The procedures that follow a failure.                                   *)
LEMMA ThenProgs ==
  /\ \A q \in Thens : FreshProg(q)
  /\ \A q \in {<<>>, <<Off>>} : LaterProg(q)
<1>1. LaterProg(<<>>) /\ LaterProg(<<Off>>)
  BY EmptyProg, OffIsSteady, OneSteady, SteadyIsLater
<1>2. FreshProg(<<>>) /\ FreshProg(<<Off>>)
  BY <1>1 DEF LaterProg, FreshProg, Later
<1>3. Fresh(PaceOff)
  <2>1. FALSE \in BOOLEAN
    OBVIOUS
  <2> QED BY <2>1, PaceProc, Zenon DEF PaceOff
<1>4. FreshProg(<<PaceOff>>)
  <2>1. IsSeq(<<PaceOff>>) /\ Len(<<PaceOff>>) = 1 /\ <<PaceOff>>[1] = PaceOff
    BY SingleIsSeq
  <2> QED BY <2>1, <1>3 DEF FreshProg
<1>5. FreshProg(<<Off, PaceOff>>)
  BY <1>2, <1>4, FreshConcatenated, Paired
<1> QED BY <1>1, <1>2, <1>4, <1>5 DEF Thens

-----------------------------------------------------------------------------
(* The inductive invariant.  Programs are made of fitting procedures, and  *)
(* only the cold init has a part in the pacing and the patch.              *)
Shape ==
  /\ phase \in {"init", "ready", "failed"}
  /\ DOMAIN prog = Threads /\ DOMAIN control = Threads
  /\ sent \in [Threads -> BOOLEAN] /\ aborted \in [Threads -> BOOLEAN]
  /\ lnb \in BOOLEAN /\ lnbEnabled \in BOOLEAN /\ pacing \in BOOLEAN
  /\ \A t \in Threads : ProgOK(prog[t])
  /\ \A t \in Threads : t # "main" \/ phase # "init" => PlainlyProg(prog[t])
  /\ \A t \in Threads : sent[t] => prog[t] # <<>> /\ Op(t).cmd \notin LocalOps \union {"fw_dl"}

(* A value of TX_CONTROL still to be written lacks the tone or the message *)
(* whatever is read for it: by itself, after the value before it, or       *)
(* because the tone was found off or stopped since.                        *)
Quieted(c, s, k) ==
  /\ "tone" \notin s[k].add /\ \A j \in 1..(k - 1) : KeepsQuiet(s[j])
  /\ "tone" \notin c \/ (k > 1 /\ s[1].cmd = "tx" /\ Drops(s[1], "tone"))
HeadSafe(c, s) ==
  \A k \in 1..Len(s) : s[k].cmd = "tx" =>
    \/ Tidy(s[k])
    \/ k = 1 /\ "send" \notin c /\ "send" \notin s[k].add
    \/ k > 1 /\ Cleared(s[k - 1], s[k])
    \/ Quieted(c, s, k)
Tone ==
  /\ ModulatesAlone
  /\ \A t \in Threads : prog[t] # <<>> => HeadSafe(control[t], prog[t][1].ops)
  /\ \A t \in Threads : sent[t] /\ Op(t).cmd = "tx" =>
       \A bit \in {"tone", "send"} : Drops(Op(t), bit) => bit \notin control[t]

(* While the pacing is on every way leads to its end.                      *)
Pacing ==
  /\ pacing => phase = "init" /\ Guard(prog["main"], 1)
  /\ phase = "init" => Guarded(prog["main"])

(* The records before the next one were run or passed over, and until the  *)
(* last one was a procedure holds the patch.                               *)
ScriptOnce(q) == \A i, j \in 1..Len(q) : HasScript(q[i]) /\ HasScript(q[j]) => i = j
RanNext(q, next, last) ==
  \A i \in 1..Len(q) : \A k \in 1..Len(q[i].ops) :
    q[i].ops[k].cmd = "ran" =>
      k < Len(q[i].ops) /\ q[i].ops[k].val = next /\ next <= last
Loads(q) == \E i \in 1..Len(q) : HasScript(q[i])
Patching ==
  /\ phase # "init" => script = <<>>
  /\ IsSeq(script) /\ at \in 1..(Len(script) + 1) /\ passed = 1..(at - 1)
  /\ phase = "init" =>
       /\ ScriptOnce(prog["main"]) /\ RanNext(prog["main"], at, Len(script))
       /\ aborted["main"] \/ at = Len(script) + 1 \/ Loads(prog["main"])

(* One program runs at a time but for a cut beside a tune, and the answers *)
(* in the queue are the late ones and those of what was sent.              *)
Count(b) == IF b THEN 1 ELSE 0
InFlight == Count(sent["main"]) + Count(sent["tuner"])
Queue ==
  /\ IsSeq(answers) /\ late \in Nat /\ faults \in Nat /\ Len(answers) = late + InFlight
  /\ late <= faults /\ faults <= MaxFaults
OneRuns ==
  /\ wrong \in BOOLEAN /\ mistook \in BOOLEAN /\ beside \in BOOLEAN
  /\ ~beside => prog["main"] = <<>> \/ prog["tuner"] = <<>>
  /\ phase = "init" => prog["tuner"] = <<>> /\ ~beside
Blamed ==
  (phase = "init" /\ (aborted["main"] \/ sticky)) \/ phase = "failed" => faults > 0

(* A program that runs alone meets its own answers; after one late answer  *)
(* it meets that of the command before, which for a reading is the         *)
(* acknowledgement of its address.                                         *)
Alone(t) == late = 0 /\ ~beside /\ prog[t] # <<>>
OneLate(t) == late = 1 /\ ~beside /\ prog[t] # <<>>
Meets(t) ==
  /\ Alone(t) /\ sent[t] =>
       LET a == answers[1]
       IN  /\ faults = 0 => a.ok
           /\ a.ok => /\ a.len = AnswerLength(Op(t))
                      /\ Op(t).cmd \in {"read", "memread"} => a.of = Op(t).reg
                      /\ Op(t).cmd = "point" => pointer = Op(t).reg
  /\ Alone(t) /\ ~sent[t] /\ Op(t).cmd = "read" => pointer = Op(t).reg
  /\ OneLate(t) /\ Op(t).cmd = "read" => answers[1].len = 0
  /\ OneLate(t) /\ sent[t] /\ Op(t).cmd = "point" => answers[2].len = 0
Channel == Queue /\ OneRuns /\ Blamed /\ (\A t \in Threads : Meets(t)) /\ OwnValue

(* Without a fault the program that runs leaves the supply dark or known.  *)
Running == IF prog["tuner"] # <<>> THEN prog["tuner"] ELSE prog["main"]
Lit ==
  faults = 0 /\ ~beside =>
    /\ Settles(Running, lnb, lnbEnabled) /\ ~sticky
    /\ \A t \in Threads : sent[t] /\ Supplies(Op(t)) /\ ~Op(t).val => ~lnb

-----------------------------------------------------------------------------
(* What the steps of a thread do to its program.                           *)
Changed(t) == DOMAIN prog' = Threads /\ \A u \in Threads : u # t => prog'[u] = prog[u]

LEMMA OpIs ==
  ASSUME NEW t, ProgOK(prog[t]), prog[t] # <<>>
  PROVE  /\ Op(t) = prog[t][1].ops[1] /\ Head(prog[t]) = prog[t][1]
         /\ 1 \in 1..Len(prog[t]) /\ 1 \in 1..Len(prog[t][1].ops)
  BY FirstIsOK DEF Op

LEMMA Continued ==
  ASSUME Shape, NEW t \in Threads, prog[t] # <<>>, NEW x, IsSeq(x), Continues(t, x)
  PROVE  /\ Changed(t) /\ Advanced(prog[t], prog'[t], x \o Tail(prog[t][1].ops))
         /\ aborted' = aborted /\ sticky' = sticky
<1>1. DOMAIN prog = Threads /\ ProgOK(prog[t])
  BY DEF Shape
<1>2. prog' = [prog EXCEPT ![t] = Rest(t, x)] /\ aborted' = aborted /\ sticky' = sticky
  BY DEF Continues
<1>3. prog'[t] = Rest(t, x) /\ Changed(t)
  BY <1>1, <1>2 DEF Changed
<1>4. Advanced(prog[t], Rest(t, x), x \o Tail(prog[t][1].ops))
  BY <1>1, FirstIsOK, RestAdvances
<1> QED BY <1>2, <1>3, <1>4

LEMMA Passed ==
  ASSUME Shape, NEW t \in Threads, prog[t] # <<>>, Continues(t, <<>>)
  PROVE  /\ Changed(t) /\ Advanced(prog[t], prog'[t], Tail(prog[t][1].ops))
         /\ aborted' = aborted /\ sticky' = sticky
<1>1. ProgOK(prog[t])
  BY DEF Shape
<1> DEFINE u == Tail(prog[t][1].ops)
<1>2. IsSeq(u)
  BY <1>1, FirstIsOK, TailFits
<1> HIDE DEF u
<1>3. <<>> \o u = u
  BY <1>2 DEF IsSeq
<1>4. IsSeq(<<>>)
  BY EmptyIsSeq
<1>5. Advanced(prog[t], prog'[t], <<>> \o u) /\ Changed(t) /\ aborted' = aborted /\ sticky' = sticky
  BY <1>4, Continued DEF u
<1> QED BY <1>3, <1>5 DEF u

LEMMA Failed ==
  ASSUME Shape, NEW t \in Threads, prog[t] # <<>>, Fails(t)
  PROVE  /\ Changed(t) /\ prog[t][1].checked \in BOOLEAN
         /\ prog'[t] = (IF prog[t][1].checked THEN prog[t][1].then ELSE Tail(prog[t]))
         /\ aborted' = [aborted EXCEPT ![t] = @ \/ prog[t][1].checked]
         /\ sticky' = (sticky \/ prog[t][1].sticks)
         /\ FreshProg(prog'[t]) /\ (PlainlyProg(prog[t]) => PlainlyProg(prog'[t]))
<1>1. DOMAIN prog = Threads /\ ProgOK(prog[t])
  BY DEF Shape
<1>2. Head(prog[t]) = prog[t][1] /\ ProcOK(prog[t][1]) /\ IsSeq(prog[t]) /\ 1 \in 1..Len(prog[t])
  BY <1>1, FirstIsOK
<1> DEFINE p == prog[t][1]
<1>3. /\ prog' = [prog EXCEPT ![t] = IF p.checked THEN p.then ELSE Tail(prog[t])]
      /\ aborted' = [aborted EXCEPT ![t] = @ \/ p.checked]
      /\ sticky' = (sticky \/ p.sticks)
  BY <1>2 DEF Fails
<1>4. prog'[t] = (IF p.checked THEN p.then ELSE Tail(prog[t])) /\ Changed(t)
  BY <1>1, <1>3 DEF Changed
<1>5. p.checked \in BOOLEAN /\ p.then \in Thens
  BY <1>2 DEF ProcOK
<1>6. CASE p.checked
  <2>1. prog'[t] = p.then /\ FreshProg(p.then)
    BY <1>4, <1>5, <1>6, ThenProgs
  <2>2. PlainlyProg(prog[t]) => p.then \in {<<>>, <<Off>>}
    BY <1>2 DEF PlainlyProg, Plainly
  <2> QED BY <1>3, <1>4, <1>5, <2>1, <2>2, ThenProgs, LaterIsPlain
<1>7. CASE ~p.checked
  <2>1. prog'[t] = Tail(prog[t]) /\ Dropped(prog[t], Tail(prog[t]), 1)
    BY <1>2, <1>4, <1>7, TailDrops
  <2> HIDE DEF p
  <2>2. FreshProg(prog'[t]) /\ (PlainlyProg(prog[t]) => PlainlyProg(prog'[t]))
    BY <1>1, <2>1, DroppedIsOK
  <2> QED BY <1>3, <1>4, <1>5, <2>2 DEF p
<1> QED BY <1>5, <1>6, <1>7

(* A change of a program that keeps its shape.                             *)
Kept(t) ==
  Changed(t) /\ ProgOK(prog'[t]) /\ (PlainlyProg(prog[t]) => PlainlyProg(prog'[t]))

LEMMA PassedIsKept ==
  ASSUME Shape, NEW t \in Threads, prog[t] # <<>>, Continues(t, <<>>)
  PROVE  Kept(t) /\ aborted' = aborted
<1>1. ProgOK(prog[t]) /\ ProcOK(prog[t][1]) /\ Fitting(prog[t][1].ops) /\ prog[t][1].ops # <<>>
      /\ 1 \in 1..Len(prog[t])
  BY FirstIsOK DEF Shape
<1> DEFINE p == prog[t][1]  left == Tail(p.ops)
<1>2. /\ Changed(t) /\ Advanced(prog[t], prog'[t], left) /\ aborted' = aborted
  BY Passed
<1>3. Suits(p, left)
  BY <1>1, TailSuits
<1>4. PlainlyProg(prog[t]) =>
        \A k \in 1..Len(left) : left[k].cmd \notin {"script", "ran", "pace"}
  <2>1. \A k \in 1..Len(left) : k + 1 \in 1..Len(p.ops) /\ left[k] = p.ops[k + 1]
    BY <1>1, TailFits
  <2>2. PlainlyProg(prog[t]) => Plainly(p)
    BY <1>1 DEF PlainlyProg
  <2> QED BY <2>1, <2>2 DEF Plainly
<1> HIDE DEF left, p
<1>5. Suits(prog[t][1], left)
  BY <1>3 DEF p
<1>6. ProgOK(prog'[t]) /\ (PlainlyProg(prog[t]) => PlainlyProg(prog'[t]))
  BY <1>1, <1>2, <1>4, <1>5, AdvancedIsOK
<1> QED BY <1>2, <1>6 DEF Kept

LEMMA InsertedIsKept ==
  ASSUME Shape, NEW t \in Threads, prog[t] # <<>>, Op(t).cmd = "read",
         NEW x, Fitting(x), x # <<>>, \A k \in 1..Len(x) : OnBus(x[k]), Continues(t, x)
  PROVE  /\ Kept(t) /\ aborted' = aborted /\ sticky' = sticky
         /\ Became(prog[t], prog'[t], x \o Tail(prog[t][1].ops))
         /\ Suits(prog[t][1], x \o Tail(prog[t][1].ops))
         /\ x \o Tail(prog[t][1].ops) # <<>>
<1>1. ProgOK(prog[t]) /\ ProcOK(prog[t][1]) /\ Fitting(prog[t][1].ops) /\ prog[t][1].ops # <<>>
      /\ 1 \in 1..Len(prog[t]) /\ Op(t) = prog[t][1].ops[1]
  BY FirstIsOK, OpIs DEF Shape
<1> DEFINE p == prog[t][1]  left == x \o Tail(p.ops)
<1>2. IsSeq(x)
  BY DEF Fitting, Linked
<1>3. Changed(t) /\ Advanced(prog[t], prog'[t], left) /\ aborted' = aborted /\ sticky' = sticky
  BY <1>2, Continued
<1>4. Suits(p, left) /\ left # <<>>
  BY <1>1, InsertSuits
<1>5. PlainlyProg(prog[t]) =>
        \A k \in 1..Len(left) : left[k].cmd \notin {"script", "ran", "pace"}
  <2>1. \A k \in 1..Len(Tail(p.ops)) : k + 1 \in 1..Len(p.ops) /\ Tail(p.ops)[k] = p.ops[k + 1]
    BY <1>1, TailFits
  <2>2. PlainlyProg(prog[t]) => Plainly(p)
    BY <1>1 DEF PlainlyProg
  <2>3. \A k \in 1..Len(x) : x[k].cmd \notin {"script", "ran", "pace"}
    BY DEF OnBus, LocalOps
  <2>4. IsSeq(Tail(p.ops))
    BY <1>1, TailFits
  <2>5. \A k \in 1..Len(left) : \/ k \in 1..Len(x) /\ left[k] = x[k]
                                \/ k - Len(x) \in 1..Len(Tail(p.ops))
                                     /\ left[k] = Tail(p.ops)[k - Len(x)]
    BY <1>2, <2>4, MembersConcatenated
  <2> HIDE DEF left
  <2> QED BY <2>1, <2>2, <2>3, <2>5 DEF Plainly
<1> HIDE DEF left, p
<1>6. Suits(prog[t][1], left)
  BY <1>4 DEF p
<1>7. ProgOK(prog'[t]) /\ (PlainlyProg(prog[t]) => PlainlyProg(prog'[t]))
  BY <1>1, <1>3, <1>5, <1>6, AdvancedIsOK
<1>8. Became(prog[t], prog'[t], left)
  BY <1>3, <1>4 DEF Advanced
<1> QED BY <1>3, <1>4, <1>6, <1>7, <1>8 DEF Kept, left, p

(* Commands of the bus before operations that are done without it.         *)
LEMMA BusThenLocal ==
  ASSUME NEW s, NEW t, Bus(s), Fitting(t), t # <<>>,
         \A k \in 1..Len(t) : t[k].cmd \notin {"tx", "read"},
         t[1].cmd \notin {"enabled", "ifenabled", "pace", "result"}, ~Supplies(t[1])
  PROVE  LET x == s \o t
         IN  /\ Fitting(x) /\ Toned(x) /\ Addressed(x) /\ x # <<>> /\ IsSeq(x)
             /\ Len(x) = Len(s) + Len(t) /\ Len(s) \in Nat /\ Len(t) \in Nat \ {0}
             /\ \A k \in 1..Len(s) : x[k] = s[k] /\ OnBus(x[k])
             /\ \A k \in (Len(s) + 1)..Len(x) : x[k] = t[k - Len(s)]
             /\ x[1].cmd \notin {"enabled", "ifenabled", "pace", "result"} /\ ~Supplies(x[1])
<1> DEFINE x == s \o t
<1>1. IsSeq(s) /\ IsSeq(t) /\ Len(s) \in Nat /\ Len(t) \in Nat \ {0}
  BY ElementsOf DEF Bus, Fitting, Linked
<1>2. /\ IsSeq(x) /\ Len(x) = Len(s) + Len(t)
      /\ \A k \in 1..Len(s) : x[k] = s[k]
      /\ \A k \in (Len(s) + 1)..(Len(s) + Len(t)) : x[k] = t[k - Len(s)]
  BY <1>1, Concatenated
<1>3. s # <<>> => Follows(s[Len(s)], t[1])
  <2> SUFFICES ASSUME s # <<>> PROVE Follows(s[Len(s)], t[1])
    OBVIOUS
  <2>1. Len(s) \in 1..Len(s) /\ 1 \in 1..Len(t)
    BY <1>1, ElementsOf
  <2>2. OnBus(s[Len(s)]) /\ t[1].cmd # "read"
    BY <2>1 DEF Bus
  <2> QED BY <2>2 DEF OnBus, Follows, LocalOps
<1>4. Linked(x)
  BY <1>3, LinkedConcatenated DEF Bus, Fitting
<1>5. \A k \in 1..Len(x) : \/ k \in 1..Len(s) /\ x[k] = s[k]
                           \/ k - Len(s) \in 1..Len(t) /\ x[k] = t[k - Len(s)]
  BY <1>1, MembersConcatenated
<1> HIDE DEF x
<1>6. Fitting(x)
  BY <1>4, <1>5 DEF Bus, Fitting
<1>7. Toned(x)
  <2> SUFFICES ASSUME NEW k \in 1..Len(x), x[k].cmd = "tx"
               PROVE  Tidy(x[k]) \/ (k > 1 /\ Cleared(x[k - 1], x[k]))
    BY DEF Toned
  <2>1. k \in 1..Len(s) /\ x[k] = s[k]
    BY <1>5
  <2>2. k > 1 => x[k - 1] = s[k - 1]
    BY <2>1, <1>1, <1>2
  <2> QED BY <2>1, <2>2 DEF Bus, Toned
<1>8. x[1] = t[1] \/ (x[1] = s[1] /\ s # <<>> /\ OnBus(s[1]))
  <2>1. 1 \in 1..Len(x)
    BY <1>1, <1>2
  <2>2. CASE 1 \in 1..Len(s)
    BY <2>2, <1>1, <1>2, ElementsOf DEF Bus
  <2>3. CASE 1 \notin 1..Len(s)
    <3>1. Len(s) = 0
      BY <2>3, <1>1
    <3> QED BY <3>1, <2>1, <1>5
  <2> QED BY <2>2, <2>3
<1>9. Addressed(x)
  <2>1. t[1].cmd # "read"
    <3>1. 1 \in 1..Len(t)
      BY <1>1
    <3> QED BY <3>1
  <2>2. s # <<>> => s[1].cmd # "read"
    BY DEF Bus, Addressed
  <2> QED BY <2>1, <2>2, <1>8 DEF Addressed
<1>10. x # <<>>
  BY <1>1, <1>2, ElementsOf
<1>11. \A k \in 1..Len(s) : x[k] = s[k] /\ OnBus(x[k])
  BY <1>2 DEF Bus
<1>12. x[1].cmd \notin {"enabled", "ifenabled", "pace", "result"} /\ ~Supplies(x[1])
  BY <1>8 DEF OnBus, LocalOps
<1>13. \A k \in (Len(s) + 1)..Len(x) : x[k] = t[k - Len(s)]
  BY <1>2
<1> QED BY <1>1, <1>2, <1>6, <1>7, <1>9, <1>10, <1>11, <1>12, <1>13 DEF x

(* The PING of a record.                                                   *)
PingProc == Unchecked(SendCommand("PING") \o <<Local("store", {})>>)

LEMMA PingIsCalm == Calm(PingProc)
<1> DEFINE op == Local("store", {})  s == SendCommand("PING")  t == <<op>>  x == s \o t
           no == FALSE  p == Proc(x, no, <<>>)
<1>1. op.cmd = "store"
  BY DEF Local
<1>2. Bus(s)
  BY SendCommandIsBus
<1>3. PingProc = p
  BY Zenon DEF PingProc, Unchecked
<1>4. no \in BOOLEAN /\ <<>> \in Thens
  BY Zenon DEF Thens
<1> HIDE DEF op, s, no
<1>5. OpOK(op) /\ op.cmd \in LocalOps /\ ~Supplies(op) /\ ~Eventful(op)
  BY <1>1 DEF OpOK, Supplies, LocalOps, Eventful
<1>6. Fitting(t) /\ t # <<>> /\ Len(t) = 1 /\ t[1] = op /\ \A k \in 1..Len(t) : t[k] = op
  <2>1. Fitting(t)
    BY <1>5, LocalIsFitting
  <2> QED BY <2>1
<1> HIDE DEF t
<1>7. /\ Fitting(x) /\ Toned(x) /\ Addressed(x) /\ x # <<>> /\ IsSeq(x)
      /\ Len(x) = Len(s) + Len(t) /\ Len(s) \in Nat
      /\ \A k \in 1..Len(s) : x[k] = s[k] /\ OnBus(x[k])
      /\ \A k \in (Len(s) + 1)..Len(x) : x[k] = t[k - Len(s)]
  BY <1>1, <1>2, <1>5, <1>6, BusThenLocal
<1> HIDE DEF x
<1>8. \A k \in 1..Len(x) : ~Eventful(x[k]) /\ x[k].cmd # "script"
  <2> TAKE k \in 1..Len(x)
  <2>1. CASE k \in 1..Len(s)
    BY <2>1, <1>7 DEF OnBus, LocalOps, Eventful
  <2>2. CASE k \notin 1..Len(s)
    <3>1. k \in (Len(s) + 1)..Len(x) /\ k - Len(s) \in 1..Len(t)
      BY <2>2, <1>7, <1>6
    <3>2. x[k] = op
      BY <3>1, <1>6, <1>7
    <3> QED BY <3>2, <1>1, <1>5
  <2> QED BY <2>1, <2>2
<1>9. Fresh(p) /\ p.ops = x
  BY <1>4, <1>7, <1>8, FreshProc
<1> HIDE DEF p
<1>10. Calm(p)
  BY <1>8, <1>9 DEF Calm
<1> QED BY <1>3, <1>10

(* A record of the patch in the place of the patch.                        *)
LEMMA Recorded ==
  ASSUME Shape, NEW t \in Threads, prog[t] # <<>>, Op(t).cmd = "script", NEW r
  PROVE  LET x == CommandOps(r) \o <<Local("ran", at), Op(t)>>
         IN  /\ Became(prog[t], Rest(t, x), x) /\ Suits(prog[t][1], x) /\ x # <<>>
             /\ Toned(x) /\ Addressed(x) /\ x[Len(x)].cmd = "script"
             /\ \A k \in 1..Len(x) : x[k].cmd = "ran" => k < Len(x) /\ x[k].val = at
             /\ x[1].cmd \notin {"enabled", "ifenabled", "pace", "result"} /\ ~Supplies(x[1])
             /\ Len(prog[t][1].ops) = 1 /\ Len(x) \in Nat
<1>1. ProgOK(prog[t]) /\ ProcOK(prog[t][1]) /\ Fitting(prog[t][1].ops) /\ prog[t][1].ops # <<>>
      /\ Op(t) = prog[t][1].ops[1] /\ IsSeq(prog[t]) /\ OpOK(Op(t))
      /\ Len(prog[t][1].ops) \in Nat \ {0} /\ IsSeq(prog[t][1].ops)
  BY FirstIsOK, OpIs DEF Shape
<1> DEFINE p == prog[t][1]  a == Local("ran", at)  b == Op(t)  y == <<a, b>>
           c == CommandOps(r)  x == c \o y
<1>2. Len(p.ops) = 1
  <2> DEFINE n == Len(p.ops)
  <2>0. n \in Nat \ {0} /\ (n >= 2 \/ n = 1)
    <3>1. n \in Nat \ {0}
      BY <1>1
    <3> HIDE DEF n
    <3> QED BY <3>1
  <2> SUFFICES ASSUME n >= 2 PROVE FALSE
    BY <2>0
  <2>1. 2 \in 2..Len(p.ops)
    BY <1>1
  <2>2. Follows(p.ops[2 - 1], p.ops[2])
    BY <2>1, <1>1 DEF Fitting, Linked
  <2> QED BY <2>2, <1>1 DEF Follows
<1>3. Tail(p.ops) = <<>>
  <2>1. Len(Tail(p.ops)) = 0 /\ IsSeq(Tail(p.ops))
    BY <1>1, <1>2, TailFits
  <2> QED BY <2>1, ElementsOf
<1>4. a.cmd = "ran" /\ a.val = at
  BY DEF Local
<1>5. IsSeq(y) /\ Len(y) = 2 /\ y[1] = a /\ y[2] = b /\ y # <<>>
  <2> HIDE DEF a, b
  <2> QED BY DEF IsSeq, Range
<1>6. Bus(c)
  BY CommandOpsIsBus
<1> HIDE DEF a, b, c
<1>7. b.cmd = "script" /\ OpOK(b)
  BY <1>1 DEF b
<1>8. OpOK(a) /\ Follows(a, b) /\ ~Supplies(a)
  BY <1>4, <1>7 DEF OpOK, Follows, Supplies
<1> HIDE DEF y
<1>9. (\A k \in 1..Len(y) : k = 1 \/ k = 2) /\ \A k \in 2..Len(y) : k = 2 /\ k - 1 = 1
  BY <1>5
<1>10. Fitting(y)
  BY <1>5, <1>7, <1>8, <1>9 DEF Fitting, Linked
<1>11. /\ Fitting(x) /\ Toned(x) /\ Addressed(x) /\ x # <<>> /\ IsSeq(x)
       /\ Len(x) = Len(c) + Len(y) /\ Len(c) \in Nat
       /\ \A k \in 1..Len(c) : x[k] = c[k] /\ OnBus(x[k])
       /\ \A k \in (Len(c) + 1)..Len(x) : x[k] = y[k - Len(c)]
       /\ x[1].cmd \notin {"enabled", "ifenabled", "pace", "result"} /\ ~Supplies(x[1])
  <2>1. \A k \in 1..Len(y) : y[k].cmd \notin {"tx", "read"}
    BY <1>4, <1>5, <1>7, <1>9
  <2> QED BY <1>4, <1>5, <1>6, <1>8, <1>10, <2>1, BusThenLocal
<1> HIDE DEF x
<1>12. x[Len(x)] = b /\ x[Len(c) + 1] = a /\ Len(x) = Len(c) + 2
  <2>1. /\ Len(x) = Len(c) + 2 /\ Len(x) - Len(c) = 2 /\ (Len(c) + 1) - Len(c) = 1
        /\ Len(x) \in (Len(c) + 1)..Len(x) /\ Len(c) + 1 \in (Len(c) + 1)..Len(x)
    BY <1>5, <1>11
  <2> QED BY <2>1, <1>5, <1>11
<1>13. \A k \in 1..Len(x) : OnBus(x[k]) \/ (k = Len(c) + 1) \/ k = Len(x)
  BY <1>11, <1>12
<1>14. \A k \in 1..Len(x) : x[k].cmd = "ran" => k < Len(x) /\ x[k].val = at
  <2> SUFFICES ASSUME NEW k \in 1..Len(x), x[k].cmd = "ran" PROVE k < Len(x) /\ x[k].val = at
    OBVIOUS
  <2>1. ~OnBus(x[k])
    BY DEF OnBus, LocalOps
  <2>2. k = Len(c) + 1
    BY <2>1, <1>7, <1>12, <1>13
  <2> QED BY <2>2, <1>4, <1>11, <1>12
<1>15. Suits(p, x)
  <2>1. p.checked /\ ~p.sticks /\ ~p.orelse
    <3>1. 1 \in 1..Len(p.ops) /\ p.ops[1].cmd = "script"
      BY <1>1, <1>2
    <3>2. Eventful(p.ops[1])
      BY <3>1 DEF Eventful
    <3> QED BY <3>1, <3>2, <1>1 DEF ProcOK
  <2> QED BY <2>1, <1>11 DEF Suits
<1>16. x \o Tail(p.ops) = x
  <2>1. x \o <<>> = x
    BY <1>11 DEF IsSeq
  <2> QED BY <1>3, <2>1
<1>17. Advanced(prog[t], Rest(t, x), x)
  <2>1. Advanced(prog[t], Rest(t, x), x \o Tail(p.ops))
    BY <1>1, <1>11, RestAdvances
  <2> QED BY <2>1, <1>16
<1>18. Became(prog[t], Rest(t, x), x)
  BY <1>17, <1>11 DEF Advanced
<1> HIDE DEF p
<1>19. x[Len(x)].cmd = "script" /\ Len(x) \in Nat
  BY <1>7, <1>12, <1>11
<1> QED BY <1>2, <1>11, <1>14, <1>15, <1>18, <1>19 DEF x, y, a, b, c, p

(* A message in the place of the reading that precedes it.                 *)
LEMMA InterruptFits ==
  ASSUME NEW body, Message(body), NEW value
  PROVE  LET x == Interrupting(body, value)
         IN  /\ Fitting(x) /\ x # <<>> /\ Addressed(x)
             /\ \A k \in 1..Len(x) : OnBus(x[k])
<1>1. /\ Linked(body) /\ Addressed(body) /\ body # <<>> /\ IsSeq(body)
      /\ \A k \in 1..Len(body) : OnBus(body[k]) /\ KeepsQuiet(body[k])
  BY DEF Message, Linked
<1>2. Fitting(body)
  BY <1>1 DEF Fitting, OpOK, OnBus, KeepsQuiet, LocalOps
<1> DEFINE stop == Tx({"tone"}, {})  s == <<stop>>  back == SetTone(TRUE)
<1>3. Interrupting(body, value) = IF "tone" \in value THEN (s \o body) \o back ELSE body
  BY Zenon DEF Interrupting, Quiet
<1>4. Bus(s)
  BY TxIsSingle, SingleIsBus
<1>5. Bus(back) /\ back # <<>>
  BY SetToneIsBus, Zenon
<1>6. Len(s) = 1 /\ IsSeq(s)
  BY SingleIsSeq
<1> HIDE DEF s, back, stop
<1>7. ASSUME NEW u, NEW v, Fitting(u), Fitting(v), u # <<>>, v # <<>>, Addressed(u), Addressed(v),
             \A k \in 1..Len(u) : OnBus(u[k]), \A k \in 1..Len(v) : OnBus(v[k])
      PROVE  /\ Fitting(u \o v) /\ u \o v # <<>> /\ Addressed(u \o v)
             /\ \A k \in 1..Len(u \o v) : OnBus((u \o v)[k])
  <2>1. IsSeq(u) /\ IsSeq(v) /\ Len(u) \in Nat \ {0} /\ Len(v) \in Nat \ {0}
    BY <1>7, ElementsOf DEF Fitting, Linked
  <2>2. Follows(u[Len(u)], v[1])
    <3>1. Len(u) \in 1..Len(u) /\ 1 \in 1..Len(v)
      BY <2>1
    <3>2. OnBus(u[Len(u)]) /\ OnBus(v[1]) /\ v[1].cmd # "read"
      BY <3>1, <1>7 DEF Addressed
    <3> QED BY <3>2 DEF OnBus, Follows, LocalOps
  <2> DEFINE uv == u \o v
  <2>3. Linked(uv)
    BY <1>7, <2>2, LinkedConcatenated DEF Fitting
  <2>4. \A k \in 1..Len(uv) : \/ k \in 1..Len(u) /\ uv[k] = u[k]
                              \/ k - Len(u) \in 1..Len(v) /\ uv[k] = v[k - Len(u)]
    BY <2>1, MembersConcatenated
  <2>5. Len(uv) = Len(u) + Len(v) /\ IsSeq(uv) /\ \A i \in 1..Len(u) : uv[i] = u[i]
    BY <2>1, Concatenated
  <2> HIDE DEF uv
  <2>6. Fitting(uv) /\ \A k \in 1..Len(uv) : OnBus(uv[k])
    BY <1>7, <2>3, <2>4 DEF Fitting
  <2>7. uv # <<>> /\ uv[1] = u[1]
    <3>1. 1 \in 1..Len(u)
      BY <2>1
    <3> QED BY <3>1, <2>1, <2>5, ElementsOf
  <2>8. Addressed(uv)
    BY <2>7, <1>7 DEF Addressed
  <2> QED BY <2>6, <2>7, <2>8 DEF uv
<1>8. s # <<>>
  BY <1>6, ElementsOf
<1> DEFINE sb == s \o body
<1>9. Fitting(sb) /\ sb # <<>> /\ Addressed(sb) /\ \A k \in 1..Len(sb) : OnBus(sb[k])
  <2>1. Fitting(s) /\ Addressed(s) /\ \A k \in 1..Len(s) : OnBus(s[k])
    BY <1>4 DEF Bus
  <2> QED BY <2>1, <1>1, <1>2, <1>7, <1>8
<1> HIDE DEF sb
<1> DEFINE sbb == sb \o back
<1>10. Fitting(sbb) /\ sbb # <<>> /\ Addressed(sbb) /\ \A k \in 1..Len(sbb) : OnBus(sbb[k])
  <2>1. Fitting(back) /\ Addressed(back) /\ \A k \in 1..Len(back) : OnBus(back[k])
    BY <1>5 DEF Bus
  <2> QED BY <2>1, <1>5, <1>7, <1>9
<1> HIDE DEF sbb
<1>11. Interrupting(body, value) = IF "tone" \in value THEN sbb ELSE body
  BY <1>3 DEF sbb, sb
<1> DEFINE x == Interrupting(body, value)
<1>12. x = sbb \/ x = body
  BY <1>11
<1> HIDE DEF x
<1>13. Fitting(x) /\ x # <<>> /\ Addressed(x) /\ \A k \in 1..Len(x) : OnBus(x[k])
  BY <1>1, <1>2, <1>10, <1>12
<1> QED BY <1>13 DEF x

(* lnb_power_down in the place of the question whether it is needed.       *)
LEMMA PoweredDown ==
  ASSUME Shape, NEW t \in Threads, PowersDown(t)
  PROVE  /\ Kept(t) /\ aborted' = aborted /\ prog[t] # <<>> /\ ProgOK(prog[t])
         /\ prog'[t] = (IF lnbEnabled THEN PowerDown ELSE <<>>) \o Tail(prog[t])
         /\ FreshProg(Tail(prog[t])) /\ FreshProg(prog'[t])
<1>1. DOMAIN prog = Threads /\ ProgOK(prog[t]) /\ prog[t] # <<>> /\ Op(t).cmd = "ifenabled"
  BY DEF Shape, PowersDown, Doing
<1>2. OpOK(Op(t)) /\ IsSeq(prog[t])
  BY <1>1, FirstIsOK, OpIs
<1>3. Op(t).val = PowerDown
  BY <1>1, <1>2 DEF OpOK
<1> DEFINE x == IF lnbEnabled THEN PowerDown ELSE <<>>
<1>4. prog' = [prog EXCEPT ![t] = x \o Tail(@)] /\ aborted' = aborted
  BY <1>3 DEF PowersDown
<1>5. LaterProg(x)
  BY PowerDownProg, EmptyProg, SteadyIsLater
<1> HIDE DEF x
<1>6. Changed(t) /\ prog'[t] = x \o Tail(prog[t])
  BY <1>1, <1>4 DEF Changed
<1>7. Dropped(prog[t], Tail(prog[t]), 1)
  BY <1>1, <1>2, TailDrops
<1>8. FreshProg(Tail(prog[t])) /\ (PlainlyProg(prog[t]) => PlainlyProg(Tail(prog[t])))
  BY <1>1, <1>7, DroppedIsOK
<1>9. FreshProg(x) /\ PlainlyProg(x)
  BY <1>5, LaterIsPlain DEF LaterProg, Later, FreshProg
<1>10. FreshProg(x \o Tail(prog[t]))
  BY <1>8, <1>9, FreshConcatenated
<1>11. PlainlyProg(prog[t]) => PlainlyProg(x \o Tail(prog[t]))
  BY <1>8, <1>9, MembersConcatenated DEF PlainlyProg, FreshProg
<1> QED BY <1>1, <1>4, <1>6, <1>8, <1>10, <1>11, FreshIsOK DEF Kept, x

-----------------------------------------------------------------------------
(* Shape is kept by every step.                                            *)
LEMMA ShapeKept ==
  ASSUME Shape, NEW t \in Threads, phase' = phase, DOMAIN control' = Threads,
         sent' \in [Threads -> BOOLEAN], \A u \in Threads : u # t => sent'[u] = sent[u],
         aborted' \in [Threads -> BOOLEAN],
         lnb' \in BOOLEAN, lnbEnabled' \in BOOLEAN, pacing' \in BOOLEAN,
         \/ Kept(t) /\ ~sent'[t]
         \/ prog' = prog /\ (sent'[t] => prog[t] # <<>> /\ Op(t).cmd \notin LocalOps \union {"fw_dl"})
  PROVE  Shape'
<1>1. DOMAIN prog' = Threads /\ \A u \in Threads : u # t => prog'[u] = prog[u]
  BY DEF Kept, Changed, Shape
<1>2. \A u \in Threads : ProgOK(prog'[u])
  BY <1>1 DEF Kept, Shape
<1>3. \A u \in Threads : u # "main" \/ phase # "init" => PlainlyProg(prog'[u])
  BY <1>1 DEF Kept, Shape
<1>4. ASSUME NEW u \in Threads, sent'[u]
      PROVE  prog'[u] # <<>> /\ Op(u)'.cmd \notin LocalOps \union {"fw_dl"}
  <2>1. CASE u # t
    <3>1. sent[u] /\ prog'[u] = prog[u]
      BY <1>1, <1>4, <2>1
    <3> QED BY <3>1 DEF Shape, Op
  <2>2. CASE u = t
    BY <1>4, <2>2 DEF Op
  <2> QED BY <2>1, <2>2
<1> QED BY <1>1, <1>2, <1>3, <1>4 DEF Shape

LEMMA ShapeOfFailed ==
  ASSUME Shape, NEW t \in Threads, prog[t] # <<>>, Fails(t)
  PROVE  Kept(t) /\ aborted' \in [Threads -> BOOLEAN]
<1>1. /\ Changed(t) /\ prog[t][1].checked \in BOOLEAN
      /\ aborted' = [aborted EXCEPT ![t] = @ \/ prog[t][1].checked]
      /\ FreshProg(prog'[t]) /\ (PlainlyProg(prog[t]) => PlainlyProg(prog'[t]))
  BY Failed
<1>2. Kept(t)
  BY <1>1, FreshIsOK DEF Kept
<1> DEFINE c == prog[t][1].checked
<1> HIDE DEF c
<1>3. aborted' = [aborted EXCEPT ![t] = @ \/ c] /\ c \in BOOLEAN
  BY <1>1 DEF c
<1>4. aborted' \in [Threads -> BOOLEAN]
  BY <1>3 DEF Shape
<1> QED BY <1>2, <1>4

(* The head of the program of a thread that does something.                *)
LEMMA HeadIs ==
  ASSUME Shape, NEW t \in Threads, prog[t] # <<>>
  PROVE  ProgOK(prog[t]) /\ Op(t) = prog[t][1].ops[1] /\ OpOK(Op(t))
  BY FirstIsOK, OpIs DEF Shape

LEMMA ShapeSends ==
  ASSUME Shape, NEW t \in Threads, Sends(t) \/ SendFails(t) \/ Refused(t) \/ AnswerLate(t)
  PROVE  Shape'
<1>1. prog[t] # <<>>
  BY DEF Shape, Sends, SendFails, Refused, AnswerLate, Sending
<1>2. OpOK(Op(t))
  BY <1>1, HeadIs
<1>3. Computes(t) => DOMAIN control' = Threads
  BY DEF Computes, Shape
<1>4. CASE Sends(t)
  <2>1. /\ Sending(t) /\ Computes(t) /\ Reaches(t) /\ phase' = phase
        /\ lnbEnabled' = lnbEnabled /\ pacing' = pacing
    BY <1>4 DEF Sends, above
  <2>2. lnb' \in BOOLEAN
    BY <1>2, <2>1 DEF Reaches, OpOK, Supplies, Shape
  <2>3. CASE Op(t).cmd \in Unanswered
    <3>1. Continues(t, <<>>) /\ sent' = sent
      BY <1>4, <2>3 DEF Sends
    <3>2. Kept(t) /\ aborted' = aborted
      BY <1>1, <3>1, PassedIsKept
    <3> QED BY <1>3, <2>1, <2>2, <3>1, <3>2, ShapeKept DEF Shape, Sending
  <2>4. CASE Op(t).cmd \notin Unanswered
    <3>1. sent' = [sent EXCEPT ![t] = TRUE] /\ prog' = prog /\ aborted' = aborted
      BY <1>4, <2>4 DEF Sends
    <3>2. Op(t).cmd \notin LocalOps \union {"fw_dl"}
      BY <2>1, <2>4 DEF Sending, Unanswered, Silent
    <3> QED BY <1>1, <1>3, <2>1, <2>2, <3>1, <3>2, ShapeKept DEF Shape
  <2> QED BY <2>3, <2>4
<1>5. CASE SendFails(t)
  <2>1. /\ Sending(t) /\ Computes(t) /\ Fails(t) /\ phase' = phase /\ sent' = sent
        /\ lnbEnabled' = lnbEnabled /\ pacing' = pacing /\ lnb' = lnb
    BY <1>5 DEF SendFails, above, device
  <2>2. Kept(t) /\ aborted' \in [Threads -> BOOLEAN]
    BY <1>1, <2>1, ShapeOfFailed
  <2> QED BY <1>3, <2>1, <2>2, ShapeKept DEF Shape, Sending
<1>6. CASE Refused(t)
  <2>1. /\ Sending(t) /\ Computes(t) /\ phase' = phase /\ sent' = [sent EXCEPT ![t] = TRUE]
        /\ lnbEnabled' = lnbEnabled /\ pacing' = pacing /\ lnb' = lnb
        /\ prog' = prog /\ aborted' = aborted /\ Op(t).cmd \notin Unanswered
    BY <1>6 DEF Refused, above, device
  <2>2. Op(t).cmd \notin LocalOps \union {"fw_dl"}
    BY <2>1 DEF Sending, Unanswered, Silent
  <2> QED BY <1>1, <1>3, <2>1, <2>2, ShapeKept DEF Shape
<1>7. CASE AnswerLate(t)
  <2>1. /\ Fails(t) /\ phase' = phase /\ sent' = [sent EXCEPT ![t] = FALSE]
        /\ lnbEnabled' = lnbEnabled /\ pacing' = pacing /\ lnb' = lnb /\ control' = control
    BY <1>7 DEF AnswerLate, above, device
  <2>2. Kept(t) /\ aborted' \in [Threads -> BOOLEAN]
    BY <1>1, <2>1, ShapeOfFailed
  <2> QED BY <2>1, <2>2, ShapeKept DEF Shape
<1> QED BY <1>4, <1>5, <1>6, <1>7

(* The steps that take an answer.                                          *)
TakesAnswer(t) ==
  \/ TakesRefusal(t) \/ TakesAck(t) \/ TakesBridgeValue(t) \/ TakesValue(t)
  \/ TakesControl(t) \/ TakesPoll(t) \/ TakesCell(t)
Inserted(t, x) ==
  /\ Op(t).cmd = "read" /\ Fitting(x) /\ x # <<>> /\ Addressed(x)
  /\ \A k \in 1..Len(x) : OnBus(x[k])
  /\ Continues(t, x)

LEMMA PollAgain ==
  ASSUME NEW r, NEW n
  PROVE  LET x == <<Point(r), Rd(r, "poll", n)>>
         IN  Fitting(x) /\ x # <<>> /\ Addressed(x) /\ \A k \in 1..Len(x) : OnBus(x[k])
<1> DEFINE x == <<Point(r), Rd(r, "poll", n)>>
<1>1. Bus(x)
  BY ReadingIsBus
<1>2. x # <<>>
  OBVIOUS
<1> HIDE DEF x
<1> QED BY <1>1, <1>2 DEF Bus, x

LEMMA ControlInserts ==
  ASSUME Shape, NEW t \in Threads, prog[t] # <<>>, TakesControl(t)
  PROVE  Continues(t, <<>>) \/ \E x : Inserted(t, x)
<1>1. PICK value : Continues(t, IF Op(t).use = "control" THEN <<>>
                                ELSE Interrupting(Op(t).body, value))
  BY DEF TakesControl
<1>2. CASE Op(t).use # "control"
  <2>1. Op(t).cmd = "read" /\ Op(t).use = "modulate"
    BY <1>2 DEF TakesControl
  <2>2. Message(Op(t).body)
    BY <2>1, HeadIs DEF OpOK
  <2> DEFINE x == Interrupting(Op(t).body, value)
  <2>3. Fitting(x) /\ x # <<>> /\ Addressed(x) /\ \A k \in 1..Len(x) : OnBus(x[k])
    BY <2>2, InterruptFits
  <2>4. Continues(t, x)
    BY <1>1, <1>2
  <2> HIDE DEF x
  <2>5. Inserted(t, x)
    BY <2>1, <2>3, <2>4 DEF Inserted
  <2> QED BY <2>5
<1>3. CASE Op(t).use = "control"
  BY <1>1, <1>3
<1> QED BY <1>2, <1>3

LEMMA Answered ==
  ASSUME Shape, NEW t \in Threads, TakesAnswer(t)
  PROVE  /\ sent[t] /\ prog[t] # <<>> /\ answers # <<>> /\ answers' = Tail(answers)
         /\ sent' = [sent EXCEPT ![t] = FALSE]
         /\ phase' = phase /\ pacing' = pacing /\ lnbEnabled' = lnbEnabled /\ lnb' = lnb
         /\ tx' = tx /\ pointer' = pointer /\ script' = script /\ at' = at /\ passed' = passed
         /\ beside' = beside /\ late' = late
         /\ \/ control' = control \/ \E v : control' = [control EXCEPT ![t] = v]
         /\ \/ Fails(t) \/ Continues(t, <<>>) \/ \E x : Inserted(t, x)
<1>1. sent[t] /\ answers # <<>> /\ Taken(t)
  BY DEF TakesAnswer, TakesRefusal, TakesAck, TakesBridgeValue, TakesValue, TakesControl,
         TakesPoll, TakesCell, Accepted, Arrived
<1>2. prog[t] # <<>>
  BY <1>1 DEF Shape
<1>3. /\ phase' = phase /\ pacing' = pacing /\ lnbEnabled' = lnbEnabled /\ lnb' = lnb
      /\ tx' = tx /\ pointer' = pointer /\ script' = script /\ at' = at /\ passed' = passed
      /\ beside' = beside /\ late' = late
      /\ \/ control' = control \/ \E v : control' = [control EXCEPT ![t] = v]
  <2>1. CASE TakesRefusal(t)
    BY <2>1 DEF TakesRefusal, above, device, patch
  <2>2. CASE TakesAck(t)
    BY <2>2 DEF TakesAck, above, device, patch
  <2>3. CASE TakesBridgeValue(t)
    BY <2>3 DEF TakesBridgeValue, above, device, patch
  <2>4. CASE TakesValue(t)
    BY <2>4 DEF TakesValue, above, device, patch
  <2>5. CASE TakesControl(t)
    BY <2>5 DEF TakesControl, above, device, patch
  <2>6. CASE TakesPoll(t)
    BY <2>6 DEF TakesPoll, above, device, patch
  <2>7. CASE TakesCell(t)
    BY <2>7 DEF TakesCell, device
  <2> QED BY <2>1, <2>2, <2>3, <2>4, <2>5, <2>6, <2>7 DEF TakesAnswer
<1>4. Fails(t) \/ Continues(t, <<>>) \/ \E x : Inserted(t, x)
  <2>1. CASE TakesControl(t)
    BY <1>2, <2>1, ControlInserts
  <2>2. CASE TakesPoll(t)
    <3>1. CASE Continues(t, <<Point(Op(t).reg), Rd(Op(t).reg, "poll", Op(t).polls - 1)>>)
      <4> DEFINE x == <<Point(Op(t).reg), Rd(Op(t).reg, "poll", Op(t).polls - 1)>>
      <4>1. Fitting(x) /\ x # <<>> /\ Addressed(x) /\ \A k \in 1..Len(x) : OnBus(x[k])
        BY PollAgain
      <4>2. Op(t).cmd = "read" /\ Continues(t, x)
        BY <2>2, <3>1 DEF TakesPoll
      <4> HIDE DEF x
      <4>3. Inserted(t, x)
        BY <4>1, <4>2 DEF Inserted
      <4> QED BY <4>3
    <3>2. CASE Continues(t, <<>>) \/ Fails(t)
      BY <3>2
    <3> QED BY <2>2, <3>1, <3>2 DEF TakesPoll
  <2>3. CASE ~TakesControl(t) /\ ~TakesPoll(t)
    BY <2>3 DEF TakesAnswer, TakesRefusal, TakesAck, TakesBridgeValue, TakesValue, TakesCell
  <2> QED BY <2>1, <2>2, <2>3
<1> QED BY <1>1, <1>2, <1>3, <1>4 DEF Taken

LEMMA ShapeAnswers == ASSUME Shape, NEW t \in Threads, TakesAnswer(t) PROVE Shape'
<1>1. /\ sent[t] /\ prog[t] # <<>> /\ sent' = [sent EXCEPT ![t] = FALSE]
      /\ phase' = phase /\ pacing' = pacing /\ lnbEnabled' = lnbEnabled /\ lnb' = lnb
      /\ \/ control' = control \/ \E v : control' = [control EXCEPT ![t] = v]
      /\ \/ Fails(t) \/ Continues(t, <<>>) \/ \E x : Inserted(t, x)
  BY Answered
<1>2. Kept(t) /\ aborted' \in [Threads -> BOOLEAN]
  <2>1. CASE Fails(t)
    BY <1>1, <2>1, ShapeOfFailed
  <2>2. CASE Continues(t, <<>>)
    BY <1>1, <2>2, PassedIsKept DEF Shape
  <2>3. CASE \E x : Inserted(t, x)
    <3>1. PICK x : Inserted(t, x)
      BY <2>3
    <3>2. Kept(t) /\ aborted' = aborted
      BY <1>1, <3>1, InsertedIsKept DEF Inserted
    <3> QED BY <3>2 DEF Shape
  <2> QED BY <1>1, <2>1, <2>2, <2>3
<1>3. DOMAIN control' = Threads
  BY <1>1 DEF Shape
<1>4. ~sent'[t] /\ sent' \in [Threads -> BOOLEAN] /\ \A u \in Threads : u # t => sent'[u] = sent[u]
  BY <1>1 DEF Shape
<1> QED BY <1>1, <1>2, <1>3, <1>4, ShapeKept DEF Shape

(* The steps without the bus.                                              *)
Runs(t, x, m) ==
  /\ Became(prog[t], m, x) /\ Suits(prog[t][1], x) /\ x # <<>> /\ Toned(x) /\ Addressed(x)
  /\ x[Len(x)].cmd = "script" /\ Len(x) \in Nat
  /\ \A k \in 1..Len(x) : x[k].cmd = "ran" => k < Len(x) /\ x[k].val = at
  /\ x[1].cmd \notin {"enabled", "ifenabled", "pace", "result"} /\ ~Supplies(x[1])
  /\ Changed(t) /\ ProgOK(m) /\ (prog'[t] = m \/ prog'[t] = <<PingProc>> \o m)

LEMMA RecordRuns ==
  ASSUME Shape, NEW t \in Threads, RunsRecord(t)
  PROVE  /\ prog[t] # <<>> /\ Op(t).cmd = "script" /\ ~sent[t] /\ at <= Len(script)
         /\ Len(prog[t][1].ops) = 1 /\ aborted' = aborted /\ sticky' = sticky
         /\ sent' = sent /\ control' = control /\ phase' = phase /\ pacing' = pacing
         /\ lnb' = lnb /\ lnbEnabled' = lnbEnabled /\ script' = script
         /\ \/ prog' = prog /\ at' = at + 1 /\ passed' = passed \union {at}
            \/ prog' = prog /\ at' = Len(script) + 1 /\ passed' = DOMAIN script
            \/ /\ at' = at /\ passed' = passed
               /\ \E x, m : Runs(t, x, m)
<1> DEFINE r == script[at]
           c == Condition(r.terms, cells)
           x == CommandOps(r) \o <<Local("ran", at), Op(t)>>
           m == Rest(t, x)
           pre == IF r.command = "PING" THEN <<PingProc>> ELSE <<>>
<1>1. /\ prog[t] # <<>> /\ Op(t).cmd = "script" /\ ~sent[t] /\ at <= Len(script)
      /\ aborted' = aborted /\ sticky' = sticky
      /\ sent' = sent /\ control' = control /\ phase' = phase /\ pacing' = pacing
      /\ lnb' = lnb /\ lnbEnabled' = lnbEnabled /\ script' = script
  BY DEF RunsRecord, Doing, bus, device
<1>2. \/ prog' = prog /\ at' = at + 1 /\ passed' = passed \union {at}
      \/ prog' = prog /\ at' = Len(script) + 1 /\ passed' = DOMAIN script
      \/ /\ at' = at /\ passed' = passed
         /\ prog' = [prog EXCEPT ![t] = pre \o m]
  <2> DEFINE again == <<Local("ran", at), Op(t)>>
  <2>1. (CASE ~c.holds ->
                at' = at + 1 /\ passed' = passed \union {at} /\ UNCHANGED prog
           [] c.holds /\ r.command = "EXIT" ->
                at' = Len(script) + 1 /\ passed' = DOMAIN script /\ UNCHANGED prog
           [] OTHER ->
                /\ prog' = [prog EXCEPT ![t] = pre \o Rest(t, CommandOps(r) \o again)]
                /\ UNCHANGED <<at, passed>>)
    BY Zenon DEF RunsRecord, PingProc
  <2> HIDE DEF c, r, pre
  <2>2. m = Rest(t, CommandOps(r) \o again)
    OBVIOUS
  <2> HIDE DEF m, again
  <2> QED BY <2>1, <2>2
<1>3. /\ Became(prog[t], m, x) /\ Suits(prog[t][1], x) /\ x # <<>>
      /\ Toned(x) /\ Addressed(x) /\ x[Len(x)].cmd = "script"
      /\ \A k \in 1..Len(x) : x[k].cmd = "ran" => k < Len(x) /\ x[k].val = at
      /\ x[1].cmd \notin {"enabled", "ifenabled", "pace", "result"} /\ ~Supplies(x[1])
      /\ Len(prog[t][1].ops) = 1 /\ Len(x) \in Nat
  BY <1>1, Recorded
<1> HIDE DEF m, x, r
<1>4. ProgOK(m)
  BY <1>1, <1>3, HeadIs, BecameIsOK
<1>5. ASSUME prog' = [prog EXCEPT ![t] = pre \o m] PROVE Runs(t, x, m)
  <2>1. Changed(t) /\ prog'[t] = pre \o m
    BY <1>5 DEF Changed, Shape
  <2>2. <<>> \o m = m
    BY <1>4 DEF ProgOK, IsSeq
  <2>3. prog'[t] = m \/ prog'[t] = <<PingProc>> \o m
    BY <2>1, <2>2
  <2> QED BY <1>3, <1>4, <2>1, <2>3 DEF Runs
<1> QED BY <1>1, <1>2, <1>3, <1>5

LEMMA RecordIsKept ==
  ASSUME Shape, NEW t \in Threads, prog[t] # <<>>, Op(t).cmd = "script", NEW x, NEW m, Runs(t, x, m)
  PROVE  Kept(t) /\ FreshProg(m) /\ FreshProg(prog'[t]) /\ m # <<>> /\ m[1].ops = x
<1>1. ProgOK(prog[t]) /\ Op(t) = prog[t][1].ops[1]
      /\ 1 \in 1..Len(prog[t]) /\ 1 \in 1..Len(prog[t][1].ops)
  BY OpIs DEF Shape
<1>2. ~PlainlyProg(prog[t])
  BY <1>1 DEF PlainlyProg, Plainly
<1>3. ProgOK(m) /\ m[1].ops = x /\ m # <<>>
  BY <1>1, BecameIsOK DEF Runs
<1>4. Fresh(m[1]) /\ IsSeq(m) /\ Len(m) \in Nat \ {0}
  BY <1>3, FirstIsOK DEF Runs, Fresh
<1>5. \A i \in 1..Len(m) : i = 1 \/ i \in 2..Len(m)
  BY <1>4
<1>6. FreshProg(m)
  BY <1>3, <1>4, <1>5 DEF FreshProg, ProgOK
<1>7. FreshProg(<<PingProc>>)
  <2>1. IsSeq(<<PingProc>>) /\ Len(<<PingProc>>) = 1 /\ <<PingProc>>[1] = PingProc
    BY SingleIsSeq
  <2> QED BY <2>1, PingIsCalm DEF FreshProg, Calm
<1>8. FreshProg(<<PingProc>> \o m)
  BY <1>6, <1>7, FreshConcatenated
<1>9. FreshProg(prog'[t])
  BY <1>6, <1>8 DEF Runs
<1> QED BY <1>2, <1>3, <1>6, <1>9, FreshIsOK DEF Kept, Runs

(* The steps that go on with the program without the bus.                  *)
Marks(t) ==
  SetsEnabled(t) \/ SetsPacing(t) \/ StoresCell(t) \/ EndsRecord(t) \/ EndsScript(t)
Alongside ==
  /\ phase' = phase /\ sent' = sent /\ control' = control /\ tx' = tx /\ lnb' = lnb
  /\ pointer' = pointer /\ answers' = answers /\ mistakes' = mistakes /\ faults' = faults
  /\ late' = late /\ beside' = beside

LEMMA LocalSteps ==
  ASSUME Shape, NEW t \in Threads,
         Marks(t) \/ PowersDown(t) \/ BridgeResult(t) \/ RunsRecord(t)
  PROVE  /\ Alongside /\ prog[t] # <<>> /\ ~sent[t] /\ Op(t).cmd \in LocalOps
         /\ Marks(t) => Continues(t, <<>>)
         /\ lnbEnabled' = lnbEnabled \/ SetsEnabled(t)
         /\ pacing' = pacing \/ SetsPacing(t)
         /\ script' = script
         /\ (at' = at /\ passed' = passed) \/ RunsRecord(t) \/ EndsRecord(t)
<1>1. CASE SetsEnabled(t)
  BY <1>1 DEF SetsEnabled, Doing, bus, device, patch, Alongside, LocalOps
<1>2. CASE SetsPacing(t)
  BY <1>2 DEF SetsPacing, Doing, bus, device, patch, Alongside, LocalOps
<1>3. CASE StoresCell(t)
  BY <1>3 DEF StoresCell, Doing, bus, device, Alongside, LocalOps
<1>4. CASE EndsRecord(t)
  BY <1>4 DEF EndsRecord, Doing, bus, device, Alongside, LocalOps
<1>5. CASE EndsScript(t)
  BY <1>5 DEF EndsScript, Doing, bus, device, patch, Alongside, LocalOps
<1>6. ASSUME PowersDown(t), ~Marks(t) PROVE /\ Alongside /\ prog[t] # <<>> /\ ~sent[t]
         /\ Op(t).cmd \in LocalOps /\ lnbEnabled' = lnbEnabled /\ pacing' = pacing
         /\ script' = script /\ at' = at /\ passed' = passed
  BY <1>6 DEF PowersDown, Doing, bus, device, patch, Alongside, LocalOps
<1>7. ASSUME BridgeResult(t), ~Marks(t) PROVE /\ Alongside /\ prog[t] # <<>> /\ ~sent[t]
         /\ Op(t).cmd \in LocalOps /\ lnbEnabled' = lnbEnabled /\ pacing' = pacing
         /\ script' = script /\ at' = at /\ passed' = passed
  BY <1>7 DEF BridgeResult, Doing, bus, device, patch, Alongside, LocalOps
<1>8. ASSUME RunsRecord(t), ~Marks(t) PROVE /\ Alongside /\ prog[t] # <<>> /\ ~sent[t]
         /\ Op(t).cmd \in LocalOps /\ lnbEnabled' = lnbEnabled /\ pacing' = pacing
         /\ script' = script
  BY <1>8 DEF RunsRecord, Doing, bus, device, Alongside, LocalOps
<1>9. CASE Marks(t)
  BY <1>1, <1>2, <1>3, <1>4, <1>5, <1>9 DEF Marks
<1> QED BY <1>6, <1>7, <1>8, <1>9

LEMMA ShapeLocal ==
  ASSUME Shape, NEW t \in Threads,
         Marks(t) \/ PowersDown(t) \/ BridgeResult(t) \/ RunsRecord(t)
  PROVE  Shape'
<1>1. /\ Alongside /\ prog[t] # <<>> /\ ~sent[t] /\ Op(t).cmd \in LocalOps
      /\ lnbEnabled' = lnbEnabled \/ SetsEnabled(t)
      /\ pacing' = pacing \/ SetsPacing(t)
  BY LocalSteps
<1>2. OpOK(Op(t))
  BY <1>1, HeadIs
<1>3. lnbEnabled' \in BOOLEAN /\ pacing' \in BOOLEAN
  BY <1>1, <1>2 DEF SetsEnabled, SetsPacing, Doing, OpOK, Shape
<1>4. /\ aborted' \in [Threads -> BOOLEAN]
      /\ Kept(t) \/ prog' = prog
  <2>1. CASE Marks(t)
    <3>1. Continues(t, <<>>)
      BY <2>1, LocalSteps
    <3> QED BY <1>1, <3>1, PassedIsKept DEF Shape
  <2>2. CASE PowersDown(t)
    BY <2>2, PoweredDown DEF Shape
  <2>3. CASE BridgeResult(t)
    <3>1. Fails(t) \/ Continues(t, <<>>)
      BY <2>3 DEF BridgeResult
    <3> QED BY <1>1, <3>1, PassedIsKept, ShapeOfFailed DEF Shape
  <2>4. CASE RunsRecord(t)
    <3>1. aborted' = aborted /\ Op(t).cmd = "script" /\ (prog' = prog \/ \E x, m : Runs(t, x, m))
      BY <2>4, RecordRuns
    <3> QED BY <1>1, <3>1, RecordIsKept DEF Shape
  <2> QED BY <2>1, <2>2, <2>3, <2>4
<1> QED BY <1>1, <1>3, <1>4, ShapeKept DEF Shape, Alongside

(* The beginning and the end of the cold init, and the programs after it.  *)
LEMMA InitialProg ==
  ASSUME Init
  PROVE  /\ prog["tuner"] = <<>> /\ prog["main"] # <<>> /\ FreshProg(prog["main"])
         /\ Guarded(prog["main"]) /\ DarkAhead(prog["main"]) /\ OneScript(prog["main"])
         /\ DOMAIN prog = Threads
<1>1. PICK image \in Images :
        prog = [t \in Threads |-> IF t = "main" THEN ColdInit(image) ELSE <<>>]
  BY DEF Init
<1>2. /\ FreshProg(ColdInit(image)) /\ ColdInit(image) # <<>> /\ Guarded(ColdInit(image))
      /\ DarkAhead(ColdInit(image)) /\ OneScript(ColdInit(image))
  BY ColdInitProg
<1>3. prog["main"] = ColdInit(image) /\ prog["tuner"] = <<>> /\ DOMAIN prog = Threads
  BY <1>1 DEF Threads
<1> QED BY <1>2, <1>3

LEMMA ShapeInit == Init => Shape
<1> SUFFICES ASSUME Init PROVE Shape
  OBVIOUS
<1>1. /\ prog["tuner"] = <<>> /\ FreshProg(prog["main"]) /\ DOMAIN prog = Threads
  BY InitialProg
<1>2. ProgOK(<<>>) /\ PlainlyProg(<<>>)
  BY EmptyProg, SteadyIsLater, LaterIsPlain
<1>3. \A t \in Threads : t = "main" \/ t = "tuner"
  BY DEF Threads
<1>4. \A t \in Threads : ProgOK(prog[t]) /\ (t # "main" => PlainlyProg(prog[t]))
  BY <1>1, <1>2, <1>3, FreshIsOK
<1>5. /\ phase = "init" /\ DOMAIN control = Threads
      /\ sent = [t \in Threads |-> FALSE] /\ aborted \in [Threads -> BOOLEAN]
      /\ lnb \in BOOLEAN /\ lnbEnabled \in BOOLEAN /\ pacing \in BOOLEAN
  BY DEF Init
<1> QED BY <1>1, <1>4, <1>5 DEF Shape

(* The programs that begin.                                                *)
StartsWith(t, q) ==
  /\ phase = "ready" /\ prog[t] = <<>> /\ prog' = [prog EXCEPT ![t] = q]
  /\ aborted' = [aborted EXCEPT ![t] = FALSE]
  /\ beside' = (beside \/ \E u \in Threads : prog[u] # <<>>)
  /\ UNCHANGED <<phase, sent, control, device, answers, pacing, sticky, patch,
                 lnbEnabled, mistakes, faults, late>>
  /\ LaterProg(q) /\ q # <<>> /\ ((lnb => lnbEnabled) => Settles(q, lnb, lnbEnabled))

LEMMA Begun ==
  ASSUME StartsTune \/ StartsCut PROVE \E t \in Threads : \E q : StartsWith(t, q)
<1>1. CASE StartsTune
  <2>1. PICK a \in Tunes, changed, relight \in BOOLEAN : Begins("tuner", Tune(a, changed, relight))
    BY <1>1 DEF StartsTune
  <2> DEFINE q == Tune(a, changed, relight)
  <2>2. LaterProg(q) /\ q # <<>>
    BY TuneProg
  <2>3. (lnb => lnbEnabled) => Settles(q, lnb, lnbEnabled)
    BY TuneProg
  <2>4. Begins("tuner", q)
    BY <2>1
  <2> HIDE DEF q
  <2>5. StartsWith("tuner", q)
    BY <2>2, <2>3, <2>4 DEF Begins, StartsWith
  <2> QED BY <2>5 DEF Threads
<1>2. CASE StartsCut
  <2> DEFINE q == PowerDown
  <2>1. LaterProg(q) /\ q # <<>> /\ Settles(q, lnb, lnbEnabled)
    BY PowerDownProg DEF Settles
  <2>2. Begins("main", q)
    BY <1>2 DEF StartsCut
  <2> HIDE DEF q
  <2>3. StartsWith("main", q)
    BY <2>1, <2>2 DEF Begins, StartsWith
  <2> QED BY <2>3 DEF Threads
<1> QED BY <1>1, <1>2

LEMMA ShapeStarts ==
  ASSUME Shape, NEW t \in Threads, NEW q, StartsWith(t, q) PROVE Shape'
<1>1. /\ phase = "ready" /\ prog[t] = <<>> /\ prog' = [prog EXCEPT ![t] = q]
      /\ aborted' = [aborted EXCEPT ![t] = FALSE]
      /\ phase' = phase /\ sent' = sent /\ control' = control /\ lnb' = lnb /\ pacing' = pacing
      /\ lnbEnabled' = lnbEnabled /\ LaterProg(q)
  BY DEF StartsWith, device
<1>2. ProgOK(q) /\ PlainlyProg(q)
  BY <1>1, LaterIsPlain
<1>3. DOMAIN prog' = Threads /\ prog'[t] = q /\ \A u \in Threads : u # t => prog'[u] = prog[u]
  BY <1>1 DEF Shape
<1>4. aborted' \in [Threads -> BOOLEAN]
  BY <1>1 DEF Shape
<1>5. \A u \in Threads : ProgOK(prog'[u]) /\ PlainlyProg(prog'[u])
  <2> TAKE u \in Threads
  <2>1. u # t => ProgOK(prog[u]) /\ PlainlyProg(prog[u])
    BY <1>1 DEF Shape
  <2> QED BY <1>2, <1>3, <2>1
<1>6. ASSUME NEW u \in Threads, sent'[u]
      PROVE  prog'[u] # <<>> /\ Op(u)'.cmd \notin LocalOps \union {"fw_dl"}
  <2>1. sent[u] /\ prog[u] # <<>>
    BY <1>1, <1>6 DEF Shape
  <2>2. prog'[u] = prog[u]
    BY <2>1, <1>1, <1>3
  <2> QED BY <2>1, <2>2 DEF Shape, Op
<1> QED BY <1>1, <1>3, <1>4, <1>5, <1>6 DEF Shape

LEMMA ShapeEnds == ASSUME Shape, InitEnds PROVE Shape'
<1>1. /\ prog' = prog /\ sent' = sent /\ aborted' = aborted /\ control' = control
      /\ lnb' = lnb /\ lnbEnabled' = lnbEnabled /\ pacing' = pacing
      /\ prog["main"] = <<>> /\ phase' \in {"ready", "failed"}
  BY DEF InitEnds, threads, device
<1>2. PlainlyProg(<<>>)
  BY EmptyProg, SteadyIsLater, LaterIsPlain
<1>3. \A t \in Threads : PlainlyProg(prog[t])
  BY <1>1, <1>2 DEF Shape
<1> QED BY <1>1, <1>3 DEF Shape, Op

LEMMA ShapeStutters == ASSUME Shape, UNCHANGED vars PROVE Shape'
  BY DEF Shape, Op, vars, threads, device

(* The kinds of step.                                                      *)
LEMMA Steps ==
  ASSUME [Next]_vars
  PROVE  \/ UNCHANGED vars \/ InitEnds \/ \E t \in Threads : \E q : StartsWith(t, q)
         \/ \E t \in Threads :
              \/ Sends(t) \/ SendFails(t) \/ Refused(t) \/ AnswerLate(t)
              \/ TakesAnswer(t)
              \/ Marks(t) \/ PowersDown(t) \/ BridgeResult(t) \/ RunsRecord(t)
<1>1. CASE StartsTune \/ StartsCut
  BY <1>1, Begun
<1>2. ASSUME NEW t \in Threads, Step(t)
      PROVE  \/ Sends(t) \/ TakesAnswer(t) \/ Marks(t) \/ PowersDown(t) \/ BridgeResult(t)
             \/ RunsRecord(t)
  BY <1>2 DEF Step, TakesAnswer, Marks
<1> QED BY <1>1, <1>2 DEF Next

LEMMA ShapeNext == ASSUME Shape, [Next]_vars PROVE Shape'
<1>1. CASE \E t \in Threads : \E q : StartsWith(t, q)
  BY <1>1, ShapeStarts
<1>2. ASSUME NEW t \in Threads, Sends(t) \/ SendFails(t) \/ Refused(t) \/ AnswerLate(t)
      PROVE  Shape'
  BY <1>2, ShapeSends
<1>3. ASSUME NEW t \in Threads, TakesAnswer(t) PROVE Shape'
  BY <1>3, ShapeAnswers
<1>4. ASSUME NEW t \in Threads, Marks(t) \/ PowersDown(t) \/ BridgeResult(t) \/ RunsRecord(t)
      PROVE  Shape'
  BY <1>4, ShapeLocal
<1> QED BY <1>1, <1>2, <1>3, <1>4, Steps, ShapeEnds, ShapeStutters

(* Each thread is in the middle of the commands of a procedure of the      *)
(* driver, and what is left when one fails is what the code does then.     *)
THEOREM Shaped == Spec => []Shape
<1>1. Shape /\ [Next]_vars => Shape'
  BY ShapeNext
<1> QED BY <1>1, ShapeInit, PTL DEF Spec

-----------------------------------------------------------------------------
(* The tone and the message.  What is left to send stays safe, whatever is *)
(* read for TX_CONTROL.                                                    *)
LEMMA TonedIsSafe == ASSUME NEW c, NEW s, Toned(s) PROVE HeadSafe(c, s)
  BY DEF Toned, HeadSafe

LEMMA ComputedIsSafe ==
  ASSUME NEW c, NEW s, HeadSafe(c, s), 1 \in 1..Len(s), s[1].cmd = "tx"
  PROVE  LET v == (c \ s[1].clear) \union s[1].add
         IN  /\ HeadSafe(v, s) /\ ~({"tone", "send"} \subseteq v)
             /\ \A bit \in {"tone", "send"} : Drops(s[1], bit) => bit \notin v
<1> DEFINE v == (c \ s[1].clear) \union s[1].add
<1>1. \A bit : bit \in v <=> (bit \in c /\ bit \notin s[1].clear) \/ bit \in s[1].add
  OBVIOUS
<1> HIDE DEF v
<1>2. \A bit \in {"tone", "send"} : Drops(s[1], bit) => bit \notin v
  BY <1>1 DEF Drops
<1>3. "tone" \notin v \/ "send" \notin v
  BY <1>1, <1>2 DEF HeadSafe, Tidy, Quieted
<1>4. ASSUME NEW k \in 1..Len(s), s[k].cmd = "tx"
      PROVE  \/ Tidy(s[k])
             \/ k = 1 /\ "send" \notin v /\ "send" \notin s[k].add
             \/ k > 1 /\ Cleared(s[k - 1], s[k])
             \/ Quieted(v, s, k)
  <2>1. CASE k = 1 /\ "send" \notin c /\ "send" \notin s[k].add
    BY <2>1, <1>1
  <2>2. CASE Quieted(c, s, k)
    <3>1. CASE k = 1
      BY <3>1, <2>2, <1>1 DEF Quieted
    <3>2. CASE k # 1
      <4>1. 1 \in 1..(k - 1)
        BY <3>2
      <4>2. "tone" \notin s[1].add
        BY <4>1, <2>2 DEF Quieted, KeepsQuiet
      <4> QED BY <4>2, <2>2, <1>1 DEF Quieted
    <3> QED BY <3>1, <3>2
  <2> QED BY <2>1, <2>2, <1>4 DEF HeadSafe
<1>5. HeadSafe(v, s)
  BY <1>4 DEF HeadSafe
<1> QED BY <1>2, <1>3, <1>5 DEF v

LEMMA TailIsSafe ==
  ASSUME NEW c, NEW s, HeadSafe(c, s), Fitting(s), s # <<>>,
         s[1].cmd = "tx" => \A bit \in {"tone", "send"} : Drops(s[1], bit) => bit \notin c
  PROVE  HeadSafe(c, Tail(s))
<1> DEFINE u == Tail(s)
<1>1. /\ Len(u) = Len(s) - 1 /\ Len(s) \in Nat \ {0}
      /\ \A k \in 1..Len(u) : k + 1 \in 2..Len(s) /\ u[k] = s[k + 1]
  BY TailFits
<1> HIDE DEF u
<1> SUFFICES ASSUME NEW k \in 1..Len(u), u[k].cmd = "tx"
             PROVE  \/ Tidy(u[k])
                    \/ k = 1 /\ "send" \notin c /\ "send" \notin u[k].add
                    \/ k > 1 /\ Cleared(u[k - 1], u[k])
                    \/ Quieted(c, u, k)
  BY DEF HeadSafe, u
<1>2. u[k] = s[k + 1] /\ k + 1 \in 1..Len(s) /\ k + 1 > 1 /\ (k + 1) - 1 = k
  BY <1>1
<1>3. k > 1 => u[k - 1] = s[k]
  <2> HAVE k > 1
  <2>1. k - 1 \in 1..Len(u) /\ (k - 1) + 1 = k
    BY <1>1
  <2> QED BY <2>1, <1>1
<1>4. \/ Tidy(s[k + 1]) \/ Cleared(s[k], s[k + 1]) \/ Quieted(c, s, k + 1)
  BY <1>2 DEF HeadSafe
<1>5. CASE Cleared(s[k], s[k + 1])
  <2>1. CASE k = 1
    BY <2>1, <1>2, <1>5 DEF Cleared
  <2>2. CASE k # 1
    BY <2>2, <1>2, <1>3, <1>5
  <2> QED BY <2>1, <2>2
<1>6. CASE Quieted(c, s, k + 1)
  <2>1. "tone" \notin c
    BY <1>6 DEF Quieted
  <2>2. ASSUME NEW j \in 1..(k - 1) PROVE KeepsQuiet(u[j])
    <3>1. j \in 1..Len(u) /\ j + 1 \in 1..((k + 1) - 1)
      BY <1>1
    <3> QED BY <3>1, <1>1, <1>6 DEF Quieted
  <2>3. "tone" \notin u[k].add
    BY <1>2, <1>6 DEF Quieted
  <2>4. Quieted(c, u, k)
    BY <2>1, <2>2, <2>3 DEF Quieted
  <2> QED BY <2>4
<1> QED BY <1>2, <1>4, <1>5, <1>6

(* After a reading that sets the copy nothing rests on the copy before it. *)
LEMMA TailIsToned ==
  ASSUME NEW c, NEW s, HeadSafe(c, s), Fitting(s), s # <<>>,
         s[1].cmd = "read", s[1].use \in {"control", "modulate"}
  PROVE  Toned(Tail(s))
<1> DEFINE u == Tail(s)
<1>1. /\ Len(u) = Len(s) - 1 /\ Len(s) \in Nat \ {0}
      /\ \A k \in 1..Len(u) : k + 1 \in 2..Len(s) /\ u[k] = s[k + 1]
  BY TailFits
<1> HIDE DEF u
<1> SUFFICES ASSUME NEW k \in 1..Len(u), u[k].cmd = "tx"
             PROVE  Tidy(u[k]) \/ (k > 1 /\ Cleared(u[k - 1], u[k]))
  BY DEF Toned, u
<1>2. u[k] = s[k + 1] /\ k + 1 \in 1..Len(s) /\ k + 1 > 1 /\ (k + 1) - 1 = k
  BY <1>1
<1>3. k > 1 => u[k - 1] = s[k]
  <2> HAVE k > 1
  <2>1. k - 1 \in 1..Len(u) /\ (k - 1) + 1 = k
    BY <1>1
  <2> QED BY <2>1, <1>1
<1>4. \/ Tidy(s[k + 1]) \/ Cleared(s[k], s[k + 1]) \/ Quieted(c, s, k + 1)
  BY <1>2 DEF HeadSafe
<1>5. ~Quieted(c, s, k + 1)
  <2>1. 1 \in 1..((k + 1) - 1)
    OBVIOUS
  <2> QED BY <2>1 DEF Quieted, KeepsQuiet
<1>6. Cleared(s[k], s[k + 1]) => k # 1
  BY DEF Cleared
<1> QED BY <1>2, <1>3, <1>4, <1>5, <1>6

LEMMA SafeConcatenated ==
  ASSUME NEW c, NEW x, NEW y, IsSeq(x), IsSeq(y), HeadSafe(c, x), Toned(y)
  PROVE  HeadSafe(c, x \o y)
<1> DEFINE z == x \o y
<1>1. /\ IsSeq(z) /\ Len(z) = Len(x) + Len(y) /\ Len(x) \in Nat /\ Len(y) \in Nat
      /\ \A i \in 1..Len(x) : z[i] = x[i]
      /\ \A i \in (Len(x) + 1)..(Len(x) + Len(y)) : z[i] = y[i - Len(x)]
  BY Concatenated, ElementsOf
<1> HIDE DEF z
<1> SUFFICES ASSUME NEW k \in 1..Len(z), z[k].cmd = "tx"
             PROVE  \/ Tidy(z[k])
                    \/ k = 1 /\ "send" \notin c /\ "send" \notin z[k].add
                    \/ k > 1 /\ Cleared(z[k - 1], z[k])
                    \/ Quieted(c, z, k)
  BY DEF HeadSafe, z
<1>2. CASE k \in 1..Len(x)
  <2>1. z[k] = x[k] /\ z[1] = x[1] /\ \A j \in 1..(k - 1) : z[j] = x[j]
    BY <1>1, <1>2
  <2>2. k > 1 => z[k - 1] = x[k - 1]
    BY <2>1
  <2>3. Quieted(c, x, k) => Quieted(c, z, k)
    BY <2>1 DEF Quieted
  <2> QED BY <1>2, <2>1, <2>2, <2>3 DEF HeadSafe
<1>3. CASE k \notin 1..Len(x)
  <2> DEFINE i == k - Len(x)
  <2>1. i \in 1..Len(y) /\ k \in (Len(x) + 1)..(Len(x) + Len(y)) /\ z[k] = y[i]
    BY <1>1, <1>3
  <2>2. i > 1 => z[k - 1] = y[i - 1] /\ k > 1
    <3> HAVE i > 1
    <3>1. k - 1 \in (Len(x) + 1)..(Len(x) + Len(y)) /\ (k - 1) - Len(x) = i - 1 /\ k > 1
      BY <1>1, <2>1
    <3>2. z[k - 1] = y[(k - 1) - Len(x)]
      BY <3>1, <1>1
    <3> QED BY <3>1, <3>2
  <2> HIDE DEF i
  <2>3. Tidy(y[i]) \/ (i > 1 /\ Cleared(y[i - 1], y[i]))
    BY <2>1 DEF Toned
  <2> QED BY <2>1, <2>2, <2>3
<1> QED BY <1>2, <1>3

(* A poll that is repeated.                                                *)
LEMMA InsertedIsSafe ==
  ASSUME NEW c, NEW s, HeadSafe(c, s), Fitting(s), s # <<>>, s[1].cmd = "read",
         NEW x, IsSeq(x), \A k \in 1..Len(x) : x[k].cmd # "tx" /\ KeepsQuiet(x[k])
  PROVE  HeadSafe(c, x \o Tail(s))
<1> DEFINE u == Tail(s)  z == x \o u
<1>1. /\ Len(u) = Len(s) - 1 /\ Len(s) \in Nat \ {0} /\ IsSeq(u) /\ Len(u) \in Nat
      /\ \A k \in 1..Len(u) : k + 1 \in 2..Len(s) /\ u[k] = s[k + 1]
  BY TailFits
<1> HIDE DEF u
<1>2. /\ IsSeq(z) /\ Len(z) = Len(x) + Len(u) /\ Len(x) \in Nat
      /\ \A i \in 1..Len(x) : z[i] = x[i]
      /\ \A i \in (Len(x) + 1)..(Len(x) + Len(u)) : z[i] = u[i - Len(x)]
  BY <1>1, Concatenated, ElementsOf
<1> HIDE DEF z
<1> SUFFICES ASSUME NEW k \in 1..Len(z), z[k].cmd = "tx"
             PROVE  \/ Tidy(z[k])
                    \/ k = 1 /\ "send" \notin c /\ "send" \notin z[k].add
                    \/ k > 1 /\ Cleared(z[k - 1], z[k])
                    \/ Quieted(c, z, k)
  BY DEF HeadSafe, z, u
<1> DEFINE i == k - Len(x)
<1>3. i \in 1..Len(u) /\ z[k] = s[i + 1] /\ i + 1 \in 1..Len(s) /\ i + 1 > 1 /\ (i + 1) - 1 = i
  <2>1. k \notin 1..Len(x)
    BY <1>2
  <2>2. i \in 1..Len(u) /\ k \in (Len(x) + 1)..(Len(x) + Len(u))
    BY <2>1, <1>1, <1>2
  <2>3. z[k] = u[i]
    BY <1>2, <2>2
  <2> HIDE DEF i
  <2>4. u[i] = s[i + 1] /\ i + 1 \in 2..Len(s)
    BY <1>1, <2>2
  <2>5. i + 1 \in 1..Len(s) /\ i + 1 > 1 /\ (i + 1) - 1 = i
    BY <1>1, <2>2, <2>4
  <2> QED BY <2>2, <2>3, <2>4, <2>5
<1>4. ASSUME NEW j \in 1..(i - 1) PROVE z[Len(x) + j] = s[j + 1]
  <2>1. Len(x) + j \in (Len(x) + 1)..(Len(x) + Len(u)) /\ (Len(x) + j) - Len(x) = j /\ j \in 1..Len(u)
    BY <1>1, <1>2, <1>3
  <2> QED BY <2>1, <1>1, <1>2
<1>5. k = Len(x) + i
  BY <1>2
<1> HIDE DEF i
<1>6. \/ Tidy(s[i + 1]) \/ Cleared(s[i], s[i + 1]) \/ Quieted(c, s, i + 1)
  BY <1>3 DEF HeadSafe
<1>7. CASE Cleared(s[i], s[i + 1])
  <2>1. i > 1
    BY <1>7, <1>3 DEF Cleared
  <2>2. i - 1 \in 1..(i - 1) /\ Len(x) + (i - 1) = k - 1 /\ (i - 1) + 1 = i /\ k > 1
    BY <2>1, <1>2, <1>3, <1>5
  <2>3. z[k - 1] = s[i]
    BY <2>2, <1>4
  <2> QED BY <2>2, <2>3, <1>3, <1>7
<1>8. CASE Quieted(c, s, i + 1)
  <2>1. "tone" \notin c /\ "tone" \notin z[k].add
    BY <1>3, <1>8 DEF Quieted
  <2>2. ASSUME NEW j \in 1..(k - 1) PROVE KeepsQuiet(z[j])
    <3>1. CASE j \in 1..Len(x)
      BY <3>1, <1>2
    <3>2. CASE j \notin 1..Len(x)
      <4> DEFINE n == j - Len(x)
      <4>1. n \in 1..(i - 1) /\ Len(x) + n = j /\ n + 1 \in 1..((i + 1) - 1)
        BY <3>2, <1>2, <1>3, <1>5
      <4> HIDE DEF n
      <4>2. z[j] = s[n + 1]
        BY <4>1, <1>4
      <4> QED BY <4>1, <4>2, <1>8 DEF Quieted
    <3> QED BY <3>1, <3>2
  <2>3. Quieted(c, z, k)
    BY <2>1, <2>2 DEF Quieted
  <2> QED BY <2>3
<1> QED BY <1>3, <1>6, <1>7, <1>8

(* A message in the place of the reading of TX_CONTROL, whatever was read. *)
LEMMA InterruptIsSafe ==
  ASSUME NEW body, Message(body), NEW value, NEW y, IsSeq(y), Toned(y)
  PROVE  HeadSafe(value, Interrupting(body, value) \o y)
<1>1. IsSeq(body) /\ \A k \in 1..Len(body) : OnBus(body[k]) /\ KeepsQuiet(body[k])
  BY DEF Message, Linked
<1> DEFINE stop == Tx({"tone"}, {})  s == <<stop>>  back == SetTone(TRUE)  sb == s \o body
<1>2. Interrupting(body, value) = IF "tone" \in value THEN sb \o back ELSE body
  BY Zenon DEF Interrupting, Quiet
<1>3. stop.cmd = "tx" /\ Drops(stop, "tone") /\ "tone" \notin stop.add
  BY DEF Tx, Drops
<1>4. Len(s) = 1 /\ IsSeq(s) /\ s[1] = stop
  BY SingleIsSeq
<1>5. Toned(back) /\ IsSeq(back)
  <2>1. Bus(back)
    BY SetToneIsBus, Zenon
  <2> HIDE DEF back
  <2> QED BY <2>1 DEF Bus, Fitting, Linked
<1> HIDE DEF stop, back
<1>6. CASE "tone" \notin value
  <2>1. ASSUME NEW k \in 1..Len(body), body[k].cmd = "tx" PROVE Quieted(value, body, k)
    <3>1. \A j \in 1..(k - 1) : j \in 1..Len(body)
      BY <1>1, ElementsOf
    <3>2. "tone" \notin body[k].add
      BY <1>1, <2>1 DEF KeepsQuiet
    <3> QED BY <1>1, <1>6, <3>1, <3>2 DEF Quieted
  <2>3. HeadSafe(value, body)
    BY <2>1 DEF HeadSafe
  <2>2. HeadSafe(value, body \o y)
    BY <2>3, <1>1, SafeConcatenated
  <2> QED BY <2>2, <1>2, <1>6
<1>7. CASE "tone" \in value
  <2> HIDE DEF s
  <2>1. /\ IsSeq(sb) /\ Len(sb) = 1 + Len(body) /\ Len(body) \in Nat /\ sb[1] = stop
        /\ \A k \in 2..Len(sb) : k - 1 \in 1..Len(body) /\ sb[k] = body[k - 1]
    <3>1. /\ IsSeq(sb) /\ Len(sb) = Len(s) + Len(body) /\ Len(body) \in Nat
          /\ \A k \in 1..Len(s) : sb[k] = s[k]
          /\ \A k \in (Len(s) + 1)..(Len(s) + Len(body)) : sb[k] = body[k - Len(s)]
      BY <1>1, <1>4, Concatenated, ElementsOf
    <3> HIDE DEF sb
    <3> QED BY <3>1, <1>4
  <2> HIDE DEF sb
  <2>2. ASSUME NEW k \in 1..Len(sb), sb[k].cmd = "tx"
        PROVE  Tidy(sb[k]) \/ Quieted(value, sb, k)
    <3>1. CASE k = 1
      BY <3>1, <2>1, <1>3 DEF Tidy
    <3>2. CASE k # 1
      <4>1. \A j \in 1..(k - 1) : KeepsQuiet(sb[j])
        <5> TAKE j \in 1..(k - 1)
        <5>1. CASE j = 1
          BY <5>1, <1>3, <2>1 DEF KeepsQuiet
        <5>2. CASE j # 1
          <6>1. j \in 2..Len(sb)
            BY <5>2, <2>1
          <6> QED BY <6>1, <1>1, <2>1
        <5> QED BY <5>1, <5>2
      <4>2. "tone" \notin sb[k].add
        <5>1. k \in 2..Len(sb)
          BY <3>2, <2>1
        <5> QED BY <5>1, <1>1, <2>1, <2>2 DEF KeepsQuiet
      <4>3. k > 1 /\ sb[1].cmd = "tx" /\ Drops(sb[1], "tone")
        BY <3>2, <1>3, <2>1
      <4> QED BY <4>1, <4>2, <4>3 DEF Quieted
    <3> QED BY <3>1, <3>2
  <2>3. HeadSafe(value, sb)
    BY <2>2 DEF HeadSafe
  <2>4. HeadSafe(value, sb \o back)
    BY <2>1, <2>3, <1>5, SafeConcatenated
  <2> DEFINE sbb == sb \o back
  <2>5. IsSeq(sbb)
    BY <2>1, <1>5, Concatenated
  <2>6. Interrupting(body, value) = sbb
    BY <1>2, <1>7
  <2> HIDE DEF sbb
  <2>7. HeadSafe(value, sbb)
    BY <2>4 DEF sbb
  <2>8. HeadSafe(value, sbb \o y)
    BY <2>5, <2>7, SafeConcatenated
  <2> QED BY <2>6, <2>8
<1> QED BY <1>6, <1>7

LEMMA ToneInit == Init => Tone
<1> SUFFICES ASSUME Init PROVE Tone
  OBVIOUS
<1>1. prog["tuner"] = <<>> /\ FreshProg(prog["main"]) /\ prog["main"] # <<>>
  BY InitialProg
<1>2. Toned(prog["main"][1].ops)
  <2>1. 1 \in 1..Len(prog["main"])
    BY <1>1, ElementsOf DEF FreshProg
  <2> QED BY <2>1, <1>1 DEF FreshProg, Fresh
<1>3. \A t \in Threads : prog[t] # <<>> => HeadSafe(control[t], prog[t][1].ops)
  BY <1>1, <1>2, TonedIsSafe DEF Threads
<1>4. tx = {} /\ \A t \in Threads : ~sent[t]
  BY DEF Init
<1> QED BY <1>3, <1>4 DEF Tone, ModulatesAlone

(* A step of one thread keeps what is known of the other.                  *)
LEMMA ToneKept ==
  ASSUME Shape, Tone, NEW t \in Threads, ModulatesAlone',
         \A u \in Threads : u # t => /\ prog'[u] = prog[u] /\ sent'[u] = sent[u]
                                     /\ control'[u] = control[u],
         prog'[t] # <<>> => HeadSafe(control'[t], prog'[t][1].ops),
         sent'[t] /\ Op(t)'.cmd = "tx" =>
           \A bit \in {"tone", "send"} : Drops(Op(t)', bit) => bit \notin control'[t]
  PROVE  Tone'
<1>1. \A u \in Threads : prog'[u] # <<>> => HeadSafe(control'[u], prog'[u][1].ops)
  BY DEF Tone
<1>2. ASSUME NEW u \in Threads, sent'[u], Op(u)'.cmd = "tx"
      PROVE  \A bit \in {"tone", "send"} : Drops(Op(u)', bit) => bit \notin control'[u]
  <2>1. CASE u # t
    <3>1. Op(u)' = Op(u)
      BY <2>1 DEF Op
    <3> QED BY <2>1, <3>1, <1>2 DEF Tone
  <2> QED BY <2>1, <1>2
<1> QED BY <1>1, <1>2 DEF Tone

LEMMA FreshIsSafe ==
  ASSUME NEW c, NEW q, FreshProg(q), q # <<>> PROVE HeadSafe(c, q[1].ops)
<1>1. 1 \in 1..Len(q)
  BY ElementsOf DEF FreshProg
<1> QED BY <1>1, TonedIsSafe DEF FreshProg, Fresh

LEMMA PassedIsSafe ==
  ASSUME Shape, Tone, NEW t \in Threads, prog[t] # <<>>, Continues(t, <<>>),
         sent[t] \/ Op(t).cmd # "tx", prog'[t] # <<>>
  PROVE  HeadSafe(control[t], prog'[t][1].ops)
<1> DEFINE s == prog[t][1].ops
<1>1. /\ Advanced(prog[t], prog'[t], Tail(s)) /\ ProgOK(prog[t]) /\ ProcOK(prog[t][1])
      /\ Fitting(s) /\ s # <<>> /\ Op(t) = s[1]
  BY Passed, FirstIsOK, OpIs DEF Shape
<1>2. HeadSafe(control[t], Tail(s))
  BY <1>1, TailIsSafe DEF Tone
<1>3. CASE Tail(s) # <<>> /\ Became(prog[t], prog'[t], Tail(s))
  <2> DEFINE left == Tail(s)
  <2>1. Suits(prog[t][1], left)
    BY <1>1, TailSuits
  <2>2. left # <<>> /\ Became(prog[t], prog'[t], left)
    BY <1>3
  <2>3. HeadSafe(control[t], left)
    BY <1>2
  <2> HIDE DEF left, s
  <2>4. prog'[t][1].ops = left
    BY <1>1, <2>1, <2>2, BecameIsOK
  <2> QED BY <2>3, <2>4
<1>4. CASE \E d \in 1..2 : Dropped(prog[t], prog'[t], d)
  BY <1>1, <1>4, DroppedIsOK, FreshIsSafe
<1> QED BY <1>1, <1>3, <1>4 DEF Advanced

LEMMA ToneSends ==
  ASSUME Shape, Tone, NEW t \in Threads, Sends(t) \/ SendFails(t) \/ Refused(t)
  PROVE  Tone'
<1> DEFINE s == prog[t][1].ops
<1>1. /\ Sending(t) /\ Computes(t) /\ prog[t] # <<>> /\ ~sent[t]
      /\ \A u \in Threads : u # t => sent'[u] = sent[u]
  BY DEF Sends, SendFails, Refused, Sending, Shape
<1>2. /\ ProgOK(prog[t]) /\ Op(t) = s[1] /\ 1 \in 1..Len(s) /\ IsSeq(prog[t])
      /\ HeadSafe(control[t], s)
  BY <1>1, OpIs, FirstIsOK DEF Shape, Tone
<1> DEFINE v == (control[t] \ s[1].clear) \union s[1].add
<1>3. Op(t).cmd = "tx" =>
        /\ HeadSafe(v, s) /\ ~({"tone", "send"} \subseteq v)
        /\ \A bit \in {"tone", "send"} : Drops(s[1], bit) => bit \notin v
  BY <1>2, ComputedIsSafe
<1>4. TxValue(t) = v
  BY <1>2 DEF TxValue
<1> HIDE DEF s, v
<1>5. /\ Op(t).cmd = "tx" => control'[t] = v
      /\ Op(t).cmd # "tx" => control'[t] = control[t]
      /\ \A u \in Threads : u # t => control'[u] = control[u]
  BY <1>1, <1>4 DEF Computes, Shape
<1>6. ModulatesAlone'
  <2>1. tx' = tx \/ (Op(t).cmd = "tx" /\ tx' = v)
    BY <1>4 DEF Sends, SendFails, Refused, Reaches, device
  <2> QED BY <2>1, <1>3 DEF ModulatesAlone, Tone
<1>7. CASE prog' = prog
  <2>1. HeadSafe(control'[t], prog'[t][1].ops)
    BY <1>2, <1>3, <1>5, <1>7 DEF s
  <2>2. Op(t)' = Op(t)
    BY <1>7 DEF Op
  <2> QED BY <1>1, <1>2, <1>3, <1>5, <1>6, <1>7, <2>1, <2>2, ToneKept
<1>8. CASE SendFails(t)
  <2>1. Fails(t) /\ sent' = sent
    BY <1>8 DEF SendFails
  <2>2. Changed(t) /\ FreshProg(prog'[t])
    BY <1>1, <2>1, Failed
  <2> QED BY <1>1, <1>5, <1>6, <2>1, <2>2, FreshIsSafe, ToneKept DEF Changed
<1>9. ASSUME Continues(t, <<>>), sent' = sent, Op(t).cmd = "fw_dl" PROVE Tone'
  <2>1. Changed(t) /\ control'[t] = control[t]
    BY <1>1, <1>5, <1>9, Passed
  <2>2. prog'[t] # <<>> => HeadSafe(control'[t], prog'[t][1].ops)
    BY <1>1, <1>9, <2>1, PassedIsSafe
  <2> QED BY <1>1, <1>5, <1>6, <1>9, <2>1, <2>2, ToneKept DEF Changed
<1>10. prog' = prog \/ SendFails(t) \/ (Continues(t, <<>>) /\ sent' = sent /\ Op(t).cmd = "fw_dl")
  BY DEF Sends, Refused, Unanswered, Silent
<1> QED BY <1>7, <1>8, <1>9, <1>10

LEMMA ToneAnswers ==
  ASSUME Shape, Tone, NEW t \in Threads, TakesAnswer(t) PROVE Tone'
<1> DEFINE s == prog[t][1].ops
<1>1. /\ sent[t] /\ prog[t] # <<>> /\ sent' = [sent EXCEPT ![t] = FALSE] /\ tx' = tx
      /\ control' = control \/ \E v : control' = [control EXCEPT ![t] = v]
      /\ Fails(t) \/ Continues(t, <<>>) \/ \E x : Inserted(t, x)
  BY Answered
<1>2. /\ ~sent'[t] /\ \A u \in Threads : u # t => sent'[u] = sent[u] /\ control'[u] = control[u]
      /\ ModulatesAlone'
  BY <1>1 DEF Shape, Tone, ModulatesAlone
<1>3. /\ ProgOK(prog[t]) /\ ProcOK(prog[t][1]) /\ Op(t) = s[1] /\ 1 \in 1..Len(s) /\ IsSeq(prog[t])
      /\ Fitting(s) /\ s # <<>> /\ HeadSafe(control[t], s) /\ OpOK(Op(t)) /\ IsSeq(Tail(s))
  BY <1>1, OpIs, FirstIsOK, TailFits DEF Shape, Tone
<1> SUFFICES ASSUME prog'[t] # <<>>
             PROVE  Changed(t) /\ HeadSafe(control'[t], prog'[t][1].ops)
  <2>1. Changed(t)
    BY <1>1, Failed, Passed, InsertedIsKept DEF Kept, Inserted
  <2> QED BY <1>2, <2>1, ToneKept DEF Changed
<1>4. CASE Fails(t)
  BY <1>1, <1>4, Failed, FreshIsSafe
<1>5. CASE Continues(t, <<>>) /\ ~TakesControl(t)
  <2>1. control' = control
    BY <1>5 DEF TakesAnswer, TakesRefusal, TakesAck, TakesBridgeValue, TakesValue, TakesPoll,
              TakesCell
  <2> QED BY <1>1, <1>5, <2>1, Passed, PassedIsSafe
<1>6. CASE TakesControl(t)
  <2>1. PICK value : /\ control' = [control EXCEPT ![t] = value]
                     /\ Continues(t, IF Op(t).use = "control" THEN <<>>
                                     ELSE Interrupting(Op(t).body, value))
    BY <1>6 DEF TakesControl
  <2>2. Op(t).cmd = "read" /\ Op(t).use \in {"control", "modulate"} /\ control'[t] = value
    BY <1>6, <2>1 DEF TakesControl, Shape
  <2>3. Toned(Tail(s))
    BY <1>3, <2>2, TailIsToned
  <2> DEFINE u == Tail(s)
  <2>4. Suits(prog[t][1], u)
    BY <1>3, TailSuits
  <2> HIDE DEF s
  <2>5. CASE Op(t).use = "control"
    <3>1. Advanced(prog[t], prog'[t], u) /\ Changed(t)
      BY <1>1, <2>1, <2>5, Passed DEF s
    <3>2. Toned(u)
      BY <2>3
    <3> HIDE DEF u
    <3>3. CASE u # <<>> /\ Became(prog[t], prog'[t], u)
      <4>1. prog'[t][1].ops = u
        BY <1>1, <1>3, <2>4, <3>3, BecameIsOK
      <4> QED BY <3>1, <3>2, <4>1, TonedIsSafe
    <3>4. CASE \E d \in 1..2 : Dropped(prog[t], prog'[t], d)
      BY <1>3, <3>1, <3>4, DroppedIsOK, FreshIsSafe
    <3> QED BY <3>1, <3>3, <3>4 DEF Advanced
  <2>6. CASE Op(t).use # "control"
    <3> DEFINE x == Interrupting(Op(t).body, value)
    <3>1. Message(Op(t).body)
      BY <1>3, <2>2, <2>6 DEF OpOK
    <3>2. Fitting(x) /\ x # <<>> /\ \A k \in 1..Len(x) : OnBus(x[k])
      BY <3>1, InterruptFits
    <3>3. HeadSafe(value, x \o u)
      BY <1>3, <2>3, <3>1, InterruptIsSafe
    <3>4. Continues(t, x)
      BY <2>1, <2>6
    <3> HIDE DEF x, u
    <3>5. /\ Changed(t) /\ Became(prog[t], prog'[t], x \o u) /\ Suits(prog[t][1], x \o u)
          /\ x \o u # <<>>
      BY <1>1, <2>2, <3>2, <3>4, InsertedIsKept DEF Kept, s, u
    <3> DEFINE left == x \o u
    <3>9. Became(prog[t], prog'[t], left) /\ Suits(prog[t][1], left) /\ left # <<>>
      BY <3>5
    <3> HIDE DEF left
    <3>6. prog'[t][1].ops = left
      BY <1>1, <1>3, <3>9, BecameIsOK
    <3> QED BY <2>2, <3>3, <3>5, <3>6 DEF left
  <2> QED BY <2>5, <2>6
<1>7. CASE TakesPoll(t) /\ ~Fails(t) /\ ~Continues(t, <<>>)
  <2> DEFINE a == Point(Op(t).reg)  b == Rd(Op(t).reg, "poll", Op(t).polls - 1)  x == <<a, b>>
             u == Tail(s)
  <2>1. Op(t).cmd = "read" /\ control' = control /\ Continues(t, x)
    BY <1>7 DEF TakesPoll
  <2>2. Fitting(x) /\ x # <<>> /\ \A k \in 1..Len(x) : OnBus(x[k])
    BY PollAgain
  <2>3. a.cmd = "point" /\ b.cmd = "read" /\ b.use = "poll"
    BY DEF Point, Rd
  <2>4. Len(x) = 2 /\ x[1] = a /\ x[2] = b
    OBVIOUS
  <2> HIDE DEF a, b, x
  <2>5. \A k \in 1..Len(x) : x[k].cmd # "tx" /\ KeepsQuiet(x[k])
    <3>1. \A k \in 1..Len(x) : k = 1 \/ k = 2
      BY <2>4
    <3> QED BY <3>1, <2>3, <2>4 DEF KeepsQuiet
  <2>6. HeadSafe(control[t], x \o u)
    BY <1>3, <2>1, <2>2, <2>5, InsertedIsSafe DEF Fitting, Linked
  <2>7. /\ Changed(t) /\ Became(prog[t], prog'[t], x \o u) /\ Suits(prog[t][1], x \o u)
        /\ x \o u # <<>>
    BY <1>1, <2>1, <2>2, InsertedIsKept DEF Kept
  <2> DEFINE left == x \o u
  <2>9. Became(prog[t], prog'[t], left) /\ Suits(prog[t][1], left) /\ left # <<>>
    BY <2>7
  <2> HIDE DEF left, s
  <2>8. prog'[t][1].ops = left
    BY <1>1, <1>3, <2>9, BecameIsOK
  <2> QED BY <2>1, <2>6, <2>7, <2>8 DEF left
<1>8. Fails(t) \/ Continues(t, <<>>) \/ TakesControl(t) \/ TakesPoll(t)
  BY DEF TakesAnswer, TakesRefusal, TakesAck, TakesBridgeValue, TakesValue, TakesCell
<1> QED BY <1>4, <1>5, <1>6, <1>7, <1>8

LEMMA ToneLocal ==
  ASSUME Shape, Tone, NEW t \in Threads,
         Marks(t) \/ PowersDown(t) \/ BridgeResult(t) \/ RunsRecord(t) \/ AnswerLate(t)
  PROVE  Tone'
<1>1. /\ prog[t] # <<>> /\ control' = control /\ tx' = tx /\ ~sent'[t]
      /\ \A u \in Threads : u # t => sent'[u] = sent[u]
  <2>1. CASE AnswerLate(t)
    BY <2>1 DEF AnswerLate, Shape, device
  <2>2. CASE ~AnswerLate(t)
    BY <2>2, LocalSteps DEF Alongside
  <2> QED BY <2>1, <2>2
<1>2. ModulatesAlone'
  BY <1>1 DEF Tone, ModulatesAlone
<1> SUFFICES prog' = prog \/ (Changed(t) /\ (prog'[t] # <<>> => HeadSafe(control[t], prog'[t][1].ops)))
  <2>1. prog' = prog => HeadSafe(control[t], prog[t][1].ops)
    BY <1>1 DEF Tone
  <2> QED BY <1>1, <1>2, <2>1, ToneKept DEF Changed
<1>3. CASE Marks(t)
  <2>1. Continues(t, <<>>) /\ Op(t).cmd \in LocalOps
    BY <1>3, LocalSteps
  <2>2. Op(t).cmd # "tx"
    BY <2>1 DEF LocalOps
  <2> QED BY <1>1, <2>1, <2>2, Passed, PassedIsSafe
<1>4. CASE PowersDown(t)
  BY <1>4, PoweredDown, FreshIsSafe DEF Kept
<1>5. CASE BridgeResult(t) \/ AnswerLate(t)
  <2>1. CASE Fails(t)
    BY <1>1, <2>1, Failed, FreshIsSafe
  <2>2. CASE ~Fails(t)
    <3>1. Continues(t, <<>>) /\ Op(t).cmd = "result"
      BY <1>5, <2>2 DEF BridgeResult, AnswerLate, Doing
    <3> QED BY <1>1, <3>1, Passed, PassedIsSafe
  <2> QED BY <2>1, <2>2
<1>6. CASE RunsRecord(t)
  <2>1. Op(t).cmd = "script" /\ (prog' = prog \/ \E x, m : Runs(t, x, m))
    BY <1>6, RecordRuns
  <2> QED BY <1>1, <2>1, RecordIsKept, FreshIsSafe DEF Kept
<1> QED BY <1>3, <1>4, <1>5, <1>6

LEMMA ToneStarts ==
  ASSUME Shape, Tone, NEW t \in Threads, NEW q, StartsWith(t, q) PROVE Tone'
<1>1. /\ prog[t] = <<>> /\ prog' = [prog EXCEPT ![t] = q]
      /\ sent' = sent /\ control' = control /\ tx' = tx /\ LaterProg(q) /\ q # <<>>
  BY DEF StartsWith, device
<1>2. prog'[t] = q /\ ~sent'[t] /\ \A u \in Threads : u # t => prog'[u] = prog[u]
  BY <1>1 DEF Shape
<1>3. FreshProg(q)
  BY <1>1 DEF LaterProg, Later, FreshProg
<1> QED BY <1>1, <1>2, <1>3, FreshIsSafe, ToneKept DEF ModulatesAlone, Tone

LEMMA ToneNext == ASSUME Shape, Tone, [Next]_vars PROVE Tone'
<1>1. CASE UNCHANGED vars
  BY <1>1 DEF Tone, ModulatesAlone, Op, vars, threads, device
<1>2. CASE InitEnds
  BY <1>2 DEF InitEnds, Tone, ModulatesAlone, Op, threads, device
<1>3. CASE \E t \in Threads : \E q : StartsWith(t, q)
  BY <1>3, ToneStarts
<1>4. ASSUME NEW t \in Threads,
             \/ Sends(t) \/ SendFails(t) \/ Refused(t) \/ AnswerLate(t) \/ TakesAnswer(t)
             \/ Marks(t) \/ PowersDown(t) \/ BridgeResult(t) \/ RunsRecord(t)
      PROVE  Tone'
  BY <1>4, ToneSends, ToneAnswers, ToneLocal
<1> QED BY <1>1, <1>2, <1>3, <1>4, Steps

(* A DiSEqC message or tone burst is never sent over the continuous tone:  *)
(* avl62x1_send_diseqc looks at TX_CONTROL and clears the tone it finds,   *)
(* and a power-down beside it only takes the tone away.                    *)
THEOREM MessageIsAlone == Spec => []ModulatesAlone
<1>1. Init => Shape /\ Tone
  BY ShapeInit, ToneInit
<1>2. Shape /\ Tone /\ [Next]_vars => Shape' /\ Tone'
  BY ShapeNext, ToneNext
<1>3. Tone => ModulatesAlone
  BY DEF Tone
<1> QED BY <1>1, <1>2, <1>3, PTL DEF Spec

-----------------------------------------------------------------------------
(* The pacing.  Whatever becomes of a guarded program ends it.             *)
LEMMA DroppedGuard ==
  ASSUME NEW q, IsSeq(q), NEW n, NEW d \in 1..2, Dropped(q, n, d), Guarded(q)
  PROVE  /\ Guarded(n)
         /\ Guard(q, 1) /\ ~Stops(q[1]) /\ (d = 2 => q[2].orelse) => Guard(n, 1)
<1>1. /\ Len(q) = Len(n) + d /\ Len(n) \in Nat /\ \A i \in 1..Len(n) : n[i] = q[i + d]
  BY ElementsOf DEF Dropped
<1>2. ASSUME NEW i \in 1..Len(n), Guard(q, i + d) PROVE Guard(n, i)
  <2>1. n[Len(n)] = q[Len(q)]
    <3>1. Len(n) \in 1..Len(n) /\ Len(n) + d = Len(q)
      BY <1>1
    <3> QED BY <3>1, <1>1
  <2>2. ASSUME NEW j \in i..Len(n) PROVE Sheltered(n[j])
    <3>1. j \in 1..Len(n) /\ j + d \in (i + d)..Len(q)
      BY <1>1
    <3>2. n[j] = q[j + d] /\ Sheltered(q[j + d])
      BY <3>1, <1>1, <1>2 DEF Guard
    <3> QED BY <3>2
  <2> QED BY <2>1, <2>2, <1>2 DEF Guard
<1>3. ASSUME NEW i \in 1..Len(n), Starts(n[i]) PROVE Guard(n, i)
  <2>1. i + d \in 1..Len(q) /\ n[i] = q[i + d]
    BY <1>1
  <2> QED BY <2>1, <1>2, <1>3 DEF Guarded
<1>4. ASSUME Guard(q, 1), ~Stops(q[1]), d = 2 => q[2].orelse PROVE Guard(n, 1)
  <2>1. Len(q) # 1 /\ 1 \in 1..Len(q)
    BY <1>4 DEF Guard
  <2>2. d # 2
    <3> SUFFICES ASSUME d = 2 PROVE FALSE
      OBVIOUS
    <3>1. 2 \in 1..Len(q)
      BY <1>1
    <3> QED BY <3>1, <1>4 DEF Guard, Sheltered
  <2>3. d = 1 /\ 1 \in 1..Len(n)
    BY <2>1, <2>2, <1>1
  <2>4. Guard(q, 1 + d)
    <3>1. 1 + d \in 1..Len(q) /\ \A j \in (1 + d)..Len(q) : j \in 1..Len(q)
      BY <2>3, <1>1
    <3> QED BY <3>1, <1>4 DEF Guard
  <2> QED BY <2>3, <2>4, <1>2
<1> QED BY <1>3, <1>4 DEF Guarded

LEMMA BecameGuard ==
  ASSUME NEW q, ProgOK(q), q # <<>>, NEW n, NEW left, left # <<>>, Suits(q[1], left),
         Became(q, n, left), left[1].cmd # "pace", Guarded(q)
  PROVE  Guarded(n) /\ (Guard(q, 1) /\ ~Stops(q[1]) => Guard(n, 1))
<1>1. /\ Len(n) = Len(q) /\ IsSeq(n) /\ \A i \in 2..Len(q) : n[i] = q[i]
      /\ n[1].ops = left /\ n[1].checked = q[1].checked /\ n[1].then = q[1].then
      /\ n[1].orelse = q[1].orelse /\ Len(q) \in Nat \ {0}
  BY BecameIsOK, FirstIsOK DEF Became
<1>2. Sheltered(n[1]) <=> Sheltered(q[1])
  BY <1>1 DEF Sheltered
<1>3. ASSUME NEW i \in 1..Len(q), Guard(q, i), Len(q) # 1 PROVE Guard(n, i)
  <2>1. n[Len(n)] = q[Len(q)]
    <3>1. Len(q) \in 2..Len(q)
      BY <1>1, <1>3
    <3> QED BY <3>1, <1>1
  <2>2. ASSUME NEW j \in i..Len(n) PROVE Sheltered(n[j])
    <3>1. Sheltered(q[j]) /\ (j = 1 \/ j \in 2..Len(q))
      BY <1>1, <1>3 DEF Guard
    <3> QED BY <3>1, <1>1, <1>2
  <2> QED BY <2>1, <2>2, <1>1, <1>3 DEF Guard
<1>4. ASSUME NEW i \in 1..Len(n), Starts(n[i]) PROVE Guard(n, i)
  <2>1. i # 1
    BY <1>1, <1>4 DEF Starts
  <2>2. i \in 2..Len(q) /\ i \in 1..Len(q) /\ Len(q) # 1
    BY <2>1, <1>1
  <2>3. n[i] = q[i] /\ Guard(q, i)
    BY <2>2, <1>1, <1>4 DEF Guarded
  <2> QED BY <2>2, <2>3, <1>3
<1>5. Guard(q, 1) /\ ~Stops(q[1]) => Len(q) # 1 /\ 1 \in 1..Len(q)
  BY DEF Guard
<1> QED BY <1>3, <1>4, <1>5 DEF Guarded

LEMMA AdvancedGuard ==
  ASSUME NEW q, ProgOK(q), q # <<>>, NEW n, NEW left, Suits(q[1], left), Advanced(q, n, left),
         left # <<>> => left[1].cmd # "pace", Guarded(q)
  PROVE  Guarded(n) /\ (Guard(q, 1) /\ ~Stops(q[1]) => Guard(n, 1))
<1>1. CASE left # <<>> /\ Became(q, n, left)
  BY <1>1, BecameGuard
<1>2. CASE Dropped(q, n, 1)
  BY <1>2, DroppedGuard DEF ProgOK
<1>3. CASE Dropped(q, n, 2) /\ q[2].orelse
  BY <1>3, DroppedGuard DEF ProgOK
<1> QED BY <1>1, <1>2, <1>3 DEF Advanced

LEMMA PrefixedGuard ==
  ASSUME NEW s, NEW q, IsSeq(s), IsSeq(q), Guarded(q),
         \A i \in 1..Len(s) : Sheltered(s[i]) /\ ~Starts(s[i])
  PROVE  Guarded(s \o q) /\ (Guard(q, 1) => Guard(s \o q, 1))
<1> DEFINE n == s \o q
<1>1. /\ Len(n) = Len(s) + Len(q) /\ Len(s) \in Nat /\ Len(q) \in Nat
      /\ \A i \in 1..Len(s) : n[i] = s[i]
      /\ \A i \in (Len(s) + 1)..(Len(s) + Len(q)) : n[i] = q[i - Len(s)]
  BY Concatenated, ElementsOf
<1> HIDE DEF n
<1>2. \A i \in 1..Len(q) : Len(s) + i \in 1..Len(n) /\ n[Len(s) + i] = q[i]
  <2> TAKE i \in 1..Len(q)
  <2>1. Len(s) + i \in (Len(s) + 1)..(Len(s) + Len(q)) /\ (Len(s) + i) - Len(s) = i
    BY <1>1
  <2> QED BY <2>1, <1>1
<1>3. \A j \in 1..Len(n) : j \in 1..Len(s) \/ (j - Len(s) \in 1..Len(q) /\ n[j] = q[j - Len(s)])
  <2> TAKE j \in 1..Len(n)
  <2>1. j \in 1..Len(s) \/ (j \in (Len(s) + 1)..(Len(s) + Len(q)) /\ j - Len(s) \in 1..Len(q))
    BY <1>1
  <2> QED BY <2>1, <1>1
<1>4. q # <<>> => n[Len(n)] = q[Len(q)]
  <2> HAVE q # <<>>
  <2>1. Len(q) \in 1..Len(q) /\ Len(s) + Len(q) = Len(n)
    BY <1>1, ElementsOf
  <2> QED BY <2>1, <1>2
<1>5. ASSUME NEW i \in 1..Len(q), Guard(q, i), NEW j \in (Len(s) + i)..Len(n) PROVE Sheltered(n[j])
  <2>1. j - Len(s) \in i..Len(q) /\ j \in 1..Len(n) /\ j \notin 1..Len(s)
    BY <1>1
  <2>2. n[j] = q[j - Len(s)]
    BY <2>1, <1>3
  <2> QED BY <2>1, <2>2, <1>5 DEF Guard
<1>6. \A i \in 1..Len(q) : q # <<>>
  BY <1>1
<1>7. ASSUME NEW k \in 1..Len(n), Starts(n[k]) PROVE Guard(n, k)
  <2> DEFINE i == k - Len(s)
  <2>1. i \in 1..Len(q) /\ n[k] = q[i] /\ Len(s) + i = k
    <3>1. k \notin 1..Len(s)
      BY <1>1, <1>7
    <3> QED BY <3>1, <1>1, <1>3
  <2> HIDE DEF i
  <2>2. Guard(q, i)
    BY <2>1, <1>7 DEF Guarded
  <2>3. \A j \in k..Len(n) : Sheltered(n[j])
    BY <2>1, <2>2, <1>5
  <2> QED BY <2>1, <2>2, <2>3, <1>4, <1>6 DEF Guard
<1>8. ASSUME Guard(q, 1) PROVE Guard(n, 1)
  <2>1. 1 \in 1..Len(q) /\ 1 \in 1..Len(n)
    BY <1>1, <1>8 DEF Guard
  <2>2. ASSUME NEW j \in 1..Len(n) PROVE Sheltered(n[j])
    <3>1. CASE j \in 1..Len(s)
      BY <3>1, <1>1
    <3>2. CASE j \notin 1..Len(s)
      <4>1. j \in (Len(s) + 1)..Len(n)
        BY <3>2, <1>1
      <4> QED BY <4>1, <2>1, <1>5, <1>8
    <3> QED BY <3>1, <3>2
  <2> QED BY <2>1, <2>2, <1>4, <1>6, <1>8 DEF Guard
<1> QED BY <1>7, <1>8 DEF Guarded, n

(* The procedures that follow a failure under the pacing.                  *)
LEMMA ThenGuards ==
  /\ \A q \in Thens : Guarded(q)
  /\ \A q \in PaceThens : Guard(q, 1)
<1>1. /\ Sheltered(PaceOff) /\ ~Starts(PaceOff) /\ Stops(PaceOff)
  <2>1. FALSE \in BOOLEAN
    OBVIOUS
  <2> QED BY <2>1, PaceProc, Zenon DEF PaceOff
<1>2. Sheltered(Off) /\ ~Starts(Off)
  <2> DEFINE s == TunerI2c(FALSE)
  <2>1. Bus(s) /\ s # <<>>
    BY TunerI2cIsBus, Zenon
  <2> HIDE DEF s
  <2>2. Calm(Unchecked(s)) /\ Sheltered(Unchecked(s))
    BY <2>1, BusIsSheltered
  <2>3. Off = Unchecked(s)
    BY Zenon DEF Off, s
  <2> QED BY <2>2, <2>3, CalmHasNoEvent
<1> DEFINE a == <<PaceOff>>  b == <<Off>>  c == <<Off, PaceOff>>  e == <<>>
<1> HIDE DEF PaceOff, Off
<1>3. /\ Len(a) = 1 /\ a[1] = PaceOff /\ Len(b) = 1 /\ b[1] = Off
      /\ Len(c) = 2 /\ c[1] = Off /\ c[2] = PaceOff /\ Len(e) = 0
  OBVIOUS
<1> HIDE DEF a, b, c, e
<1>4. Guarded(a) /\ Guarded(b) /\ Guarded(e)
  BY <1>1, <1>2, <1>3 DEF Guarded
<1>5. Guarded(c)
  <2>1. \A i \in 1..Len(c) : i = 1 \/ i = 2
    BY <1>3
  <2> QED BY <2>1, <1>1, <1>2, <1>3 DEF Guarded
<1>6. Guard(a, 1)
  <2>1. \A i \in 1..Len(a) : i = 1
    BY <1>3
  <2> QED BY <2>1, <1>1, <1>3 DEF Guard
<1>7. Guard(c, 1)
  <2>1. \A i \in 1..Len(c) : i = 1 \/ i = 2
    BY <1>3
  <2> QED BY <2>1, <1>1, <1>2, <1>3 DEF Guard
<1> QED BY <1>4, <1>5, <1>6, <1>7 DEF Thens, PaceThens, a, b, c, e

LEMMA UncheckedIsSheltered ==
  ASSUME NEW ops PROVE Sheltered(Unchecked(ops)) /\ Unchecked(ops).ops = ops
<1>1. /\ Unchecked(ops).orelse = FALSE /\ Unchecked(ops).checked = FALSE
      /\ Unchecked(ops).ops = ops
  BY Zenon DEF Unchecked, Proc
<1> DEFINE p == Unchecked(ops)
<1> HIDE DEF p
<1>2. p.orelse = FALSE /\ p.checked = FALSE /\ p.ops = ops
  BY <1>1 DEF p
<1>3. Sheltered(p)
  BY <1>2 DEF Sheltered
<1> QED BY <1>2, <1>3 DEF p

LEMMA PowerDownIsSheltered ==
  \A i \in 1..Len(PowerDown) : Sheltered(PowerDown[i]) /\ ~Starts(PowerDown[i])
<1> DEFINE x == SetTone(FALSE)  y == SetVoltage(FALSE)  z == <<Local("enabled", FALSE)>>
           a == Unchecked(x)  b == Unchecked(y)  c == Unchecked(z)  s == <<a, b, c>>
<1>1. PowerDown = s
  BY Zenon DEF PowerDown
<1> HIDE DEF x, y, z
<1>2. Sheltered(a) /\ Sheltered(b) /\ Sheltered(c)
  BY UncheckedIsSheltered
<1> HIDE DEF a, b, c
<1>3. Len(s) = 3 /\ s[1] = a /\ s[2] = b /\ s[3] = c
  OBVIOUS
<1> HIDE DEF s
<1>4. \A i \in 1..Len(s) : Sheltered(s[i])
  <2>1. \A i \in 1..Len(s) : i = 1 \/ i = 2 \/ i = 3
    BY <1>3
  <2> QED BY <2>1, <1>2, <1>3
<1>5. ASSUME NEW i \in 1..Len(PowerDown) PROVE ~Starts(PowerDown[i])
  <2>1. Fresh(PowerDown[i]) /\ \A k \in 1..Len(PowerDown[i].ops) : PowerDown[i].ops[k].cmd # "pace"
    BY PowerDownProg DEF LaterProg, Later
  <2>2. 1 \in 1..Len(PowerDown[i].ops)
    BY <2>1, ElementsOf DEF Fresh, ProcOK, Fitting, Linked
  <2> QED BY <2>1, <2>2 DEF Starts
<1> QED BY <1>1, <1>4, <1>5

LEMMA PacingInit == Init => Pacing
<1> SUFFICES ASSUME Init PROVE Pacing
  OBVIOUS
<1>1. pacing = FALSE /\ Guarded(prog["main"])
  BY InitialProg DEF Init
<1> QED BY <1>1 DEF Pacing

LEMMA PacingKept ==
  ASSUME Pacing, NEW t \in Threads, phase' = phase, pacing' = pacing, Changed(t),
         t = "main" /\ phase = "init" =>
           Guarded(prog'[t]) /\ (Guard(prog[t], 1) => Guard(prog'[t], 1))
  PROVE  Pacing'
<1>1. CASE phase = "init"
  <2>1. "main" \in Threads
    BY DEF Threads
  <2>2. t # "main" => prog'["main"] = prog["main"]
    BY <2>1 DEF Changed
  <2> QED BY <1>1, <2>2 DEF Pacing
<1>2. CASE phase # "init"
  BY <1>2 DEF Pacing
<1> QED BY <1>1, <1>2

LEMMA PacingStays ==
  ASSUME Pacing, phase' = phase, pacing' = pacing, prog' = prog PROVE Pacing'
  BY DEF Pacing

(* What follows a tail of a procedure is not the start of the pacing.      *)
LEMMA PassedGuard ==
  ASSUME Shape, NEW t \in Threads, prog[t] # <<>>, Continues(t, <<>>), Guarded(prog[t])
  PROVE  /\ Changed(t) /\ Guarded(prog'[t])
         /\ Guard(prog[t], 1) /\ ~Stops(prog[t][1]) => Guard(prog'[t], 1)
<1> DEFINE left == Tail(prog[t][1].ops)
<1>1. /\ Changed(t) /\ Advanced(prog[t], prog'[t], left) /\ ProgOK(prog[t])
      /\ ProcOK(prog[t][1]) /\ Fitting(prog[t][1].ops) /\ prog[t][1].ops # <<>>
  BY Passed, FirstIsOK DEF Shape
<1>2. Suits(prog[t][1], left)
  BY <1>1, TailSuits
<1>3. left # <<>> => left[1].cmd # "pace"
  <2> SUFFICES ASSUME left # <<>> PROVE left[1].cmd # "pace"
    OBVIOUS
  <2>1. /\ IsSeq(left) /\ \A k \in 1..Len(left) : k + 1 \in 2..Len(prog[t][1].ops)
                                               /\ left[k] = prog[t][1].ops[k + 1]
    BY <1>1, TailFits
  <2>2. 1 \in 1..Len(left)
    BY <2>1, ElementsOf
  <2>3. 1 + 1 = 2 /\ 2 \in 2..Len(prog[t][1].ops) /\ left[1] = prog[t][1].ops[2]
    BY <2>1, <2>2
  <2>4. Follows(prog[t][1].ops[2 - 1], prog[t][1].ops[2])
    BY <2>3, <1>1 DEF Fitting, Linked
  <2> QED BY <2>3, <2>4 DEF Follows
<1> HIDE DEF left
<1> QED BY <1>1, <1>2, <1>3, AdvancedGuard

LEMMA FailedGuard ==
  ASSUME Shape, NEW t \in Threads, prog[t] # <<>>, Fails(t), Guarded(prog[t])
  PROVE  /\ Changed(t) /\ Guarded(prog'[t])
         /\ Guard(prog[t], 1) /\ ~Stops(prog[t][1]) => Guard(prog'[t], 1)
<1>1. /\ Changed(t) /\ prog[t][1].checked \in BOOLEAN /\ IsSeq(prog[t])
      /\ prog'[t] = (IF prog[t][1].checked THEN prog[t][1].then ELSE Tail(prog[t]))
      /\ ProcOK(prog[t][1])
  BY Failed, FirstIsOK DEF Shape
<1>2. CASE prog[t][1].checked
  <2>1. prog'[t] = prog[t][1].then /\ prog[t][1].then \in Thens
    BY <1>1, <1>2 DEF ProcOK
  <2>2. Guard(prog[t], 1) => prog[t][1].then \in PaceThens
    BY <1>2 DEF Guard, Sheltered
  <2> QED BY <1>1, <2>1, <2>2, ThenGuards
<1>3. CASE ~prog[t][1].checked
  <2>1. Dropped(prog[t], Tail(prog[t]), 1) /\ prog'[t] = Tail(prog[t])
    BY <1>1, <1>3, TailDrops
  <2>2. Dropped(prog[t], prog'[t], 1)
    BY <2>1
  <2> QED BY <1>1, <2>2, DroppedGuard
<1> QED BY <1>1, <1>2, <1>3

LEMMA InsertedGuard ==
  ASSUME Shape, NEW t \in Threads, prog[t] # <<>>, NEW x, Inserted(t, x), Guarded(prog[t])
  PROVE  /\ Changed(t) /\ Guarded(prog'[t])
         /\ Guard(prog[t], 1) /\ ~Stops(prog[t][1]) => Guard(prog'[t], 1)
<1> DEFINE u == Tail(prog[t][1].ops)  left == x \o u
<1>1. /\ Changed(t) /\ Became(prog[t], prog'[t], left) /\ Suits(prog[t][1], left) /\ left # <<>>
      /\ ProgOK(prog[t]) /\ Fitting(prog[t][1].ops) /\ prog[t][1].ops # <<>>
  BY InsertedIsKept, FirstIsOK DEF Inserted, Kept, Shape
<1>2. IsSeq(u) /\ IsSeq(x) /\ x # <<>> /\ \A k \in 1..Len(x) : OnBus(x[k])
  BY <1>1, TailFits DEF Inserted, Fitting, Linked
<1>3. left[1].cmd # "pace"
  <2>1. 1 \in 1..Len(x)
    BY <1>2, ElementsOf
  <2>2. left[1] = x[1]
    BY <2>1, <1>2, Concatenated
  <2> QED BY <2>1, <2>2, <1>2 DEF OnBus, LocalOps
<1> HIDE DEF left
<1> QED BY <1>1, <1>3, BecameGuard

(* A command of the bus is not the end of the pacing.                      *)
LEMMA NotStops ==
  ASSUME Shape, NEW t \in Threads, prog[t] # <<>>, Op(t).cmd # "pace"
  PROVE  ~Stops(prog[t][1])
  BY OpIs DEF Shape, Stops

LEMMA PacingThread ==
  ASSUME Shape, Pacing, NEW t \in Threads,
         \/ Sends(t) \/ SendFails(t) \/ Refused(t) \/ AnswerLate(t) \/ TakesAnswer(t)
  PROVE  Pacing'
<1>1. /\ prog[t] # <<>> /\ phase' = phase /\ pacing' = pacing /\ Op(t).cmd # "pace"
  <2>1. CASE TakesAnswer(t)
    <3>1. prog[t] # <<>> /\ sent[t] /\ phase' = phase /\ pacing' = pacing
      BY <2>1, Answered
    <3> QED BY <3>1 DEF Shape, LocalOps
  <2>2. CASE ~TakesAnswer(t)
    BY <2>2 DEF Sends, SendFails, Refused, AnswerLate, Sending, above, LocalOps, Shape
  <2> QED BY <2>1, <2>2
<1>2. prog' = prog \/ Fails(t) \/ Continues(t, <<>>) \/ \E x : Inserted(t, x)
  <2>1. CASE TakesAnswer(t)
    BY <2>1, Answered
  <2>2. CASE ~TakesAnswer(t)
    BY <2>2 DEF Sends, SendFails, Refused, AnswerLate
  <2> QED BY <2>1, <2>2
<1>3. ~Stops(prog[t][1])
  BY <1>1, NotStops
<1>4. CASE prog' = prog
  BY <1>1, <1>4, PacingStays
<1>5. CASE prog' # prog
  <2>1. Changed(t)
    BY <1>1, <1>2, <1>5, Failed, Passed, InsertedIsKept DEF Kept, Inserted
  <2>2. ASSUME t = "main", phase = "init"
        PROVE  Guarded(prog'[t]) /\ (Guard(prog[t], 1) => Guard(prog'[t], 1))
    <3>1. Guarded(prog[t])
      BY <2>2 DEF Pacing
    <3> QED BY <1>1, <1>2, <1>3, <1>5, <3>1, PassedGuard, FailedGuard, InsertedGuard
  <2> QED BY <1>1, <2>1, <2>2, PacingKept
<1> QED BY <1>4, <1>5

LEMMA PacingSets ==
  ASSUME Shape, Pacing, NEW t \in Threads, SetsPacing(t) PROVE Pacing'
<1>1. /\ prog[t] # <<>> /\ Op(t).cmd = "pace" /\ pacing' = Op(t).val /\ phase' = phase
      /\ Continues(t, <<>>)
  BY LocalSteps DEF SetsPacing, Doing, Alongside, Marks
<1>2. /\ Op(t) = prog[t][1].ops[1] /\ 1 \in 1..Len(prog[t]) /\ 1 \in 1..Len(prog[t][1].ops)
      /\ OpOK(Op(t))
  BY <1>1, OpIs, HeadIs DEF Shape
<1>3. t = "main" /\ phase = "init"
  BY <1>1, <1>2 DEF Shape, PlainlyProg, Plainly
<1>4. Guarded(prog[t])
  BY <1>3 DEF Pacing
<1>5. /\ Guarded(prog'[t])
      /\ Guard(prog[t], 1) /\ ~Stops(prog[t][1]) => Guard(prog'[t], 1)
  BY <1>1, <1>4, PassedGuard
<1>6. CASE Op(t).val
  <2>1. Starts(prog[t][1]) /\ ~Stops(prog[t][1])
    BY <1>1, <1>2, <1>6 DEF Starts, Stops
  <2>2. Guard(prog[t], 1)
    BY <2>1, <1>2, <1>4 DEF Guarded
  <2> QED BY <1>1, <1>3, <1>5, <2>1, <2>2 DEF Pacing
<1>7. CASE ~Op(t).val
  <2>1. ~pacing'
    BY <1>1, <1>2, <1>7
  <2> QED BY <2>1, <1>1, <1>3, <1>5 DEF Pacing
<1> QED BY <1>6, <1>7

LEMMA PacingLocal ==
  ASSUME Shape, Pacing, NEW t \in Threads,
         Marks(t) \/ PowersDown(t) \/ BridgeResult(t) \/ RunsRecord(t)
  PROVE  Pacing'
<1>1. CASE SetsPacing(t)
  BY <1>1, PacingSets
<1>2. CASE ~SetsPacing(t)
  <2>1. prog[t] # <<>> /\ phase' = phase /\ pacing' = pacing
    BY <1>2, LocalSteps DEF Alongside
  <2>2. Op(t).cmd # "pace"
    BY <1>2 DEF Marks, SetsEnabled, StoresCell, EndsRecord, EndsScript, PowersDown,
                BridgeResult, RunsRecord, Doing
  <2>3. ~Stops(prog[t][1])
    BY <2>1, <2>2, NotStops
  <2>4. CASE (Marks(t) \/ BridgeResult(t))
    <3>1. Continues(t, <<>>) \/ Fails(t)
      BY <2>4, LocalSteps DEF BridgeResult
    <3>2. Changed(t)
      BY <2>1, <3>1, Failed, Passed
    <3>3. t = "main" /\ phase = "init" => Guarded(prog[t])
      BY DEF Pacing
    <3>4. t = "main" /\ phase = "init" =>
            Guarded(prog'[t]) /\ (Guard(prog[t], 1) => Guard(prog'[t], 1))
      BY <2>1, <2>3, <3>1, <3>3, PassedGuard, FailedGuard
    <3> QED BY <2>1, <3>2, <3>4, PacingKept
  <2>5. CASE PowersDown(t)
    <3> DEFINE s == IF lnbEnabled THEN PowerDown ELSE <<>>  u == Tail(prog[t])
    <3>1. /\ Changed(t) /\ prog'[t] = s \o u /\ ProgOK(prog[t]) /\ IsSeq(prog[t])
      BY <2>5, PoweredDown DEF Kept, ProgOK
    <3>2. Dropped(prog[t], u, 1) /\ IsSeq(u)
      BY <2>1, <3>1, TailDrops DEF Dropped
    <3>3. IsSeq(s) /\ \A i \in 1..Len(s) : Sheltered(s[i]) /\ ~Starts(s[i])
      <4>1. IsSeq(PowerDown)
        BY PowerDownProg DEF LaterProg
      <4>2. IsSeq(<<>>) /\ Len(<<>>) = 0
        BY EmptyIsSeq
      <4> QED BY <4>1, <4>2, PowerDownIsSheltered
    <3> HIDE DEF s, u
    <3>4. ASSUME t = "main", phase = "init"
          PROVE  Guarded(prog'[t]) /\ (Guard(prog[t], 1) => Guard(prog'[t], 1))
      <4>1. Guarded(prog[t])
        BY <3>4 DEF Pacing
      <4>2. Guarded(u) /\ (Guard(prog[t], 1) => Guard(u, 1))
        BY <2>3, <3>1, <3>2, <4>1, DroppedGuard
      <4>3. Guarded(s \o u) /\ (Guard(u, 1) => Guard(s \o u, 1))
        BY <3>2, <3>3, <4>2, PrefixedGuard
      <4> QED BY <3>1, <4>2, <4>3
    <3> QED BY <2>1, <3>1, <3>4, PacingKept
  <2>6. CASE RunsRecord(t)
    <3>1. Op(t).cmd = "script" /\ (prog' = prog \/ \E x, m : Runs(t, x, m))
      BY <2>6, RecordRuns
    <3>2. CASE prog' = prog
      BY <2>1, <3>2, PacingStays
    <3>3. ASSUME NEW x, NEW m, Runs(t, x, m) PROVE Pacing'
      <4>1. /\ Changed(t) /\ Became(prog[t], m, x) /\ Suits(prog[t][1], x) /\ x # <<>>
            /\ x[1].cmd # "pace" /\ (prog'[t] = m \/ prog'[t] = <<PingProc>> \o m)
            /\ IsSeq(m) /\ ProgOK(prog[t])
        BY <3>3 DEF Runs, ProgOK, Shape
      <4>2. Sheltered(PingProc) /\ ~Starts(PingProc)
        BY PingIsCalm, CalmHasNoEvent, UncheckedIsSheltered DEF PingProc
      <4> DEFINE s == <<PingProc>>
      <4>3. IsSeq(s) /\ \A i \in 1..Len(s) : Sheltered(s[i]) /\ ~Starts(s[i])
        <5>1. IsSeq(s) /\ Len(s) = 1 /\ s[1] = PingProc
          BY SingleIsSeq
        <5> QED BY <4>2, <5>1
      <4>4. ASSUME t = "main", phase = "init"
            PROVE  Guarded(prog'[t]) /\ (Guard(prog[t], 1) => Guard(prog'[t], 1))
        <5>1. Guarded(prog[t])
          BY <4>4 DEF Pacing
        <5>2. Guarded(m) /\ (Guard(prog[t], 1) => Guard(m, 1))
          BY <2>1, <2>3, <4>1, <5>1, BecameGuard
        <5> HIDE DEF s
        <5>3. Guarded(s \o m) /\ (Guard(m, 1) => Guard(s \o m, 1))
          BY <4>1, <4>3, <5>2, PrefixedGuard
        <5> QED BY <4>1, <5>2, <5>3 DEF s
      <4> QED BY <2>1, <4>1, <4>4, PacingKept
    <3> QED BY <3>1, <3>2, <3>3
  <2> QED BY <2>4, <2>5, <2>6
<1> QED BY <1>1, <1>2

LEMMA PacingNext == ASSUME Shape, Pacing, [Next]_vars PROVE Pacing'
<1>1. CASE UNCHANGED vars
  BY <1>1 DEF Pacing, vars, threads
<1>2. CASE InitEnds
  <2>1. phase' # "init" /\ pacing' = pacing /\ prog["main"] = <<>>
    BY <1>2 DEF InitEnds
  <2>2. ~Guard(<<>>, 1)
    BY DEF Guard
  <2> QED BY <2>1, <2>2 DEF Pacing
<1>3. CASE \E t \in Threads : \E q : StartsWith(t, q)
  BY <1>3 DEF StartsWith, Pacing
<1>4. ASSUME NEW t \in Threads,
             \/ Sends(t) \/ SendFails(t) \/ Refused(t) \/ AnswerLate(t) \/ TakesAnswer(t)
      PROVE  Pacing'
  BY <1>4, PacingThread
<1>5. ASSUME NEW t \in Threads, Marks(t) \/ PowersDown(t) \/ BridgeResult(t) \/ RunsRecord(t)
      PROVE  Pacing'
  BY <1>5, PacingLocal
<1> QED BY <1>1, <1>2, <1>3, <1>4, <1>5, Steps

(* The pacing of the commands is off on every way out of daemon_cold_init, *)
(* whichever command fails.                                                *)
THEOREM PacingEnds == Spec => []PacedInitOnly
<1>1. Init => Shape /\ Pacing
  BY ShapeInit, PacingInit
<1>2. Shape /\ Pacing /\ [Next]_vars => Shape' /\ Pacing'
  BY ShapeNext, PacingNext
<1>3. Pacing => PacedInitOnly
  BY DEF Pacing, PacedInitOnly
<1> QED BY <1>1, <1>2, <1>3, PTL DEF Spec

-----------------------------------------------------------------------------
(* The patch.                                                              *)
LEMMA RanHasScript ==
  ASSUME NEW p, ProcOK(p), NEW k \in 1..Len(p.ops), p.ops[k].cmd = "ran", k < Len(p.ops)
  PROVE  HasScript(p) /\ k + 1 = Len(p.ops)
<1>1. Linked(p.ops) /\ Len(p.ops) \in Nat
  BY ElementsOf DEF ProcOK, Fitting, Linked
<1>2. k + 1 \in 2..Len(p.ops) /\ (k + 1) - 1 = k
  BY <1>1
<1>3. p.ops[k + 1].cmd = "script"
  <2>1. Follows(p.ops[(k + 1) - 1], p.ops[k + 1])
    BY <1>1, <1>2 DEF Linked
  <2> QED BY <2>1, <1>2 DEF Follows
<1>4. k + 1 = Len(p.ops)
  <2> SUFFICES ASSUME k + 1 # Len(p.ops) PROVE FALSE
    OBVIOUS
  <2>1. k + 2 \in 2..Len(p.ops) /\ (k + 2) - 1 = k + 1
    BY <1>1, <1>2
  <2>2. Follows(p.ops[(k + 2) - 1], p.ops[k + 2])
    BY <1>1, <2>1 DEF Linked
  <2> QED BY <2>1, <2>2, <1>3 DEF Follows
<1> QED BY <1>3, <1>4 DEF HasScript

LEMMA ScriptIsLast ==
  ASSUME NEW p, ProcOK(p), p.ops[1].cmd \in {"script", "ifenabled"}
  PROVE  Len(p.ops) = 1
<1>1. Linked(p.ops) /\ Len(p.ops) \in Nat \ {0}
  BY ElementsOf DEF ProcOK, Fitting, Linked
<1> DEFINE n == Len(p.ops)
<1>2. n \in Nat \ {0}
  BY <1>1
<1> SUFFICES ASSUME n # 1 PROVE FALSE
  OBVIOUS
<1>3. 2 \in 2..n
  <2> HIDE DEF n
  <2> QED BY <1>2
<1>4. Follows(p.ops[2 - 1], p.ops[2])
  BY <1>1, <1>3 DEF Linked
<1> QED BY <1>4 DEF Follows

LEMMA NoRan ==
  ASSUME NEW q, ProgOK(q), q # <<>>, ScriptOnce(q), q[1].ops[1].cmd = "script",
         NEW n, NEW l, RanNext(q, n, l)
  PROVE  \A i \in 1..Len(q) : \A k \in 1..Len(q[i].ops) : q[i].ops[k].cmd # "ran"
<1>1. ProcOK(q[1]) /\ 1 \in 1..Len(q)
  BY FirstIsOK
<1>2. Len(q[1].ops) = 1
  BY <1>1, ScriptIsLast
<1>3. HasScript(q[1])
  BY <1>2 DEF HasScript
<1> SUFFICES ASSUME NEW i \in 1..Len(q), NEW k \in 1..Len(q[i].ops), q[i].ops[k].cmd = "ran"
             PROVE  FALSE
  OBVIOUS
<1>4. k < Len(q[i].ops) /\ ProcOK(q[i])
  BY DEF RanNext, ProgOK
<1>5. HasScript(q[i])
  BY <1>4, RanHasScript
<1>6. i = 1
  BY <1>1, <1>3, <1>5 DEF ScriptOnce
<1> QED BY <1>2, <1>4, <1>6

LEMMA DroppedScript ==
  ASSUME NEW q, ProgOK(q), NEW n, NEW d \in 1..2, Dropped(q, n, d), ScriptOnce(q),
         NEW a, NEW l, RanNext(q, a, l)
  PROVE  /\ ScriptOnce(n) /\ RanNext(n, a, l)
         /\ Loads(q) /\ (\A i \in 1..d : ~HasScript(q[i])) => Loads(n)
<1>1. /\ Len(q) = Len(n) + d /\ Len(n) \in Nat /\ \A i \in 1..Len(n) : n[i] = q[i + d]
  BY ElementsOf DEF Dropped
<1>2. \A i \in 1..Len(n) : i + d \in 1..Len(q) /\ n[i] = q[i + d]
  BY <1>1
<1>3. ScriptOnce(n)
  <2> SUFFICES ASSUME NEW i \in 1..Len(n), NEW j \in 1..Len(n), HasScript(n[i]), HasScript(n[j])
               PROVE  i = j
    BY DEF ScriptOnce
  <2>1. i + d = j + d
    BY <1>2 DEF ScriptOnce
  <2> QED BY <2>1
<1>4. RanNext(n, a, l)
  BY <1>2 DEF RanNext
<1>5. ASSUME Loads(q), \A i \in 1..d : ~HasScript(q[i]) PROVE Loads(n)
  <2>1. PICK i \in 1..Len(q) : HasScript(q[i])
    BY <1>5 DEF Loads
  <2> DEFINE j == i - d
  <2>2. j \in 1..Len(n) /\ j + d = i
    <3>1. i \notin 1..d
      BY <2>1, <1>5
    <3> QED BY <3>1, <1>1
  <2> HIDE DEF j
  <2>3. n[j] = q[i]
    BY <2>2, <1>1
  <2> QED BY <2>1, <2>2, <2>3 DEF Loads
<1> QED BY <1>3, <1>4, <1>5

LEMMA BecameScript ==
  ASSUME NEW q, ProgOK(q), q # <<>>, NEW n, NEW left, left # <<>>, Suits(q[1], left),
         Became(q, n, left), left[Len(left)].cmd = "script" <=> HasScript(q[1]), ScriptOnce(q),
         NEW a, NEW l, RanNext(q, a, l)
  PROVE  /\ ScriptOnce(n) /\ (Loads(q) => Loads(n))
         /\ (\A k \in 1..Len(left) :
               left[k].cmd = "ran" => k < Len(left) /\ left[k].val = a /\ a <= l)
              => RanNext(n, a, l)
<1>1. /\ Len(n) = Len(q) /\ n[1].ops = left /\ \A i \in 2..Len(q) : n[i] = q[i]
      /\ Len(q) \in Nat \ {0}
  BY BecameIsOK, FirstIsOK DEF Became
<1>2. HasScript(n[1]) <=> HasScript(q[1])
  BY <1>1 DEF HasScript
<1>3. \A i \in 1..Len(n) : i \in 1..Len(q) /\ (i = 1 \/ (i \in 2..Len(q) /\ n[i] = q[i]))
  BY <1>1
<1>4. \A i \in 1..Len(n) : HasScript(n[i]) <=> HasScript(q[i])
  BY <1>2, <1>3
<1>5. ScriptOnce(n) /\ (Loads(q) => Loads(n))
  BY <1>1, <1>4 DEF ScriptOnce, Loads
<1>6. ASSUME \A k \in 1..Len(left) :
               left[k].cmd = "ran" => k < Len(left) /\ left[k].val = a /\ a <= l
      PROVE  RanNext(n, a, l)
  BY <1>1, <1>3, <1>6 DEF RanNext
<1> QED BY <1>5, <1>6

LEMMA PrefixedScript ==
  ASSUME NEW s, NEW q, IsSeq(s), IsSeq(q), ScriptOnce(q), NEW a, NEW l, RanNext(q, a, l),
         \A i \in 1..Len(s) : Scriptless(s[i]) /\ ~HasScript(s[i])
  PROVE  ScriptOnce(s \o q) /\ RanNext(s \o q, a, l) /\ (Loads(q) => Loads(s \o q))
<1> DEFINE n == s \o q
<1>1. /\ Len(n) = Len(s) + Len(q) /\ Len(s) \in Nat /\ Len(q) \in Nat
      /\ \A i \in 1..Len(s) : n[i] = s[i]
      /\ \A i \in (Len(s) + 1)..(Len(s) + Len(q)) : n[i] = q[i - Len(s)]
  BY Concatenated, ElementsOf
<1> HIDE DEF n
<1>2. \A i \in 1..Len(q) : Len(s) + i \in 1..Len(n) /\ n[Len(s) + i] = q[i]
  <2> TAKE i \in 1..Len(q)
  <2>1. Len(s) + i \in (Len(s) + 1)..(Len(s) + Len(q)) /\ (Len(s) + i) - Len(s) = i
    BY <1>1
  <2> QED BY <2>1, <1>1
<1>3. \A j \in 1..Len(n) : \/ Scriptless(n[j]) /\ ~HasScript(n[j])
                           \/ j - Len(s) \in 1..Len(q) /\ n[j] = q[j - Len(s)]
  <2> TAKE j \in 1..Len(n)
  <2>1. j \in 1..Len(s) \/ (j \in (Len(s) + 1)..(Len(s) + Len(q)) /\ j - Len(s) \in 1..Len(q))
    BY <1>1
  <2> QED BY <2>1, <1>1
<1>4. ScriptOnce(n)
  <2> SUFFICES ASSUME NEW i \in 1..Len(n), NEW j \in 1..Len(n), HasScript(n[i]), HasScript(n[j])
               PROVE  i = j
    BY DEF ScriptOnce
  <2>1. i - Len(s) = j - Len(s)
    BY <1>3 DEF ScriptOnce
  <2> QED BY <2>1, <1>1
<1>5. RanNext(n, a, l)
  BY <1>3 DEF RanNext, Scriptless
<1>6. Loads(q) => Loads(n)
  BY <1>2 DEF Loads
<1> QED BY <1>4, <1>5, <1>6 DEF n

(* Without a script there is nothing to load.                              *)
LEMMA ScriptlessProc ==
  ASSUME NEW p, Fresh(p), Scriptless(p) PROVE ~HasScript(p)
<1>1. Len(p.ops) \in 1..Len(p.ops)
  BY ElementsOf DEF Fresh, ProcOK, Fitting, Linked
<1> QED BY <1>1 DEF Scriptless, HasScript

LEMMA NothingToLoad ==
  ASSUME NEW q, FreshProg(q), \A i \in 1..Len(q) : Scriptless(q[i])
  PROVE  ScriptOnce(q) /\ \A a, l : RanNext(q, a, l)
  BY ScriptlessProc DEF FreshProg, ScriptOnce, RanNext, Scriptless

LEMMA ThenScripts == \A q \in Thens : ScriptOnce(q) /\ \A a, l : RanNext(q, a, l)
<1>1. Scriptless(PaceOff)
  <2>1. FALSE \in BOOLEAN
    OBVIOUS
  <2> QED BY <2>1, PaceProc, Zenon DEF PaceOff
<1>2. Scriptless(Off)
  BY OffIsSteady, CalmHasNoEvent DEF Steady
<1> HIDE DEF PaceOff, Off
<1> DEFINE a == <<PaceOff>>  b == <<Off>>  c == <<Off, PaceOff>>  e == <<>>
<1>3. /\ Len(a) = 1 /\ a[1] = PaceOff /\ Len(b) = 1 /\ b[1] = Off
      /\ Len(c) = 2 /\ c[1] = Off /\ c[2] = PaceOff /\ Len(e) = 0
  OBVIOUS
<1> HIDE DEF a, b, c, e
<1>4. /\ \A i \in 1..Len(a) : Scriptless(a[i])
      /\ \A i \in 1..Len(b) : Scriptless(b[i])
      /\ \A i \in 1..Len(e) : Scriptless(e[i])
  BY <1>1, <1>2, <1>3
<1>5. \A i \in 1..Len(c) : Scriptless(c[i])
  <2>1. \A i \in 1..Len(c) : i = 1 \/ i = 2
    BY <1>3
  <2> QED BY <2>1, <1>1, <1>2, <1>3
<1>6. FreshProg(a) /\ FreshProg(b) /\ FreshProg(c) /\ FreshProg(e)
  BY ThenProgs DEF Thens, a, b, c, e
<1>7. \A q \in {a, b, c, e} : ScriptOnce(q) /\ \A n, l : RanNext(q, n, l)
  BY <1>4, <1>5, <1>6, NothingToLoad
<1> QED BY <1>7 DEF Thens, a, b, c, e

LEMMA PassedScript ==
  ASSUME Shape, NEW t \in Threads, prog[t] # <<>>, Continues(t, <<>>), ScriptOnce(prog[t]),
         NEW a, NEW l, RanNext(prog[t], a, l)
  PROVE  /\ Changed(t) /\ ScriptOnce(prog'[t]) /\ RanNext(prog'[t], a, l)
         /\ aborted' = aborted
         /\ Op(t).cmd # "script" /\ Loads(prog[t]) => Loads(prog'[t])
<1> DEFINE q == prog[t]  s == q[1].ops  left == Tail(s)
<1>1. /\ Changed(t) /\ Advanced(q, prog'[t], left) /\ ProgOK(q) /\ ProcOK(q[1])
      /\ Fitting(s) /\ s # <<>> /\ IsSeq(q) /\ 1 \in 1..Len(q) /\ Op(t) = s[1]
      /\ Len(s) \in Nat \ {0} /\ aborted' = aborted
  BY Passed, FirstIsOK, OpIs DEF Shape
<1>2. Suits(q[1], left)
  BY <1>1, TailSuits
<1>3. /\ Len(left) = Len(s) - 1 /\ IsSeq(left)
      /\ \A k \in 1..Len(left) : k + 1 \in 2..Len(s) /\ left[k] = s[k + 1]
  BY <1>1, TailFits
<1> HIDE DEF left, q
<1>4. CASE left # <<>> /\ Became(q, prog'[t], left)
  <2>1. Len(left) \in 1..Len(left) /\ Len(left) + 1 = Len(s)
    BY <1>1, <1>3, <1>4, ElementsOf
  <2>2. left[Len(left)].cmd = "script" <=> HasScript(q[1])
    BY <2>1, <1>3 DEF HasScript
  <2>3. ASSUME NEW k \in 1..Len(left), left[k].cmd = "ran"
        PROVE  k < Len(left) /\ left[k].val = a /\ a <= l
    <3>1. k + 1 \in 1..Len(s) /\ s[k + 1].cmd = "ran" /\ left[k] = s[k + 1]
      BY <1>1, <1>3, <2>3
    <3>2. k + 1 < Len(s) /\ s[k + 1].val = a /\ a <= l
      BY <3>1, <1>1 DEF RanNext, q
    <3> QED BY <3>1, <3>2, <1>1, <1>3
  <2>4. /\ ScriptOnce(prog'[t]) /\ (Loads(q) => Loads(prog'[t])) /\ RanNext(prog'[t], a, l)
    BY <1>1, <1>2, <1>4, <2>2, <2>3, BecameScript DEF q
  <2> QED BY <1>1, <2>4 DEF q
<1>5. ASSUME NEW d \in 1..2, Dropped(q, prog'[t], d), left = <<>>, d = 2 => q[2].orelse
      PROVE  /\ ScriptOnce(prog'[t]) /\ RanNext(prog'[t], a, l)
             /\ Op(t).cmd # "script" /\ Loads(q) => Loads(prog'[t])
  <2>1. Op(t).cmd # "script" => ~HasScript(q[1])
    <3>1. Len(left) = 0
      BY <1>5
    <3>2. Len(s) = 1
      BY <3>1, <1>1, <1>3
    <3> QED BY <3>2, <1>1 DEF HasScript
  <2>2. d = 2 => ~HasScript(q[2])
    <3> SUFFICES ASSUME d = 2 PROVE ~HasScript(q[2])
      OBVIOUS
    <3>1. 2 \in 1..Len(q)
      <4>1. Len(q) = Len(prog'[t]) + 2 /\ Len(prog'[t]) \in Nat
        BY <1>5, ElementsOf DEF Dropped
      <4> QED BY <4>1
    <3>2. ProcOK(q[2]) /\ q[2].orelse
      BY <3>1, <1>1, <1>5 DEF ProgOK
    <3>3. Len(q[2].ops) \in 1..Len(q[2].ops)
      BY <3>2, ElementsOf DEF ProcOK, Fitting, Linked
    <3> QED BY <3>2, <3>3 DEF ProcOK, Eventful, HasScript
  <2>3. Op(t).cmd # "script" => \A i \in 1..d : ~HasScript(q[i])
    <3>1. \A i \in 1..d : i = 1 \/ (i = 2 /\ d = 2)
      OBVIOUS
    <3> QED BY <3>1, <2>1, <2>2
  <2>4. /\ ScriptOnce(prog'[t]) /\ RanNext(prog'[t], a, l)
        /\ Loads(q) /\ (\A i \in 1..d : ~HasScript(q[i])) => Loads(prog'[t])
    BY <1>1, <1>5, DroppedScript DEF q
  <2> QED BY <2>3, <2>4
<1>6. CASE left = <<>> /\ Dropped(q, prog'[t], 1)
  BY <1>1, <1>5, <1>6 DEF q
<1>7. CASE left = <<>> /\ Dropped(q, prog'[t], 2) /\ q[2].orelse
  BY <1>1, <1>5, <1>7 DEF q
<1> QED BY <1>1, <1>4, <1>6, <1>7 DEF Advanced

LEMMA FailedScript ==
  ASSUME Shape, NEW t \in Threads, prog[t] # <<>>, Fails(t), ScriptOnce(prog[t]),
         NEW a, NEW l, RanNext(prog[t], a, l)
  PROVE  /\ Changed(t) /\ ScriptOnce(prog'[t]) /\ RanNext(prog'[t], a, l)
         /\ aborted[t] \/ Loads(prog[t]) => aborted'[t] \/ Loads(prog'[t])
<1> DEFINE q == prog[t]  c == q[1].checked
<1>1. /\ Changed(t) /\ c \in BOOLEAN /\ IsSeq(q) /\ ProgOK(q)
      /\ prog'[t] = (IF c THEN q[1].then ELSE Tail(q)) /\ ProcOK(q[1])
  BY Failed, FirstIsOK DEF Shape
<1>2. aborted'[t] = (aborted[t] \/ c)
  <2> HIDE DEF c
  <2>1. aborted' = [aborted EXCEPT ![t] = @ \/ c]
    BY Failed DEF c
  <2> QED BY <2>1 DEF Shape
<1>3. CASE c
  <2>1. prog'[t] = q[1].then /\ q[1].then \in Thens
    BY <1>1, <1>3 DEF ProcOK
  <2> HIDE DEF q, c
  <2> QED BY <1>1, <1>2, <1>3, <2>1, ThenScripts
<1>4. CASE ~c
  <2>1. Dropped(q, Tail(q), 1) /\ prog'[t] = Tail(q)
    BY <1>1, <1>4, TailDrops
  <2>2. ~HasScript(q[1])
    <3>1. Len(q[1].ops) \in 1..Len(q[1].ops)
      BY <1>1, ElementsOf DEF ProcOK, Fitting, Linked
    <3> QED BY <3>1, <1>1, <1>4 DEF ProcOK, HasScript
  <2>3. Dropped(q, prog'[t], 1) /\ \A i \in 1..1 : ~HasScript(q[i])
    BY <2>1, <2>2
  <2> HIDE DEF q
  <2>4. ScriptOnce(prog'[t]) /\ RanNext(prog'[t], a, l) /\ (Loads(q) => Loads(prog'[t]))
    BY <1>1, <2>3, DroppedScript DEF q
  <2> QED BY <1>1, <1>2, <2>4 DEF q
<1> QED BY <1>1, <1>3, <1>4

LEMMA InsertedScript ==
  ASSUME Shape, NEW t \in Threads, prog[t] # <<>>, NEW x, Inserted(t, x), ScriptOnce(prog[t]),
         NEW a, NEW l, RanNext(prog[t], a, l)
  PROVE  /\ Changed(t) /\ ScriptOnce(prog'[t]) /\ RanNext(prog'[t], a, l)
         /\ aborted' = aborted /\ (Loads(prog[t]) => Loads(prog'[t]))
<1> DEFINE q == prog[t]  s == q[1].ops  u == Tail(s)  left == x \o u
<1>1. /\ Changed(t) /\ Became(q, prog'[t], left) /\ Suits(q[1], left) /\ left # <<>>
      /\ ProgOK(q) /\ Fitting(s) /\ s # <<>> /\ Op(t) = s[1] /\ Op(t).cmd = "read"
      /\ 1 \in 1..Len(q) /\ aborted' = aborted
  BY InsertedIsKept, FirstIsOK, OpIs DEF Inserted, Kept, Shape
<1>2. /\ IsSeq(u) /\ Len(u) = Len(s) - 1 /\ Len(s) \in Nat \ {0} /\ Len(u) \in Nat
      /\ \A k \in 1..Len(u) : k + 1 \in 2..Len(s) /\ u[k] = s[k + 1]
  BY <1>1, TailFits
<1>3. IsSeq(x) /\ x # <<>> /\ Len(x) \in Nat \ {0} /\ \A k \in 1..Len(x) : OnBus(x[k])
  BY ElementsOf DEF Inserted, Fitting, Linked
<1> HIDE DEF u
<1>4. /\ Len(left) = Len(x) + Len(u)
      /\ \A i \in 1..Len(x) : left[i] = x[i]
      /\ \A i \in (Len(x) + 1)..(Len(x) + Len(u)) : left[i] = u[i - Len(x)]
  BY <1>2, <1>3, Concatenated
<1> HIDE DEF left
<1>5. \A k \in 1..Len(left) :
        \/ k \in 1..Len(x) /\ left[k] = x[k]
        \/ k - Len(x) \in 1..Len(u) /\ left[k] = u[k - Len(x)]
  <2> TAKE k \in 1..Len(left)
  <2>1. k \in 1..Len(x) \/ (k \in (Len(x) + 1)..(Len(x) + Len(u)) /\ k - Len(x) \in 1..Len(u))
    BY <1>2, <1>3, <1>4
  <2> QED BY <2>1, <1>4
<1>9. /\ Len(s) \in Nat /\ Len(u) \in Nat /\ Len(x) \in Nat \ {0} /\ Len(u) = Len(s) - 1
      /\ Len(left) = Len(x) + Len(u)
  BY <1>2, <1>3, <1>4
<1>6. left[Len(left)].cmd = "script" <=> HasScript(q[1])
  <2>b. /\ Len(u) = 0 => Len(s) = 1 /\ Len(left) = Len(x) /\ Len(x) \in 1..Len(x)
        /\ Len(u) # 0 => /\ Len(u) \in 1..Len(u) /\ Len(left) \in (Len(x) + 1)..(Len(x) + Len(u))
                         /\ Len(left) - Len(x) = Len(u) /\ Len(u) + 1 = Len(s)
    <3> DEFINE m == Len(u)  n == Len(x)  k == Len(s)  h == Len(left)
    <3>1. m \in Nat /\ n \in Nat \ {0} /\ k \in Nat /\ m = k - 1 /\ h = n + m
      BY <1>9
    <3> HIDE DEF m, n, k, h
    <3>2. /\ m = 0 => k = 1 /\ h = n /\ n \in 1..n
          /\ m # 0 => m \in 1..m /\ h \in (n + 1)..(n + m) /\ h - n = m /\ m + 1 = k
      BY <3>1
    <3> QED BY <3>2 DEF m, n, k, h
  <2>1. CASE Len(u) = 0
    <3>1. Len(s) = 1 /\ Len(left) = Len(x) /\ Len(x) \in 1..Len(x)
      BY <2>1, <2>b
    <3>2. left[Len(left)] = x[Len(x)] /\ OnBus(x[Len(x)])
      BY <3>1, <1>3, <1>4
    <3>3. left[Len(left)].cmd # "script"
      BY <3>2 DEF OnBus, LocalOps
    <3>4. ~HasScript(q[1])
      BY <3>1, <1>1 DEF HasScript
    <3> QED BY <3>3, <3>4
  <2>2. CASE Len(u) # 0
    <3>1. /\ Len(u) \in 1..Len(u) /\ Len(left) \in (Len(x) + 1)..(Len(x) + Len(u))
          /\ Len(left) - Len(x) = Len(u) /\ Len(u) + 1 = Len(s)
      BY <2>2, <2>b
    <3>2. left[Len(left)] = s[Len(s)]
      BY <3>1, <1>2, <1>4
    <3> QED BY <3>2 DEF HasScript
  <2> QED BY <2>1, <2>2
<1>7. ASSUME NEW k \in 1..Len(left), left[k].cmd = "ran"
      PROVE  k < Len(left) /\ left[k].val = a /\ a <= l
  <2> DEFINE i == k - Len(x)
  <2>1. i \in 1..Len(u) /\ left[k] = u[i]
    BY <1>3, <1>5, <1>7 DEF OnBus, LocalOps
  <2>2. k = Len(x) + i
    BY <1>3
  <2> HIDE DEF i
  <2>3. i + 1 \in 1..Len(s) /\ left[k] = s[i + 1]
    BY <2>1, <1>2
  <2>4. i + 1 < Len(s) /\ s[i + 1].val = a /\ a <= l
    BY <2>3, <1>1, <1>7 DEF RanNext
  <2>5. k < Len(left)
    BY <2>1, <2>2, <2>4, <1>9
  <2> QED BY <2>3, <2>4, <2>5
<1> HIDE DEF q
<1>8. /\ ScriptOnce(prog'[t]) /\ (Loads(q) => Loads(prog'[t])) /\ RanNext(prog'[t], a, l)
  BY <1>1, <1>6, <1>7, BecameScript DEF q
<1> QED BY <1>1, <1>8 DEF q

LEMMA PatchingInit == Init => Patching
<1> SUFFICES ASSUME Init PROVE Patching
  OBVIOUS
<1>1. /\ phase = "init" /\ script \in Scripts /\ at = 1 /\ passed = {}
  BY DEF Init
<1>2. IsSeq(script)
  BY <1>1, ScriptsAssumption DEF IsSeq
<1>3. Len(script) \in Nat /\ at \in 1..(Len(script) + 1) /\ passed = 1..(at - 1)
  BY <1>1, <1>2, ElementsOf
<1> DEFINE q == prog["main"]
<1>4. FreshProg(q)
  BY InitialProg
<1>5. PICK n \in 1..Len(q) :
        /\ HasScript(q[n]) /\ \A k \in 1..Len(q[n].ops) : q[n].ops[k].cmd # "ran"
        /\ \A i \in 1..Len(q) : i # n => Scriptless(q[i])
  BY InitialProg DEF OneScript
<1> HIDE DEF q
<1>6. \A i \in 1..Len(q) : HasScript(q[i]) => i = n
  BY <1>4, <1>5, ScriptlessProc DEF FreshProg
<1>7. ScriptOnce(q) /\ RanNext(q, at, Len(script)) /\ Loads(q)
  BY <1>5, <1>6 DEF ScriptOnce, RanNext, Loads, Scriptless
<1> QED BY <1>1, <1>2, <1>3, <1>7 DEF Patching, q

(* A step of a thread that leaves the next record alone.                   *)
LEMMA PatchingKept ==
  ASSUME Shape, Patching, NEW t \in Threads, phase' = phase, script' = script,
         at' = at, passed' = passed, Changed(t),
         t # "main" => aborted'["main"] = aborted["main"],
         t = "main" /\ phase = "init" =>
           /\ ScriptOnce(prog'[t]) /\ RanNext(prog'[t], at, Len(script))
           /\ aborted[t] \/ at = Len(script) + 1 \/ Loads(prog[t])
                => aborted'[t] \/ at = Len(script) + 1 \/ Loads(prog'[t])
  PROVE  Patching'
<1>1. "main" \in Threads
  BY DEF Threads
<1>2. CASE t = "main"
  BY <1>2 DEF Patching
<1>3. CASE t # "main"
  <2>1. prog'["main"] = prog["main"]
    BY <1>1, <1>3 DEF Changed
  <2> QED BY <1>3, <2>1 DEF Patching
<1> QED BY <1>2, <1>3

LEMMA PatchingStays ==
  ASSUME Patching, phase' = phase, script' = script, at' = at, passed' = passed,
         prog' = prog, aborted' = aborted
  PROVE  Patching'
  BY DEF Patching

LEMMA PatchingThread ==
  ASSUME Shape, Patching, NEW t \in Threads,
         \/ Sends(t) \/ SendFails(t) \/ Refused(t) \/ AnswerLate(t) \/ TakesAnswer(t)
  PROVE  Patching'
<1>1. /\ prog[t] # <<>> /\ phase' = phase /\ script' = script /\ at' = at /\ passed' = passed
      /\ Op(t).cmd # "script"
  <2>1. CASE TakesAnswer(t)
    <3>1. /\ prog[t] # <<>> /\ sent[t] /\ phase' = phase
          /\ script' = script /\ at' = at /\ passed' = passed
      BY <2>1, Answered
    <3> QED BY <3>1 DEF Shape, LocalOps
  <2>2. CASE ~TakesAnswer(t)
    BY <2>2 DEF Sends, SendFails, Refused, AnswerLate, Sending, above, patch, LocalOps, Shape
  <2> QED BY <2>1, <2>2
<1>2. (prog' = prog /\ aborted' = aborted)
        \/ Fails(t) \/ Continues(t, <<>>) \/ \E x : Inserted(t, x)
  <2>1. CASE TakesAnswer(t)
    BY <2>1, Answered
  <2>2. CASE ~TakesAnswer(t)
    BY <2>2 DEF Sends, SendFails, Refused, AnswerLate
  <2> QED BY <2>1, <2>2
<1>3. CASE prog' = prog /\ aborted' = aborted
  BY <1>1, <1>3, PatchingStays
<1>4. CASE ~(prog' = prog /\ aborted' = aborted)
  <2>1. Changed(t) /\ (t # "main" => aborted'["main"] = aborted["main"])
    <3>1. CASE Fails(t)
      <4>1. Changed(t) /\ aborted' = [aborted EXCEPT ![t] = @ \/ prog[t][1].checked]
        BY <1>1, <3>1, Failed
      <4> QED BY <4>1 DEF Shape, Threads
    <3>2. CASE ~Fails(t)
      BY <1>1, <1>2, <1>4, <3>2, Passed, InsertedIsKept DEF Kept, Inserted
    <3> QED BY <3>1, <3>2
  <2>2. ASSUME t = "main", phase = "init"
        PROVE  /\ ScriptOnce(prog'[t]) /\ RanNext(prog'[t], at, Len(script))
               /\ aborted[t] \/ at = Len(script) + 1 \/ Loads(prog[t])
                    => aborted'[t] \/ at = Len(script) + 1 \/ Loads(prog'[t])
    <3>1. ScriptOnce(prog[t]) /\ RanNext(prog[t], at, Len(script))
      BY <2>2 DEF Patching
    <3> QED BY <1>1, <1>2, <1>4, <3>1, PassedScript, FailedScript, InsertedScript
  <2> QED BY <1>1, <2>1, <2>2, PatchingKept
<1> QED BY <1>3, <1>4

(* Only the cold init runs the patch.                                      *)
LEMMA PatchIsInit ==
  ASSUME Shape, NEW t \in Threads, prog[t] # <<>>, Op(t).cmd \in {"script", "ran", "pace"}
  PROVE  t = "main" /\ phase = "init"
<1>1. /\ Op(t) = prog[t][1].ops[1] /\ 1 \in 1..Len(prog[t]) /\ 1 \in 1..Len(prog[t][1].ops)
  BY OpIs DEF Shape
<1> QED BY <1>1 DEF Shape, PlainlyProg, Plainly

LEMMA PatchingEnds ==
  ASSUME Shape, Patching, NEW t \in Threads, EndsRecord(t) PROVE Patching'
<1>1. /\ prog[t] # <<>> /\ Op(t).cmd = "ran" /\ phase' = phase /\ script' = script
      /\ Continues(t, <<>>) /\ at' = at + 1 /\ passed' = passed \union {Op(t).val}
  BY LocalSteps DEF EndsRecord, Doing, Alongside, Marks
<1>2. t = "main" /\ phase = "init"
  BY <1>1, PatchIsInit
<1>3. ScriptOnce(prog[t]) /\ RanNext(prog[t], at, Len(script))
  BY <1>2 DEF Patching
<1> DEFINE q == prog[t]  s == q[1].ops  n == prog'[t]
<1>4. /\ ProgOK(q) /\ ProcOK(q[1]) /\ 1 \in 1..Len(q) /\ 1 \in 1..Len(s) /\ Op(t) = s[1]
      /\ Fitting(s) /\ s # <<>>
  BY <1>1, OpIs, FirstIsOK DEF Shape
<1>5. 1 < Len(s) /\ Op(t).val = at /\ at <= Len(script)
  BY <1>1, <1>3, <1>4 DEF RanNext
<1>6. HasScript(q[1]) /\ Len(s) = 2
  <2>1. HasScript(q[1]) /\ 1 + 1 = Len(s)
    BY <1>1, <1>4, <1>5, RanHasScript
  <2> QED BY <2>1
<1>7. /\ Changed(t) /\ Advanced(q, n, Tail(s)) /\ aborted' = aborted
      /\ ScriptOnce(n) /\ RanNext(n, at, Len(script)) /\ Loads(n)
  <2>1. Loads(q)
    BY <1>4, <1>6 DEF Loads
  <2> QED BY <1>1, <1>3, <2>1, Passed, PassedScript
<1>8. /\ Len(Tail(s)) = 1 /\ IsSeq(Tail(s)) /\ Tail(s)[1] = s[2]
  <2>1. /\ Len(Tail(s)) = Len(s) - 1 /\ IsSeq(Tail(s))
        /\ \A k \in 1..Len(Tail(s)) : Tail(s)[k] = s[k + 1]
    BY <1>4, TailFits
  <2> QED BY <2>1, <1>6
<1>9. s[2].cmd = "script"
  BY <1>6 DEF HasScript
<1>10. Suits(q[1], Tail(s))
  BY <1>4, TailSuits
<1> DEFINE left == Tail(s)
<1>11. Len(left) = 1 /\ left # <<>> /\ left[1].cmd = "script" /\ Suits(q[1], left)
       /\ Became(q, n, left)
  <2>1. /\ IsSeq(left) /\ Len(left) = 1 /\ left[1].cmd = "script" /\ Suits(q[1], left)
        /\ Advanced(q, n, left)
    BY <1>7, <1>8, <1>9, <1>10
  <2> HIDE DEF left, q, n
  <2>2. left # <<>>
    BY <2>1, ElementsOf
  <2> QED BY <2>1, <2>2 DEF Advanced
<1> HIDE DEF left
<1>12. ProgOK(n) /\ n[1].ops = left /\ n # <<>>
  BY <1>1, <1>4, <1>11, BecameIsOK
<1> HIDE DEF q, s, n
<1>13. \A i \in 1..Len(n) : \A k \in 1..Len(n[i].ops) : n[i].ops[k].cmd # "ran"
  BY <1>7, <1>11, <1>12, NoRan
<1>14. RanNext(n, at + 1, Len(script))
  BY <1>13 DEF RanNext
<1>15. Len(script) \in Nat /\ IsSeq(script) /\ at \in 1..(Len(script) + 1) /\ passed = 1..(at - 1)
  BY ElementsOf DEF Patching
<1>16. at' \in 1..(Len(script) + 1) /\ passed' = 1..(at' - 1)
  <2> DEFINE l == Len(script)
  <2>1. l \in Nat /\ at \in 1..(l + 1) /\ at <= l /\ at' = at + 1
    BY <1>1, <1>5, <1>15
  <2> HIDE DEF l
  <2>2. at' \in 1..(l + 1) /\ 1..(at' - 1) = 1..(at - 1) \union {at}
    BY <2>1
  <2> QED BY <2>2, <1>1, <1>5, <1>15 DEF l
<1> QED BY <1>1, <1>2, <1>7, <1>14, <1>15, <1>16 DEF Patching, n

LEMMA PatchingRecord ==
  ASSUME Shape, Patching, NEW t \in Threads, RunsRecord(t) PROVE Patching'
<1>1. /\ prog[t] # <<>> /\ Op(t).cmd = "script" /\ at <= Len(script) /\ Len(prog[t][1].ops) = 1
      /\ aborted' = aborted /\ phase' = phase /\ script' = script
      /\ \/ prog' = prog /\ at' = at + 1 /\ passed' = passed \union {at}
         \/ prog' = prog /\ at' = Len(script) + 1 /\ passed' = DOMAIN script
         \/ /\ at' = at /\ passed' = passed
            /\ \E x, m : Runs(t, x, m)
  BY RecordRuns
<1>2. t = "main" /\ phase = "init"
  BY <1>1, PatchIsInit
<1> DEFINE q == prog[t]
<1>3. ScriptOnce(q) /\ RanNext(q, at, Len(script))
  BY <1>2 DEF Patching
<1>4. /\ ProgOK(q) /\ ProcOK(q[1]) /\ 1 \in 1..Len(q) /\ Op(t) = q[1].ops[1]
  BY <1>1, OpIs, FirstIsOK DEF Shape
<1>5. HasScript(q[1]) /\ Loads(q)
  BY <1>1, <1>4 DEF HasScript, Loads
<1>6. \A i \in 1..Len(q) : \A k \in 1..Len(q[i].ops) : q[i].ops[k].cmd # "ran"
  BY <1>1, <1>3, <1>4, NoRan
<1>7. Len(script) \in Nat /\ IsSeq(script) /\ at \in 1..(Len(script) + 1) /\ passed = 1..(at - 1)
      /\ DOMAIN script = 1..Len(script)
  BY ElementsOf DEF Patching
<1>8. ASSUME prog' = prog,
             \/ at' = at + 1 /\ passed' = passed \union {at}
             \/ at' = Len(script) + 1 /\ passed' = DOMAIN script
      PROVE  Patching'
  <2>1. at' \in 1..(Len(script) + 1) /\ passed' = 1..(at' - 1)
    <3> DEFINE l == Len(script)
    <3>1. l \in Nat /\ at \in 1..(l + 1) /\ at <= l
      BY <1>1, <1>7
    <3> HIDE DEF l
    <3>2. /\ at + 1 \in 1..(l + 1) /\ 1..((at + 1) - 1) = 1..(at - 1) \union {at}
          /\ l + 1 \in 1..(l + 1) /\ (l + 1) - 1 = l
      BY <3>1
    <3>3. CASE at' = at + 1 /\ passed' = passed \union {at}
      BY <3>2, <3>3, <1>7 DEF l
    <3>4. CASE at' = l + 1 /\ passed' = DOMAIN script
      <4>1. DOMAIN script = 1..l
        BY <1>7 DEF l
      <4> QED BY <3>2, <3>4, <4>1 DEF l
    <3> QED BY <3>3, <3>4, <1>8 DEF l
  <2>2. \A k, l : RanNext(q, k, l)
    BY <1>6 DEF RanNext
  <2> HIDE DEF q
  <2>3. prog'["main"] = q
    BY <1>2, <1>8 DEF q
  <2> QED BY <1>1, <1>2, <1>3, <1>5, <1>7, <2>1, <2>2, <2>3 DEF Patching
<1>9. ASSUME NEW x, NEW m, Runs(t, x, m), at' = at, passed' = passed PROVE Patching'
  <2>1. /\ Changed(t) /\ Became(q, m, x) /\ Suits(q[1], x) /\ x # <<>>
        /\ x[Len(x)].cmd = "script" /\ (prog'[t] = m \/ prog'[t] = <<PingProc>> \o m)
        /\ \A k \in 1..Len(x) : x[k].cmd = "ran" => k < Len(x) /\ x[k].val = at
        /\ ProgOK(m) /\ IsSeq(m)
    BY <1>9 DEF Runs, ProgOK
  <2>2. ScriptOnce(m) /\ Loads(m) /\ RanNext(m, at, Len(script))
    BY <1>1, <1>3, <1>4, <1>5, <2>1, BecameScript
  <2> DEFINE s == <<PingProc>>
  <2>3. IsSeq(s) /\ \A i \in 1..Len(s) : Scriptless(s[i]) /\ ~HasScript(s[i])
    <3>1. IsSeq(s) /\ Len(s) = 1 /\ s[1] = PingProc
      BY SingleIsSeq
    <3>2. Scriptless(PingProc) /\ ~HasScript(PingProc)
      BY PingIsCalm, CalmHasNoEvent, ScriptlessProc DEF Calm
    <3> QED BY <3>1, <3>2
  <2> HIDE DEF s
  <2>4. ScriptOnce(s \o m) /\ Loads(s \o m) /\ RanNext(s \o m, at, Len(script))
    BY <2>1, <2>2, <2>3, PrefixedScript
  <2>5. ScriptOnce(prog'[t]) /\ Loads(prog'[t]) /\ RanNext(prog'[t], at, Len(script))
    BY <2>1, <2>2, <2>4 DEF s
  <2> QED BY <1>1, <1>2, <1>9, <2>1, <2>5, PatchingKept
<1> QED BY <1>1, <1>8, <1>9

LEMMA PatchingLocal ==
  ASSUME Shape, Patching, NEW t \in Threads,
         Marks(t) \/ PowersDown(t) \/ BridgeResult(t) \/ RunsRecord(t)
  PROVE  Patching'
<1>1. CASE RunsRecord(t)
  BY <1>1, PatchingRecord
<1>2. CASE EndsRecord(t)
  BY <1>2, PatchingEnds
<1>3. CASE ~RunsRecord(t) /\ ~EndsRecord(t)
  <2>1. prog[t] # <<>> /\ phase' = phase /\ script' = script /\ at' = at /\ passed' = passed
    BY <1>3, LocalSteps DEF Alongside
  <2>2. t = "main" /\ phase = "init" =>
          ScriptOnce(prog[t]) /\ RanNext(prog[t], at, Len(script))
    BY DEF Patching
  <2>3. CASE PowersDown(t)
    <3> DEFINE s == IF lnbEnabled THEN PowerDown ELSE <<>>  q == prog[t]  u == Tail(q)
    <3>1. /\ Changed(t) /\ prog'[t] = s \o u /\ ProgOK(q) /\ IsSeq(q) /\ aborted' = aborted
          /\ ProcOK(q[1]) /\ Op(t) = q[1].ops[1]
      BY <2>1, <2>3, PoweredDown, FirstIsOK, OpIs DEF Kept, ProgOK
    <3>2. Dropped(q, u, 1) /\ IsSeq(u)
      BY <2>1, <3>1, TailDrops DEF Dropped
    <3>3. ~HasScript(q[1])
      <4>1. q[1].ops[1].cmd = "ifenabled"
        BY <2>3, <3>1 DEF PowersDown, Doing
      <4>2. Len(q[1].ops) = 1
        BY <3>1, <4>1, ScriptIsLast
      <4> QED BY <4>1, <4>2 DEF HasScript
    <3>4. IsSeq(s) /\ \A i \in 1..Len(s) : Scriptless(s[i]) /\ ~HasScript(s[i])
      <4>1. IsSeq(<<>>) /\ Len(<<>>) = 0
        BY EmptyIsSeq
      <4>2. IsSeq(PowerDown) /\ \A i \in 1..Len(PowerDown) : Fresh(PowerDown[i]) /\ Scriptless(PowerDown[i])
        BY PowerDownProg DEF LaterProg, Later, Scriptless
      <4> QED BY <4>1, <4>2, ScriptlessProc
    <3> HIDE DEF s, u
    <3>5. ASSUME t = "main", phase = "init"
          PROVE  /\ ScriptOnce(prog'[t]) /\ RanNext(prog'[t], at, Len(script))
                 /\ Loads(prog[t]) => Loads(prog'[t])
      <4>1. /\ ScriptOnce(u) /\ RanNext(u, at, Len(script)) /\ (Loads(q) => Loads(u))
        <5>1. \A i \in 1..1 : ~HasScript(q[i])
          BY <3>3
        <5> QED BY <2>2, <3>1, <3>2, <3>5, <5>1, DroppedScript
      <4>2. /\ ScriptOnce(s \o u) /\ RanNext(s \o u, at, Len(script))
            /\ (Loads(u) => Loads(s \o u))
        BY <3>2, <3>4, <4>1, PrefixedScript
      <4> QED BY <3>1, <4>1, <4>2
    <3> QED BY <2>1, <3>1, <3>5, PatchingKept
  <2>4. CASE EndsScript(t)
    <3>1. Op(t).cmd = "script" /\ at > Len(script) /\ Continues(t, <<>>)
      BY <2>4, LocalSteps DEF EndsScript, Doing, Marks
    <3>2. t = "main" /\ phase = "init"
      BY <2>1, <3>1, PatchIsInit
    <3>3. at = Len(script) + 1
      <4> DEFINE l == Len(script)
      <4>1. l \in Nat /\ at \in 1..(l + 1) /\ at > l
        BY <3>1, ElementsOf DEF Patching
      <4> HIDE DEF l
      <4>2. at = l + 1
        BY <4>1
      <4> QED BY <4>2 DEF l
    <3>4. Changed(t) /\ ScriptOnce(prog'[t]) /\ RanNext(prog'[t], at, Len(script))
      BY <2>1, <2>2, <3>1, <3>2, PassedScript
    <3> QED BY <2>1, <3>2, <3>3, <3>4, PatchingKept
  <2>5. CASE SetsEnabled(t) \/ SetsPacing(t) \/ StoresCell(t) \/ BridgeResult(t)
    <3>1. Continues(t, <<>>) \/ Fails(t)
      BY <2>5, LocalSteps DEF Marks, BridgeResult
    <3>2. Op(t).cmd # "script"
      BY <2>5 DEF SetsEnabled, SetsPacing, StoresCell, BridgeResult, Doing
    <3>3. Changed(t) /\ (t # "main" => aborted'["main"] = aborted["main"])
      <4>1. CASE Fails(t)
        <5>1. Changed(t) /\ aborted' = [aborted EXCEPT ![t] = @ \/ prog[t][1].checked]
          BY <2>1, <4>1, Failed
        <5> QED BY <5>1 DEF Shape, Threads
      <4>2. CASE ~Fails(t)
        BY <2>1, <3>1, <4>2, Passed
      <4> QED BY <4>1, <4>2
    <3>4. ASSUME t = "main", phase = "init"
          PROVE  /\ ScriptOnce(prog'[t]) /\ RanNext(prog'[t], at, Len(script))
                 /\ aborted[t] \/ at = Len(script) + 1 \/ Loads(prog[t])
                      => aborted'[t] \/ at = Len(script) + 1 \/ Loads(prog'[t])
      BY <2>1, <2>2, <3>1, <3>2, <3>4, PassedScript, FailedScript
    <3> QED BY <2>1, <3>3, <3>4, PatchingKept
  <2> QED BY <1>3, <2>3, <2>4, <2>5 DEF Marks
<1> QED BY <1>1, <1>2, <1>3

LEMMA PatchingNext == ASSUME Shape, Patching, [Next]_vars PROVE Patching'
<1>1. CASE UNCHANGED vars
  BY <1>1 DEF Patching, vars, threads, patch
<1>2. CASE InitEnds
  <2>1. phase' # "init" /\ script' = <<>> /\ at' = 1 /\ passed' = {}
    BY <1>2 DEF InitEnds
  <2>2. IsSeq(<<>>) /\ Len(<<>>) = 0
    BY EmptyIsSeq
  <2> QED BY <2>1, <2>2 DEF Patching
<1>3. CASE \E t \in Threads : \E q : StartsWith(t, q)
  <2>1. phase = "ready" /\ phase' = phase /\ script' = script /\ at' = at /\ passed' = passed
    BY <1>3 DEF StartsWith, patch
  <2> QED BY <2>1 DEF Patching
<1>4. ASSUME NEW t \in Threads,
             \/ Sends(t) \/ SendFails(t) \/ Refused(t) \/ AnswerLate(t) \/ TakesAnswer(t)
      PROVE  Patching'
  BY <1>4, PatchingThread
<1>5. ASSUME NEW t \in Threads, Marks(t) \/ PowersDown(t) \/ BridgeResult(t) \/ RunsRecord(t)
      PROVE  Patching'
  BY <1>5, PatchingLocal
<1> QED BY <1>1, <1>2, <1>3, <1>4, <1>5, Steps

(* A board that daemon_cold_init reports ready has its whole patch: each   *)
(* record was run or passed over by its condition.                         *)
THEOREM PatchIsWhole == Spec => []ReadyIsWhole
<1>1. Init => Shape /\ Patching
  BY ShapeInit, PatchingInit
<1>2. Shape /\ Patching /\ [Next]_vars => Shape' /\ Patching'
  BY ShapeNext, PatchingNext
<1>3. Patching => ReadyIsWhole
  <2> SUFFICES ASSUME Patching, phase = "init", prog["main"] = <<>>, ~aborted["main"]
               PROVE  passed = DOMAIN script
    BY DEF ReadyIsWhole
  <2>1. ~Loads(<<>>)
    BY DEF Loads
  <2>2. at = Len(script) + 1 /\ passed = 1..(at - 1) /\ Len(script) \in Nat
        /\ DOMAIN script = 1..Len(script)
    BY <2>1, ElementsOf DEF Patching
  <2> DEFINE l == Len(script)
  <2>3. at = l + 1 /\ l \in Nat
    BY <2>2
  <2> HIDE DEF l
  <2>4. at - 1 = l
    BY <2>3
  <2> QED BY <2>2, <2>4 DEF l
<1> QED BY <1>1, <1>2, <1>3, PTL DEF Spec

-----------------------------------------------------------------------------
(* The command channel.  A reading is only ever the next command after its *)
(* address.                                                                *)
NotRead(q) == q # <<>> => q[1].ops[1].cmd # "read"

LEMMA FreshIsNotRead == ASSUME NEW q, FreshProg(q) PROVE NotRead(q)
<1> SUFFICES ASSUME q # <<>> PROVE q[1].ops[1].cmd # "read"
  BY DEF NotRead
<1>1. 1 \in 1..Len(q)
  BY ElementsOf DEF FreshProg
<1>2. Fresh(q[1])
  BY <1>1 DEF FreshProg
<1>3. q[1].ops # <<>> /\ Addressed(q[1].ops)
  BY <1>2 DEF Fresh, ProcOK
<1> QED BY <1>3 DEF Addressed

LEMMA NextOp ==
  ASSUME Shape', NEW t \in Threads, prog'[t] # <<>>
  PROVE  Op(t)' = prog'[t][1].ops[1]
<1>1. ProgOK(prog'[t])
  BY DEF Shape
<1> QED BY <1>1, FirstIsOK DEF Op

LEMMA PassedHead ==
  ASSUME Shape, NEW t \in Threads, prog[t] # <<>>, Continues(t, <<>>),
         prog'[t] # <<>>, prog'[t][1].ops[1].cmd = "read"
  PROVE  Op(t).cmd = "point" /\ Op(t).reg = prog'[t][1].ops[1].reg
<1>1. ProgOK(prog[t]) /\ Op(t) = prog[t][1].ops[1] /\ Fitting(prog[t][1].ops)
      /\ prog[t][1].ops # <<>>
  BY HeadIs, FirstIsOK
<1> DEFINE q == prog[t]  n == prog'[t]  u == Tail(prog[t][1].ops)
<1>2. Advanced(q, n, u)
  BY Passed
<1>3. /\ IsSeq(u) /\ Len(q[1].ops) \in Nat \ {0} /\ Len(u) = Len(q[1].ops) - 1
      /\ \A k \in 1..Len(u) : k + 1 \in 2..Len(q[1].ops) /\ u[k] = q[1].ops[k + 1]
  BY <1>1, TailFits
<1> HIDE DEF q, n, u
<1>4. ProgOK(q) /\ q # <<>>
  BY <1>1 DEF q
<1>5. CASE u # <<>> /\ Became(q, n, u)
  <2>1. n[1] = [q[1] EXCEPT !.ops = u] /\ ProcOK(q[1])
    BY <1>4, <1>5, FirstIsOK DEF Became
  <2>2. n[1].ops = u
    BY <2>1, FirstOf
  <2>3. 1 \in 1..Len(u)
    BY <1>3, <1>5, ElementsOf
  <2>4. 1 + 1 \in 2..Len(q[1].ops) /\ u[1] = q[1].ops[1 + 1]
    BY <2>3, <1>3
  <2>5. 2 \in 2..Len(q[1].ops) /\ u[1] = q[1].ops[2]
    BY <2>4
  <2>6. Follows(q[1].ops[2 - 1], q[1].ops[2])
    BY <2>5, <1>1 DEF Fitting, Linked, q
  <2>7. Follows(q[1].ops[1], u[1]) /\ u[1] = prog'[t][1].ops[1]
    BY <2>2, <2>5, <2>6 DEF n
  <2> QED BY <2>7, <1>1 DEF Follows, q
<1>6. CASE \E d \in 1..2 : Dropped(q, n, d)
  <2>1. FreshProg(n)
    BY <1>4, <1>6, DroppedIsOK
  <2>2. NotRead(n)
    BY <2>1, FreshIsNotRead
  <2> QED BY <2>2 DEF NotRead, n
<1> QED BY <1>2, <1>5, <1>6 DEF Advanced

LEMMA InsertedHead ==
  ASSUME Shape, NEW t \in Threads, prog[t] # <<>>, NEW x, Inserted(t, x)
  PROVE  NotRead(prog'[t])
<1>1. /\ Op(t).cmd = "read" /\ Fitting(x) /\ x # <<>> /\ Addressed(x)
      /\ (\A k \in 1..Len(x) : OnBus(x[k])) /\ Continues(t, x)
  BY DEF Inserted
<1> DEFINE u == Tail(prog[t][1].ops)  left == x \o u
<1>2. Became(prog[t], prog'[t], left) /\ ProgOK(prog[t])
  BY <1>1, InsertedIsKept, HeadIs
<1>3. Fitting(u) /\ IsSeq(u) /\ IsSeq(x) /\ Len(x) \in Nat \ {0}
  BY <1>1, <1>2, FirstIsOK, TailFits, ElementsOf DEF Fitting, Linked
<1> HIDE DEF u
<1>4. left[1] = x[1]
  <2>1. 1 \in 1..Len(x)
    BY <1>3
  <2> QED BY <2>1, <1>3, Concatenated
<1> HIDE DEF left
<1>5. prog'[t][1] = [prog[t][1] EXCEPT !.ops = left] /\ ProcOK(prog[t][1])
  BY <1>2, FirstIsOK DEF Became
<1>6. prog'[t][1].ops = left
  BY <1>5, FirstOf
<1> QED BY <1>1, <1>4, <1>6 DEF Addressed, NotRead

(* The answers under way.                                                  *)
LEMMA Goes ==
  ASSUME Shape, NEW t \in Threads, ~sent[t], sent' = [sent EXCEPT ![t] = TRUE]
  PROVE  InFlight' = InFlight + 1 /\ InFlight \in Nat
  BY DEF InFlight, Count, Shape, Threads

LEMMA Comes ==
  ASSUME Shape, NEW t \in Threads, sent[t], sent' = [sent EXCEPT ![t] = FALSE]
  PROVE  InFlight' = InFlight - 1 /\ InFlight \in Nat \ {0}
  BY DEF InFlight, Count, Shape, Threads

(* Alone, no other thread has sent anything.                               *)
LEMMA RunsAlone ==
  ASSUME Shape, OneRuns, NEW t \in Threads, ~beside, prog[t] # <<>>
  PROVE  /\ \A u \in Threads : u # t => prog[u] = <<>> /\ ~sent[u]
         /\ InFlight = Count(sent[t])
         /\ phase = "init" => t = "main"
<1>1. \A u \in Threads : u # t => prog[u] = <<>>
  BY DEF OneRuns, Threads
<1>2. \A u \in Threads : u # t => ~sent[u]
  BY <1>1 DEF Shape
<1>3. phase = "init" => t = "main"
  BY DEF OneRuns, Threads
<1>4. InFlight = Count(sent[t])
  <2>1. CASE t = "main"
    <3>1. ~sent["tuner"]
      BY <1>2, <2>1 DEF Threads
    <3> QED BY <2>1, <3>1 DEF InFlight, Count
  <2>2. CASE t = "tuner"
    <3>1. ~sent["main"]
      BY <1>2, <2>2 DEF Threads
    <3> QED BY <2>2, <3>1 DEF InFlight, Count
  <2> QED BY <2>1, <2>2 DEF Threads
<1> QED BY <1>1, <1>2, <1>3, <1>4

LEMMA Appended ==
  ASSUME NEW s, IsSeq(s), NEW x
  PROVE  /\ IsSeq(Append(s, x)) /\ Len(Append(s, x)) = Len(s) + 1 /\ Len(s) \in Nat
         /\ Append(s, x)[Len(s) + 1] = x
         /\ \A i \in 1..Len(s) : Append(s, x)[i] = s[i]
<1> DEFINE S == Range(s) \union {x}
<1>1. s \in Seq(S) /\ x \in S
  BY DEF IsSeq
<1>2. Append(s, x) \in Seq(S)
  BY <1>1
<1>3. IsSeq(Append(s, x))
  BY <1>2, SeqIsSeq
<1> HIDE DEF S
<1> QED BY <1>1, <1>3

LEMMA ChannelInit == Init => Channel
<1> SUFFICES ASSUME Init PROVE Channel
  OBVIOUS
<1>1. /\ phase = "init" /\ sent = [t \in Threads |-> FALSE] /\ answers = <<>>
      /\ aborted = [t \in Threads |-> FALSE] /\ ~sticky /\ beside = FALSE
      /\ wrong = FALSE /\ mistook = FALSE
      /\ faults = 0 /\ late = 0
  BY DEF Init
<1>2. prog["tuner"] = <<>>
  BY InitialProg
<1>3. NotRead(prog["main"])
  BY InitialProg, FreshIsNotRead
<1>4. "main" \in Threads /\ "tuner" \in Threads /\ \A t \in Threads : t = "main" \/ t = "tuner"
  BY DEF Threads
<1>5. Queue
  <2>1. InFlight = 0
    BY <1>1, <1>4 DEF InFlight, Count
  <2> QED BY <1>1, <2>1, EmptyIsSeq, ElementsOf, BoundsAssumption DEF Queue
<1>6. OneRuns /\ Blamed /\ OwnValue
  BY <1>1, <1>2, <1>4 DEF OneRuns, Blamed, OwnValue
<1>7. ASSUME NEW t \in Threads PROVE Meets(t)
  <2>1. ~sent[t] /\ late = 0 /\ (prog[t] # <<>> => t = "main")
    BY <1>1, <1>2, <1>4
  <2>2. prog[t] # <<>> => Op(t).cmd # "read"
    <3>1. prog["main"] # <<>> => ProgOK(prog["main"])
      BY InitialProg, FreshIsOK
    <3>2. prog["main"] # <<>> => Op("main") = prog["main"][1].ops[1]
      BY <3>1, OpIs
    <3> QED BY <2>1, <3>2, <1>3 DEF NotRead
  <2> QED BY <2>1, <2>2 DEF Meets, Alone, OneLate
<1> QED BY <1>5, <1>6, <1>7 DEF Channel

(* A step of one thread: the others wait, or have nothing to do.           *)
LEMMA ChannelThread ==
  ASSUME Shape, Channel, NEW t \in Threads, prog[t] # <<>>,
         \A u \in Threads : u # t => /\ prog'[u] = prog[u]
                                     /\ aborted'[u] = aborted[u],
         phase' = phase, beside' = beside, wrong' \in BOOLEAN, mistook' \in BOOLEAN,
         Queue', faults <= faults',
         phase = "init" => (aborted'[t] => aborted[t] \/ faults' > 0)
                             /\ (sticky' => sticky \/ faults' > 0),
         Meets(t)', OwnValue'
  PROVE  Channel'
<1>1. OneRuns'
  BY DEF Channel, OneRuns, Threads
<1>2. Blamed'
  <2>1. faults \in Nat /\ faults' \in Nat
    BY DEF Channel, Queue
  <2>2. phase = "init" => t = "main"
    BY DEF Channel, OneRuns, Threads
  <2>3. CASE phase = "init"
    <3>1. aborted'["main"] => aborted["main"] \/ faults' > 0
      BY <2>2, <2>3
    <3> QED BY <2>1, <2>3, <3>1 DEF Blamed, Channel
  <2>4. CASE phase # "init"
    BY <2>1, <2>4 DEF Blamed, Channel
  <2> QED BY <2>3, <2>4
<1>3. ASSUME NEW u \in Threads, u # t PROVE Meets(u)'
  <2>1. beside' \/ prog'[u] = <<>>
    BY <1>3 DEF Channel, OneRuns, Threads
  <2> QED BY <2>1 DEF Meets, Alone, OneLate
<1>4. \A u \in Threads : Meets(u)'
  BY <1>3
<1> QED BY <1>1, <1>2, <1>4 DEF Channel

(* A thread whose next command is not a reading, with nothing under way.   *)
LEMMA MeetsNothing ==
  ASSUME Shape', NEW t \in Threads, ~sent'[t], NotRead(prog'[t])
  PROVE  Meets(t)'
<1>1. prog'[t] # <<>> => Op(t)'.cmd # "read"
  BY NextOp DEF NotRead
<1> QED BY <1>1 DEF Meets, Alone, OneLate

LEMMA FailedHead ==
  ASSUME Shape, NEW t \in Threads, prog[t] # <<>>, Fails(t)
  PROVE  /\ NotRead(prog'[t]) /\ Changed(t)
         /\ \A u \in Threads : u # t => aborted'[u] = aborted[u]
         /\ aborted'[t] => aborted[t] \/ prog[t][1].checked
         /\ sticky' => sticky \/ prog[t][1].sticks
<1>1. /\ Changed(t) /\ FreshProg(prog'[t])
      /\ aborted' = [aborted EXCEPT ![t] = @ \/ prog[t][1].checked]
      /\ sticky' = (sticky \/ prog[t][1].sticks)
  BY Failed
<1> DEFINE c == prog[t][1].checked
<1> HIDE DEF c
<1>2. aborted' = [aborted EXCEPT ![t] = @ \/ c] /\ DOMAIN aborted = Threads
  BY <1>1 DEF c, Shape
<1>3. aborted'[t] = (aborted[t] \/ c) /\ \A u \in Threads : u # t => aborted'[u] = aborted[u]
  BY <1>2, Zenon
<1> QED BY <1>1, <1>3, FreshIsNotRead DEF c

(* Sending: a thread that runs alone with no answer left over finds its    *)
(* own at the head of the queue.                                           *)
LEMMA ChannelSends ==
  ASSUME Shape, Shape', Channel, NEW t \in Threads, Sends(t) PROVE Channel'
<1>1. /\ Sending(t) /\ Computes(t) /\ Reaches(t) /\ prog[t] # <<>> /\ ~sent[t]
      /\ Op(t).cmd \notin LocalOps /\ phase' = phase /\ beside' = beside
      /\ mistakes' = mistakes /\ faults' = faults /\ late' = late
  BY DEF Sends, Sending, above
<1>2. OwnValue' /\ wrong' \in BOOLEAN /\ mistook' \in BOOLEAN /\ faults \in Nat /\ faults <= faults'
  BY <1>1 DEF OwnValue, Channel, OneRuns, Queue, mistakes
<1>3. CASE Op(t).cmd \in Unanswered
  <2>1. /\ Continues(t, <<>>) /\ sent' = sent /\ answers' = answers /\ Op(t).cmd = "fw_dl"
    BY <1>3 DEF Sends, Unanswered, Silent, BridgeAnswers
  <2>2. Changed(t) /\ aborted' = aborted /\ sticky' = sticky
    BY <1>1, <2>1, Passed
  <2>3. NotRead(prog'[t])
    BY <1>1, <2>1, PassedHead DEF NotRead
  <2>4. Queue'
    BY <1>1, <2>1 DEF Queue, Channel, InFlight
  <2>5. Meets(t)'
    BY <1>1, <2>1, <2>3, MeetsNothing
  <2> QED BY <1>1, <1>2, <2>2, <2>4, <2>5, ChannelThread DEF Changed
<1>4. CASE Op(t).cmd \notin Unanswered
  <2> DEFINE a == Answer(Op(t))
  <2>1. /\ sent' = [sent EXCEPT ![t] = TRUE] /\ prog' = prog /\ aborted' = aborted
        /\ sticky' = sticky /\ answers' = Append(answers, a)
    BY <1>4 DEF Sends, Unanswered, Silent, BridgeAnswers
  <2>2. a.len = AnswerLength(Op(t)) /\ a.ok = TRUE
        /\ (Op(t).cmd = "read" => a.of = pointer) /\ (Op(t).cmd = "memread" => a.of = Op(t).reg)
    BY DEF Answer, ValueOf
  <2> HIDE DEF a
  <2>3. /\ IsSeq(answers') /\ Len(answers') = Len(answers) + 1 /\ Len(answers) \in Nat
        /\ answers'[Len(answers) + 1] = a
        /\ \A i \in 1..Len(answers) : answers'[i] = answers[i]
    BY <2>1, Appended DEF Channel, Queue
  <2>4. Queue'
    <3>1. InFlight' = InFlight + 1 /\ InFlight \in Nat
      BY <1>1, <2>1, Goes
    <3> QED BY <1>1, <2>3, <3>1 DEF Queue, Channel
  <2>5. Meets(t)'
    <3>1. sent'[t] /\ Op(t)' = Op(t)
      BY <2>1 DEF Op, Shape
    <3>2. ~beside => Len(answers) = late
      <4>1. ~beside => InFlight = 0
        BY <1>1, RunsAlone DEF Count, Channel
      <4> QED BY <4>1 DEF Queue, Channel
    <3>3. late \in Nat /\ Meets(t)
      BY DEF Channel, Queue
    <3>4. CASE late = 0 /\ ~beside
      <4>1. answers'[1] = a
        BY <2>3, <3>2, <3>4
      <4>2. Op(t).cmd = "read" => pointer = Op(t).reg
        BY <1>1, <3>3, <3>4 DEF Meets, Alone
      <4>3. Op(t).cmd = "point" => pointer' = Op(t).reg
        BY <1>1 DEF Reaches
      <4> QED BY <1>1, <2>1, <2>2, <3>1, <3>4, <4>1, <4>2, <4>3 DEF Meets, Alone, OneLate
    <3>5. CASE late = 1 /\ ~beside
      <4>1. answers'[1] = answers[1] /\ answers'[2] = a
        <5>1. Len(answers) = 1
          BY <3>2, <3>5
        <5>2. 1 \in 1..Len(answers) /\ Len(answers) + 1 = 2
          BY <5>1
        <5>3. answers'[2] = a
          BY <5>2, <2>3
        <5> QED BY <5>2, <5>3, <2>3
      <4>2. Op(t).cmd = "read" => answers[1].len = 0
        BY <1>1, <3>3, <3>5 DEF Meets, OneLate
      <4>3. Op(t).cmd = "point" => a.len = 0
        BY <2>2 DEF AnswerLength
      <4> QED BY <1>1, <2>1, <3>1, <3>5, <4>1, <4>2, <4>3 DEF Meets, Alone, OneLate
    <3>6. CASE (late # 0 /\ late # 1) \/ beside
      BY <1>1, <3>6 DEF Meets, Alone, OneLate
    <3> QED BY <3>4, <3>5, <3>6
  <2> QED BY <1>1, <1>2, <2>1, <2>4, <2>5, ChannelThread
<1> QED BY <1>3, <1>4

(* A failure: the program goes on with a procedure that has not begun.     *)
LEMMA ChannelSendFails ==
  ASSUME Shape, Shape', Channel, NEW t \in Threads, SendFails(t) PROVE Channel'
<1>1. /\ prog[t] # <<>> /\ ~sent[t] /\ Fails(t) /\ sent' = sent /\ answers' = answers
      /\ phase' = phase /\ beside' = beside /\ mistakes' = mistakes /\ late' = late
      /\ faults < MaxFaults /\ faults' = faults + 1
  BY DEF SendFails, Sending, Fault, above
<1>2. /\ NotRead(prog'[t]) /\ Changed(t)
      /\ \A u \in Threads : u # t => aborted'[u] = aborted[u]
  BY <1>1, FailedHead
<1>3. late \in Nat /\ faults \in Nat /\ MaxFaults \in Nat
  BY BoundsAssumption DEF Channel, Queue
<1>4. Queue' /\ faults' > 0 /\ faults <= faults'
  BY <1>1, <1>3 DEF Queue, Channel, InFlight
<1>5. OwnValue' /\ wrong' \in BOOLEAN /\ mistook' \in BOOLEAN
  BY <1>1 DEF OwnValue, Channel, OneRuns, mistakes
<1>6. Meets(t)'
  BY <1>1, <1>2, MeetsNothing
<1> QED BY <1>1, <1>2, <1>4, <1>5, <1>6, ChannelThread DEF Changed

LEMMA ChannelLate ==
  ASSUME Shape, Shape', Channel, NEW t \in Threads, AnswerLate(t) PROVE Channel'
<1>1. /\ sent[t] /\ prog[t] # <<>> /\ Fails(t) /\ sent' = [sent EXCEPT ![t] = FALSE]
      /\ answers' = answers /\ phase' = phase /\ beside' = beside /\ mistakes' = mistakes
      /\ late' = late + 1 /\ faults < MaxFaults /\ faults' = faults + 1
  BY DEF AnswerLate, Fault, above, Shape
<1>2. /\ NotRead(prog'[t]) /\ Changed(t)
      /\ \A u \in Threads : u # t => aborted'[u] = aborted[u]
  BY <1>1, FailedHead
<1>3. late \in Nat /\ faults \in Nat /\ MaxFaults \in Nat
  BY BoundsAssumption DEF Channel, Queue
<1>4. InFlight' = InFlight - 1 /\ InFlight \in Nat \ {0}
  BY <1>1, Comes
<1>5. Queue' /\ faults' > 0 /\ faults <= faults'
  BY <1>1, <1>3, <1>4 DEF Queue, Channel
<1>6. OwnValue' /\ wrong' \in BOOLEAN /\ mistook' \in BOOLEAN
  BY <1>1, <1>3 DEF OwnValue, Channel, OneRuns, mistakes
<1>7. ~sent'[t]
  BY <1>1 DEF Shape
<1>8. Meets(t)'
  BY <1>2, <1>7, MeetsNothing
<1> QED BY <1>1, <1>2, <1>5, <1>6, <1>8, ChannelThread DEF Changed

LEMMA ChannelRefused ==
  ASSUME Shape, Shape', Channel, NEW t \in Threads, Refused(t) PROVE Channel'
<1> DEFINE a == [len |-> 0, ok |-> FALSE, of |-> ""]
<1>1. /\ prog[t] # <<>> /\ ~sent[t] /\ sent' = [sent EXCEPT ![t] = TRUE] /\ prog' = prog
      /\ answers' = Append(answers, a) /\ aborted' = aborted /\ sticky' = sticky
      /\ phase' = phase /\ beside' = beside /\ mistakes' = mistakes /\ late' = late
      /\ pointer' = pointer /\ faults < MaxFaults /\ faults' = faults + 1
  BY DEF Refused, Sending, Fault, above, device
<1>2. a.len = 0 /\ a.ok = FALSE
  OBVIOUS
<1> HIDE DEF a
<1>3. /\ IsSeq(answers') /\ Len(answers') = Len(answers) + 1 /\ Len(answers) \in Nat
      /\ answers'[Len(answers) + 1] = a
      /\ \A i \in 1..Len(answers) : answers'[i] = answers[i]
  BY <1>1, Appended DEF Channel, Queue
<1>4. late \in Nat /\ faults \in Nat /\ MaxFaults \in Nat
  BY BoundsAssumption DEF Channel, Queue
<1>5. InFlight' = InFlight + 1 /\ InFlight \in Nat
  BY <1>1, Goes
<1>6. Queue' /\ faults' > 0 /\ faults <= faults'
  BY <1>1, <1>3, <1>4, <1>5 DEF Queue, Channel
<1>7. OwnValue' /\ wrong' \in BOOLEAN /\ mistook' \in BOOLEAN
  BY <1>1 DEF OwnValue, Channel, OneRuns, mistakes
<1>8. Meets(t)'
  <2>1. sent'[t] /\ Op(t)' = Op(t)
    BY <1>1 DEF Op, Shape
  <2>2. ~beside => Len(answers) = late
    <3>1. ~beside => InFlight = 0
      BY <1>1, RunsAlone DEF Count, Channel
    <3> QED BY <3>1 DEF Queue, Channel
  <2>3. CASE late = 0 /\ ~beside
    <3>1. answers'[1] = a
      BY <1>3, <2>2, <2>3
    <3> QED BY <1>1, <1>2, <1>6, <2>1, <2>3, <3>1 DEF Meets, Alone, OneLate
  <2>4. CASE late = 1 /\ ~beside
    <3>1. Len(answers) = 1
      BY <2>2, <2>4
    <3>2. 1 \in 1..Len(answers) /\ Len(answers) + 1 = 2
      BY <3>1
    <3>3. answers'[1] = answers[1] /\ answers'[2] = a
      BY <1>3, <3>2
    <3>4. Op(t).cmd = "read" => answers[1].len = 0
      BY <1>1, <2>4 DEF Meets, OneLate, Channel
    <3> QED BY <1>1, <1>2, <2>1, <2>4, <3>3, <3>4 DEF Meets, Alone, OneLate
  <2>5. CASE (late # 0 /\ late # 1) \/ beside
    BY <1>1, <2>5 DEF Meets, Alone, OneLate
  <2> QED BY <2>3, <2>4, <2>5
<1> QED BY <1>1, <1>6, <1>7, <1>8, ChannelThread

(* Taking: what the thread accepts, when it runs alone, is its own.        *)
LEMMA ReadsAreLong == \A op : op.cmd = "read" => AnswerLength(op) # 0
  BY DEF AnswerLength, Width

LEMMA AcceptedIsOwn ==
  ASSUME Shape, Channel, NEW t \in Threads, Accepted(t), ~beside
  PROVE  /\ Op(t).cmd = "read" => late # 1
         /\ late = 0 => /\ Op(t).cmd \in {"read", "memread"} =>
                             Head(answers).of = Op(t).reg
                        /\ Op(t).cmd = "point" => pointer = Op(t).reg
<1>1. /\ sent[t] /\ prog[t] # <<>> /\ answers # <<>> /\ Head(answers).ok
      /\ Head(answers).len = AnswerLength(Op(t))
  BY DEF Accepted, Arrived, Accepts, Shape
<1>2. Head(answers) = answers[1] /\ Meets(t)
  BY <1>1, Tailed DEF Channel, Queue
<1> QED BY <1>1, <1>2, ReadsAreLong DEF Meets, Alone, OneLate

LEMMA RefusedIsBlamed ==
  ASSUME Shape, Channel, NEW t \in Threads, Arrived(t), ~Accepts(Head(answers), Op(t)), ~beside
  PROVE  faults > 0
<1>1. sent[t] /\ prog[t] # <<>> /\ answers # <<>>
  BY DEF Arrived, Shape
<1>2. Head(answers) = answers[1] /\ Meets(t) /\ late \in Nat /\ faults \in Nat /\ late <= faults
  BY <1>1, Tailed DEF Channel, Queue
<1>3. CASE late = 0
  BY <1>1, <1>2, <1>3 DEF Meets, Alone, Accepts
<1>4. CASE late # 0
  BY <1>2, <1>4
<1> QED BY <1>3, <1>4

LEMMA ValuedIsOwn ==
  ASSUME Shape, Channel, NEW t \in Threads, Accepted(t),
         \/ Op(t).cmd = "read" /\ Valued(t)
         \/ Op(t).cmd = "memread" /\ BridgeValued(t),
         late' = late, beside' = beside
  PROVE  OwnValue' /\ wrong' \in BOOLEAN /\ mistook' \in BOOLEAN
<1>1. late \in Nat /\ wrong \in BOOLEAN /\ mistook \in BOOLEAN /\ OwnValue
  BY DEF Channel, OneRuns, Queue
<1>2. ~beside => (Op(t).cmd = "read" => late # 1) /\ (late = 0 => ~Foreign(t))
  BY AcceptedIsOwn DEF Foreign
<1>3. CASE Op(t).cmd = "read" /\ Valued(t)
  <2>1. wrong' = (wrong \/ Foreign(t)) /\ mistook' = mistook
    BY <1>3 DEF Valued
  <2>2. Foreign(t) => late > 1 \/ beside
    BY <1>1, <1>2, <1>3
  <2>3. wrong' \in BOOLEAN /\ (wrong' => late > 1 \/ beside)
    BY <1>1, <2>1, <2>2 DEF OwnValue
  <2> QED BY <1>1, <2>1, <2>3 DEF OwnValue
<1>4. CASE Op(t).cmd = "memread" /\ BridgeValued(t)
  <2>1. mistook' = (mistook \/ Foreign(t)) /\ wrong' = wrong
    BY <1>4 DEF BridgeValued
  <2>2. Foreign(t) => late > 0 \/ beside
    BY <1>1, <1>2
  <2>3. mistook' \in BOOLEAN /\ (mistook' => late > 0 \/ beside)
    BY <1>1, <2>1, <2>2 DEF OwnValue
  <2> QED BY <1>1, <2>1, <2>3 DEF OwnValue
<1> QED BY <1>3, <1>4

(* Whether an answer is taken well or not.                                 *)
LEMMA Outcome ==
  ASSUME Shape, Channel, NEW t \in Threads, TakesAnswer(t)
  PROVE  /\ OwnValue' /\ wrong' \in BOOLEAN /\ mistook' \in BOOLEAN
         /\ faults' = faults \/ (faults < MaxFaults /\ faults' = faults + 1)
         /\ \/ /\ Fails(t)
               /\ phase = "init" /\ (prog[t][1].checked \/ prog[t][1].sticks) => faults' > 0
            \/ Continues(t, <<>>) /\ (Op(t).cmd = "point" => Accepted(t))
            \/ \E x : Inserted(t, x)
<1>1. /\ late' = late /\ beside' = beside /\ sent[t] /\ prog[t] # <<>>
      /\ Fails(t) \/ Continues(t, <<>>) \/ \E x : Inserted(t, x)
  BY Answered
<1>2. OwnValue /\ wrong \in BOOLEAN /\ mistook \in BOOLEAN /\ faults \in Nat
  BY DEF Channel, OneRuns, Queue
<1>3. CASE TakesRefusal(t)
  <2>1. /\ Arrived(t) /\ ~Accepts(Head(answers), Op(t)) /\ Fails(t) /\ mistakes' = mistakes
        /\ faults' = faults
    BY <1>3 DEF TakesRefusal
  <2>2. phase = "init" => ~beside
    BY DEF Channel, OneRuns
  <2>3. phase = "init" => faults' > 0
    BY <2>1, <2>2, RefusedIsBlamed
  <2> QED BY <1>1, <1>2, <2>1, <2>3 DEF OwnValue, mistakes
<1>4. CASE TakesAck(t)
  <2>1. Accepted(t) /\ Continues(t, <<>>) /\ mistakes' = mistakes /\ faults' = faults
    BY <1>4 DEF TakesAck
  <2> QED BY <1>1, <1>2, <2>1 DEF OwnValue, mistakes
<1>5. CASE TakesBridgeValue(t)
  <2>1. OwnValue' /\ wrong' \in BOOLEAN /\ mistook' \in BOOLEAN
    <3>1. Accepted(t) /\ Op(t).cmd = "memread" /\ BridgeValued(t)
      BY <1>5 DEF TakesBridgeValue
    <3> QED BY <1>1, <3>1, ValuedIsOwn
  <2>2. \/ Continues(t, <<>>) /\ faults' = faults
        \/ /\ Op(t).reg = "FW_VERSION" /\ Fails(t)
           /\ IF Head(prog[t]).checked THEN Fault ELSE NoFault
    BY <1>5 DEF TakesBridgeValue, NoFault
  <2>3. CASE Continues(t, <<>>) /\ faults' = faults
    BY <1>5, <2>1, <2>3 DEF TakesBridgeValue
  <2>4. CASE /\ Op(t).reg = "FW_VERSION" /\ Fails(t)
             /\ IF Head(prog[t]).checked THEN Fault ELSE NoFault
    <3>1. ProgOK(prog[t])
      BY DEF Shape
    <3>2. /\ ProcOK(prog[t][1]) /\ Head(prog[t]) = prog[t][1] /\ 1 \in 1..Len(prog[t][1].ops)
          /\ Op(t) = prog[t][1].ops[1]
      BY <1>1, <3>1, FirstIsOK, OpIs
    <3>3. ~prog[t][1].sticks
      BY <2>4, <3>2 DEF ProcOK
    <3>4. faults' = faults \/ (faults < MaxFaults /\ faults' = faults + 1)
      BY <2>4 DEF Fault, NoFault
    <3>5. prog[t][1].checked => faults' > 0
      BY <2>4, <3>2, <1>2 DEF Fault
    <3> QED BY <2>1, <2>4, <3>3, <3>4, <3>5
  <2> QED BY <2>2, <2>3, <2>4
<1>6. CASE TakesValue(t) \/ TakesControl(t) \/ TakesCell(t)
  <2>1. Accepted(t) /\ Op(t).cmd = "read" /\ Valued(t) /\ faults' = faults
    BY <1>6 DEF TakesValue, TakesControl, TakesCell
  <2>2. OwnValue' /\ wrong' \in BOOLEAN /\ mistook' \in BOOLEAN
    BY <1>1, <2>1, ValuedIsOwn
  <2>3. Continues(t, <<>>) \/ \E x : Inserted(t, x)
    BY <1>1, <1>6, ControlInserts DEF TakesValue, TakesCell
  <2> QED BY <2>1, <2>2, <2>3
<1>7. CASE TakesPoll(t)
  <2>1. Accepted(t) /\ Op(t).cmd = "read" /\ Valued(t)
    BY <1>7 DEF TakesPoll
  <2>2. OwnValue' /\ wrong' \in BOOLEAN /\ mistook' \in BOOLEAN
    BY <1>1, <2>1, ValuedIsOwn
  <2>3. \/ Continues(t, <<>>) /\ faults' = faults
        \/ /\ Continues(t, <<Point(Op(t).reg), Rd(Op(t).reg, "poll", Op(t).polls - 1)>>)
           /\ faults' = faults
        \/ Fails(t) /\ faults < MaxFaults /\ faults' = faults + 1
    BY <1>7 DEF TakesPoll, Fault, NoFault
  <2>4. CASE /\ Continues(t, <<Point(Op(t).reg), Rd(Op(t).reg, "poll", Op(t).polls - 1)>>)
             /\ faults' = faults
    <3> DEFINE x == <<Point(Op(t).reg), Rd(Op(t).reg, "poll", Op(t).polls - 1)>>
    <3>1. Fitting(x) /\ x # <<>> /\ Addressed(x) /\ \A k \in 1..Len(x) : OnBus(x[k])
      BY PollAgain
    <3>2. Continues(t, x)
      BY <2>4
    <3> HIDE DEF x
    <3>3. Inserted(t, x)
      BY <2>1, <3>1, <3>2 DEF Inserted
    <3> QED BY <2>2, <2>4, <3>3
  <2>5. CASE Fails(t) /\ faults < MaxFaults /\ faults' = faults + 1
    BY <1>2, <2>2, <2>5
  <2>6. CASE Continues(t, <<>>) /\ faults' = faults
    BY <2>1, <2>2, <2>6
  <2> QED BY <2>3, <2>4, <2>5, <2>6
<1> QED BY <1>3, <1>4, <1>5, <1>6, <1>7 DEF TakesAnswer

LEMMA ChannelAnswers ==
  ASSUME Shape, Shape', Channel, NEW t \in Threads, TakesAnswer(t) PROVE Channel'
<1>1. /\ sent[t] /\ prog[t] # <<>> /\ answers # <<>> /\ answers' = Tail(answers)
      /\ sent' = [sent EXCEPT ![t] = FALSE] /\ phase' = phase /\ pointer' = pointer
      /\ beside' = beside /\ late' = late
  BY Answered
<1>2. /\ OwnValue' /\ wrong' \in BOOLEAN /\ mistook' \in BOOLEAN
      /\ faults' = faults \/ (faults < MaxFaults /\ faults' = faults + 1)
      /\ \/ /\ Fails(t)
            /\ phase = "init" /\ (prog[t][1].checked \/ prog[t][1].sticks) => faults' > 0
         \/ Continues(t, <<>>) /\ (Op(t).cmd = "point" => Accepted(t))
         \/ \E x : Inserted(t, x)
  BY Outcome
<1>3. /\ IsSeq(answers) /\ late \in Nat /\ faults \in Nat /\ MaxFaults \in Nat
      /\ late <= faults /\ faults <= MaxFaults /\ Len(answers) = late + InFlight
  BY BoundsAssumption DEF Channel, Queue
<1>4. /\ IsSeq(Tail(answers)) /\ Len(Tail(answers)) = Len(answers) - 1
      /\ \A i \in 1..(Len(answers) - 1) : Tail(answers)[i] = answers[i + 1]
  BY <1>1, <1>3, Tailed
<1>5. InFlight' = InFlight - 1 /\ InFlight \in Nat \ {0}
  BY <1>1, Comes
<1>6. Queue' /\ faults <= faults'
  <2>1. faults' \in Nat /\ late <= faults' /\ faults' <= MaxFaults /\ faults <= faults'
    BY <1>2, <1>3
  <2>2. Len(answers') = late + InFlight'
    BY <1>1, <1>3, <1>4, <1>5
  <2> QED BY <1>1, <1>3, <1>4, <2>1, <2>2 DEF Queue
<1>7. ~sent'[t]
  BY <1>1 DEF Shape
<1>8. CASE /\ Fails(t)
           /\ phase = "init" /\ (prog[t][1].checked \/ prog[t][1].sticks) => faults' > 0
  <2>1. /\ NotRead(prog'[t]) /\ Changed(t)
        /\ \A u \in Threads : u # t => aborted'[u] = aborted[u]
        /\ aborted'[t] => aborted[t] \/ prog[t][1].checked
        /\ sticky' => sticky \/ prog[t][1].sticks
    BY <1>1, <1>8, FailedHead
  <2>2. Meets(t)'
    BY <1>7, <2>1, MeetsNothing
  <2> QED BY <1>1, <1>2, <1>6, <1>8, <2>1, <2>2, ChannelThread DEF Changed
<1>9. CASE \E x : Inserted(t, x)
  <2>1. PICK x : Inserted(t, x)
    BY <1>9
  <2>2. Changed(t) /\ aborted' = aborted /\ sticky' = sticky
    BY <1>1, <2>1, InsertedIsKept DEF Inserted, Kept
  <2>3. Meets(t)'
    BY <1>1, <1>7, <2>1, InsertedHead, MeetsNothing
  <2> QED BY <1>1, <1>2, <1>6, <2>2, <2>3, ChannelThread DEF Changed
<1>10. CASE Continues(t, <<>>) /\ (Op(t).cmd = "point" => Accepted(t))
  <2>1. Changed(t) /\ aborted' = aborted /\ sticky' = sticky
    BY <1>1, <1>10, Passed
  <2>2. CASE NotRead(prog'[t])
    <3>1. Meets(t)'
      BY <1>7, <2>2, MeetsNothing
    <3> QED BY <1>1, <1>2, <1>6, <2>1, <3>1, ChannelThread DEF Changed
  <2>3. CASE ~NotRead(prog'[t])
    <3>1. prog'[t] # <<>> /\ prog'[t][1].ops[1].cmd = "read"
      BY <2>3 DEF NotRead
    <3>2. Op(t).cmd = "point" /\ Op(t).reg = prog'[t][1].ops[1].reg
      BY <1>1, <1>10, <3>1, PassedHead
    <3>3. Op(t)' = prog'[t][1].ops[1]
      BY <3>1, NextOp
    <3>4. Alone(t)' => pointer' = Op(t).reg
      <4>1. Alone(t)' => late = 0 /\ ~beside
        BY <1>1 DEF Alone
      <4> QED BY <1>1, <1>10, <3>2, <4>1, AcceptedIsOwn
    <3>5. OneLate(t)' => answers'[1].len = 0
      <4> SUFFICES ASSUME OneLate(t)' PROVE answers'[1].len = 0
        OBVIOUS
      <4>1. late = 1 /\ ~beside
        BY <1>1 DEF OneLate
      <4>2. answers[2].len = 0
        BY <1>1, <3>2, <4>1 DEF Meets, OneLate, Channel
      <4>3. InFlight = 1
        BY <1>1, <4>1, RunsAlone DEF Count, Channel
      <4>4. Len(answers) - 1 = 1
        BY <1>3, <4>1, <4>3
      <4>5. 1 \in 1..(Len(answers) - 1) /\ 1 + 1 = 2
        BY <4>4
      <4>6. Tail(answers)[1] = answers[1 + 1]
        BY <4>5, <1>4
      <4> QED BY <1>1, <4>2, <4>5, <4>6
    <3>6. Meets(t)'
      <4>1. ~sent'[t] /\ Op(t)'.cmd = "read" /\ Op(t)'.reg = Op(t).reg
        BY <1>7, <3>1, <3>2, <3>3
      <4> QED BY <4>1, <3>4, <3>5 DEF Meets
    <3> QED BY <1>1, <1>2, <1>6, <2>1, <3>6, ChannelThread DEF Changed
  <2> QED BY <2>2, <2>3
<1> QED BY <1>2, <1>8, <1>9, <1>10

LEMMA ChannelLocal ==
  ASSUME Shape, Shape', Channel, NEW t \in Threads,
         Marks(t) \/ PowersDown(t) \/ BridgeResult(t) \/ RunsRecord(t)
  PROVE  Channel'
<1>1. /\ Alongside /\ prog[t] # <<>> /\ ~sent[t] /\ Op(t).cmd \in LocalOps
      /\ Marks(t) => Continues(t, <<>>)
  BY LocalSteps
<1>2. /\ phase' = phase /\ beside' = beside /\ sent' = sent /\ answers' = answers
      /\ mistakes' = mistakes /\ faults' = faults /\ late' = late /\ pointer' = pointer
  BY <1>1 DEF Alongside
<1>3. Queue' /\ faults <= faults'
  BY <1>2 DEF Queue, Channel, InFlight
<1>4. OwnValue' /\ wrong' \in BOOLEAN /\ mistook' \in BOOLEAN
  BY <1>2 DEF OwnValue, Channel, OneRuns, mistakes
<1>5. SUFFICES /\ NotRead(prog'[t]) /\ Changed(t)
               /\ \A u \in Threads : u # t => aborted'[u] = aborted[u]
               /\ phase = "init" => (aborted'[t] => aborted[t] \/ faults' > 0)
                                     /\ (sticky' => sticky \/ faults' > 0)
  <2>1. ASSUME NotRead(prog'[t]) PROVE Meets(t)'
    BY <1>1, <1>2, <2>1, MeetsNothing
  <2> QED BY <1>1, <1>2, <1>3, <1>4, <2>1, ChannelThread DEF Changed
<1>6. ASSUME Continues(t, <<>>) PROVE NotRead(prog'[t]) /\ Changed(t) /\ aborted' = aborted
                                       /\ sticky' = sticky
  <2>1. NotRead(prog'[t])
    BY <1>1, <1>6, PassedHead DEF NotRead, LocalOps
  <2> QED BY <1>1, <1>6, <2>1, Passed
<1>7. CASE Marks(t)
  BY <1>1, <1>6, <1>7
<1>8. CASE PowersDown(t)
  <2>1. Kept(t) /\ aborted' = aborted /\ FreshProg(prog'[t])
    BY <1>8, PoweredDown
  <2>2. sticky' = sticky
    BY <1>8 DEF PowersDown
  <2> QED BY <2>1, <2>2, FreshIsNotRead DEF Kept
<1>9. CASE BridgeResult(t)
  <2>1. IF sticky THEN Fails(t) ELSE Continues(t, <<>>)
    BY <1>9 DEF BridgeResult
  <2>2. CASE sticky /\ Fails(t)
    <3>1. /\ NotRead(prog'[t]) /\ Changed(t)
          /\ \A u \in Threads : u # t => aborted'[u] = aborted[u]
      BY <1>1, <2>2, FailedHead
    <3>2. phase = "init" => faults' > 0
      BY <1>2, <2>2 DEF Channel, Blamed
    <3> QED BY <3>1, <3>2
  <2>3. CASE Continues(t, <<>>)
    BY <1>6, <2>3
  <2> QED BY <2>1, <2>2, <2>3
<1>10. CASE RunsRecord(t)
  <2>1. aborted' = aborted /\ sticky' = sticky /\ Op(t).cmd = "script"
        /\ (prog' = prog \/ \E x, m : Runs(t, x, m))
    BY <1>10, RecordRuns
  <2>2. CASE prog' = prog
    <3>1. Op(t) = prog[t][1].ops[1]
      BY <1>1, HeadIs
    <3>2. NotRead(prog'[t])
      BY <2>1, <2>2, <3>1 DEF NotRead
    <3> QED BY <2>1, <2>2, <3>2 DEF Changed, Shape
  <2>3. CASE \E x, m : Runs(t, x, m)
    <3>1. PICK x, m : Runs(t, x, m)
      BY <2>3
    <3>2. Kept(t) /\ FreshProg(prog'[t])
      BY <1>1, <2>1, <3>1, RecordIsKept
    <3> QED BY <2>1, <3>2, FreshIsNotRead DEF Kept
  <2> QED BY <2>1, <2>2, <2>3
<1> QED BY <1>7, <1>8, <1>9, <1>10

LEMMA ChannelStarts ==
  ASSUME Shape, Shape', Channel, NEW t \in Threads, NEW q, StartsWith(t, q) PROVE Channel'
<1>1. /\ phase = "ready" /\ prog[t] = <<>> /\ prog' = [prog EXCEPT ![t] = q] /\ phase' = phase
      /\ beside' = (beside \/ \E u \in Threads : prog[u] # <<>>) /\ sent' = sent
      /\ answers' = answers /\ mistakes' = mistakes /\ faults' = faults /\ late' = late
      /\ LaterProg(q)
  BY DEF StartsWith
<1>2. Queue' /\ Blamed'
  BY <1>1 DEF Queue, Blamed, Channel, InFlight
<1>3. /\ prog'[t] = q /\ \A u \in Threads : u # t => prog'[u] = prog[u]
  BY <1>1 DEF Shape
<1>4. ~beside' => \A u \in Threads : prog[u] = <<>>
  BY <1>1
<1>5. OneRuns' /\ OwnValue'
  <2>1. beside' \in BOOLEAN /\ (beside => beside')
    BY <1>1 DEF Channel, OneRuns
  <2> QED BY <1>1, <1>3, <1>4, <2>1 DEF OneRuns, OwnValue, Channel, Threads, mistakes
<1>6. ASSUME NEW u \in Threads PROVE Meets(u)'
  <2>1. CASE u = t
    <3>1. NotRead(q)
      BY <1>1, FreshIsNotRead DEF LaterProg, Later, FreshProg
    <3>2. ~sent'[t]
      BY <1>1 DEF Shape
    <3> QED BY <1>3, <2>1, <3>1, <3>2, MeetsNothing
  <2>2. CASE u # t
    <3>1. beside' \/ prog'[u] = <<>>
      BY <1>3, <1>4, <2>2
    <3> QED BY <3>1 DEF Meets, Alone, OneLate
  <2> QED BY <2>1, <2>2
<1> QED BY <1>2, <1>5, <1>6 DEF Channel

LEMMA ChannelEnds == ASSUME Shape, Channel, InitEnds PROVE Channel'
<1>1. /\ phase = "init" /\ prog["main"] = <<>> /\ prog' = prog /\ sent' = sent
      /\ phase' = (IF aborted["main"] THEN "failed" ELSE "ready")
      /\ answers' = answers /\ mistakes' = mistakes /\ beside' = beside /\ faults' = faults
      /\ late' = late
  BY DEF InitEnds, threads, counts
<1>2. \A t \in Threads : prog'[t] = <<>>
  BY <1>1 DEF Channel, OneRuns, Threads
<1>3. Queue' /\ Blamed' /\ OneRuns' /\ OwnValue'
  BY <1>1 DEF Channel, Queue, Blamed, OneRuns, OwnValue, InFlight, mistakes
<1>4. \A t \in Threads : Meets(t)'
  BY <1>2 DEF Meets, Alone, OneLate
<1> QED BY <1>3, <1>4 DEF Channel

LEMMA ChannelNext == ASSUME Shape, Channel, [Next]_vars PROVE Channel'
<1>0. Shape'
  BY ShapeNext
<1>1. CASE \E t \in Threads : \E q : StartsWith(t, q)
  BY <1>0, <1>1, ChannelStarts
<1>2. ASSUME NEW t \in Threads, Sends(t) \/ SendFails(t) \/ Refused(t) \/ AnswerLate(t)
      PROVE  Channel'
  BY <1>0, <1>2, ChannelSends, ChannelSendFails, ChannelRefused, ChannelLate
<1>3. ASSUME NEW t \in Threads, TakesAnswer(t) PROVE Channel'
  BY <1>0, <1>3, ChannelAnswers
<1>4. ASSUME NEW t \in Threads, Marks(t) \/ PowersDown(t) \/ BridgeResult(t) \/ RunsRecord(t)
      PROVE  Channel'
  BY <1>0, <1>4, ChannelLocal
<1>5. CASE UNCHANGED vars
  BY <1>5 DEF vars, threads, device, counts, mistakes, Channel, Queue, OneRuns, Blamed,
              OwnValue, Meets, Alone, OneLate, InFlight, Op
<1> QED BY <1>1, <1>2, <1>3, <1>4, <1>5, Steps, ChannelEnds

LEMMA ChannelAlways == Spec => [](Shape /\ Channel)
<1>1. Init => Shape /\ Channel
  BY ShapeInit, ChannelInit
<1>2. Shape /\ Channel /\ [Next]_vars => Shape' /\ Channel'
  BY ShapeNext, ChannelNext
<1> QED BY <1>1, <1>2, PTL DEF Spec

(* A reading of the AVL62X1 that it9300_ctrl_msg accepts, by its length    *)
(* alone, is of the register that was asked for, until a second answer     *)
(* comes late or the supply is cut beside a tune; one of a register of the *)
(* bridge, which no address goes before, until a first one does.           *)
THEOREM ValueIsOwn == Spec => []OwnValue
<1>1. Channel => OwnValue
  BY DEF Channel
<1> QED BY <1>1, ChannelAlways, PTL

(* daemon_cold_init never fails a board that answers every command, with   *)
(* either format of the bridge firmware and any patch.                     *)
THEOREM SoundBoardIsReady == Spec => []SoundBoardStarts
<1>1. Channel => SoundBoardStarts
  BY DEF Channel, Blamed, SoundBoardStarts
<1> QED BY <1>1, ChannelAlways, PTL

LEMMA SendersAre ==
  ASSUME sent \in [Threads -> BOOLEAN]
  PROVE  Cardinality({t \in Threads : sent[t]}) = InFlight
<1> DEFINE S == {t \in Threads : sent[t]}
<1>1. "main" # "tuner" /\ "main" \in Threads /\ "tuner" \in Threads
      /\ \A t \in Threads : t = "main" \/ t = "tuner"
  BY DEF Threads
<1>2. Cardinality({"main"}) = 1 /\ Cardinality({"tuner"}) = 1 /\ Cardinality({}) = 0
  BY FS_Singleton, FS_EmptySet
<1>3. Cardinality({"main", "tuner"}) = 2
  <2>1. IsFiniteSet({"main"})
    BY FS_Singleton
  <2>2. Cardinality({"main"} \union {"tuner"}) = Cardinality({"main"}) + 1
    BY <2>1, FS_AddElement
  <2>3. {"main"} \union {"tuner"} = {"main", "tuner"}
    OBVIOUS
  <2> QED BY <1>2, <2>2, <2>3
<1>4. CASE sent["main"] /\ sent["tuner"]
  <2>1. S = {"main", "tuner"}
    BY <1>1, <1>4
  <2> QED BY <1>3, <1>4, <2>1 DEF InFlight, Count
<1>5. CASE sent["main"] /\ ~sent["tuner"]
  <2>1. S = {"main"}
    BY <1>1, <1>5
  <2> QED BY <1>2, <1>5, <2>1 DEF InFlight, Count
<1>6. CASE ~sent["main"] /\ sent["tuner"]
  <2>1. S = {"tuner"}
    BY <1>1, <1>6
  <2> QED BY <1>2, <1>6, <2>1 DEF InFlight, Count
<1>7. CASE ~sent["main"] /\ ~sent["tuner"]
  <2>1. S = {}
    BY <1>1, <1>7
  <2> QED BY <1>2, <1>7, <2>1 DEF InFlight, Count
<1> QED BY <1>4, <1>5, <1>6, <1>7

(* No procedure of a program is empty, the queue of the bridge holds no    *)
(* more than the late answers and one for each thread, and the load of the *)
(* patch stays within its script.                                          *)
THEOREM TypeIsOK == Spec => []TypeOK
<1>1. Init => Shape /\ Channel /\ Patching
  BY ShapeInit, ChannelInit, PatchingInit
<1>2. Shape /\ Channel /\ Patching /\ [Next]_vars => Shape' /\ Channel' /\ Patching'
  BY ShapeNext, ChannelNext, PatchingNext
<1>3. Shape /\ Channel /\ Patching => TypeOK
  <2> SUFFICES ASSUME Shape, Channel, Patching PROVE TypeOK
    OBVIOUS
  <2>1. /\ phase \in {"init", "ready", "failed"}
        /\ sent \in [Threads -> BOOLEAN] /\ aborted \in [Threads -> BOOLEAN]
    BY DEF Shape
  <2>2. \A t \in Threads : \A i \in DOMAIN prog[t] : prog[t][i].ops # <<>>
    <3> TAKE t \in Threads
    <3>1. IsSeq(prog[t]) /\ \A i \in 1..Len(prog[t]) : ProcOK(prog[t][i])
      BY DEF Shape, ProgOK
    <3>2. DOMAIN prog[t] = 1..Len(prog[t])
      BY <3>1, ElementsOf
    <3> QED BY <3>1, <3>2 DEF ProcOK
  <2>3. Len(answers) <= MaxFaults + Cardinality({t \in Threads : sent[t]})
    <3>1. /\ late \in Nat /\ faults \in Nat /\ MaxFaults \in Nat /\ late <= faults
          /\ faults <= MaxFaults /\ Len(answers) = late + InFlight
      BY BoundsAssumption DEF Channel, Queue
    <3>2. Cardinality({t \in Threads : sent[t]}) = InFlight
      BY <2>1, SendersAre
    <3>3. InFlight \in Nat
      BY DEF InFlight, Count
    <3> QED BY <3>1, <3>2, <3>3
  <2>4. passed \subseteq DOMAIN script /\ at \in 1..(Len(script) + 1)
    <3>1. /\ IsSeq(script) /\ at \in 1..(Len(script) + 1) /\ passed = 1..(at - 1)
      BY DEF Patching
    <3>2. DOMAIN script = 1..Len(script) /\ Len(script) \in Nat
      BY <3>1, ElementsOf
    <3> DEFINE l == Len(script)
    <3>3. l \in Nat /\ at \in 1..(l + 1)
      BY <3>1, <3>2
    <3> HIDE DEF l
    <3>4. 1..(at - 1) \subseteq 1..l
      BY <3>3
    <3> QED BY <3>1, <3>2, <3>4 DEF l
  <2> QED BY <2>1, <2>2, <2>3, <2>4 DEF TypeOK
<1> QED BY <1>1, <1>2, <1>3, PTL DEF Spec

-----------------------------------------------------------------------------
(* The supply.  What a program has left settles the supply as the whole of *)
(* it did.                                                                 *)
Unmarked(op) == ~Supplies(op) /\ op.cmd # "enabled"

LEMMA DoneHead ==
  ASSUME NEW q, IsSeq(q), q # <<>>, NEW lit \in BOOLEAN, NEW known \in BOOLEAN,
         NEW after \in BOOLEAN, Settles(q, lit, known), Darkens(q[1]) => ~lit,
         Notes(q[1]) => after, ~Notes(q[1]) /\ ~Unnotes(q[1]) => after = known
  PROVE  Settles(Tail(q), lit, after)
<1> DEFINE u == Tail(q)
<1>1. /\ IsSeq(u) /\ Len(q) \in Nat \ {0} /\ Len(u) = Len(q) - 1
      /\ \A i \in 1..(Len(q) - 1) : u[i] = q[i + 1]
  BY Tailed
<1> HIDE DEF u
<1>2. \A i \in 1..Len(u) : i + 1 \in 2..Len(q) /\ i + 1 \in 1..Len(q) /\ u[i] = q[i + 1]
  BY <1>1
<1>3. 1 \in 1..Len(q)
  BY <1>1
<1>4. ASSUME NEW i \in 2..Len(q)
      PROVE  /\ i - 1 \in 1..Len(u) /\ u[i - 1] = q[i]
             /\ \A j \in ((i - 1) + 1)..Len(u) : j + 1 \in (i + 1)..Len(q) /\ u[j] = q[j + 1]
  <2>1. i - 1 \in 1..Len(u) /\ (i - 1) + 1 = i
    BY <1>1
  <2>2. u[i - 1] = q[i]
    BY <2>1, <1>2
  <2>3. ASSUME NEW j \in ((i - 1) + 1)..Len(u)
        PROVE  j + 1 \in (i + 1)..Len(q) /\ u[j] = q[j + 1]
    <3>1. j \in 1..Len(u) /\ j + 1 \in (i + 1)..Len(q)
      BY <1>1, <2>1
    <3> QED BY <3>1, <1>2
  <2> QED BY <2>1, <2>2, <2>3
<1>5. CASE KnownAhead(q)
  <2>1. PICK i \in 1..Len(q) :
          Notes(q[i]) /\ \A j \in (i + 1)..Len(q) : ~Lights(q[j]) /\ ~Unnotes(q[j])
    BY <1>5 DEF KnownAhead
  <2>2. CASE i = 1
    <3>1. \A j \in 2..Len(q) : ~Lights(q[j]) /\ ~Unnotes(q[j])
      BY <2>1, <2>2
    <3>2. KeptAhead(u, lit, after)
      BY <1>2, <2>1, <2>2, <3>1 DEF KeptAhead
    <3> QED BY <3>2 DEF Settles, u
  <2>3. CASE i # 1
    <3>1. i \in 2..Len(q)
      BY <2>3, <1>1
    <3>2. KnownAhead(u)
      BY <2>1, <3>1, <1>4 DEF KnownAhead
    <3> QED BY <3>2 DEF Settles, u
  <2> QED BY <2>2, <2>3
<1>6. CASE DarkAhead(q)
  <2>1. PICK i \in 1..Len(q) : Darkens(q[i]) /\ \A j \in (i + 1)..Len(q) : ~Lights(q[j])
    BY <1>6 DEF DarkAhead
  <2>2. CASE i = 1
    <3>1. ~lit /\ \A j \in 2..Len(q) : ~Lights(q[j])
      BY <2>1, <2>2
    <3>2. KeptAhead(u, lit, after)
      BY <1>2, <3>1 DEF KeptAhead
    <3> QED BY <3>2 DEF Settles, u
  <2>3. CASE i # 1
    <3>1. i \in 2..Len(q)
      BY <2>3, <1>1
    <3>2. DarkAhead(u)
      BY <2>1, <3>1, <1>4 DEF DarkAhead
    <3> QED BY <3>2 DEF Settles, u
  <2> QED BY <2>2, <2>3
<1>7. CASE KeptAhead(q, lit, known)
  <2>1. KeptAhead(u, lit, after)
    BY <1>2, <1>3, <1>7 DEF KeptAhead
  <2> QED BY <2>1 DEF Settles, u
<1> QED BY <1>5, <1>6, <1>7 DEF Settles

LEMMA UnmarkedBefore ==
  ASSUME NEW p, Unmarked(p.ops[1]), NEW s, IsSeq(s), NEW lit \in BOOLEAN,
         NEW known \in BOOLEAN, Settles(s, lit, known)
  PROVE  Settles(<<p>> \o s, lit, known)
<1> DEFINE x == <<p>>
<1>1. IsSeq(x) /\ Len(x) = 1 /\ x[1] = p
  BY SingleIsSeq
<1>2. ~Lights(p) /\ ~Unnotes(p)
  BY DEF Unmarked, Lights, Unnotes
<1> HIDE DEF x
<1>3. KnownAhead(s) => KnownAhead(x \o s)
  BY <1>1, AheadOf
<1>4. DarkAhead(s) => DarkAhead(x \o s)
  BY <1>1, AheadOf
<1>5. ASSUME KeptAhead(s, lit, known) PROVE KeptAhead(x \o s, lit, known)
  <2> DEFINE y == x \o s
  <2>1. ASSUME NEW k \in 1..Len(y)
        PROVE  y[k] = p \/ (k - Len(x) \in 1..Len(s) /\ y[k] = s[k - Len(x)])
    <3>1. (k \in 1..Len(x) /\ y[k] = x[k])
            \/ (k - Len(x) \in 1..Len(s) /\ y[k] = s[k - Len(x)])
      BY <1>1, MembersConcatenated
    <3>2. k \in 1..Len(x) => k = 1
      BY <1>1
    <3> QED BY <1>1, <3>1, <3>2
  <2> HIDE DEF y
  <2>2. ASSUME NEW k \in 1..Len(y) PROVE ~Lights(y[k]) /\ (lit => ~Unnotes(y[k]))
    BY <1>2, <1>5, <2>1 DEF KeptAhead
  <2>3. KeptAhead(y, lit, known)
    BY <1>5, <2>2 DEF KeptAhead
  <2> QED BY <2>3 DEF y
<1>6. Settles(x \o s, lit, known)
  BY <1>3, <1>4, <1>5 DEF Settles
<1> QED BY <1>6 DEF x

LEMMA BecameIs ==
  ASSUME NEW q, IsSeq(q), q # <<>>, NEW n, NEW left, Became(q, n, left)
  PROVE  n = <<n[1]>> \o Tail(q)
<1>1. IsSeq(n) /\ Len(n) = Len(q) /\ \A i \in 2..Len(q) : n[i] = q[i]
  BY DEF Became
<1>2. Len(q) \in Nat \ {0}
  BY Tailed
<1> DEFINE x == n[1]
<1> HIDE DEF x
<1> DEFINE m == <<x>> \o Tail(q)
<1>3. IsSeq(m) /\ Len(m) = Len(q) /\ m[1] = x /\ \A i \in 2..Len(q) : m[i] = q[i]
  BY Prefixed
<1> HIDE DEF m
<1>4. \A i \in 1..Len(n) : n[i] = m[i]
  <2> TAKE i \in 1..Len(n)
  <2>1. i = 1 \/ i \in 2..Len(q)
    BY <1>1, <1>2
  <2> QED BY <2>1, <1>1, <1>3 DEF x
<1>5. n = m
  BY <1>1, <1>3, <1>4, SameMembers
<1> QED BY <1>5 DEF m, x

LEMMA DroppedIs ==
  ASSUME NEW q, IsSeq(q), NEW n, NEW d \in 1..2, Dropped(q, n, d)
  PROVE  /\ q # <<>>
         /\ d = 1 => n = Tail(q)
         /\ d = 2 => /\ n = Tail(Tail(q)) /\ Tail(q) # <<>> /\ IsSeq(Tail(q))
                     /\ Tail(q)[1] = q[2] /\ 2 \in 1..Len(q)
<1>1. IsSeq(n) /\ Len(q) = Len(n) + d /\ Len(n) \in Nat /\ \A i \in 1..Len(n) : n[i] = q[i + d]
  BY ElementsOf DEF Dropped
<1>2. q # <<>>
  BY <1>1, ElementsOf
<1>3. /\ IsSeq(Tail(q)) /\ Len(Tail(q)) = Len(q) - 1
      /\ \A i \in 1..(Len(q) - 1) : Tail(q)[i] = q[i + 1]
  BY <1>2, Tailed
<1>4. CASE d = 1
  <2>1. Len(Tail(q)) = Len(n)
    BY <1>1, <1>3, <1>4
  <2>2. \A i \in 1..Len(n) : n[i] = Tail(q)[i]
    BY <1>1, <1>3, <1>4
  <2>3. n = Tail(q)
    BY <1>1, <1>3, <2>1, <2>2, SameMembers
  <2> QED BY <1>2, <1>4, <2>3
<1>5. CASE d = 2
  <2> DEFINE u == Tail(q)
  <2>1. IsSeq(u) /\ Len(u) = Len(n) + 1 /\ \A i \in 1..Len(u) : u[i] = q[i + 1]
    BY <1>1, <1>3, <1>5
  <2> HIDE DEF u
  <2>2. u # <<>>
    BY <2>1, <1>1, ElementsOf
  <2>3. /\ IsSeq(Tail(u)) /\ Len(Tail(u)) = Len(u) - 1
        /\ \A i \in 1..(Len(u) - 1) : Tail(u)[i] = u[i + 1]
    BY <2>1, <2>2, Tailed
  <2>4. Len(Tail(u)) = Len(n)
    BY <2>1, <2>3, <1>1
  <2>5. \A i \in 1..Len(n) : n[i] = Tail(u)[i]
    <3> TAKE i \in 1..Len(n)
    <3>1. i \in 1..(Len(u) - 1) /\ i + 1 \in 1..Len(u) /\ (i + 1) + 1 = i + d
      BY <2>1, <1>1, <1>5
    <3>2. Tail(u)[i] = u[i + 1] /\ u[i + 1] = q[(i + 1) + 1]
      BY <3>1, <2>1, <2>3
    <3> QED BY <3>1, <3>2, <1>1
  <2>6. n = Tail(u)
    BY <1>1, <2>3, <2>4, <2>5, SameMembers
  <2>7. 1 \in 1..Len(u) /\ 1 + 1 = 2 /\ 2 \in 1..Len(q)
    BY <2>1, <1>1, <1>5
  <2>8. u[1] = q[1 + 1]
    BY <2>1, <2>7
  <2> QED BY <1>2, <1>5, <2>1, <2>2, <2>6, <2>7, <2>8 DEF u
<1> QED BY <1>4, <1>5

LEMMA SettlesAdvanced ==
  ASSUME NEW q, ProgOK(q), q # <<>>, NEW n, NEW left, Suits(q[1], left), Advanced(q, n, left),
         left # <<>> => Unmarked(left[1]),
         NEW lit \in BOOLEAN, NEW known \in BOOLEAN, NEW after \in BOOLEAN,
         Settles(q, lit, known), Darkens(q[1]) => ~lit,
         Notes(q[1]) => after, ~Notes(q[1]) /\ ~Unnotes(q[1]) => after = known
  PROVE  Settles(n, lit, after)
<1>1. IsSeq(q) /\ IsSeq(Tail(q))
  BY FirstIsOK, Tailed
<1>2. Settles(Tail(q), lit, after)
  BY <1>1, DoneHead
<1>3. CASE left # <<>> /\ Became(q, n, left)
  <2>1. n = <<n[1]>> \o Tail(q)
    BY <1>1, <1>3, BecameIs
  <2>2. n[1].ops = left
    BY <1>3, BecameIsOK
  <2> DEFINE p == n[1]
  <2>3. Unmarked(p.ops[1])
    BY <1>3, <2>2
  <2> HIDE DEF p
  <2>4. Settles(<<p>> \o Tail(q), lit, after)
    BY <1>1, <1>2, <2>3, UnmarkedBefore
  <2> QED BY <2>1, <2>4 DEF p
<1>4. CASE Dropped(q, n, 1)
  <2>1. n = Tail(q)
    BY <1>1, <1>4, DroppedIs
  <2> QED BY <1>2, <2>1
<1>5. CASE Dropped(q, n, 2) /\ q[2].orelse
  <2> DEFINE u == Tail(q)
  <2>1. n = Tail(u) /\ u # <<>> /\ IsSeq(u) /\ u[1] = q[2] /\ 2 \in 1..Len(q)
    BY <1>1, <1>5, DroppedIs
  <2> HIDE DEF u
  <2>2. ProcOK(q[2]) /\ q[2].ops # <<>> /\ IsSeq(q[2].ops)
    BY <2>1 DEF ProgOK, ProcOK, Fitting, Linked
  <2>3. 1 \in 1..Len(q[2].ops)
    BY <2>2, ElementsOf
  <2>4. ~Eventful(q[2].ops[1])
    BY <1>5, <2>2, <2>3 DEF ProcOK
  <2>5. ~Darkens(u[1]) /\ ~Notes(u[1]) /\ ~Unnotes(u[1])
    BY <2>1, <2>4 DEF Eventful, Darkens, Notes, Unnotes
  <2>6. Settles(Tail(u), lit, after)
    BY <1>2, <2>1, <2>5, DoneHead DEF u
  <2> QED BY <2>1, <2>6
<1> QED BY <1>3, <1>4, <1>5 DEF Advanced

LEMMA TailIsUnmarked ==
  ASSUME NEW s, Fitting(s), s # <<>>, Tail(s) # <<>>
  PROVE  Unmarked(Tail(s)[1])
<1> DEFINE u == Tail(s)
<1>1. /\ IsSeq(u) /\ Len(s) \in Nat \ {0}
      /\ \A k \in 1..Len(u) : k + 1 \in 2..Len(s) /\ u[k] = s[k + 1]
  BY TailFits
<1>2. u # <<>>
  OBVIOUS
<1> HIDE DEF u
<1>3. 1 \in 1..Len(u)
  BY <1>1, <1>2, ElementsOf
<1>4. 1 + 1 \in 2..Len(s) /\ u[1] = s[1 + 1]
  BY <1>1, <1>3
<1>5. 2 \in 2..Len(s) /\ u[1] = s[2]
  BY <1>4
<1>6. Follows(s[2 - 1], s[2])
  BY <1>5 DEF Fitting, Linked
<1> QED BY <1>5, <1>6 DEF Follows, Unmarked, u

LEMMA PassedSettles ==
  ASSUME Shape, NEW t \in Threads, prog[t] # <<>>, Continues(t, <<>>),
         NEW after \in BOOLEAN,
         Settles(prog[t], lnb, lnbEnabled), Darkens(prog[t][1]) => ~lnb,
         Op(t).cmd = "enabled" => after = Op(t).val,
         Op(t).cmd # "enabled" => after = lnbEnabled
  PROVE  Settles(prog'[t], lnb, after)
<1>1. /\ ProgOK(prog[t]) /\ Op(t) = prog[t][1].ops[1] /\ ProcOK(prog[t][1])
      /\ Fitting(prog[t][1].ops) /\ prog[t][1].ops # <<>>
  BY HeadIs, FirstIsOK
<1> DEFINE left == Tail(prog[t][1].ops)
<1>2. Advanced(prog[t], prog'[t], left)
  BY Passed
<1>3. Suits(prog[t][1], left) /\ (left # <<>> => Unmarked(left[1]))
  BY <1>1, TailSuits, TailIsUnmarked
<1> HIDE DEF left
<1>4. Notes(prog[t][1]) => after
  BY <1>1 DEF Notes
<1>5. ~Notes(prog[t][1]) /\ ~Unnotes(prog[t][1]) => after = lnbEnabled
  BY <1>1 DEF Notes, Unnotes
<1>6. lnb \in BOOLEAN /\ lnbEnabled \in BOOLEAN
  BY DEF Shape
<1> QED BY <1>1, <1>2, <1>3, <1>4, <1>5, <1>6, SettlesAdvanced

LEMMA InsertedSettles ==
  ASSUME Shape, NEW t \in Threads, prog[t] # <<>>, NEW x, Inserted(t, x),
         Settles(prog[t], lnb, lnbEnabled)
  PROVE  Settles(prog'[t], lnb, lnbEnabled)
<1>1. /\ Op(t).cmd = "read" /\ Fitting(x) /\ x # <<>> /\ Addressed(x)
      /\ (\A k \in 1..Len(x) : OnBus(x[k])) /\ Continues(t, x)
  BY DEF Inserted
<1>2. ProgOK(prog[t]) /\ Op(t) = prog[t][1].ops[1]
  BY HeadIs
<1> DEFINE u == Tail(prog[t][1].ops)  left == x \o u
<1>3. Became(prog[t], prog'[t], left) /\ Suits(prog[t][1], left) /\ left # <<>>
  BY <1>1, InsertedIsKept
<1>4. Fitting(u) /\ IsSeq(u) /\ IsSeq(x) /\ Len(x) \in Nat \ {0}
  BY <1>1, <1>2, FirstIsOK, TailFits, ElementsOf DEF Fitting, Linked
<1> HIDE DEF u
<1>5. 1 \in 1..Len(x)
  BY <1>4
<1>6. left[1] = x[1]
  BY <1>4, <1>5, Concatenated
<1>7. Unmarked(x[1])
  BY <1>1, <1>5 DEF OnBus, LocalOps, Unmarked
<1> HIDE DEF left
<1>8. ~Darkens(prog[t][1]) /\ ~Notes(prog[t][1]) /\ ~Unnotes(prog[t][1])
  BY <1>1, <1>2 DEF Darkens, Notes, Unnotes, Supplies
<1>9. lnb \in BOOLEAN /\ lnbEnabled \in BOOLEAN /\ Advanced(prog[t], prog'[t], left)
  BY <1>3 DEF Shape, Advanced
<1> QED BY <1>2, <1>3, <1>6, <1>7, <1>8, <1>9, SettlesAdvanced

LEMMA RecordSettles ==
  ASSUME Shape, NEW t \in Threads, prog[t] # <<>>, Op(t).cmd = "script", NEW x, NEW m,
         Runs(t, x, m), Settles(prog[t], lnb, lnbEnabled)
  PROVE  Settles(prog'[t], lnb, lnbEnabled)
<1>1. ProgOK(prog[t]) /\ Op(t) = prog[t][1].ops[1]
  BY HeadIs
<1>2. /\ Became(prog[t], m, x) /\ Suits(prog[t][1], x) /\ x # <<>>
      /\ Unmarked(x[1]) /\ (prog'[t] = m \/ prog'[t] = <<PingProc>> \o m)
  BY DEF Runs, Unmarked
<1>3. ~Darkens(prog[t][1]) /\ ~Notes(prog[t][1]) /\ ~Unnotes(prog[t][1])
  BY <1>1 DEF Darkens, Notes, Unnotes, Supplies
<1>4. lnb \in BOOLEAN /\ lnbEnabled \in BOOLEAN /\ Advanced(prog[t], m, x)
  BY <1>2 DEF Shape, Advanced
<1>5. Settles(m, lnb, lnbEnabled)
  BY <1>1, <1>2, <1>3, <1>4, SettlesAdvanced
<1>6. IsSeq(m)
  BY <1>2 DEF Became
<1>7. Unmarked(PingProc.ops[1])
  <2>1. Calm(PingProc)
    BY PingIsCalm
  <2>2. PingProc.ops # <<>> /\ IsSeq(PingProc.ops)
    BY <2>1 DEF Calm, Fresh, ProcOK, Fitting, Linked
  <2>3. 1 \in 1..Len(PingProc.ops)
    BY <2>2, ElementsOf
  <2> QED BY <2>1, <2>3 DEF Calm, Eventful, Unmarked
<1>8. Settles(<<PingProc>> \o m, lnb, lnbEnabled)
  BY <1>4, <1>5, <1>6, <1>7, UnmarkedBefore
<1> QED BY <1>2, <1>5, <1>8

LEMMA PoweredDownSettles ==
  ASSUME Shape, NEW t \in Threads, PowersDown(t), Settles(prog[t], lnb, lnbEnabled)
  PROVE  Settles(prog'[t], lnb, lnbEnabled)
<1>1. /\ prog[t] # <<>> /\ ProgOK(prog[t])
      /\ prog'[t] = (IF lnbEnabled THEN PowerDown ELSE <<>>) \o Tail(prog[t])
  BY PoweredDown
<1>2. Op(t) = prog[t][1].ops[1] /\ Op(t).cmd = "ifenabled" /\ IsSeq(prog[t])
  BY <1>1, HeadIs, FirstIsOK DEF PowersDown, Doing
<1>3. ~Darkens(prog[t][1]) /\ ~Notes(prog[t][1]) /\ ~Unnotes(prog[t][1])
  BY <1>2 DEF Darkens, Notes, Unnotes, Supplies
<1>4. lnb \in BOOLEAN /\ lnbEnabled \in BOOLEAN
  BY DEF Shape
<1> DEFINE u == Tail(prog[t])
<1>5. IsSeq(u)
  BY <1>1, <1>2, Tailed
<1>6. Settles(u, lnb, lnbEnabled)
  BY <1>1, <1>2, <1>3, <1>4, DoneHead
<1> HIDE DEF u
<1>7. CASE ~lnbEnabled
  <2>1. <<>> \o u = u
    BY <1>5 DEF IsSeq
  <2> QED BY <1>1, <1>6, <1>7, <2>1 DEF u
<1>8. CASE lnbEnabled
  <2>1. IsSeq(PowerDown) /\ DarkAhead(PowerDown)
    BY PowerDownProg DEF LaterProg
  <2> DEFINE w == PowerDown
  <2>2. IsSeq(w) /\ DarkAhead(w)
    BY <2>1
  <2>3. prog'[t] = w \o u
    BY <1>1, <1>8 DEF u
  <2> HIDE DEF w
  <2>4. KnownAhead(u) => KnownAhead(w \o u)
    BY <1>5, <2>2, AheadOf
  <2>5. DarkAhead(u) => DarkAhead(w \o u)
    BY <1>5, <2>2, AheadOf
  <2>6. KeptAhead(u, lnb, lnbEnabled) => DarkAhead(w \o u)
    BY <1>5, <2>2, UnlitAfter DEF KeptAhead
  <2> QED BY <1>6, <2>3, <2>4, <2>5, <2>6 DEF Settles
<1> QED BY <1>7, <1>8

(* Without a fault and a cut beside a tune one thread runs, if any.        *)
LitOf(t) ==
  /\ Settles(prog[t], lnb, lnbEnabled) /\ ~sticky
  /\ sent[t] /\ Supplies(Op(t)) /\ ~Op(t).val => ~lnb

LEMMA LitIs ==
  ASSUME Shape, Channel, Lit, NEW t \in Threads, prog[t] # <<>>, faults = 0, ~beside
  PROVE  LitOf(t)
<1>1. \A u \in Threads : u # t => prog[u] = <<>>
  BY RunsAlone DEF Channel
<1>2. Running = prog[t]
  BY <1>1 DEF Running, Threads
<1> QED BY <1>2 DEF Lit, LitOf

LEMMA LitThread ==
  ASSUME Shape, Channel, NEW t \in Threads, prog[t] # <<>>, Changed(t),
         \A u \in Threads : u # t => sent'[u] = sent[u], beside' = beside,
         faults' = 0 /\ ~beside => LitOf(t)'
  PROVE  Lit'
<1> SUFFICES ASSUME faults' = 0, ~beside
             PROVE  /\ Settles(Running, lnb, lnbEnabled)' /\ ~sticky'
                    /\ \A u \in Threads : sent'[u] /\ Supplies(Op(u))' /\ ~(Op(u).val)' => ~lnb'
  BY DEF Lit
<1>1. LitOf(t)'
  OBVIOUS
<1>2. \A u \in Threads : u # t => prog'[u] = <<>> /\ ~sent'[u]
  BY RunsAlone DEF Channel, Changed
<1>3. Running' = prog'[t]
  BY <1>2 DEF Running, Threads
<1>4. Settles(Running', lnb', lnbEnabled')
  BY <1>1, <1>3 DEF LitOf
<1>5. \A u \in Threads : sent'[u] /\ Supplies(Op(u))' /\ ~(Op(u).val)' => ~lnb'
  BY <1>1, <1>2 DEF LitOf
<1> QED BY <1>1, <1>4, <1>5 DEF LitOf

LEMMA LitInit == Init => Lit
<1> SUFFICES ASSUME Init PROVE Lit
  OBVIOUS
<1>1. prog["tuner"] = <<>> /\ DarkAhead(prog["main"])
  BY InitialProg
<1>2. Running = prog["main"] /\ ~sticky /\ \A t \in Threads : ~sent[t]
  BY <1>1 DEF Running, Init
<1> QED BY <1>1, <1>2 DEF Lit, Settles

LEMMA LitSends ==
  ASSUME Shape, Channel, Lit, NEW t \in Threads, Sends(t) PROVE Lit'
<1>1. /\ Sending(t) /\ Reaches(t) /\ prog[t] # <<>> /\ ~sent[t] /\ Op(t).cmd \notin LocalOps
      /\ beside' = beside /\ faults' = faults /\ lnbEnabled' = lnbEnabled
  BY DEF Sends, Sending, above
<1>2. Op(t) = prog[t][1].ops[1] /\ OpOK(Op(t)) /\ lnb \in BOOLEAN /\ lnbEnabled \in BOOLEAN
  BY <1>1, HeadIs DEF Shape
<1>3. CASE Op(t).cmd \in Unanswered
  <2>1. Continues(t, <<>>) /\ sent' = sent /\ Op(t).cmd = "fw_dl"
    BY <1>3 DEF Sends, Unanswered, Silent
  <2>2. Changed(t) /\ sticky' = sticky
    BY <1>1, <2>1, Passed
  <2>3. lnb' = lnb
    BY <1>1, <2>1 DEF Reaches
  <2>4. ASSUME faults' = 0, ~beside PROVE LitOf(t)'
    <3>1. LitOf(t)
      BY <1>1, <2>4, LitIs
    <3>2. ~Darkens(prog[t][1])
      BY <1>2, <2>1 DEF Darkens, Supplies
    <3>3. Settles(prog'[t], lnb, lnbEnabled)
      BY <1>1, <1>2, <2>1, <3>1, <3>2, PassedSettles DEF LitOf
    <3> QED BY <1>1, <2>1, <2>2, <2>3, <3>1, <3>3 DEF LitOf
  <2> QED BY <1>1, <2>1, <2>2, <2>4, LitThread
<1>4. CASE Op(t).cmd \notin Unanswered
  <2>1. sent' = [sent EXCEPT ![t] = TRUE] /\ prog' = prog /\ sticky' = sticky
    BY <1>4 DEF Sends
  <2>2. Changed(t) /\ \A u \in Threads : u # t => sent'[u] = sent[u]
    BY <2>1 DEF Changed, Shape
  <2>3. /\ Supplies(Op(t)) => lnb' = Op(t).val
        /\ ~Supplies(Op(t)) => lnb' = lnb
    BY <1>1 DEF Reaches, Supplies
  <2>4. Op(t)' = Op(t)
    BY <2>1 DEF Op
  <2>5. ASSUME faults' = 0, ~beside PROVE LitOf(t)'
    <3>1. LitOf(t)
      BY <1>1, <2>5, LitIs
    <3>2. ProgOK(prog[t])
      BY DEF Shape
    <3>3. 1 \in 1..Len(prog[t])
      BY <1>1, <3>2, OpIs
    <3>4. KeptAhead(prog[t], lnb, lnbEnabled) => KeptAhead(prog[t], lnb', lnbEnabled)
      BY <1>2, <2>3, <3>3 DEF KeptAhead, Lights, OpOK
    <3>5. Settles(prog[t], lnb', lnbEnabled)
      BY <3>1, <3>4 DEF LitOf, Settles
    <3> QED BY <1>1, <2>1, <2>3, <2>4, <3>1, <3>5 DEF LitOf
  <2> QED BY <1>1, <2>2, <2>5, LitThread
<1> QED BY <1>3, <1>4

LEMMA LitFaults ==
  ASSUME Channel, NEW t \in Threads, SendFails(t) \/ Refused(t) \/ AnswerLate(t)
  PROVE  Lit'
<1>1. faults \in Nat /\ faults' = faults + 1
  BY DEF SendFails, Refused, AnswerLate, Fault, Channel, Queue
<1> QED BY <1>1 DEF Lit

LEMMA LitAnswers ==
  ASSUME Shape, Channel, Lit, NEW t \in Threads, TakesAnswer(t) PROVE Lit'
<1>1. /\ sent[t] /\ prog[t] # <<>> /\ sent' = [sent EXCEPT ![t] = FALSE]
      /\ lnbEnabled' = lnbEnabled /\ lnb' = lnb /\ beside' = beside
  BY Answered
<1>2. /\ Op(t) = prog[t][1].ops[1] /\ lnb \in BOOLEAN /\ lnbEnabled \in BOOLEAN
      /\ Op(t).cmd \notin LocalOps
  BY <1>1, HeadIs DEF Shape
<1>3. ~sent'[t] /\ \A u \in Threads : u # t => sent'[u] = sent[u]
  BY <1>1 DEF Shape
<1>4. faults' = faults \/ faults' = faults + 1
  BY Outcome
<1>5. faults \in Nat
  BY DEF Channel, Queue
<1>6. SUFFICES /\ Changed(t)
               /\ faults' = 0 /\ ~beside /\ LitOf(t) =>
                    Settles(prog'[t], lnb, lnbEnabled) /\ ~sticky'
  <2>1. ASSUME faults' = 0, ~beside PROVE LitOf(t)'
    <3>1. LitOf(t)
      BY <1>1, <1>4, <1>5, <2>1, LitIs
    <3> QED BY <1>1, <1>3, <1>6, <2>1, <3>1 DEF LitOf
  <2> QED BY <1>1, <1>3, <1>6, <2>1, LitThread
<1>7. CASE Continues(t, <<>>)
  <2>1. Changed(t) /\ sticky' = sticky
    BY <1>1, <1>7, Passed
  <2>2. ASSUME LitOf(t) PROVE Settles(prog'[t], lnb, lnbEnabled)
    <3>1. Darkens(prog[t][1]) => ~lnb
      BY <1>1, <1>2, <2>2 DEF LitOf, Darkens
    <3>2. Op(t).cmd # "enabled"
      BY <1>2 DEF LocalOps
    <3> QED BY <1>1, <1>2, <1>7, <2>2, <3>1, <3>2, PassedSettles DEF LitOf
  <2> QED BY <2>1, <2>2 DEF LitOf
<1>8. CASE \E x : Inserted(t, x)
  <2>1. PICK x : Inserted(t, x)
    BY <1>8
  <2>2. Changed(t) /\ sticky' = sticky
    BY <1>1, <2>1, InsertedIsKept DEF Inserted, Kept
  <2> QED BY <1>1, <2>1, <2>2, InsertedSettles DEF LitOf
<1>9. CASE Fails(t)
  <2>1. Changed(t)
    BY <1>1, <1>9, Failed
  <2>2. ASSUME faults' = 0, ~beside, LitOf(t), ~Continues(t, <<>>), ~\E x : Inserted(t, x)
        PROVE  Settles(prog'[t], lnb, lnbEnabled) /\ ~sticky'
    <3>1. faults = 0
      BY <1>4, <1>5, <2>2
    <3>2. ~TakesRefusal(t)
      BY <2>2, <3>1, RefusedIsBlamed DEF TakesRefusal
    <3>3. ~TakesPoll(t)
      <4>1. TakesPoll(t) =>
              /\ Op(t).cmd = "read"
              /\ Continues(t, <<Point(Op(t).reg), Rd(Op(t).reg, "poll", Op(t).polls - 1)>>)
        BY <2>2, <3>1 DEF TakesPoll, Fault
      <4>2. TakesPoll(t) => \E x : Inserted(t, x)
        <5> DEFINE x == <<Point(Op(t).reg), Rd(Op(t).reg, "poll", Op(t).polls - 1)>>
        <5>1. Fitting(x) /\ x # <<>> /\ Addressed(x) /\ \A k \in 1..Len(x) : OnBus(x[k])
          BY PollAgain
        <5>2. TakesPoll(t) => Op(t).cmd = "read" /\ Continues(t, x)
          BY <4>1
        <5> HIDE DEF x
        <5>3. TakesPoll(t) => Inserted(t, x)
          BY <5>1, <5>2 DEF Inserted
        <5> QED BY <5>3
      <4> QED BY <2>2, <4>2
    <3>4. TakesBridgeValue(t)
      <4>1. ~TakesControl(t)
        BY <1>1, <2>2, ControlInserts
      <4> QED BY <2>2, <3>2, <3>3, <4>1 DEF TakesAnswer, TakesAck, TakesValue, TakesCell
    <3>5. Op(t).cmd = "memread" /\ Op(t).reg = "FW_VERSION" /\ ~Head(prog[t]).checked
      BY <2>2, <3>1, <3>4 DEF TakesBridgeValue, Fault
    <3>6. /\ ProgOK(prog[t]) /\ ProcOK(prog[t][1]) /\ Head(prog[t]) = prog[t][1]
          /\ 1 \in 1..Len(prog[t][1].ops) /\ IsSeq(prog[t])
      BY <1>1, FirstIsOK, OpIs DEF Shape
    <3>7. ~prog[t][1].sticks /\ ~prog[t][1].checked
      BY <1>2, <3>5, <3>6 DEF ProcOK
    <3>8. prog'[t] = Tail(prog[t]) /\ sticky' = (sticky \/ prog[t][1].sticks)
      BY <1>1, <1>9, <3>7, Failed
    <3>9. ~Darkens(prog[t][1]) /\ ~Notes(prog[t][1]) /\ ~Unnotes(prog[t][1])
      BY <1>2, <3>5 DEF Darkens, Notes, Unnotes, Supplies
    <3>10. Settles(Tail(prog[t]), lnb, lnbEnabled)
      BY <1>1, <1>2, <2>2, <3>6, <3>9, DoneHead DEF LitOf
    <3> QED BY <2>2, <3>7, <3>8, <3>10 DEF LitOf
  <2> QED BY <1>7, <1>8, <2>1, <2>2
<1> QED BY <1>7, <1>8, <1>9, Answered

LEMMA LitLocal ==
  ASSUME Shape, Channel, Lit, NEW t \in Threads,
         Marks(t) \/ PowersDown(t) \/ BridgeResult(t) \/ RunsRecord(t)
  PROVE  Lit'
<1>1. /\ Alongside /\ prog[t] # <<>> /\ ~sent[t] /\ Op(t).cmd \in LocalOps
      /\ Marks(t) => Continues(t, <<>>)
      /\ lnbEnabled' = lnbEnabled \/ SetsEnabled(t)
  BY LocalSteps
<1>2. beside' = beside /\ sent' = sent /\ faults' = faults /\ lnb' = lnb
  BY <1>1 DEF Alongside
<1>3. /\ Op(t) = prog[t][1].ops[1] /\ OpOK(Op(t)) /\ lnb \in BOOLEAN /\ lnbEnabled \in BOOLEAN
  BY <1>1, HeadIs DEF Shape
<1>4. ~Darkens(prog[t][1])
  BY <1>1, <1>3 DEF Darkens, Supplies, LocalOps
<1>5. SUFFICES /\ Changed(t)
               /\ LitOf(t) => Settles(prog'[t], lnb, lnbEnabled') /\ ~sticky'
  <2>1. ASSUME faults' = 0, ~beside PROVE LitOf(t)'
    <3>1. LitOf(t)
      BY <1>1, <1>2, <2>1, LitIs
    <3> QED BY <1>1, <1>2, <1>5, <3>1 DEF LitOf
  <2> QED BY <1>1, <1>2, <1>5, <2>1, LitThread
<1>6. ASSUME Continues(t, <<>>), Op(t).cmd # "enabled", lnbEnabled' = lnbEnabled
      PROVE  Changed(t) /\ (LitOf(t) => Settles(prog'[t], lnb, lnbEnabled') /\ ~sticky')
  <2>1. Changed(t) /\ sticky' = sticky
    BY <1>1, <1>6, Passed
  <2>2. LitOf(t) => Settles(prog'[t], lnb, lnbEnabled)
    BY <1>1, <1>3, <1>4, <1>6, PassedSettles DEF LitOf
  <2> QED BY <1>6, <2>1, <2>2 DEF LitOf
<1>7. CASE SetsEnabled(t)
  <2>1. Continues(t, <<>>) /\ Op(t).cmd = "enabled" /\ lnbEnabled' = Op(t).val
    BY <1>7 DEF SetsEnabled, Doing
  <2> DEFINE v == Op(t).val
  <2>2. v \in BOOLEAN
    BY <1>3, <2>1 DEF OpOK
  <2>3. Changed(t) /\ sticky' = sticky
    BY <1>1, <2>1, Passed
  <2>4. LitOf(t) => Settles(prog'[t], lnb, v)
    BY <1>1, <1>4, <2>1, <2>2, PassedSettles DEF LitOf
  <2> HIDE DEF v
  <2>5. lnbEnabled' = v
    BY <2>1 DEF v
  <2> QED BY <2>3, <2>4, <2>5 DEF LitOf
<1>8. CASE Marks(t) /\ ~SetsEnabled(t)
  <2>1. Op(t).cmd # "enabled"
    BY <1>8 DEF Marks, SetsPacing, StoresCell, EndsRecord, EndsScript, Doing
  <2> QED BY <1>1, <1>6, <1>8, <2>1
<1>9. CASE PowersDown(t)
  <2>1. Kept(t) /\ sticky' = sticky /\ lnbEnabled' = lnbEnabled
    BY <1>9, PoweredDown DEF PowersDown
  <2> QED BY <1>9, <2>1, PoweredDownSettles DEF LitOf, Kept
<1>10. CASE BridgeResult(t)
  <2>1. /\ IF sticky THEN Fails(t) ELSE Continues(t, <<>>)
        /\ lnbEnabled' = lnbEnabled /\ Op(t).cmd = "result"
    BY <1>10 DEF BridgeResult, Doing
  <2>2. CASE sticky
    <3>1. Changed(t)
      BY <1>1, <2>1, <2>2, Failed
    <3> QED BY <2>2, <3>1 DEF LitOf
  <2>3. CASE ~sticky
    BY <1>6, <2>1, <2>3
  <2> QED BY <2>2, <2>3
<1>11. CASE RunsRecord(t)
  <2>1. /\ sticky' = sticky /\ lnbEnabled' = lnbEnabled /\ Op(t).cmd = "script"
        /\ (prog' = prog \/ \E x, m : Runs(t, x, m))
    BY <1>11, RecordRuns
  <2>2. CASE prog' = prog
    <3>1. Changed(t)
      BY <2>2 DEF Changed, Shape
    <3> QED BY <2>1, <2>2, <3>1 DEF LitOf
  <2>3. CASE \E x, m : Runs(t, x, m)
    <3>1. PICK x, m : Runs(t, x, m)
      BY <2>3
    <3>2. Changed(t)
      BY <3>1 DEF Runs
    <3> QED BY <1>1, <2>1, <3>1, <3>2, RecordSettles DEF LitOf
  <2> QED BY <2>1, <2>2, <2>3
<1> QED BY <1>7, <1>8, <1>9, <1>10, <1>11

LEMMA EmptySettles ==
  ASSUME NEW lit, NEW known \in BOOLEAN, Settles(<<>>, lit, known), lit = TRUE
  PROVE  known = TRUE
<1> DEFINE q == <<>>
<1>1. Len(q) = 0 /\ Settles(q, lit, known)
  OBVIOUS
<1> HIDE DEF q
<1>2. \A i \in 1..Len(q) : FALSE
  BY <1>1
<1> QED BY <1>1, <1>2 DEF Settles, KnownAhead, DarkAhead, KeptAhead

LEMMA LitStarts ==
  ASSUME Shape, Lit, NEW t \in Threads, NEW q, StartsWith(t, q) PROVE Lit'
<1>1. /\ prog[t] = <<>> /\ prog' = [prog EXCEPT ![t] = q] /\ sent' = sent /\ sticky' = sticky
      /\ beside' = (beside \/ \E u \in Threads : prog[u] # <<>>) /\ faults' = faults
      /\ lnb' = lnb /\ lnbEnabled' = lnbEnabled /\ q # <<>>
      /\ (lnb => lnbEnabled) => Settles(q, lnb, lnbEnabled)
  BY DEF StartsWith, device
<1> SUFFICES ASSUME faults' = 0, ~beside'
             PROVE  /\ Settles(Running, lnb, lnbEnabled)' /\ ~sticky'
                    /\ \A u \in Threads : ~sent'[u]
  BY DEF Lit
<1>2. faults = 0 /\ ~beside /\ \A u \in Threads : prog[u] = <<>>
  BY <1>1
<1>3. Running = <<>>
  BY <1>2 DEF Running, Threads
<1>4. Settles(<<>>, lnb, lnbEnabled) /\ ~sticky
  BY <1>2, <1>3 DEF Lit
<1>5. ASSUME lnb PROVE lnbEnabled
  <2>1. lnb = TRUE /\ lnbEnabled \in BOOLEAN
    BY <1>5 DEF Shape
  <2>2. lnbEnabled = TRUE
    BY <1>4, <2>1, EmptySettles
  <2> QED BY <2>2
<1>6. prog'[t] = q /\ \A u \in Threads : u # t => prog'[u] = <<>>
  BY <1>1, <1>2 DEF Shape
<1>7. Running' = q
  BY <1>1, <1>6 DEF Running, Threads
<1>8. Settles(Running', lnb', lnbEnabled')
  BY <1>1, <1>5, <1>7
<1> QED BY <1>1, <1>2, <1>4, <1>8 DEF Shape

LEMMA LitEnds == ASSUME Lit, InitEnds PROVE Lit'
<1>1. /\ prog' = prog /\ sent' = sent /\ lnb' = lnb /\ lnbEnabled' = lnbEnabled
      /\ beside' = beside /\ faults' = faults /\ ~sticky'
  BY DEF InitEnds, threads, device, counts
<1>2. Running' = Running /\ \A t \in Threads : Op(t)' = Op(t)
  BY <1>1 DEF Running, Op
<1> QED BY <1>1, <1>2 DEF Lit

LEMMA LitNext == ASSUME Shape, Channel, Lit, [Next]_vars PROVE Lit'
<1>1. CASE \E t \in Threads : \E q : StartsWith(t, q)
  BY <1>1, LitStarts
<1>2. ASSUME NEW t \in Threads, Sends(t) \/ SendFails(t) \/ Refused(t) \/ AnswerLate(t)
      PROVE  Lit'
  BY <1>2, LitSends, LitFaults
<1>3. ASSUME NEW t \in Threads, TakesAnswer(t) PROVE Lit'
  BY <1>3, LitAnswers
<1>4. ASSUME NEW t \in Threads, Marks(t) \/ PowersDown(t) \/ BridgeResult(t) \/ RunsRecord(t)
      PROVE  Lit'
  BY <1>4, LitLocal
<1>5. CASE UNCHANGED vars
  <2>1. /\ prog' = prog /\ sent' = sent /\ lnb' = lnb /\ lnbEnabled' = lnbEnabled
        /\ beside' = beside /\ faults' = faults /\ sticky' = sticky
    BY <1>5 DEF vars, threads, device, counts
  <2>2. Running' = Running /\ \A t \in Threads : Op(t)' = Op(t)
    BY <2>1 DEF Running, Op
  <2> QED BY <2>1, <2>2 DEF Lit
<1> QED BY <1>1, <1>2, <1>3, <1>4, <1>5, Steps, LitEnds

(* When the cold init, a tune or a power cut is over without a fault, the  *)
(* supply is dark or g_lnb_enabled is set, so lnb_power_down can cut it.   *)
THEOREM SupplyIsKnown == Spec => []LitIsKnown
<1>1. Init => Shape /\ Channel /\ Lit
  BY ShapeInit, ChannelInit, LitInit
<1>2. Shape /\ Channel /\ Lit /\ [Next]_vars => Shape' /\ Channel' /\ Lit'
  BY ShapeNext, ChannelNext, LitNext
<1>3. Shape /\ Channel /\ Lit => LitIsKnown
  <2> SUFFICES ASSUME Shape, Channel, Lit, \A t \in Threads : prog[t] = <<>>, lnb,
                      ~(faults > 0), ~beside
               PROVE  lnbEnabled
    BY DEF LitIsKnown
  <2>1. faults = 0
    BY DEF Channel, Queue
  <2>2. Running = <<>>
    BY DEF Running, Threads
  <2>3. Settles(<<>>, lnb, lnbEnabled)
    BY <2>1, <2>2 DEF Lit
  <2>4. lnb = TRUE /\ lnbEnabled \in BOOLEAN
    BY DEF Shape
  <2>5. lnbEnabled = TRUE
    BY <2>3, <2>4, EmptySettles
  <2> QED BY <2>5
<1> QED BY <1>1, <1>2, <1>3, PTL DEF Spec

=============================================================================
