------------------------------ MODULE FoldProofs ------------------------------
(***************************************************************************)
(* What FoldLeft computes, for any operator and any sequence: the lemmas   *)
(* that proofs about handlers with a loop need (StreamTrackProofs,         *)
(* SessionProofs, MediaProofs).  The operator is a parameter of the        *)
(* module, which those modules instantiate.                                *)
(*                                                                         *)
(* The community modules define FoldLeft by a recursive function on the    *)
(* sets of indices, so that its value has to be shown to exist first       *)
(* (IterExists).  Induction is that of NatInd, which is about a set of     *)
(* numbers and follows from the well-foundedness of the order on them.     *)
(***************************************************************************)
EXTENDS Integers, SequencesExt, WellFoundedInduction, TLAPS

CONSTANT Op(_, _)
-----------------------------------------------------------------------------
(* Induction over the natural numbers, for a set of them.                  *)
LEMMA NatInd ==
  ASSUME NEW S, 0 \in S, \A n \in Nat : n \in S => n + 1 \in S
  PROVE  Nat \subseteq S
<1> DEFINE T == Nat \ S
           R == OpToRel(<, Nat)
<1>1. SUFFICES ASSUME T # {} PROVE FALSE
  OBVIOUS
<1>2. IsWellFoundedOn(R, Nat)
  BY NatLessThanWellFounded
<1>3. PICK x \in T : \A y \in T : ~ (<<y, x>> \in R)
  <2> HIDE DEF R, T
  <2>1. T \subseteq Nat
    BY DEF T
  <2> QED BY <1>1, <1>2, <2>1, WFMin
<1>4. x \in Nat /\ x # 0 /\ x \notin S
  OBVIOUS
<1>5. x - 1 \in Nat
  BY <1>4
<1>6. <<x - 1, x>> \in R
  BY <1>4, <1>5 DEF OpToRel
<1>7. x - 1 \in S
  BY <1>3, <1>5, <1>6
<1>8. x - 1 + 1 = x
  BY <1>4
<1> QED BY <1>4, <1>5, <1>7, <1>8

(* The equation of MapThenFoldSet for a fold over the indices of seq, from  *)
(* the largest one down.                                                   *)
Step(h, s, base, seq) == IF s = {} THEN base ELSE Op(h[s \ {Max(s)}], seq[Max(s)])

(* The largest index of a set that has the last one. *)
LEMMA MaxOfRange ==
  ASSUME NEW n \in Nat, NEW s \in SUBSET (1 .. n + 1), n + 1 \in s
  PROVE  Max(s) = n + 1
<1>1. \A y \in s : n + 1 >= y
  OBVIOUS
<1>2. \A x \in s : (\A y \in s : x >= y) => x = n + 1
  <2> SUFFICES ASSUME NEW x \in s, \A y \in s : x >= y PROVE x = n + 1
    OBVIOUS
  <2>1. x >= n + 1 /\ x \in 1 .. n + 1
    OBVIOUS
  <2> QED BY <2>1
<1> QED BY <1>1, <1>2 DEF Max

(* A set of indices has a largest one. *)
LEMMA MaxIn ==
  ASSUME NEW n \in Nat, NEW s \in SUBSET (1 .. n), s # {}
  PROVE  Max(s) \in s
<1> DEFINE S == {k \in Nat : \A t \in SUBSET (1 .. k) : t # {} => \E x \in t : \A y \in t : x >= y}
<1>1. 0 \in S
  <2>1. \A t \in SUBSET (1 .. 0) : t = {}
    <3>1. 1 .. 0 = {}
      OBVIOUS
    <3> QED BY <3>1
  <2> QED BY <2>1
<1>2. ASSUME NEW k \in Nat, k \in S PROVE k + 1 \in S
  <2> SUFFICES ASSUME NEW t \in SUBSET (1 .. k + 1), t # {}
               PROVE \E x \in t : \A y \in t : x >= y
    OBVIOUS
  <2>1. CASE k + 1 \in t
    BY <2>1
  <2>2. CASE k + 1 \notin t
    <3>1. t \in SUBSET (1 .. k)
      BY <2>2
    <3> QED BY <3>1, <1>2
  <2> QED BY <2>1, <2>2
<1>3. Nat \subseteq S
  <2> HIDE DEF S
  <2> QED BY <1>1, <1>2, NatInd
<1> QED BY <1>3 DEF Max

(* There is a function that satisfies the equation. *)
LEMMA IterExists ==
  ASSUME NEW base, NEW seq, NEW n \in Nat
  PROVE  \E h : h = [s \in SUBSET (1 .. n) |-> Step(h, s, base, seq)]
<1> DEFINE S == {k \in Nat : \E h : h = [s \in SUBSET (1 .. k) |-> Step(h, s, base, seq)]}
<1>1. 0 \in S
  <2> DEFINE h == [s \in SUBSET (1 .. 0) |-> base]
  <2>1. h = [s \in SUBSET (1 .. 0) |-> Step(h, s, base, seq)]
    BY DEF Step
  <2> HIDE DEF h
  <2> QED BY <2>1
<1>2. ASSUME NEW k \in Nat, k \in S PROVE k + 1 \in S
  <2>1. PICK h : h = [s \in SUBSET (1 .. k) |-> Step(h, s, base, seq)]
    BY <1>2
  <2> DEFINE g == [s \in SUBSET (1 .. k + 1) |->
                     IF k + 1 \in s THEN Op(h[s \ {k + 1}], seq[k + 1]) ELSE h[s]]
  <2>2. ASSUME NEW s \in SUBSET (1 .. k + 1) PROVE g[s] = Step(g, s, base, seq)
    <3>1. CASE k + 1 \in s
      <4>1. Max(s) = k + 1
        BY <3>1, MaxOfRange
      <4>2. s \ {k + 1} \in SUBSET (1 .. k + 1) /\ k + 1 \notin s \ {k + 1}
        OBVIOUS
      <4>3. g[s \ {k + 1}] = h[s \ {k + 1}]
        BY <4>2
      <4> QED BY <3>1, <4>1, <4>3 DEF Step
    <3>2. CASE k + 1 \notin s
      <4>1. s \in SUBSET (1 .. k)
        BY <3>2
      <4>2. g[s] = h[s] /\ h[s] = Step(h, s, base, seq)
        BY <3>2, <4>1, <2>1
      <4>3. CASE s # {}
        <5>1. Max(s) \in s
          BY <4>1, <4>3, MaxIn
        <5>2. g[s \ {Max(s)}] = h[s \ {Max(s)}]
          BY <3>2
        <5> QED BY <4>2, <5>2, <4>3 DEF Step
      <4> QED BY <4>2, <4>3 DEF Step
    <3> QED BY <3>1, <3>2
  <2>3. g = [s \in SUBSET (1 .. k + 1) |-> Step(g, s, base, seq)]
    <3>1. g = [s \in SUBSET (1 .. k + 1) |-> g[s]]
      OBVIOUS
    <3> HIDE DEF g
    <3> QED BY <2>2, <3>1
  <2> HIDE DEF g
  <2> QED BY <2>3
<1>3. Nat \subseteq S
  <2> HIDE DEF S
  <2> QED BY <1>1, <1>2, NatInd
<1> QED BY <1>3

(* The fold, named so that it can be cited of an instance. *)
Folded(base, seq) == FoldLeft(Op, base, seq)

(* It is the last of the results of taking one element after the other. *)
LEMMA FoldedSteps ==
  ASSUME NEW base, NEW seq, NEW n \in Nat, DOMAIN seq = 1 .. n
  PROVE  \E f : /\ f[0] = base
                /\ \A i \in 1 .. n : f[i] = Op(f[i - 1], seq[i])
                /\ Folded(base, seq) = f[n]
<1> DEFINE h == CHOOSE h : h = [s \in SUBSET (1 .. n) |-> Step(h, s, base, seq)]
<1>1. h = [s \in SUBSET (1 .. n) |-> Step(h, s, base, seq)]
  BY IterExists
<1>2. Folded(base, seq) = h[1 .. n]
  BY DEF Folded, FoldLeft, MapThenFoldSet, Step
<1> DEFINE f == [i \in 0 .. n |-> h[1 .. i]]
<1>3. f[0] = base
  <2>1. {} \in SUBSET (1 .. n) /\ 1 .. 0 = {}
    OBVIOUS
  <2>2. h[{}] = Step(h, {}, base, seq)
    <3> HIDE DEF h
    <3> QED BY <1>1, <2>1
  <2> HIDE DEF h
  <2>3. f[0] = h[{}]
    BY <2>1
  <2> QED BY <2>2, <2>3 DEF Step
<1>4. ASSUME NEW i \in 1 .. n PROVE f[i] = Op(f[i - 1], seq[i])
  <2>1. i - 1 \in Nat /\ i \in 1 .. (i - 1 + 1) /\ i - 1 + 1 = i
    OBVIOUS
  <2>2. Max(1 .. i) = i
    <3>1. 1 .. i \in SUBSET (1 .. i - 1 + 1)
      BY <2>1
    <3> QED BY <2>1, <3>1, MaxOfRange
  <2>3. (1 .. i) \ {i} = 1 .. i - 1 /\ 1 .. i # {} /\ 1 .. i \in SUBSET (1 .. n)
    <3>1. \A j : j \in (1 .. i) \ {i} <=> j \in 1 .. i - 1
      OBVIOUS
    <3>2. 1 \in 1 .. i
      OBVIOUS
    <3> QED BY <3>1, <3>2
  <2>4. h[1 .. i] = Step(h, 1 .. i, base, seq)
    <3> HIDE DEF h
    <3> QED BY <1>1, <2>3
  <2>5. f[i] = h[1 .. i] /\ f[i - 1] = h[1 .. i - 1]
    OBVIOUS
  <2> HIDE DEF h
  <2> HIDE DEF f
  <2> QED BY <2>2, <2>3, <2>4, <2>5 DEF Step
<1> HIDE DEF h
<1>5. f[n] = h[1 .. n]
  OBVIOUS
<1> HIDE DEF f
<1> QED BY <1>2, <1>3, <1>4, <1>5

(* Of nothing, it is what it starts with. *)
THEOREM FoldedEmpty ==
  ASSUME NEW base
  PROVE  Folded(base, <<>>) = base
<1>1. DOMAIN <<>> = 1 .. 0
  OBVIOUS
<1>2. PICK f : f[0] = base /\ Folded(base, <<>>) = f[0]
  BY <1>1, FoldedSteps
<1> QED BY <1>2

(* Of a sequence with one element more, it is one step more. *)
THEOREM FoldedAppend ==
  ASSUME NEW S, NEW seq \in Seq(S), NEW e, NEW base
  PROVE  Folded(base, Append(seq, e)) = Op(Folded(base, seq), e)
<1> DEFINE n == Len(seq)
           longer == Append(seq, e)
<1>1. /\ n \in Nat /\ DOMAIN seq = 1 .. n /\ DOMAIN longer = 1 .. n + 1
      /\ longer[n + 1] = e /\ \A i \in 1 .. n : longer[i] = seq[i]
  OBVIOUS
<1> HIDE DEF n, longer
<1>2. PICK f : /\ f[0] = base /\ \A i \in 1 .. n : f[i] = Op(f[i - 1], seq[i])
               /\ Folded(base, seq) = f[n]
  BY <1>1, FoldedSteps
<1>3. PICK g : /\ g[0] = base /\ \A i \in 1 .. n + 1 : g[i] = Op(g[i - 1], longer[i])
               /\ Folded(base, longer) = g[n + 1]
  <2>1. n + 1 \in Nat
    BY <1>1
  <2> QED BY <1>1, <2>1, FoldedSteps
<1> DEFINE T == {k \in Nat : k <= n => f[k] = g[k]}
<1>4. ASSUME NEW k \in Nat, k \in T PROVE k + 1 \in T
  <2> SUFFICES ASSUME k + 1 <= n PROVE f[k + 1] = g[k + 1]
    OBVIOUS
  <2>1. k + 1 \in 1 .. n /\ k + 1 \in 1 .. n + 1 /\ k + 1 - 1 = k /\ k <= n
    BY <1>1
  <2>2. f[k] = g[k]
    BY <1>4, <2>1
  <2> QED BY <1>1, <1>2, <1>3, <2>1, <2>2
<1>5. 0 \in T
  BY <1>2, <1>3
<1>6. n \in T
  <2> HIDE DEF T
  <2> QED BY <1>1, <1>4, <1>5, NatInd
<1>7. n + 1 \in 1 .. n + 1 /\ n + 1 - 1 = n
  BY <1>1
<1>8. g[n + 1] = Op(g[n], e)
  BY <1>1, <1>3, <1>7
<1> QED BY <1>1, <1>2, <1>3, <1>6, <1>8 DEF longer

(* Of one element, it is one step. *)
THEOREM FoldedOne ==
  ASSUME NEW e, NEW base
  PROVE  Folded(base, <<e>>) = Op(base, e)
<1>1. Append(<<>>, e) = <<e>> /\ <<>> \in Seq({e})
  OBVIOUS
<1>2. Folded(base, Append(<<>>, e)) = Op(Folded(base, <<>>), e)
  BY ONLY <1>1, FoldedAppend
<1> QED BY ONLY <1>1, <1>2, FoldedEmpty

(* What every step keeps, as the sets D[i] say for the first i elements,   *)
(* holds of the fold.                                                      *)
THEOREM FoldedIn ==
  ASSUME NEW n \in Nat, NEW seq, DOMAIN seq = 1 .. n, NEW D, NEW base \in D[0],
         \A i \in 1 .. n : \A d \in D[i - 1] : Op(d, seq[i]) \in D[i]
  PROVE  Folded(base, seq) \in D[n]
<1>1. PICK f : /\ f[0] = base /\ \A i \in 1 .. n : f[i] = Op(f[i - 1], seq[i])
               /\ Folded(base, seq) = f[n]
  BY FoldedSteps
<1> DEFINE T == {k \in Nat : k <= n => f[k] \in D[k]}
<1>2. 0 \in T
  BY <1>1
<1>3. ASSUME NEW k \in Nat, k \in T PROVE k + 1 \in T
  <2> SUFFICES ASSUME k + 1 <= n PROVE f[k + 1] \in D[k + 1]
    OBVIOUS
  <2>1. k + 1 \in 1 .. n /\ k + 1 - 1 = k /\ k <= n
    OBVIOUS
  <2>2. f[k] \in D[k]
    BY <1>3, <2>1
  <2> QED BY <1>1, <2>1, <2>2
<1>4. n \in T
  <2> HIDE DEF T
  <2> QED BY <1>2, <1>3, NatInd
<1> QED BY <1>1, <1>4

(* The results of taking one element after the other, under a name. *)
Results(f, base, seq, n) ==
  /\ f[0] = base /\ \A i \in 1 .. n : f[i] = Op(f[i - 1], seq[i])
  /\ Folded(base, seq) = f[n]

(* There are such results. *)
LEMMA FoldedResults ==
  ASSUME NEW base, NEW seq, NEW n \in Nat, DOMAIN seq = 1 .. n
  PROVE  \E f : Results(f, base, seq, n)
<1>1. PICK f : /\ f[0] = base
               /\ \A i \in 1 .. n : f[i] = Op(f[i - 1], seq[i])
               /\ Folded(base, seq) = f[n]
  <2> PICK e : seq[n] = e  \* an application for the provers to start from
    OBVIOUS
  <2> QED BY FoldedSteps
<1> QED BY <1>1 DEF Results

(* Of two sequences in a row, it goes on from where the first one ends.    *)
THEOREM FoldedConcat ==
  ASSUME NEW S, NEW a \in Seq(S), NEW b \in Seq(S), NEW base
  PROVE  Folded(base, a \o b) = Folded(Folded(base, a), b)
<1> DEFINE m == Len(a)
           n == Len(b)
           c == a \o b
<1>1. /\ m \in Nat /\ n \in Nat /\ m + n \in Nat
      /\ DOMAIN a = 1 .. m /\ DOMAIN b = 1 .. n /\ DOMAIN c = 1 .. m + n
      /\ (\A i \in 1 .. m : c[i] = a[i]) /\ (\A i \in 1 .. n : c[m + i] = b[i])
  <2>1. /\ m \in Nat /\ n \in Nat /\ DOMAIN a = 1 .. m /\ DOMAIN b = 1 .. n
        /\ c \in Seq(S) /\ Len(c) = m + n
    BY ONLY a \in Seq(S), b \in Seq(S)
  <2>2. DOMAIN c = 1 .. m + n
    BY ONLY <2>1
  <2>3. (\A i \in 1 .. m : c[i] = a[i]) /\ (\A i \in 1 .. n : c[m + i] = b[i])
    <3> USE ONLY a \in Seq(S), b \in Seq(S)
    <3>1. \A i \in 1 .. m : c[i] = a[i]
      OBVIOUS
    <3>2. \A i \in 1 .. n : c[m + i] = b[i]
      OBVIOUS
    <3> QED BY <3>1, <3>2
  <2> QED BY ONLY <2>1, <2>2, <2>3
<1> HIDE DEF m, n, c
<1>2. PICK g : /\ g[0] = base /\ \A i \in 1 .. m + n : g[i] = Op(g[i - 1], c[i])
               /\ Folded(base, c) = g[m + n]
  <2>1. \E g : Results(g, base, c, m + n)
    BY ONLY <1>1, FoldedResults
  <2> QED BY ONLY <2>1 DEF Results
<1>3. Folded(base, a) = g[m]
  <2> DEFINE D == [i \in 0 .. m |-> {g[i]}]
  <2>1. base \in D[0]
    BY <1>1, <1>2
  <2>2. ASSUME NEW i \in 1 .. m, NEW d \in D[i - 1] PROVE Op(d, a[i]) \in D[i]
    <3>1. i - 1 \in 0 .. m /\ i \in 0 .. m /\ i \in 1 .. m + n
      BY <1>1
    <3>2. d = g[i - 1] /\ g[i] = Op(g[i - 1], c[i]) /\ c[i] = a[i]
      BY <1>1, <1>2, <2>2, <3>1
    <3> QED BY <3>1, <3>2
  <2>3. Folded(base, a) \in D[m]
    <3> HIDE DEF D
    <3> QED BY <1>1, <2>1, <2>2, FoldedIn
  <2>4. m \in 0 .. m
    BY <1>1
  <2> QED BY <2>3, <2>4
<1>4. Folded(g[m], b) = g[m + n]
  <2> DEFINE D == [i \in 0 .. n |-> {g[m + i]}]
  <2>1. g[m] \in D[0]
    BY <1>1
  <2>2. ASSUME NEW i \in 1 .. n, NEW d \in D[i - 1] PROVE Op(d, b[i]) \in D[i]
    <3>1. /\ i - 1 \in 0 .. n /\ i \in 0 .. n /\ m + i \in 1 .. m + n
          /\ m + (i - 1) = m + i - 1
      BY <1>1
    <3>2. d = g[m + i - 1] /\ g[m + i] = Op(g[m + i - 1], c[m + i]) /\ c[m + i] = b[i]
      BY <1>1, <1>2, <2>2, <3>1
    <3> QED BY <3>1, <3>2
  <2>3. Folded(g[m], b) \in D[n]
    <3> HIDE DEF D
    <3> QED BY <1>1, <2>1, <2>2, FoldedIn
  <2>4. n \in 0 .. n
    BY <1>1
  <2> QED BY <2>3, <2>4
<1> QED BY <1>2, <1>3, <1>4 DEF c
=============================================================================
