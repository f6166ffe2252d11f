---------------------------- MODULE DataLemmas ----------------------------
(***************************************************************************)
(* What the sequence operators of the models do to the sequence a step     *)
(* leaves behind, in the form in which the proofs cite them, and the least *)
(* and greatest elements that arguments by a first counterexample need.    *)
(***************************************************************************)
EXTENDS Sequences, Integers, TLAPS, WellFoundedInduction

\* The elements of a sequence, by position.
LEMMA SeqElements ==
    ASSUME NEW S, NEW s \in Seq(S)
    PROVE  /\ Len(s) \in Nat /\ DOMAIN s = 1 .. Len(s)
           /\ \A n \in DOMAIN s : s[n] \in S
OBVIOUS

\* A step that appends (a channel's send, a new slot of a registry).
LEMMA SeqAppended ==
    ASSUME NEW S, NEW s \in Seq(S), NEW x \in S, NEW t, t = Append(s, x)
    PROVE  /\ t \in Seq(S) /\ Len(t) = Len(s) + 1
           /\ DOMAIN t = 1 .. Len(s) + 1
           /\ t[Len(s) + 1] = x
           /\ \A j \in 1 .. Len(s) : t[j] = s[j]
OBVIOUS

\* A step that overwrites one element.
LEMMA SeqReplaced ==
    ASSUME NEW S, NEW s \in Seq(S), NEW x \in S, NEW k \in DOMAIN s,
           NEW t, t = [s EXCEPT ![k] = x]
    PROVE  /\ t \in Seq(S) /\ Len(t) = Len(s) /\ DOMAIN t = DOMAIN s
           /\ t[k] = x
           /\ \A j \in DOMAIN s : j # k => t[j] = s[j]
OBVIOUS

\* A step that takes the first element (a channel's receive).
LEMMA SeqTaken ==
    ASSUME NEW S, NEW s \in Seq(S), s # << >>, NEW t, t = Tail(s)
    PROVE  /\ t \in Seq(S) /\ Len(t) = Len(s) - 1 /\ DOMAIN t = 1 .. Len(s) - 1
           /\ \A j \in DOMAIN t : t[j] = s[j + 1]
           /\ Head(s) = s[1] /\ Head(s) \in S /\ 1 \in DOMAIN s /\ Len(s) >= 1
OBVIOUS

\* A step that cuts a sequence (a stack unwound to one of its frames).
LEMMA SeqCut ==
    ASSUME NEW S, NEW s \in Seq(S), NEW m \in 0 .. Len(s), NEW t, t = SubSeq(s, 1, m)
    PROVE  /\ t \in Seq(S) /\ Len(t) = m /\ DOMAIN t = 1 .. m
           /\ \A j \in 1 .. m : t[j] = s[j]
OBVIOUS

\* A sequence given element by element.
LEMMA SeqMade ==
    ASSUME NEW S, NEW n \in Nat, NEW t, t = [k \in 1 .. n |-> t[k]],
           \A k \in 1 .. n : t[k] \in S
    PROVE  t \in Seq(S) /\ Len(t) = n /\ DOMAIN t = 1 .. n
OBVIOUS

\* Every nonempty set of naturals has a least element.
LEMMA LeastNat ==
    ASSUME NEW T \in SUBSET Nat, T # {}
    PROVE  \E m \in T : \A j \in T : m <= j
<1> DEFINE R == OpToRel(<, Nat)
<1>1. IsWellFoundedOn(R, Nat)  BY NatLessThanWellFounded
<1>2. \A x, y \in Nat : <<x, y>> \in R <=> x < y
  BY DEF OpToRel
<1> HIDE DEF R
<1>3. PICK x \in T : \A y \in T : ~ (<<y, x>> \in R)
  BY <1>1, WFMin
<1>5. ASSUME NEW y \in T PROVE x <= y
  <2>1. ~(y < x) BY <1>2, <1>3
  <2>2. x \in Nat /\ y \in Nat OBVIOUS
  <2> QED BY <2>1, <2>2
<1> QED BY <1>5

\* Every nonempty set of naturals that has a bound has a greatest element.
LEMMA Greatest ==
    ASSUME NEW n \in Nat, NEW S \in SUBSET (0 .. n), S # {}
    PROVE  \E m \in S : \A j \in S : j <= m
<1> DEFINE T == {i \in Nat : n - i \in S}
<1>0. \A j \in S : n - j \in T
  <2> TAKE j \in S
  <2>1. j \in 0 .. n OBVIOUS
  <2>2. n - j \in Nat /\ n - (n - j) = j BY <2>1
  <2> QED BY <2>2
<1>1. T \in SUBSET Nat /\ T # {} BY <1>0
<1>2. PICK m \in T : \A j \in T : m <= j BY <1>1, LeastNat
<1>3. n - m \in S  OBVIOUS
<1>4. ASSUME NEW j \in S PROVE j <= n - m
  <2>1. m <= n - j BY <1>0, <1>2
  <2>2. j \in 0 .. n /\ m \in Nat OBVIOUS
  <2> QED BY <2>1, <2>2
<1> QED BY <1>3, <1>4

=============================================================================
