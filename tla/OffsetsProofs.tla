--------------------------- MODULE OffsetsProofs ---------------------------
(***************************************************************************)
(* What the card table's arithmetic, record_object and resolve do, for     *)
(* every reservation, card size and division of a byte between direct and  *)
(* chain entries: the facts that both the old generation by itself and the *)
(* collectors of the whole heap rest on.                                   *)
(***************************************************************************)
EXTENDS Offsets, DataLemmas

USE OldAssumption, CardAssumption, EntryAssumption

-----------------------------------------------------------------------------
(* Cards. *)

\* An address lies on its card.
LEMMA CardHolds ==
    ASSUME NEW a \in Int, a >= OldStart
    PROVE  /\ CardIndex(a) \in Nat /\ CardBase(CardIndex(a)) \in Int
           /\ CardBase(CardIndex(a)) <= a /\ a < CardBase(CardIndex(a) + 1)
BY DEF CardIndex, CardBase

\* Cards lie one after the other.
LEMMA CardsApart ==
    ASSUME NEW i \in Int, NEW j \in Int, i < j
    PROVE  CardBase(i) \in Int /\ CardBase(j) \in Int /\ CardBase(i) + CardWords <= CardBase(j)
BY DEF CardBase

\* The cards that begin at or below an address.
LEMMA CardBelow ==
    ASSUME NEW a \in Int, a >= OldStart, NEW i \in Int
    PROVE  i <= CardIndex(a) <=> CardBase(i) <= a
<1>1. CardIndex(a) \in Int /\ CardBase(i) \in Int  BY CardHolds DEF CardBase
<1>2. CASE i <= CardIndex(a)
  <2>1. CASE i = CardIndex(a)  BY <1>2, <2>1, CardHolds
  <2>2. CASE i < CardIndex(a)
    BY <1>1, <1>2, <2>2, CardHolds, CardsApart
  <2> QED  BY <1>1, <1>2, <2>1, <2>2
<1>3. CASE i > CardIndex(a)
  <2>1. CardBase(CardIndex(a) + 1) <= CardBase(i)
    <3>1. CASE i = CardIndex(a) + 1  BY <1>1, <3>1
    <3>2. CASE i > CardIndex(a) + 1  BY <1>1, <3>2, CardsApart
    <3> QED  BY <1>1, <1>3, <3>1, <3>2
  <2> QED  BY <1>1, <1>3, <2>1, CardHolds DEF CardBase
<1> QED  BY <1>1, <1>2, <1>3

\* What the entry of a card says of the object that runs into it: how far back it
\* begins or, if that is more than MAX_DIRECT words, a card after its first to ask.
LEMMA EntryLeadsBack ==
    ASSUME NEW a \in Int, a >= OldStart, NEW i \in Nat, a <= CardBase(i)
    PROVE  /\ Entry(i, a) \in 0 .. 255
           /\ Entry(i, a) <= MAX_DIRECT => CardBase(i) - Entry(i, a) = a
           /\ Entry(i, a) > MAX_DIRECT =>
                 LET j == i - (Entry(i, a) - MAX_DIRECT) IN
                 j \in 0 .. i - 1 /\ CardIndex(a) < j /\ a < CardBase(j) /\ CardBase(j) < CardBase(i)
<1>1. CardBase(i) \in Int /\ CardIndex(a) \in Nat  BY CardHolds DEF CardBase
<1>2. CASE CardBase(i) - a <= MAX_DIRECT
  <2>1. Entry(i, a) = CardBase(i) - a  BY <1>2 DEF Entry
  <2> QED  BY <1>1, <1>2, <2>1
<1>3. CASE CardBase(i) - a > MAX_DIRECT
  <2>1. Entry(i, a) = MAX_DIRECT + LesserOf(i - (CardIndex(a) + 1), MAX_CHAIN_SKIP)
    BY <1>1, <1>3 DEF Entry
  <2>2. i > CardIndex(a) + 1
    <3>1. CASE i <= CardIndex(a)  BY <1>1, <1>3, <3>1, CardBelow
    <3>2. CASE i = CardIndex(a) + 1
      <4>1. CardBase(i) = CardBase(CardIndex(a)) + CardWords  BY <1>1, <3>2 DEF CardBase
      <4> QED  BY <1>1, <1>3, <4>1, CardHolds
    <3> QED  BY <1>1, <3>1, <3>2
  <2>3. PICK skip \in Nat : /\ skip = LesserOf(i - (CardIndex(a) + 1), MAX_CHAIN_SKIP)
                            /\ skip >= 1 /\ skip <= i - (CardIndex(a) + 1)
                            /\ skip <= MAX_CHAIN_SKIP
    BY <1>1, <2>2 DEF LesserOf
  <2>4. PICK j \in Nat : j = i - skip /\ CardIndex(a) < j /\ j < i  BY <1>1, <2>3
  <2>5. a < CardBase(j)  BY <1>1, <2>4, CardBelow DEF CardBase
  <2>6. CardBase(j) < CardBase(i)  BY <1>1, <2>4, CardsApart
  <2>7. Entry(i, a) = MAX_DIRECT + skip  BY <2>1, <2>3
  <2>8. j = i - (Entry(i, a) - MAX_DIRECT) /\ Entry(i, a) \in 0 .. 255 /\ Entry(i, a) > MAX_DIRECT
    BY <2>3, <2>4, <2>7
  <2>9. j \in 0 .. i - 1  BY <2>4
  <2> QED  BY <2>4, <2>5, <2>6, <2>8, <2>9
<1> QED  BY <1>1, <1>2, <1>3

\* The cards are numbered from 0.
LEMMA CardsAre == CardIndex(OldEnd - 1) \in Nat /\ \A i \in Cards : i \in Nat
<1>1. CardIndex(OldEnd - 1) \in Nat  BY CardHolds
<1> QED  BY <1>1 DEF Cards

-----------------------------------------------------------------------------
(* record_object. *)

\* record_object writes the entries of the cards that begin inside the object and
\* leaves all others.
LEMMA RecordIs ==
    ASSUME NEW offs, NEW addr \in Nat, addr >= OldStart, NEW n \in Nat \ {0}, NEW i \in Cards
    PROVE  RecordObject(offs, addr, n)[i] =
              IF addr <= CardBase(i) /\ CardBase(i) < addr + n THEN Entry(i, addr) ELSE offs[i]
<1>1. PICK c0 \in Nat : c0 = CardIndex(addr) /\ CardBase(c0) <= addr /\ CardBase(c0) \in Int
  BY CardHolds
<1>2. PICK last \in Nat : last = CardIndex(addr + n - 1)  BY CardHolds
<1>3. PICK new : new = RecordObject(offs, addr, n)[i]  OBVIOUS
<1>4. new = CASE i = c0 /\ addr = CardBase(c0) -> 0
              [] c0 < i /\ i <= last -> Entry(i, addr)
              [] OTHER -> offs[i]
  BY <1>1, <1>2, <1>3 DEF RecordObject
<1>5. i \in Nat /\ CardBase(i) \in Int  BY CardsAre DEF CardBase
<1>6. (i <= c0 <=> CardBase(i) <= addr) /\ (i <= last <=> CardBase(i) <= addr + n - 1)
  BY <1>1, <1>2, <1>5, CardBelow
<1>7. CASE i = c0 /\ addr = CardBase(c0)
  <2>1. new = 0  BY <1>4, <1>7
  <2>2. CardBase(i) - addr = 0 /\ CardBase(i) - addr <= MAX_DIRECT  BY <1>7
  <2>3. Entry(i, addr) = 0  BY <2>2 DEF Entry
  <2> QED  BY <1>3, <1>7, <2>1, <2>3
<1>8. CASE c0 < i /\ i <= last
  <2>1. new = Entry(i, addr)  BY <1>1, <1>4, <1>5, <1>8
  <2>2. addr < CardBase(i) /\ CardBase(i) < addr + n  BY <1>1, <1>5, <1>6, <1>8
  <2> QED  BY <1>3, <1>5, <2>1, <2>2
<1>9. CASE ~(i = c0 /\ addr = CardBase(c0)) /\ ~(c0 < i /\ i <= last)
  <2>1. new = offs[i]  BY <1>4, <1>9
  <2>2. ASSUME addr <= CardBase(i), CardBase(i) < addr + n  PROVE FALSE
    <3>1. i <= last  BY <1>5, <1>6, <2>2
    <3>2. i <= c0  BY <1>1, <1>2, <1>5, <1>9, <3>1
    <3>3. CardBase(i) = addr  BY <1>5, <1>6, <2>2, <3>2
    <3>4. i < c0 => CardBase(i) < CardBase(c0)  BY <1>1, <1>5, CardsApart
    <3> QED  BY <1>1, <1>5, <1>9, <3>2, <3>3, <3>4
  <2> QED  BY <1>3, <2>1, <2>2
<1> QED  BY <1>7, <1>8, <1>9

-----------------------------------------------------------------------------
(* resolve. *)

\* Where the entry of a card sends the reader.
Back(offs, i) == i - (offs[i] - MAX_DIRECT)

\* f is what resolve answers for the cards 0 to n.
Resolves(offs, f, n) ==
    f = [i \in 0 .. n |-> IF offs[i] <= MAX_DIRECT THEN CardBase(i) - offs[i]
                          ELSE IF Back(offs, i) \in 0 .. i - 1 THEN f[Back(offs, i)] ELSE -1]

\* An answer for n cards makes one for the next.
LEMMA ResolvesNext ==
    ASSUME NEW offs, NEW n \in Nat, NEW f, Resolves(offs, f, n)
    PROVE  \E g : Resolves(offs, g, n + 1)
<1> DEFINE last == IF offs[n + 1] <= MAX_DIRECT THEN CardBase(n + 1) - offs[n + 1]
                   ELSE IF Back(offs, n + 1) \in 0 .. (n + 1) - 1 THEN f[Back(offs, n + 1)] ELSE -1
           g == [i \in 0 .. n + 1 |-> IF i = n + 1 THEN last ELSE f[i]]
<1>1. (\A i \in 0 .. n : g[i] = f[i] /\ i # n + 1) /\ g[n + 1] = last
      /\ g = [i \in 0 .. n + 1 |-> g[i]]
  OBVIOUS
<1>2. \A i \in 0 .. n + 1 :
          g[i] = IF offs[i] <= MAX_DIRECT THEN CardBase(i) - offs[i]
                 ELSE IF Back(offs, i) \in 0 .. i - 1 THEN g[Back(offs, i)] ELSE -1
  <2> TAKE i \in 0 .. n + 1
  <2>1. CASE i = n + 1
    <3>1. \A j \in 0 .. (n + 1) - 1 : g[j] = f[j]  BY <1>1
    <3> HIDE DEF g
    <3> QED  BY <1>1, <2>1, <3>1
  <2>2. CASE i # n + 1
    <3>1. i \in 0 .. n /\ \A j \in 0 .. i - 1 : j \in 0 .. n  BY <2>2
    <3>2. f[i] = IF offs[i] <= MAX_DIRECT THEN CardBase(i) - offs[i]
                 ELSE IF Back(offs, i) \in 0 .. i - 1 THEN f[Back(offs, i)] ELSE -1
      BY <3>1 DEF Resolves
    <3> HIDE DEF g, last
    <3> QED  BY <1>1, <3>1, <3>2
  <2> QED  BY <2>1, <2>2
<1> HIDE DEF g
<1>3. Resolves(offs, g, n + 1)  BY <1>1, <1>2 DEF Resolves
<1> QED  BY <1>3

\* So there is one for every number of cards.
LEMMA ResolvesExists ==
    ASSUME NEW offs, NEW n \in Nat
    PROVE  \E f : Resolves(offs, f, n)
<1> DEFINE T == {k \in Nat : ~ \E f : Resolves(offs, f, k)}
<1> SUFFICES ASSUME T # {} PROVE FALSE  OBVIOUS
<1>1. PICK k \in T : \A j \in T : k <= j  BY LeastNat
<1>2. CASE k = 0
  <2>1. PICK f : f = [i \in 0 .. 0 |-> IF offs[i] <= MAX_DIRECT THEN CardBase(i) - offs[i] ELSE -1]
    OBVIOUS
  <2>2. \A i \in 0 .. 0 : Back(offs, i) \notin 0 .. i - 1  OBVIOUS
  <2>3. Resolves(offs, f, 0)  BY <2>1, <2>2 DEF Resolves
  <2> QED  BY <1>2, <2>3
<1>3. CASE k # 0
  <2>1. k - 1 \in Nat /\ (k - 1) + 1 = k /\ ~(k <= k - 1)  BY <1>3
  <2>2. k - 1 \notin T  BY <1>1, <2>1
  <2>3. PICK f : Resolves(offs, f, k - 1)  BY <2>1, <2>2
  <2>4. \E g : Resolves(offs, g, (k - 1) + 1)  BY <2>1, <2>3, ResolvesNext
  <2> QED  BY <2>1, <2>4
<1> QED  BY <1>2, <1>3

\* What resolve answers: a direct entry's header, or what it answers for the card the
\* entry leads back to.
LEMMA ResolveUnfolds ==
    ASSUME NEW offs
    PROVE  \A i \in Cards :
              Resolve(offs, i) = IF offs[i] <= MAX_DIRECT THEN CardBase(i) - offs[i]
                                 ELSE IF Back(offs, i) \in 0 .. i - 1
                                      THEN Resolve(offs, Back(offs, i)) ELSE -1
<1>1. PICK n \in Nat : n = CardIndex(OldEnd - 1) /\ Cards = 0 .. n  BY CardsAre DEF Cards
<1>2. \E f : f = [i \in Cards |-> IF offs[i] <= MAX_DIRECT THEN CardBase(i) - offs[i]
                                  ELSE IF i - (offs[i] - MAX_DIRECT) \in 0 .. i - 1
                                       THEN f[i - (offs[i] - MAX_DIRECT)] ELSE -1]
  <2>1. PICK f : Resolves(offs, f, n)  BY ResolvesExists
  <2> QED  BY <1>1, <2>1 DEF Resolves, Back
<1>3. \E g : /\ Resolves(offs, g, n)
             /\ \A i \in Cards : Resolve(offs, i) = g[i]
  BY <1>1, <1>2 DEF Resolve, Resolves, Back
<1>4. PICK g : Resolves(offs, g, n) /\ \A i \in Cards : Resolve(offs, i) = g[i]  BY <1>3
<1> TAKE i \in Cards
<1>5. g[i] = IF offs[i] <= MAX_DIRECT THEN CardBase(i) - offs[i]
             ELSE IF Back(offs, i) \in 0 .. i - 1 THEN g[Back(offs, i)] ELSE -1
  BY <1>1, <1>4 DEF Resolves
<1>6. \A j \in 0 .. i - 1 : j \in Cards  BY <1>1
<1> QED  BY <1>4, <1>5, <1>6

\* resolve finds the header of the object in which a card begins, when every card below
\* the top has the entry that record_object gives it: by the first card it gets wrong.
LEMMA ResolveFinds ==
    ASSUME NEW offs, NEW top \in Int, NEW H \in SUBSET Nat, NEW sz \in [H -> Nat \ {0}],
           \A a \in H : a >= OldStart,
           \A a, b \in H : a < b => a + sz[a] <= b,
           \A i \in Cards : CardBase(i) < top =>
              \E a \in H : a <= CardBase(i) /\ CardBase(i) < a + sz[a] /\ offs[i] = Entry(i, a)
    PROVE  \A i \in Cards : CardBase(i) < top =>
              \E a \in H : /\ a = Resolve(offs, i)
                          /\ a <= CardBase(i) /\ CardBase(i) < a + sz[a]
<1> DEFINE Covers(a, i) == a <= CardBase(i) /\ CardBase(i) < a + sz[a]
           Found(i) == \E a \in H : a = Resolve(offs, i) /\ Covers(a, i)
           T == {i \in Cards : CardBase(i) < top /\ ~Found(i)}
<1>1. T = {}
  <2> SUFFICES ASSUME T # {} PROVE FALSE  OBVIOUS
  <2>1. T \in SUBSET Nat  BY CardsAre
  <2>2. PICK i \in T : \A j \in T : i <= j  BY <2>1, LeastNat
  <2>3. i \in Cards /\ i \in Nat /\ CardBase(i) < top /\ ~Found(i)  BY <2>1
  <2>4. PICK a \in H : Covers(a, i) /\ offs[i] = Entry(i, a)  BY <2>3
  <2>5. /\ a \in Int /\ a >= OldStart /\ a <= CardBase(i) /\ CardBase(i) < a + sz[a]
        /\ sz[a] \in Nat /\ CardBase(i) \in Int
    BY <2>3, <2>4 DEF CardBase
  <2>6. CASE Entry(i, a) <= MAX_DIRECT
    <3>1. CardBase(i) - Entry(i, a) = a  BY <2>3, <2>5, <2>6, EntryLeadsBack
    <3>2. Resolve(offs, i) = a  BY <2>3, <2>4, <2>6, <3>1, ResolveUnfolds
    <3> QED  BY <2>3, <2>4, <3>2
  <2>7. CASE ~(Entry(i, a) <= MAX_DIRECT)
    <3>1. Entry(i, a) \in Nat /\ Entry(i, a) > MAX_DIRECT
      <4>1. Entry(i, a) \in 0 .. 255  BY <2>3, <2>5, EntryLeadsBack
      <4> QED  BY <2>7, <4>1
    <3>2. PICK j : j = Back(offs, i)  OBVIOUS
    <3>3. /\ j \in 0 .. i - 1 /\ j \in Cards /\ j \in Nat /\ j < i
          /\ a < CardBase(j) /\ CardBase(j) < CardBase(i) /\ CardBase(j) \in Int
      <4>1. j = i - (Entry(i, a) - MAX_DIRECT)  BY <2>4, <3>2 DEF Back
      <4>2. j \in 0 .. i - 1 /\ a < CardBase(j) /\ CardBase(j) < CardBase(i)
        BY <2>3, <2>5, <3>1, <4>1, EntryLeadsBack
      <4>3. j \in Cards  BY <2>3, <4>2, CardsAre DEF Cards
      <4> QED  BY <2>3, <4>2, <4>3 DEF CardBase
    <3>4. Resolve(offs, i) = Resolve(offs, j)
      BY <2>3, <2>4, <2>7, <3>2, <3>3, ResolveUnfolds
    <3>5. Found(j)
      <4>1. j \notin T /\ CardBase(j) < top  BY <2>2, <2>3, <2>5, <3>3
      <4> QED  BY <3>3, <4>1
    <3>6. PICK b \in H : b = Resolve(offs, j) /\ Covers(b, j)  BY <3>5
    <3>7. b \in Int /\ sz[b] \in Nat /\ b <= CardBase(j) /\ CardBase(j) < b + sz[b]
      BY <3>6
    <3>8. b = a
      <4>1. ~(a < b)
        <5>1. a < b => a + sz[a] <= b  OBVIOUS
        <5> QED  BY <2>5, <3>3, <3>7, <5>1
      <4>2. ~(b < a)
        <5>1. b < a => b + sz[b] <= a  OBVIOUS
        <5> QED  BY <2>5, <3>3, <3>7, <5>1
      <4> QED  BY <2>5, <3>7, <4>1, <4>2
    <3> QED  BY <2>3, <2>4, <3>4, <3>6, <3>8
  <2> QED  BY <2>6, <2>7
<1> QED  BY <1>1

=============================================================================
