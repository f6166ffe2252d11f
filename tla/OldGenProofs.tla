---------------------------- MODULE OldGenProofs ----------------------------
(***************************************************************************)
(* The old generation keeps its objects apart, and resolve finds their     *)
(* headers, for every reservation, card size, segment size, set of object  *)
(* sizes and division of a byte between direct and chain entries.          *)
(*                                                                         *)
(* That a slide never writes over an object still to be moved              *)
(* (SlideIsSafe) is not inductive alone: placing one object is harmless to *)
(* the next because the objects did not overlap before the compaction      *)
(* began (LayoutInv).  What resolve answers follows from TableInv, which   *)
(* says of every card below the top that its entry is the one record_object*)
(* computes for the object it lies in, by induction on the card.           *)
(***************************************************************************)
EXTENDS OldGen, OffsetsProofs

USE OldAssumption, CardAssumption, EntryAssumption, SegmentAssumption, SizesAssumption

\* Everything but the offset table is where it should be.
BoundsOK ==
    /\ top \in OldStart .. OldEnd
    /\ committed_end \in top .. OldEnd
    /\ Headers \subseteq Addrs
    /\ size \in [Headers -> Sizes]
    /\ plan \subseteq Headers

\* No two objects share a word, placed ones lie below the top, and the ones still to
\* be moved lie between the top and the end of the committed prefix.
Apart ==
    /\ \A a, b \in Headers : a < b => a + size[a] <= b
    /\ \A a \in Headers \ plan : a + size[a] <= top
    /\ \A e \in plan : top <= e /\ e + size[e] <= committed_end

LayoutInv == BoundsOK /\ Apart

\* An allocation at the top keeps the objects apart.
LEMMA AllocateKeepsLayout ==
    ASSUME LayoutInv, NEW n \in Sizes, Allocate(n)
    PROVE  LayoutInv'
<1> USE DEF LayoutInv, BoundsOK, Apart, Headers, Addrs
<1>1. n \in Nat /\ n > 0 /\ plan = {} /\ plan' = {} /\ committed_end' = committed_end
  BY DEF Allocate
<1>2. top' = top + n /\ top' <= committed_end
  BY DEF Allocate
<1>3. DOMAIN size' = DOMAIN size \cup {top} /\ size'[top] = n
  BY DEF Allocate
<1>4. \A a \in DOMAIN size : a # top /\ size'[a] = size[a] /\ a + size[a] <= top /\ size[a] \in Nat \ {0}
  BY <1>1 DEF Allocate
<1>5. BoundsOK'
  <2>1. size' \in [DOMAIN size' -> Sizes]
    BY <1>3, <1>4 DEF Allocate
  <2> QED
    BY <1>1, <1>2, <1>3, <2>1
<1>6. Apart'
  BY <1>1, <1>2, <1>3, <1>4
<1> QED
  BY <1>5, <1>6

\* Growth moves only the end of the committed prefix, upwards.
LEMMA GrowKeepsLayout ==
    ASSUME LayoutInv, Grow
    PROVE  LayoutInv'
<1> USE DEF LayoutInv, BoundsOK, Apart, Headers, Addrs
<1>1. committed_end' \in top .. OldEnd /\ committed_end <= committed_end'
  BY DEF Grow, LesserOf
<1> QED
  BY <1>1 DEF Grow

\* When a compaction begins nothing is placed yet and every live object is a source.
LEMMA CompactKeepsLayout ==
    ASSUME LayoutInv, NEW live \in SUBSET Headers, Compact(live)
    PROVE  LayoutInv'
<1> USE DEF LayoutInv, BoundsOK, Apart, Headers, Addrs
<1>1. DOMAIN size' = live /\ plan' = live /\ plan = {}
  BY DEF Compact
<1>2. \A a \in live : size'[a] = size[a] /\ size[a] \in Nat \ {0} /\ a + size[a] <= top
  BY <1>1 DEF Compact
<1>3. top' = OldStart /\ committed_end' = committed_end
  BY DEF Compact
<1>4. size' \in [DOMAIN size' -> Sizes]
  BY <1>1, <1>2 DEF Compact
<1> QED
  BY <1>1, <1>2, <1>3, <1>4

\* One slide, in ascending order: the object moved ends at or below the next source.
LEMMA SlideKeepsLayout ==
    ASSUME LayoutInv, Slide
    PROVE  LayoutInv'
<1> USE DEF LayoutInv, BoundsOK, Apart, Headers, Addrs
<1>1. PICK e \in plan :
        /\ \A f \in plan : e <= f
        /\ plan' = plan \ {e}
        /\ size' = [a \in (Headers \ {e}) \cup {top} |-> IF a = top THEN size[e] ELSE size[a]]
        /\ top' = top + size[e]
        /\ committed_end' = committed_end
  BY DEF Slide
<1>2. size[e] \in Nat \ {0} /\ e \in Nat /\ top <= e /\ e + size[e] <= committed_end
  OBVIOUS
<1>3. DOMAIN size' = (DOMAIN size \ {e}) \cup {top} /\ size'[top] = size[e]
  BY <1>1
<1>4. \A a \in DOMAIN size \ {e} : size'[a] = size[a] /\ a # top
  <2> SUFFICES ASSUME NEW a \in DOMAIN size \ {e} PROVE size'[a] = size[a] /\ a # top
    OBVIOUS
  <2>1. a # top
    <3>1. CASE a \in plan
      BY <1>1, <1>2, <3>1
    <3>2. CASE a \notin plan
      BY <3>2
    <3> QED
      BY <3>1, <3>2
  <2> QED
    BY <1>1, <2>1
<1>5. \A f \in plan' : f \in DOMAIN size \ {e} /\ top + size[e] <= f
  BY <1>1, <1>2
<1>6. \A a \in DOMAIN size \ plan : a < top /\ a + size[a] <= top
  OBVIOUS
<1>7. BoundsOK'
  <2>1. size' \in [DOMAIN size' -> Sizes]
    BY <1>1, <1>3, <1>4
  <2> QED
    BY <1>1, <1>2, <1>3, <1>5, <2>1
<1>8. Apart'
  <2>1. \A a, b \in DOMAIN size' : a < b => a + size'[a] <= b
    BY <1>1, <1>2, <1>3, <1>4, <1>5, <1>6
  <2>2. \A a \in DOMAIN size' \ plan' : a + size'[a] <= top'
    BY <1>1, <1>2, <1>3, <1>4, <1>6
  <2>3. \A f \in plan' : top' <= f /\ f + size'[f] <= committed_end'
    BY <1>1, <1>2, <1>4, <1>5
  <2> QED
    BY <2>1, <2>2, <2>3
<1> QED
  BY <1>7, <1>8

\* The old generation begins empty.
LEMMA LayoutInit == Init => LayoutInv
<1> SUFFICES ASSUME Init PROVE LayoutInv
  OBVIOUS
<1>1. Headers = {} /\ plan = {} /\ size \in [Headers -> Sizes]
  BY DEF Init, Headers
<1>2. top \in OldStart .. OldEnd /\ committed_end \in top .. OldEnd
  BY DEF Init, LesserOf
<1> QED
  BY <1>1, <1>2 DEF LayoutInv, BoundsOK, Apart

\* The layout invariant holds always.
THEOREM LayoutInvariant == Spec => []LayoutInv
<1>2. LayoutInv /\ [Next]_vars => LayoutInv'
  <2> SUFFICES ASSUME LayoutInv, [Next]_vars PROVE LayoutInv'
    OBVIOUS
  <2>1. CASE \E n \in Sizes : Allocate(n)
    BY <2>1, AllocateKeepsLayout
  <2>2. CASE Grow
    BY <2>2, GrowKeepsLayout
  <2>3. CASE \E live \in SUBSET Headers : Compact(live)
    BY <2>3, CompactKeepsLayout
  <2>4. CASE Slide
    BY <2>4, SlideKeepsLayout
  <2>5. CASE UNCHANGED vars
    BY <2>5 DEF vars, LayoutInv, BoundsOK, Apart, Headers, Addrs
  <2> QED
    BY <2>1, <2>2, <2>3, <2>4, <2>5 DEF Next
<1> QED
  BY <1>2, LayoutInit, PTL DEF Spec

\* No slide overwrites an object that is still to be moved.
THEOREM SlideAlwaysSafe == Spec => []SlideIsSafe
<1>1. LayoutInv => SlideIsSafe
  BY DEF LayoutInv, Apart, SlideIsSafe
<1> QED
  BY <1>1, LayoutInvariant, PTL

-----------------------------------------------------------------------------
(* The offset table: the entry of every card below the top is the one that   *)
(* record_object gives it for the object its first word lies in.             *)

TableInv ==
    /\ offsets \in [Cards -> 0 .. 255]
    /\ \A i \in Cards : CardBase(i) < top =>
          \E a \in Placed : Covers(a, CardBase(i)) /\ offsets[i] = Entry(i, a)

OldGenInv == LayoutInv /\ TableInv

\* Recording an object at the top writes the entries of the cards it covers and
\* leaves those below.
LEMMA RecordExtends ==
    ASSUME LayoutInv, TableInv, NEW n \in Nat \ {0}, top + n <= OldEnd,
           offsets' = RecordObject(offsets, top, n)
    PROVE  /\ offsets' \in [Cards -> 0 .. 255]
           /\ \A i \in Cards : CardBase(i) < top => offsets'[i] = offsets[i]
           /\ \A i \in Cards : top <= CardBase(i) /\ CardBase(i) < top + n =>
                 offsets'[i] = Entry(i, top)
<1>1. top \in Nat /\ top >= OldStart  BY DEF LayoutInv, BoundsOK
<1>2. ASSUME NEW i \in Cards
      PROVE  /\ offsets'[i] \in 0 .. 255
             /\ CardBase(i) < top => offsets'[i] = offsets[i]
             /\ top <= CardBase(i) /\ CardBase(i) < top + n => offsets'[i] = Entry(i, top)
  <2>1. i \in Nat /\ CardBase(i) \in Int /\ offsets[i] \in 0 .. 255
    BY CardsAre DEF CardBase, TableInv
  <2>2. offsets'[i] = IF top <= CardBase(i) /\ CardBase(i) < top + n
                      THEN Entry(i, top) ELSE offsets[i]
    BY <1>1, RecordIs, ZenonT(60)
  <2>3. top <= CardBase(i) => Entry(i, top) \in 0 .. 255  BY <1>1, <2>1, EntryLeadsBack
  <2> QED  BY <1>1, <2>1, <2>2, <2>3
<1>3. offsets' \in [Cards -> 0 .. 255]
  <2>1. offsets' = [i \in Cards |-> offsets'[i]]  BY DEF RecordObject
  <2> QED  BY <1>2, <2>1
<1> QED  BY <1>2, <1>3

\* Headers are addresses, and objects take room.
LEMMA HeadersAre ==
    ASSUME LayoutInv, NEW a \in Headers
    PROVE  /\ a \in Nat /\ a >= OldStart /\ size[a] \in Nat \ {0} /\ top \in Nat
           /\ a \notin plan => a + size[a] <= top
<1>1. a \in OldStart .. OldEnd - 1 /\ size[a] \in Sizes /\ top \in OldStart .. OldEnd
  BY DEF LayoutInv, BoundsOK, Addrs
<1>2. a \notin plan => a + size[a] <= top  BY DEF LayoutInv, Apart
<1>3. size[a] \in Nat \ {0}  BY <1>1
<1>4. a \in Nat /\ a >= OldStart /\ top \in Nat  BY <1>1
<1> QED  BY <1>2, <1>3, <1>4

\* An object placed at the top extends the table: by an allocation, or by a slide.
LEMMA PlacedExtends ==
    ASSUME LayoutInv, TableInv, NEW n \in Nat \ {0}, top + n <= OldEnd, top' = top + n,
           offsets' = RecordObject(offsets, top, n),
           top \in DOMAIN size' \ plan', size'[top] = n,
           \A a \in Placed : a \in DOMAIN size' \ plan' /\ size'[a] = size[a]
    PROVE  TableInv'
<1>0. top \in Nat  BY DEF LayoutInv, BoundsOK
<1>1. /\ offsets' \in [Cards -> 0 .. 255]
      /\ \A i \in Cards : CardBase(i) < top => offsets'[i] = offsets[i]
      /\ \A i \in Cards : top <= CardBase(i) /\ CardBase(i) < top + n =>
             offsets'[i] = Entry(i, top)
  BY RecordExtends
<1>2. ASSUME NEW i \in Cards, CardBase(i) < top'
      PROVE  \E a \in DOMAIN size' \ plan' :
                /\ a <= CardBase(i) /\ CardBase(i) < a + size'[a]
                /\ offsets'[i] = Entry(i, a)
  <2>1. CardBase(i) \in Int  BY CardsAre DEF CardBase
  <2>2. CASE CardBase(i) < top
    <3>1. PICK a \in Placed : Covers(a, CardBase(i)) /\ offsets[i] = Entry(i, a)
      BY <2>2 DEF TableInv
    <3> QED  BY <1>1, <2>2, <3>1 DEF Covers
  <2>3. CASE top <= CardBase(i)  BY <1>1, <1>2, <2>1, <2>3
  <2> QED  BY <1>0, <2>1, <2>2, <2>3
<1> QED  BY <1>1, <1>2 DEF TableInv, Placed, Headers, Covers

\* An allocation extends the table.
LEMMA AllocateKeepsTable ==
    ASSUME LayoutInv, TableInv, NEW n \in Sizes, Allocate(n)
    PROVE  TableInv'
<1>1. n \in Nat \ {0} /\ plan = {} /\ plan' = {} /\ top' = top + n
      /\ offsets' = RecordObject(offsets, top, n)
  BY DEF Allocate
<1>2. top + n <= OldEnd
  <2>1. top \in Nat /\ committed_end \in Nat /\ committed_end <= OldEnd
    BY DEF LayoutInv, BoundsOK
  <2>2. top + n <= committed_end  BY DEF Allocate
  <2> QED  BY <1>1, <2>1, <2>2
<1>3. DOMAIN size' = Headers \cup {top} /\ size'[top] = n  BY DEF Allocate
<1>4. \A a \in Headers : a # top /\ size'[a] = size[a]
  <2> TAKE a \in Headers
  <2>1. a \in Nat /\ size[a] \in Nat \ {0} /\ a + size[a] <= top /\ top \in Nat
    BY <1>1, HeadersAre
  <2>2. a # top  BY <2>1
  <2> QED  BY <2>2 DEF Allocate
<1>5. top \in DOMAIN size' \ plan' /\ \A a \in Placed : a \in DOMAIN size' \ plan' /\ size'[a] = size[a]
  BY <1>1, <1>3, <1>4 DEF Placed
<1> QED  BY <1>1, <1>2, <1>3, <1>5, PlacedExtends

\* So does a slide.
LEMMA SlideKeepsTable ==
    ASSUME LayoutInv, TableInv, Slide
    PROVE  TableInv'
<1>1. PICK e \in plan :
        /\ \A f \in plan : e <= f
        /\ plan' = plan \ {e}
        /\ size' = [a \in (Headers \ {e}) \cup {top} |-> IF a = top THEN size[e] ELSE size[a]]
        /\ offsets' = RecordObject(offsets, top, size[e])
        /\ top' = top + size[e]
  BY DEF Slide
<1>2. /\ size[e] \in Nat \ {0} /\ e \in Nat /\ top <= e /\ e + size[e] <= committed_end
      /\ committed_end \in Nat /\ committed_end <= OldEnd /\ top \in Nat
      /\ plan \subseteq Headers
  BY DEF LayoutInv, BoundsOK, Apart, Addrs, Headers
<1>3. top + size[e] <= OldEnd  BY <1>2
<1>4. DOMAIN size' = (Headers \ {e}) \cup {top} /\ size'[top] = size[e]  BY <1>1
<1>5. top \notin plan'
  <2>1. ASSUME top \in plan'  PROVE FALSE
    <3>1. top \in plan /\ top # e /\ e <= top  BY <1>1, <2>1
    <3> QED  BY <1>2, <3>1
  <2> QED  BY <2>1
<1>6. ASSUME NEW a \in Placed  PROVE a \in DOMAIN size' \ plan' /\ size'[a] = size[a]
  <2>1. a \in Headers /\ a \notin plan /\ a # e  BY <1>2 DEF Placed
  <2>2. a \in Nat /\ size[a] \in Nat \ {0} /\ a + size[a] <= top
    BY <2>1, HeadersAre
  <2>3. a # top  BY <1>2, <2>2
  <2> QED  BY <1>1, <1>4, <2>1, <2>3
<1> QED  BY <1>1, <1>2, <1>3, <1>4, <1>5, <1>6, PlacedExtends

\* When a compaction begins no card is below the top.
LEMMA CompactKeepsTable ==
    ASSUME TableInv, NEW live \in SUBSET Headers, Compact(live)
    PROVE  TableInv'
<1>1. offsets' \in [Cards -> 0 .. 255]
  BY DEF Compact, TableInv, ClearThrough
<1>2. top' = OldStart  BY DEF Compact
<1>3. ASSUME NEW i \in Cards  PROVE ~(CardBase(i) < OldStart)
  <2>1. i \in Nat  BY CardsAre
  <2> QED  BY <2>1 DEF CardBase
<1> QED  BY <1>1, <1>2, <1>3 DEF TableInv

\* The table is right always.
LEMMA OldGenStep == OldGenInv /\ [Next]_vars => OldGenInv'
<1> SUFFICES ASSUME LayoutInv, TableInv, [Next]_vars PROVE LayoutInv' /\ TableInv'
  BY DEF OldGenInv
<1>1. CASE \E n \in Sizes : Allocate(n)  BY <1>1, AllocateKeepsLayout, AllocateKeepsTable
<1>2. CASE Grow
  <2>1. UNCHANGED <<top, size, offsets, plan>>  BY <1>2 DEF Grow
  <2>2. TableInv'  BY <2>1 DEF TableInv, Placed, Covers, Headers
  <2> QED  BY <1>2, <2>2, GrowKeepsLayout
<1>3. CASE \E live \in SUBSET Headers : Compact(live)
  BY <1>3, CompactKeepsLayout, CompactKeepsTable
<1>4. CASE Slide  BY <1>4, SlideKeepsLayout, SlideKeepsTable
<1>5. CASE UNCHANGED vars
  <2>1. LayoutInv'  BY <1>5 DEF vars, LayoutInv, BoundsOK, Apart, Headers, Addrs
  <2>2. TableInv'  BY <1>5 DEF vars, TableInv, Placed, Covers, Headers
  <2> QED  BY <2>1, <2>2
<1> QED  BY <1>1, <1>2, <1>3, <1>4, <1>5 DEF Next

\* The layout and the table together are invariant.
THEOREM OldGenInvariant == Spec => []OldGenInv
<1>1. Init => OldGenInv
  <2> SUFFICES ASSUME Init PROVE OldGenInv  OBVIOUS
  <2>1. LayoutInv  BY LayoutInit
  <2>2. offsets \in [Cards -> 0 .. 255] /\ top = OldStart  BY DEF Init
  <2>3. ASSUME NEW i \in Cards  PROVE ~(CardBase(i) < OldStart)
    <3>1. i \in Nat  BY CardsAre
    <3> QED  BY <3>1 DEF CardBase
  <2> QED  BY <2>1, <2>2, <2>3 DEF OldGenInv, TableInv
<1> QED  BY <1>1, OldGenStep, PTL DEF Spec

\* The old generation's bounds, sizes and offset bytes have their types: in particular
\* no chain entry that record_object computes overflows a byte.
THEOREM OldGenTypeCorrect == Spec => []TypeOK
<1>1. OldGenInv => TypeOK
  BY DEF OldGenInv, LayoutInv, BoundsOK, TableInv, TypeOK
<1> QED  BY <1>1, OldGenInvariant, PTL

\* A chain entry leads to a card of the same object, closer to its header.
THEOREM ChainsStayInObject == Spec => []ChainStaysInObject
<1>1. OldGenInv => ChainStaysInObject
  <2> SUFFICES ASSUME OldGenInv, NEW i \in Cards, CardBase(i) < top, offsets[i] > MAX_DIRECT
               PROVE  \E a \in Placed :
                        LET j == i - (offsets[i] - MAX_DIRECT)
                        IN  Covers(a, CardBase(i)) /\ CardIndex(a) < j /\ j < i
    BY DEF ChainStaysInObject
  <2>1. PICK a \in Placed : Covers(a, CardBase(i)) /\ offsets[i] = Entry(i, a)
    BY DEF OldGenInv, TableInv
  <2>2. a \in Int /\ a >= OldStart /\ a <= CardBase(i) /\ i \in Nat
    BY <2>1, CardsAre DEF OldGenInv, LayoutInv, BoundsOK, Placed, Covers, Addrs
  <2>3. LET j == i - (Entry(i, a) - MAX_DIRECT) IN j \in 0 .. i - 1 /\ CardIndex(a) < j
    BY <2>1, <2>2, EntryLeadsBack
  <2>4. LET j == i - (offsets[i] - MAX_DIRECT) IN j \in 0 .. i - 1 /\ CardIndex(a) < j
    BY <2>1, <2>3
  <2> QED  BY <2>1, <2>2, <2>4
<1> QED  BY <1>1, OldGenInvariant, PTL

\* For every card that begins below the top, resolve answers the header of the object
\* that covers the card's first word: what dirty_card_scan starts from, for objects
\* of any size and after any allocations and compactions.
THEOREM ResolveAlwaysFindsHeader == Spec => []ResolveFindsHeader
<1>1. OldGenInv => ResolveFindsHeader
  <2> SUFFICES ASSUME OldGenInv PROVE ResolveFindsHeader  OBVIOUS
  <2>1. PICK sz : sz = [a \in Placed |-> size[a]]  OBVIOUS
  <2>2. /\ top \in Int /\ Placed \in SUBSET Nat
        /\ \A a \in Placed : a >= OldStart /\ size[a] \in Nat \ {0} /\ a \in Headers
    BY HeadersAre DEF OldGenInv, LayoutInv, BoundsOK, Placed
  <2>3. sz \in [Placed -> Nat \ {0}] /\ \A a \in Placed : sz[a] = size[a]  BY <2>1, <2>2
  <2>4. \A a, b \in Placed : a < b => a + sz[a] <= b
    BY <2>2, <2>3 DEF OldGenInv, LayoutInv, Apart
  <2>5. \A i \in Cards : CardBase(i) < top =>
          \E a \in Placed : a <= CardBase(i) /\ CardBase(i) < a + sz[a] /\ offsets[i] = Entry(i, a)
    BY <2>3 DEF OldGenInv, TableInv, Covers
  <2>6. \A i \in Cards : CardBase(i) < top =>
          \E a \in Placed : a = Resolve(offsets, i) /\ a <= CardBase(i) /\ CardBase(i) < a + sz[a]
    BY <2>2, <2>3, <2>4, <2>5, ResolveFinds
  <2> QED  BY <2>3, <2>6 DEF ResolveFindsHeader, Covers
<1> QED  BY <1>1, OldGenInvariant, PTL

=============================================================================
