------------------------------- MODULE OldGen -------------------------------
(***************************************************************************)
(* The old generation by itself: bump allocation in the committed prefix,  *)
(* growth by segments up to the reservation (src/src/memory/spaces.rs),    *)
(* compaction by sliding (fullgc.rs slide_old), and the offset table each  *)
(* of them maintains.                                                      *)
(***************************************************************************)
EXTENDS Offsets, FiniteSets

CONSTANTS
    Segment,     \* words committed by one growth (OLD_GROWTH_SEGMENT)
    Sizes        \* the object sizes considered

ASSUME SegmentAssumption == Segment \in Nat \ {0}
ASSUME SizesAssumption == Sizes \subseteq Nat \ {0}

VARIABLES
    top,            \* old.top
    committed_end,  \* old.committed_end
    size,           \* ghost: the size of the object at each header address
    offsets,        \* the offset table
    plan            \* the CompactPlan still to slide: old header addresses

vars == <<top, committed_end, size, offsets, plan>>

Addrs == OldStart .. OldEnd - 1
Headers == DOMAIN size

Init ==
    /\ top = OldStart
    /\ committed_end = LesserOf(OldStart + Segment, OldEnd)
    /\ size = << >>
    /\ offsets = [i \in Cards |-> 0]
    /\ plan = {}

\* OldGen::allocate: fails when the committed prefix is full.
Allocate(n) ==
    /\ plan = {}
    /\ top + n <= committed_end
    /\ size' = [a \in Headers \cup {top} |-> IF a = top THEN n ELSE size[a]]
    /\ offsets' = RecordObject(offsets, top, n)
    /\ top' = top + n
    /\ UNCHANGED <<committed_end, plan>>

\* Growth that forgets to clamp to the reservation.
GrowUnclamped ==
    /\ plan = {}
    /\ committed_end' = committed_end + Segment
    /\ committed_end < OldEnd
    /\ UNCHANGED <<top, size, offsets, plan>>

\* OldGen::grow: one more segment, the last one clamped to the reservation.
Grow ==
    /\ plan = {}
    /\ committed_end < OldEnd
    /\ committed_end' = LesserOf(committed_end + Segment, OldEnd)
    /\ UNCHANGED <<top, size, offsets, plan>>

\* slide_old begins: the table is cleared up to the old top, then the live objects
\* are placed again from the bottom up.  Dead objects are simply not placed.
Compact(live) ==
    /\ plan = {}
    /\ plan' = live
    /\ offsets' = ClearThrough(offsets, top)
    /\ top' = OldStart
    /\ size' = [a \in live |-> size[a]]
    /\ UNCHANGED committed_end

\* A slide from the top down.
SlideDescending ==
    \E e \in plan :
        /\ \A f \in plan : f <= e
        /\ plan' = plan \ {e}
        /\ size' = [a \in (Headers \ {e}) \cup {top} |-> IF a = top THEN size[e] ELSE size[a]]
        /\ offsets' = RecordObject(offsets, top, size[e])
        /\ top' = top + size[e]
        /\ UNCHANGED committed_end

\* One entry of the plan, in ascending address order.
Slide ==
    \E e \in plan :
        /\ \A f \in plan : e <= f
        /\ plan' = plan \ {e}
        /\ size' = [a \in (Headers \ {e}) \cup {top} |-> IF a = top THEN size[e] ELSE size[a]]
        /\ offsets' = RecordObject(offsets, top, size[e])
        /\ top' = top + size[e]
        /\ UNCHANGED committed_end

Next ==
    \/ \E n \in Sizes : Allocate(n)
    \/ Grow
    \/ \E live \in SUBSET Headers : Compact(live)
    \/ Slide

Spec == Init /\ [][Next]_vars

-----------------------------------------------------------------------------
(* Properties *)

\* The type of the old generation's state, and the order of its three bounds.
TypeOK ==
    /\ top \in OldStart .. OldEnd
    /\ committed_end \in top .. OldEnd
    /\ Headers \subseteq Addrs
    /\ \A a \in Headers : size[a] \in Sizes
    /\ offsets \in [Cards -> 0 .. 255]
    /\ plan \subseteq Headers

Placed == Headers \ plan
Covers(a, w) == a <= w /\ w < a + size[a]

\* What dirty_card_scan relies on: for every card that begins below the top, resolve
\* answers the header of the object that covers the card's first word, however
\* many cards that object spans and whatever was allocated or compacted before.
ResolveFindsHeader ==
    \A i \in Cards : CardBase(i) < top =>
        LET a == Resolve(offsets, i)
        IN  a \in Placed /\ Covers(a, CardBase(i))

\* A slide never overwrites an object that is still to be moved: what has been placed
\* ends at or below every source that is left.
SlideIsSafe == \A e \in plan : top <= e

\* A chain that is longer than one step still ends: a chain entry of a card leads to
\* a card of the same object, closer to its header.
ChainStaysInObject ==
    \A i \in Cards : CardBase(i) < top /\ offsets[i] > MAX_DIRECT =>
        \E a \in Placed :
            LET j == i - (offsets[i] - MAX_DIRECT)
            IN  Covers(a, CardBase(i)) /\ CardIndex(a) < j /\ j < i

=============================================================================
