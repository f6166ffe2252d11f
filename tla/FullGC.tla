------------------------------- MODULE FullGC -------------------------------
(***************************************************************************)
(* The full mark-slide-compact collection (src/src/memory/fullgc.rs): mark *)
(* the whole heap, compute where every live object goes, rewrite every     *)
(* reference while nothing has moved, slide, restore the marks.            *)
(***************************************************************************)
EXTENDS HeapState

Targets(values) == {v \in values : v # 0}

\* mark_push on a set of oops: set on push, so no object is pushed twice.
PushAll(m, vs) == [a \in DOMAIN m |-> IF a \in vs THEN [m[a] EXCEPT !.marked = TRUE] ELSE m[a]]

\* Phase A begins: both kinds of roots are pushed.
StartFullGC(then) ==
    LET rs == Targets({roots[r] : r \in Roots})
    IN  /\ gc' = [NoGC EXCEPT !.phase = "mark", !.then = then, !.gray = rs]
        /\ mem' = PushAll(mem, rs)

\* One object popped from the worklist.
MarkObject ==
    /\ gc.phase = "mark" /\ gc.gray # {}
    /\ LET a == Max(gc.gray)
           new == {v \in Targets({mem[a].slots[j] : j \in DOMAIN mem[a].slots}) : ~mem[v].marked}
       IN  /\ mem' = PushAll(mem, new)
           /\ gc' = [gc EXCEPT !.gray = (@ \ {a}) \cup new]
    /\ UNCHANGED <<roots, spaceVars, tableVars, threshold, guarantee_met, request>>

InSpace(a, start, top) == start <= a /\ a < top
Live == {a \in DOMAIN mem : mem[a].marked}

\* The bottom of the space an address is in.
Bottom(a) ==
    CASE IsOld(a) -> OldStart
      [] InSpace(a, EdenStart, EdenStart + EdenWords) -> EdenStart
      [] OTHER -> from.start

\* The compaction pointer when the walk from the bottom of a space has reached a: it
\* has passed one word for every word of a live object.
LiveWords(bottom, a) ==
    {w \in bottom .. a - 1 : \E b \in Live : b <= w /\ w < b + mem[b].size}
CompactionPointer(bottom, a) == bottom + Cardinality(LiveWords(bottom, a))
NewPlace(a) == CompactionPointer(Bottom(a), a)
NewTops == [eden |-> CompactionPointer(EdenStart, eden_top),
            from |-> CompactionPointer(from.start, from.top),
            old |-> CompactionPointer(OldStart, old_top)]

\* Forwarding that parks no mark in the side map.
ForwardingLosesMarks ==
    /\ gc.phase = "mark" /\ gc.gray = {}
    /\ gc' = [gc EXCEPT !.phase = "rewrite", !.tops = NewTops,
                        !.plan = {[old |-> a, new |-> NewPlace(a), size |-> mem[a].size,
                                   age |-> 0] : a \in Live}]
    /\ mem' = [a \in DOMAIN mem |->
                 IF a \in Live THEN [mem[a] EXCEPT !.fwd = NewPlace(a),
                                                   !.marked = FALSE, !.age = 0]
                 ELSE mem[a]]
    /\ UNCHANGED <<roots, spaceVars, tableVars, threshold, guarantee_met, request>>

\* Phase B, forwarding_compute on each space: the plan, and the forwarding word that
\* takes the place of the mark.  The age is parked with the plan's entry.
ForwardingCompute ==
    /\ gc.phase = "mark" /\ gc.gray = {}
    /\ gc' = [gc EXCEPT !.phase = "rewrite", !.tops = NewTops,
                        !.plan = {[old |-> a, new |-> NewPlace(a), size |-> mem[a].size,
                                   age |-> mem[a].age] : a \in Live}]
    /\ mem' = [a \in DOMAIN mem |->
                 IF a \in Live THEN [mem[a] EXCEPT !.fwd = NewPlace(a),
                                                   !.marked = FALSE, !.age = 0]
                 ELSE mem[a]]
    /\ UNCHANGED <<roots, spaceVars, tableVars, threshold, guarantee_met, request>>

\* forward_chase.
Chase(v) == IF v = 0 \/ mem[v].fwd = 0 THEN v ELSE mem[v].fwd

\* Phase C: the roots and the slots of every planned object.
Rewrite ==
    /\ gc.phase = "rewrite"
    /\ roots' = [r \in Roots |-> Chase(roots[r])]
    /\ mem' = [a \in DOMAIN mem |->
                 IF \E e \in gc.plan : e.old = a
                 THEN [mem[a] EXCEPT !.slots = [j \in DOMAIN @ |-> Chase(@[j])]]
                 ELSE mem[a]]
    /\ offsets' = ClearThrough(offsets, old_top)    \* slide_old begins with it
    /\ gc' = [gc EXCEPT !.phase = "slide"]
    /\ UNCHANGED <<spaceVars, dirty, threshold, guarantee_met, request>>

\* Phase D, one entry: the copy overwrites whatever is in its way.
SlideEntry(e) ==
    LET obj == mem[e.old]
        hit == {b \in DOMAIN mem : b < e.new + e.size /\ e.new < b + mem[b].size}
    IN  /\ mem' = Put([a \in DOMAIN mem \ (hit \cup {e.old}) |-> mem[a]], e.new, obj)
        /\ offsets' = IF IsOld(e.new) THEN RecordObject(offsets, e.new, e.size) ELSE offsets
        /\ gc' = [gc EXCEPT !.plan = @ \ {e}, !.placed = @ \cup {e}]
        /\ UNCHANGED <<roots, spaceVars, dirty, threshold, guarantee_met, request>>

\* Eden, from and old follow each other, each in ascending order.
Slide ==
    /\ gc.phase = "slide"
    /\ \E e \in gc.plan : (\A f \in gc.plan : e.old <= f.old) /\ SlideEntry(e)

\* post: cards below the new top are cleaned, then those of the live range dirtied.
PostCards(top) == dirty \cup CardsOf(OldStart, top)

\* The end of D, phases E and F.
FinishFullGC ==
    /\ gc.phase = "slide" /\ gc.plan = {}
    /\ eden_top' = gc.tops.eden
    /\ from' = [from EXCEPT !.top = gc.tops.from]
    /\ old_top' = gc.tops.old
    /\ mem' = [a \in {e.new : e \in gc.placed} |->
                 [mem[a] EXCEPT !.fwd = 0, !.marked = FALSE,
                                !.age = (CHOOSE e \in gc.placed : e.new = a).age]]
    /\ dirty' = PostCards(gc.tops.old)
    /\ gc' = [NoGC EXCEPT !.phase = gc.then]
    /\ UNCHANGED <<roots, to, committed_end, offsets, threshold, guarantee_met, request>>

FullGCStep == MarkObject \/ ForwardingCompute \/ Rewrite \/ Slide \/ FinishFullGC

=============================================================================
