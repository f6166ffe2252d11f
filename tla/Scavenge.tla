------------------------------ MODULE Scavenge ------------------------------
(***************************************************************************)
(* The Cheney scavenger (src/src/memory/scavenge.rs): roots, dirty cards,  *)
(* code roots, then the fixed point over to-space and over what this cycle *)
(* promoted.  One step scavenges one slot or picks the next batch of them. *)
(***************************************************************************)
EXTENDS HeapState

-----------------------------------------------------------------------------
(* scavenge_oop on the value v of a slot *)

\* Words scavenge_oop gives back as they are: a batch leaves such slots out.
Passes(v) == v = 0 \/ IsOld(v)
YoungOf(slots) == {s \in slots : ~Passes(ValueOf(s))}

Forwarded(v) == mem[v].fwd # 0

\* Promotion by age, or because the survivor space overflows.
Promotes(v) ==
    \/ mem[v].age + 1 >= threshold
    \/ to.top + mem[v].size > to.start + SurvivorWords

NoRoom(v) == old_top + mem[v].size > committed_end
ToCopy(v) == ~Forwarded(v)

\* The value the slot gets.
NewValue(v) ==
    CASE Forwarded(v) -> mem[v].fwd
      [] ToCopy(v) -> IF Promotes(v) THEN old_top ELSE to.top

\* The copy: a survivor is one collection older, a promoted object keeps its mark.
Copy(v) ==
    IF Promotes(v) THEN mem[v]
    ELSE [mem[v] EXCEPT !.age = LesserOf(@ + 1, MaxAge)]

\* Into old gen: its cards are dirtied, whatever it refers to.
Promote(v) ==
    /\ old_top' = old_top + mem[v].size
    /\ offsets' = RecordObject(offsets, old_top, mem[v].size)
    /\ dirty' = dirty \cup CardsOf(old_top, old_top + mem[v].size)
    /\ UNCHANGED to

\* Into to-space.
Survive(v) ==
    /\ to' = [to EXCEPT !.top = @ + mem[v].size]
    /\ UNCHANGED <<old_top, tableVars>>

\* The age table after v is dealt with: it counts the words copied to to-space.
Recorded(v) ==
    IF ToCopy(v) /\ ~Promotes(v)
    THEN [gc.age_table EXCEPT ![Copy(v).age] = @ + mem[v].size]
    ELSE gc.age_table

WriteSlot(m, s, v) ==
    IF s[1] = 0
    THEN roots' = [roots EXCEPT ![s[2]] = v] /\ mem' = m
    ELSE mem' = [m EXCEPT ![s[1]].slots[s[2]] = v] /\ UNCHANGED roots

Scanning == gc.phase \in {"roots", "card", "code", "cheney"}

\* One slot of the batch: scavenge_oop, and the slot is overwritten.
ScavengeSlot ==
    /\ Scanning
    /\ \E s \in gc.work :
          LET v == ValueOf(s)
              nv == NewValue(v)
          IN  /\ \A t \in gc.work : Before(s, t)
              /\ ~(ToCopy(v) /\ Promotes(v) /\ NoRoom(v))
              /\ IF ToCopy(v)
                 THEN /\ IF Promotes(v) THEN Promote(v) ELSE Survive(v)
                      /\ WriteSlot([Put(mem, nv, Copy(v)) EXCEPT ![v].fwd = nv], s, nv)
                 ELSE /\ WriteSlot(mem, s, nv)
                      /\ UNCHANGED <<to, old_top, tableVars>>
              /\ gc' = [gc EXCEPT !.work = @ \ {s},
                                  !.still_new = gc.phase = "card" /\ (@ \/ IsNew(nv)),
                                  !.age_table = Recorded(v)]
    /\ UNCHANGED <<eden_top, from, committed_end, threshold, guarantee_met, request>>

\* record_stall and the exit that follows: the half-copied heap is never used again.
ScavengeStall ==
    /\ Scanning
    /\ \E s \in gc.work :
          /\ \A t \in gc.work : Before(s, t)
          /\ ToCopy(ValueOf(s)) /\ Promotes(ValueOf(s)) /\ NoRoom(ValueOf(s))
    /\ gc' = [gc EXCEPT !.phase = "promote_stall"]
    /\ UNCHANGED <<mem, roots, spaceVars, tableVars, threshold, guarantee_met, request>>

-----------------------------------------------------------------------------
(* The batches of `scavenge` *)

\* Entry: the age table and to-space are reset, the roots come first; the Cheney
\* loop will begin at the bottom of to-space and of what this cycle promotes.
StartScavenge(then) ==
    /\ gc' = [NoGC EXCEPT !.phase = "roots", !.then = then, !.old_top_before = old_top,
                          !.to_scan = to.start, !.old_scan = old_top,
                          !.work = YoungOf({<<0, r>> : r \in VmRoots})]
    /\ to' = [to EXCEPT !.top = to.start]

\* A scan that runs on into what this cycle has promoted.
CardSlotsToTop(i) ==
    UNION {{s \in SlotsOf(a) : /\ CardBase(i) <= SlotAddr(a, s[2])
                               /\ SlotAddr(a, s[2]) < CardEnd(i)} :
           a \in {h \in DOMAIN mem : Resolve(offsets, i) <= h /\ h < CardEnd(i)}}

\* The slots of card i the scan looks at: below old_top_before, inside the window.
CardSlots(i) ==
    UNION {{s \in SlotsOf(a) : /\ CardBase(i) <= SlotAddr(a, s[2])
                               /\ SlotAddr(a, s[2]) < CardEnd(i)} :
           a \in {h \in DOMAIN mem : /\ Resolve(offsets, i) <= h
                                     /\ h < CardEnd(i) /\ h < gc.old_top_before}}

CardsAhead == {i \in dirty : gc.card < i /\ CardBase(i) < gc.old_top_before}

\* A scan that cleans the boundary card too.
CleanedAtBoundary ==
    IF gc.phase = "card" /\ ~gc.still_new THEN dirty \ {gc.card} ELSE dirty

\* The card just scanned is cleaned when no slot of it is still young, unless this
\* cycle's promotions may share it.
Cleaned ==
    IF gc.phase = "card" /\ ~gc.still_new /\ CardEnd(gc.card) <= gc.old_top_before
    THEN dirty \ {gc.card} ELSE dirty

ScanningCards == gc.phase \in {"roots", "card"} /\ gc.work = {}

\* dirty_card_scan, the next dirty card below old_top_before.
NextCard ==
    /\ ScanningCards /\ CardsAhead # {}
    /\ gc' = [gc EXCEPT !.phase = "card", !.card = Min(CardsAhead),
                        !.work = YoungOf(CardSlots(Min(CardsAhead))), !.still_new = FALSE]
    /\ dirty' = Cleaned
    /\ UNCHANGED <<mem, roots, spaceVars, offsets, threshold, guarantee_met, request>>

\* No dirty card is left: the code roots.
CardsDone ==
    /\ ScanningCards /\ CardsAhead = {}
    /\ gc' = [gc EXCEPT !.phase = "code", !.work = YoungOf({<<0, r>> : r \in CodeRoots})]
    /\ dirty' = Cleaned
    /\ UNCHANGED <<mem, roots, spaceVars, offsets, threshold, guarantee_met, request>>

InCheneyLoop == gc.phase \in {"code", "cheney"} /\ gc.work = {}

\* The Cheney loop's next object: to-space first, then the promoted ones.
ScanObject ==
    /\ InCheneyLoop
    /\ \/ /\ gc.to_scan < to.top
          /\ gc' = [gc EXCEPT !.phase = "cheney", !.work = YoungOf(SlotsOf(gc.to_scan)),
                              !.to_scan = @ + mem[@].size]
       \/ /\ gc.to_scan = to.top /\ gc.old_scan < old_top
          /\ gc' = [gc EXCEPT !.phase = "cheney", !.work = YoungOf(SlotsOf(gc.old_scan)),
                              !.old_scan = @ + mem[@].size]
    /\ UNCHANGED <<mem, roots, spaceVars, tableVars, threshold, guarantee_met, request>>

\* AgeTable::compute_threshold.
ComputeThreshold ==
    LET upTo(g) == MapThenSumSet(LAMBDA h : gc.age_table[h], 0 .. g)
        over == {g \in 0 .. MaxAge : upTo(g) > SurvivorWords \div 2}
    IN  IF over = {} THEN MaxAge ELSE Min(over)

\* The fixed point is reached: swap, empty eden and the vacated survivor space, set
\* the threshold.
FinishScavenge ==
    /\ InCheneyLoop
    /\ gc.to_scan = to.top /\ gc.old_scan = old_top
    /\ from' = to
    /\ to' = [start |-> from.start, top |-> from.start]
    /\ eden_top' = EdenStart
    /\ mem' = [a \in {x \in DOMAIN mem : IsOld(x) \/ (to.start <= x /\ x < to.top)} |-> mem[a]]
    /\ threshold' = ComputeThreshold
    /\ gc' = [NoGC EXCEPT !.phase = gc.then]
    /\ UNCHANGED <<roots, old_top, committed_end, tableVars, guarantee_met, request>>

ScavengeStep ==
    \/ ScavengeSlot \/ ScavengeStall \/ NextCard \/ CardsDone
    \/ ScanObject \/ FinishScavenge

=============================================================================
