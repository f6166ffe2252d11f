-------------------------------- MODULE Heap --------------------------------
(***************************************************************************)
(* The heap as its mutator uses it: allocation with its whole cascade of   *)
(* collections and growth (src/src/memory/alloc.rs), loads, the two store  *)
(* barriers (store.rs), the gcScavenge and gcFull primitives, and the two  *)
(* collectors.  The mutator never runs while a collector does.             *)
(***************************************************************************)
EXTENDS Scavenge, FullGC

CONSTANT Operations    \* what the mutator may do beside loads, stores and allocation

ASSUME OperationAssumption == Operations \subseteq {"gcScavenge", "gcFull", "runtimeStore"}

Mutator == gc.phase = "run"

-----------------------------------------------------------------------------
(* Loads and stores *)

Load(r, q) ==
    /\ Mutator /\ roots[r] # 0
    /\ \E j \in DOMAIN mem[roots[r]].slots :
          roots' = [roots EXCEPT ![q] = mem[roots[r]].slots[j]]
    /\ UNCHANGED <<mem, spaceVars, tableVars, threshold, guarantee_met, request, gc>>

\* A root leaves scope.
Drop(r) ==
    /\ Mutator /\ roots[r] # 0
    /\ roots' = [roots EXCEPT ![r] = 0]
    /\ UNCHANGED <<mem, spaceVars, tableVars, threshold, guarantee_met, request, gc>>

\* A barrier that dirties the card of the object's header.
HeaderBarrier(a, j, v) ==
    IF IsOld(a) /\ IsNew(v) THEN dirty \cup {CardIndex(a)} ELSE dirty

\* The per-slot barrier of `store`: an old object's slot gets a young value.
SlotBarrier(a, j, v) ==
    IF IsOld(a) /\ IsNew(v) THEN dirty \cup {CardIndex(SlotAddr(a, j))} ELSE dirty

\* post_write_barrier: every card of an old object, whatever was written.
ObjectBarrier(a) == IF IsOld(a) THEN dirty \cup CardsOf(a, a + mem[a].size) ELSE dirty

WriteField(r, j, q) ==
    /\ Mutator /\ roots[r] # 0 /\ j \in DOMAIN mem[roots[r]].slots
    /\ mem' = [mem EXCEPT ![roots[r]].slots[j] = roots[q]]
    /\ UNCHANGED <<roots, spaceVars, offsets, threshold, guarantee_met, request, gc>>

\* A guest store.
Store(r, q) ==
    \E j \in 1 .. 2 : WriteField(r, j, q) /\ dirty' = SlotBarrier(roots[r], j, roots[q])

\* A store by Rust code through the raw accessors, with the barrier after it.  Into a
\* young object, where neither barrier does anything, it is Store.
RuntimeStore(r, q) ==
    /\ "runtimeStore" \in Operations /\ IsOld(roots[r])
    /\ \E j \in 1 .. 2 : WriteField(r, j, q) /\ dirty' = ObjectBarrier(roots[r])

-----------------------------------------------------------------------------
(* Allocation: alloc_words *)

FreeIds == Ids \ {mem[a].id : a \in DOMAIN mem}
HaveId == FreeIds # {}

Fresh(shape, i) ==
    [id |-> i, size |-> shape.size, slots |-> [j \in 1 .. shape.slots |-> 0],
     age |-> 0, fwd |-> 0, marked |-> FALSE]

EdenFits(n) == eden_top + n <= EdenStart + EdenWords
OldFits(n, end) == old_top + n <= end

PlaceInEden(r, shape) ==
    /\ EdenFits(shape.size)
    /\ eden_top' = eden_top + shape.size
    /\ \E i \in FreeIds : mem' = Put(mem, eden_top, Fresh(shape, i))
    /\ roots' = [roots EXCEPT ![r] = eden_top]
    /\ UNCHANGED <<from, to, old_top, committed_end, tableVars, threshold, guarantee_met>>

\* try_old_alloc, growing one segment when the committed prefix is full.
PlaceInOld(r, shape) ==
    LET end == IF OldFits(shape.size, committed_end) THEN committed_end ELSE Grown(committed_end)
    IN  /\ ~EdenFits(shape.size) /\ OldFits(shape.size, end)
        /\ committed_end' = end
        /\ old_top' = old_top + shape.size
        /\ offsets' = RecordObject(offsets, old_top, shape.size)
        /\ dirty' = dirty \cup CardsOf(old_top, old_top + shape.size)
        /\ \E i \in FreeIds : mem' = Put(mem, old_top, Fresh(shape, i))
        /\ roots' = [roots EXCEPT ![r] = old_top]
        /\ UNCHANGED <<eden_top, from, to, threshold, guarantee_met>>

\* A worst case that forgets the survivors.
WorstEdenOnly == eden_top - EdenStart

\* What a scavenge may have to promote: all of eden and of the survivor space.
Worst == (eden_top - EdenStart) + (from.top - from.start)
FreeOld(end) == end - old_top

\* The eden bump.
Allocate(r, shape) ==
    /\ Mutator /\ HaveId
    /\ PlaceInEden(r, shape)
    /\ UNCHANGED <<request, gc>>

\* The bump fails: ensure_promotion_guarantee, which holds already; scavenge.
AllocateScavenges(r, shape) ==
    /\ Mutator /\ HaveId /\ ~EdenFits(shape.size)
    /\ FreeOld(committed_end) >= Worst
    /\ guarantee_met' = TRUE
    /\ request' = [root |-> r, shape |-> shape, worst |-> Worst]
    /\ StartScavenge("retry")
    /\ UNCHANGED <<mem, roots, eden_top, from, old_top, committed_end, tableVars, threshold>>

\* The same when it does not hold: a full collection comes first.
AllocateCompacts(r, shape) ==
    /\ Mutator /\ HaveId /\ ~EdenFits(shape.size)
    /\ FreeOld(committed_end) < Worst
    /\ request' = [root |-> r, shape |-> shape, worst |-> Worst]
    /\ StartFullGC("guarantee")
    /\ UNCHANGED <<roots, spaceVars, tableVars, threshold, guarantee_met>>

\* The end of the committed prefix once it holds `worst` free words, or is exhausted.
GrowUntil(worst) ==
    LET ends == {LesserOf(committed_end + n * Segment, OldEnd) : n \in 0 .. OldEnd - OldStart}
        enough == {e \in ends : FreeOld(e) >= worst}
    IN  IF enough = {} THEN OldEnd ELSE Min(enough)

\* The second half of ensure_promotion_guarantee, and the scavenge after it.
EnsureGuarantee ==
    /\ gc.phase = "guarantee"
    /\ committed_end' = GrowUntil(request.worst)
    /\ guarantee_met' = (FreeOld(GrowUntil(request.worst)) >= request.worst)
    /\ StartScavenge("retry")
    /\ UNCHANGED <<mem, roots, eden_top, from, old_top, tableVars, threshold, request>>

\* After a collection the bump is tried again, then old gen.
Satisfy ==
    /\ gc.phase \in {"retry", "last"} /\ HaveId
    /\ \/ PlaceInEden(request.root, request.shape)
       \/ PlaceInOld(request.root, request.shape)
    /\ request' = None
    /\ gc' = NoGC

Unsatisfied ==
    /\ ~EdenFits(request.shape.size)
    /\ ~OldFits(request.shape.size, Grown(committed_end))
    /\ committed_end' = Grown(committed_end)

\* Neither has room: the full collection that is the last resort.
LastResort ==
    /\ gc.phase = "retry" /\ Unsatisfied
    /\ StartFullGC("last")
    /\ UNCHANGED <<roots, eden_top, from, to, old_top, tableVars, threshold, guarantee_met, request>>

\* And that did not help either: stall_exit.
AllocateStall ==
    /\ gc.phase = "last" /\ Unsatisfied
    /\ gc' = [NoGC EXCEPT !.phase = "mutator_stall"]
    /\ UNCHANGED <<mem, roots, eden_top, from, to, old_top, tableVars, threshold, guarantee_met, request>>

-----------------------------------------------------------------------------
\* Smalltalk gcScavenge.
PrimScavenge ==
    /\ Mutator /\ "gcScavenge" \in Operations
    /\ StartScavenge("run")
    /\ UNCHANGED <<mem, roots, eden_top, from, old_top, committed_end, tableVars, threshold,
                   guarantee_met, request>>

\* Smalltalk gcFull.
PrimFull ==
    /\ Mutator /\ "gcFull" \in Operations
    /\ StartFullGC("run")
    /\ UNCHANGED <<roots, spaceVars, tableVars, threshold, guarantee_met, request>>

Next ==
    \/ \E r \in Roots, q \in Roots : Load(r, q) \/ Store(r, q) \/ RuntimeStore(r, q)
    \/ \E r \in Roots : Drop(r)
    \/ \E r \in Roots, s \in Shapes :
          Allocate(r, s) \/ AllocateScavenges(r, s) \/ AllocateCompacts(r, s)
    \/ EnsureGuarantee \/ Satisfy \/ LastResort \/ AllocateStall
    \/ PrimScavenge \/ PrimFull
    \/ ScavengeStep
    \/ FullGCStep

Spec == Init /\ [][Next]_vars

-----------------------------------------------------------------------------
(* The object graph the mutator sees, whatever the collectors have moved.  *)

\* Where the object an oop means lies now: while the slide is under way, the oops
\* already name the places objects will have.
Home(v) ==
    IF gc.phase = "slide" /\ \E e \in gc.plan : e.new = v
    THEN (CHOOSE e \in gc.plan : e.new = v).old
    ELSE v

Dangling == -1

Identity(v) ==
    IF v = 0 THEN 0 ELSE IF Home(v) \in DOMAIN mem THEN mem[Home(v)].id ELSE Dangling

\* No object lies at 0, so the intersection drops it.
Oops(a) == {Home(mem[a].slots[j]) : j \in DOMAIN mem[a].slots} \cap DOMAIN mem

\* The addresses of the objects the roots reach: each round but the last adds one.
Rounds == Cardinality(Ids) - 1
Reached ==
    LET after[n \in 0 .. Rounds] ==
            IF n = 0 THEN {Home(roots[r]) : r \in Roots} \cap DOMAIN mem
            ELSE UNION {{a} \cup Oops(a) : a \in after[n - 1]}
    IN  after[Rounds]

GraphRegs == [r \in Roots |-> Identity(roots[r])]

\* Two copies of one object, while a scavenge is under way, show the same slots.
GraphSlots ==
    [i \in {mem[a].id : a \in Reached} |->
        LET a == CHOOSE x \in DOMAIN mem : mem[x].id = i
        IN  [j \in DOMAIN mem[a].slots |-> Identity(mem[a].slots[j])]]

Graph == INSTANCE ObjectGraph
    WITH regs <- GraphRegs, slots <- GraphSlots, Lengths <- {s.slots : s \in Shapes}

-----------------------------------------------------------------------------
(* Properties *)

\* Both collectors, the allocation cascade and the barriers together implement the
\* object graph: every load and store does to the graph what it says, and no step
\* of a collection changes it, however objects are copied, promoted or slid.
GraphSpec == Graph!GraphSpec

\* The words below each top are tiled by objects, and no header outside a
\* collection carries a forwarding word or a mark bit (debug_assert_clean).
Tiled(start, top) ==
    \A w \in start .. top - 1 :
        \E a \in DOMAIN mem : start <= a /\ a <= w /\ w < a + mem[a].size /\ a + mem[a].size <= top

WellFormed ==
    gc.phase \in {"run", "retry", "last", "guarantee"} =>
        /\ Tiled(EdenStart, eden_top) /\ Tiled(from.start, from.top) /\ Tiled(OldStart, old_top)
        /\ \A a \in DOMAIN mem : mem[a].fwd = 0 /\ ~mem[a].marked
        /\ to.top = to.start
        /\ \A i \in Cards : CardBase(i) < old_top =>
              LET h == Resolve(offsets, i)
              IN  h \in DOMAIN mem /\ h <= CardBase(i) /\ CardBase(i) < h + mem[h].size

\* The remembered set is complete whenever a scavenge may start: a slot of an old
\* object that holds a young oop lies on a dirty card (verify_heap's cross-check).
RememberedSet ==
    gc.phase \in {"run", "retry", "last", "guarantee"} =>
        \A a \in DOMAIN mem : IsOld(a) =>
            \A j \in DOMAIN mem[a].slots :
                IsNew(mem[a].slots[j]) => CardIndex(SlotAddr(a, j)) \in dirty

\* scavenge_oop is never handed a to-space address: no slot is visited twice in one
\* scavenge, so nothing is copied twice (its panic "double-copy imminent").
NoDoubleCopy ==
    Scanning => \A s \in gc.work : ~(to.start <= ValueOf(s) /\ ValueOf(s) < to.top)

\* A full collection loses no object's age: tenuring after it is what it would have
\* been (the displaced-mark side map).
AgeOf(i) ==
    LET at == {a \in DOMAIN mem : mem[a].id = i}
    IN  {mem[a].age : a \in at}
          \cup {e.age : e \in {x \in gc.plan : x.old \in at} \cup {x \in gc.placed : x.new \in at}}

HeapIds == {mem[a].id : a \in DOMAIN mem}
AgesKept == [][\A i \in HeapIds \cap HeapIds' : Max(AgeOf(i)) <= Max(AgeOf(i)')]_vars

\* record_stall's assertion: no scavenge of the allocation cascade runs out of promotion
\* room when the promotion guarantee reported success going in.  (gcScavenge, which returns
\* to the mutator, asks for no guarantee and finds the answer to an earlier request.)
GuaranteeHolds == gc.phase = "promote_stall" /\ gc.then # "run" => ~guarantee_met

=============================================================================
