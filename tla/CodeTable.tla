----------------------------- MODULE CodeTable -----------------------------
(***************************************************************************)
(* The table of compiled methods (nmethods) and their invalidation:        *)
(* src/src/codecache/nmethod.rs, flush.rs, src/src/runtime/deps.rs and the *)
(* code-cache part of src/src/compiler/driver.rs.                          *)
(*                                                                         *)
(* A table is a record t:                                                  *)
(*   nm     slot -> nmethod; a slot is an id and a region of the code      *)
(*          cache at once: install takes the first free slot, and a freed  *)
(*          region is handed out again                                     *)
(*   byKey  (class, selector) -> id, or 0                                  *)
(*   osr    class -> id of the nmethod carrying the loop entry, or 0       *)
(*   armed  poll_flag / pending_deopt_flag                                 *)
(*   jit    options.jit, switched off for good when the cache is full      *)
(*                                                                         *)
(* Every nmethod has at most one send site.  A site is                     *)
(*   [t |-> "unresolved" | "mono" | "pic" | "mega", arms]                  *)
(* with arms a function from receiver classes to targets: an id, or C2I    *)
(* for the adapter that re-enters the interpreter.                         *)
(***************************************************************************)
EXTENDS MethodLookup, SequencesExt, TLC

CONSTANT NumSlots     \* size of the code cache, in nmethods

ASSUME SlotsAssumption == NumSlots \in Nat \ {0}

Slots == 1 .. NumSlots
C2I == 0
NoMethod == [h |-> Root, s |-> "none", v |-> 0]
NoInline == [k |-> Root, m |-> NoMethod]
NoArms == [k \in {} |-> C2I]
Unresolved == [t |-> "unresolved", arms |-> NoArms]
Mono(k, t) == [t |-> "mono", arms |-> [j \in {k} |-> t]]

\* A target put in an arm, new or not.
Assign(arms, k, x) == [j \in DOMAIN arms \cup {k} |-> IF j = k THEN x ELSE arms[j]]

Free == [st |-> "free", k |-> Root, m |-> NoMethod, version |-> 0, traps |-> 0,
         prof |-> "empty", inl |-> NoInline, cold |-> FALSE, osr |-> "no", site |-> Unresolved]

EmptyTable == [nm |-> [i \in Slots |-> Free],
               byKey |-> [k \in Classes |-> [s \in Selectors |-> 0]],
               osr |-> [k \in Classes |-> 0],
               armed |-> FALSE, jit |-> TRUE]

Alive(t) == {i \in Slots : t.nm[i].st = "alive"}
NotEntrant(t) == {i \in Slots : t.nm[i].st = "notentrant"}
FreeSlots(t) == {i \in Slots : t.nm[i].st = "free"}
HalfWarm(t, i) == t.nm[i].osr = "half"

\* code_table.lookup(..).filter(Alive)
Existing(t, k, s) == IF t.byKey[k][s] \in Alive(t) THEN t.byKey[k][s] ELSE 0

-----------------------------------------------------------------------------
(* Installing.                                                             *)

\* CodeTable::install, and install_osr for a compile with a loop entry: the
\* newest nmethod takes over the key, an older alive one stays alive.
Install(t, i, n) ==
    [t EXCEPT !.nm[i] = n,
              !.byKey[n.k][n.m.s] = i,
              !.osr[n.k] = IF n.osr = "no" THEN @ ELSE i]

-----------------------------------------------------------------------------
(* Invalidating.                                                           *)

\* The maps are unhooked only where they still name the nmethod itself: a
\* recompilation has installed the successor first.  The code invalidates and
\* flushes one nmethod after the other; each clears entries that name itself
\* under its own key, so here a set of ids is done at once.
Unhook(t, ids) ==
    [t EXCEPT
       !.byKey = [k \in Classes |-> [s \in Selectors |->
                    IF t.byKey[k][s] \in {i \in ids : t.nm[i].k = k /\ t.nm[i].m.s = s}
                      THEN 0 ELSE t.byKey[k][s]]],
       !.osr = [k \in Classes |->
                    IF t.osr[k] \in {i \in ids : t.nm[i].k = k} THEN 0 ELSE t.osr[k]]]

\* make_not_entrant_lazy: set_not_entrant (2a), the entries patched to the
\* not-entrant stub (2b: a caller now re-resolves), the poll armed (2d).
MakeNotEntrantLazy(t, ids) ==
    [Unhook(t, ids) EXCEPT
       !.nm = [i \in Slots |->
                 IF i \in ids THEN [t.nm[i] EXCEPT !.st = "notentrant"] ELSE t.nm[i]],
       !.armed = t.armed \/ ids # {}]

\* deps.rs affected_by_install: the own key, and the class an inlined body
\* was guarded by, where the new definition lies on its chain.
AffectedOwnKeyOnly(t, h, s) ==
    {i \in Alive(t) : t.nm[i].m.s = s /\ OnChain(t.nm[i].k, h)}
AffectedByInstall(t, h, s) ==
    {i \in Alive(t) :
        \/ t.nm[i].m.s = s /\ OnChain(t.nm[i].k, h)
        \/ t.nm[i].inl # NoInline /\ t.nm[i].inl.m.s = s /\ OnChain(t.nm[i].inl.k, h)}

\* invalidate_dependents on the table (the frames are Redirect of Tiers).
InvalidateDependents(t, h, s) == MakeNotEntrantLazy(t, AffectedByInstall(t, h, s))

-----------------------------------------------------------------------------
(* Reclaiming.                                                             *)

\* D6.2: the alive callers whose site names flushed code start over.
SitesKept(nm, ids) == nm
ResetSites(nm, ids) ==
    [j \in Slots |->
        IF nm[j].st = "alive" /\ Range(nm[j].site.arms) \cap ids # {}
          THEN [nm[j] EXCEPT !.site = Unresolved] ELSE nm[j]]

\* flush_nmethod: mark_zombie, D6.2, remove and free the region.
FlushNmethod(t, ids) ==
    [Unhook(t, ids) EXCEPT
       !.nm = [j \in Slots |-> IF j \in ids THEN Free ELSE ResetSites(t.nm, ids)[j]]]

\* sweep_not_entrant_zombies: `referenced` are the ids on the stack.
SweepZombies(t, referenced) ==
    LET s == FlushNmethod(t, NotEntrant(t) \ referenced)
    IN  [s EXCEPT !.armed = t.armed /\ NotEntrant(s) # {}]

\* weak_sweep and the flush of what it finds: code for classes that died.
WeakSweep(t, dead) == FlushNmethod(t, {i \in Alive(t) : t.nm[i].k \in dead})

\* A collection moved the classes: the maps are keyed by addresses, so the
\* entry of move[k] is what a lookup for k would now find.
MoveKeys(t, move) ==
    [t EXCEPT !.byKey = [k \in Classes |-> t.byKey[move[k]]],
              !.osr = [k \in Classes |-> t.osr[move[k]]]]

\* rehash, after update_keys: rebuilt from the alive nmethods in slot order.
HighestSlot(ids) == IF ids = {} THEN 0 ELSE Max(ids)
RehashAll(t) ==
    [t EXCEPT
       !.byKey = [k \in Classes |-> [s \in Selectors |->
                    HighestSlot({i \in Slots \ FreeSlots(t) : t.nm[i].k = k /\ t.nm[i].m.s = s})]],
       !.osr = [k \in Classes |->
                    HighestSlot({i \in Slots \ FreeSlots(t) : t.nm[i].k = k /\ t.nm[i].osr # "no"})]]
Rehash(t) ==
    [t EXCEPT
       !.byKey = [k \in Classes |-> [s \in Selectors |->
                    HighestSlot({i \in Alive(t) : t.nm[i].k = k /\ t.nm[i].m.s = s})]],
       !.osr = [k \in Classes |->
                    HighestSlot({i \in Alive(t) : t.nm[i].k = k /\ t.nm[i].osr # "no"})]]

-----------------------------------------------------------------------------
(* Linking a send site of compiled code.                                   *)

\* resolve_target_entry: the nmethod of (k, "f"), unless it is half warm.
ResolveTarget(t, k) ==
    LET i == t.byKey[k]["f"] IN IF i # 0 /\ ~HalfWarm(t, i) THEN i ELSE C2I
=============================================================================
