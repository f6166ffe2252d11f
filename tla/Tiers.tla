------------------------------- MODULE Tiers -------------------------------
(***************************************************************************)
(* The two tiers of the VM running one program under method redefinition   *)
(* and garbage collection: interpreted sends (src/src/interpreter/send.rs),*)
(* compiled sends (src/src/codecache/stubs.rs), compiling, recompiling and *)
(* on-stack replacement (src/src/runtime/recompile.rs, osr.rs and          *)
(* src/src/compiler/driver.rs), deoptimization (deopt_trap.rs, stubs.rs,   *)
(* flush.rs), install_method (lookup.rs) and the collectors' treatment of  *)
(* compiled code.                                                          *)
(*                                                                         *)
(* The program has two selectors.  "c" is a loop whose body calls the      *)
(* evaluator (which may redefine methods, collect, or send "c" and "f"     *)
(* itself) and then sends "f", the site that is modelled; "f" calls the    *)
(* evaluator and returns.  A frame is                                      *)
(*   k, m    receiver class, method                                        *)
(*   tier    "I" interpreted, "C" compiled, "D" interpreted after a deopt  *)
(*           (in a nested run above its own abandoned native frame),       *)
(*           "N" a body inlined into the frame below                       *)
(*   id      the nmethod a "C" frame runs                                  *)
(*   pc      "eval": in the evaluator call; "send": at the send of "f",    *)
(*           suspended in it when there is a frame above; "loop": after it *)
(*   redir   its return address is redirected to the deopt trampoline      *)
(*   after   what the runtime does when it completes: 0 nothing, C2IDone,  *)
(*           or the id whose uncommon trap it resumed                      *)
(***************************************************************************)
EXTENDS InlineCache, Integers

CONSTANTS
    InitDicts,     \* the dictionaries a program may start with
    Redefinitions, \* the methods install_method is called with
    CReceivers,    \* classes "c" is sent to
    FReceivers,    \* classes "f" is sent to
    ColdSends,     \* methods with a send that is never reached
    Mortal,        \* classes that may become garbage
    Moves,         \* where collections put classes: k to the place of move[k]
    MaxDepth,      \* bound: frames
    PicMax,        \* PIC_MAX_ENTRIES
    TrapLimit,     \* UNCOMMON_TRAP_LIMIT
    MaxVersions,   \* MAX_VERSIONS
    Admit          \* the disagreements of README section 3 a run admits

ASSUME TiersAssumption ==
    /\ Selectors = {"c", "f"}
    /\ InitDicts \subseteq [Classes -> [Selectors -> 0 .. 1]]
    /\ \A d \in InitDicts, s \in Selectors : d[Root][s] > 0
    /\ Redefinitions \subseteq [h : Classes, s : Selectors, v : 1 .. 2]
    /\ CReceivers \cup FReceivers \subseteq Classes
    /\ ColdSends \subseteq [h : Classes, s : {"c"}, v : 1 .. 2]
    /\ Moves \subseteq Permutations(Classes)
    /\ Mortal \subseteq Classes \ {Root}
    /\ {MaxDepth, PicMax, TrapLimit, MaxVersions} \subseteq Nat \ {0}
    /\ Admit \subseteq {"skew", "feedback", "lazy"}

VARIABLES
    dict,    \* method dictionaries
    live,    \* classes that exist
    stale,   \* lookup-cache entries that disagree with the dictionaries
    ic,      \* the inline cache of each "c" method's site
    code,    \* the table of compiled methods
    frames   \* the stack, innermost frame last

vars == <<dict, live, stale, ic, code, frames>>

C2IDone == -1
Methods == Redefinitions \cup
    {m \in [h : Classes, s : Selectors, v : {1}] : \E d \in InitDicts : d[m.h][m.s] = 1}
CMethods == {m \in Methods : m.s = "c"}

\* Programs in which no class at or below one that sends "f" to super defines
\* "f" itself: activate_method keys compiled code by the receiver's class, which
\* a super send past such a definition gets wrong (README section 3).
ASSUME OverrideAssumption ==
    \A m \in Methods, h \in SuperHolders : m.s = "f" => ~OnChain(m.h, h)

Init ==
    /\ dict \in InitDicts
    /\ live = Classes
    /\ stale = {}
    /\ ic = [m \in CMethods |-> EmptyIC]
    /\ code = EmptyTable
    /\ frames = << >>

Top == frames[Len(frames)]
Below == Front(frames)
\* A walkable point: no frame, or one that is in a call of the evaluator.
AtEval == frames # << >> => Top.pc = "eval"

Look(k, s) == Lookup(dict, stale, k, s)

\* L(k) of the site in method m (ic.rs resolve; the super_klass of a site).
SiteLook(m, k) == Look(SiteStart(m, k), "f")

Frame(k, m, tier, id, after) ==
    [k |-> k, m |-> m, tier |-> tier, id |-> id, redir |-> FALSE, after |-> after,
     pc |-> IF tier = "N" THEN "body" ELSE "eval"]

-----------------------------------------------------------------------------
(* Compiling: compiler/driver.rs, ir.rs and inline.rs.                     *)

\* What the site of "c" is compiled to, from the feedback in its cache:
\* nothing seen - a trap, or a plain send in a loop entry; a class seen - its target inlined behind a class guard, whose
\* failure traps (mono) or sends (poly), or a plain send; a super site - the
\* method above the holder inlined without a guard, or a plain send.  The
\* target read from the cache is not checked against the epoch.
FeedbackTarget(k, arm) == IF arm.id = 0 THEN arm.m ELSE Walk(dict, k, "f")
Inlines(m) ==
    {[k |-> k, m |-> FeedbackTarget(k, ic[m].arms[k])] : k \in
        {j \in DOMAIN ic[m].arms :
            FeedbackTarget(j, ic[m].arms[j]) = Walk(dict, j, "f") \/ "feedback" \in Admit}}
Call == [inl |-> NoInline, cold |-> FALSE]
Bodies(m, osr) ==
    IF m.s = "f" THEN {Call}
    ELSE IF IsSuper(m)
      THEN {Call, [Call EXCEPT !.inl = [k |-> Super(m.h), m |-> Walk(dict, Super(m.h), "f")]]}
      ELSE CASE ic[m].tag = "empty" -> {[Call EXCEPT !.cold = ~osr]}
             [] ic[m].tag = "mono" ->
                   {Call} \cup {[Call EXCEPT !.inl = x, !.cold = TRUE] : x \in Inlines(m)}
             [] ic[m].tag \in {"poly", "mega"} ->
                   {Call} \cup {[Call EXCEPT !.inl = x] : x \in Inlines(m)}

\* A loop entry is half warm when the compile met a send never reached: the
\* modelled one, or another of the method's.
OsrKind(m, osr) ==
    IF ~osr THEN "no"
    ELSE IF m \in ColdSends \/ (~IsSuper(m) /\ ic[m].tag = "empty") THEN "half" ELSE "warm"

\* A super site is linked when it is compiled, past the entry guard; a target
\* specialised to its own key class (self_devirt) only through the adapter.
SuperTargets(t, m) == {C2I, ResolveTarget(t, Super(m.h))}
FirstSites(t, m) ==
    IF IsSuper(m) THEN {Mono(Super(m.h), x) : x \in SuperTargets(t, m)} ELSE {Unresolved}

\* snapshot_profile: the states of the method's caches ("f" has none here).
Profile(m) == IF m.s = "f" THEN "empty" ELSE ic[m].tag

\* compile_method_full: no room switches the JIT off for good.
Compile(t, k, m, version, osr) ==
    IF FreeSlots(t) = {} THEN {[t |-> [t EXCEPT !.jit = FALSE], id |-> 0]}
    ELSE LET i == Min(FreeSlots(t))
         IN  {[t |-> Install(t, i,
                       [st |-> "alive", k |-> k, m |-> m, version |-> version, traps |-> 0,
                        prof |-> Profile(m), inl |-> b.inl, cold |-> b.cold,
                        osr |-> OsrKind(m, osr), site |-> s]),
               id |-> i] : b \in Bodies(m, osr), s \in FirstSites(t, m)}

\* The versioned replacement of nmethod i: installed first, then i retired.
\* A compile that fails leaves i alone.
Replace(t, i, m, version) ==
    {IF r.id = 0 THEN r ELSE [r EXCEPT !.t = MakeNotEntrantLazy(r.t, {i})] :
        r \in Compile(t, t.nm[i].k, m, version, FALSE)}

\* The version of the code that replaces half-warm code.  The code counts on
\* without a look at the cap, which is all that reads the version: here it
\* stops there.
HealedVersion(n) == IF n.version < MaxVersions THEN n.version + 1 ELSE n.version

\* Past the threshold (activate_method and the c2i hatch): reuse the alive
\* nmethod of (k, m.s), replace it if it is half warm, or compile m.
CompiledFor(t, k, m) ==
    LET i == Existing(t, k, m.s)
    IN  CASE i # 0 /\ ~HalfWarm(t, i) -> {[t |-> t, id |-> i]}
          [] i # 0 /\ HalfWarm(t, i) ->
                {IF r.id = 0 THEN [r EXCEPT !.id = i] ELSE r : r \in Replace(t, i, m, HealedVersion(t.nm[i]))}
          [] i = 0 -> Compile(t, k, m, 0, FALSE)

\* activate_method: below the threshold, not compilable, or jit off: id 0.
Activations(t, k, m) ==
    {[t |-> t, id |-> 0]} \cup (IF t.jit THEN CompiledFor(t, k, m) ELSE {})

-----------------------------------------------------------------------------
(* Entering compiled code.                                                 *)

\* The nmethods that frames refer to; a redirected frame's too.
ReferencedByRunning(fs) == {fs[j].id : j \in {l \in DOMAIN fs : fs[l].tier = "C" /\ ~fs[l].redir}}
Referenced(fs) == {fs[j].id : j \in {l \in DOMAIN fs : fs[l].tier = "C"}}

\* enter_compiled sweeps first when the poll is armed and no compiled code,
\* running or being deoptimized, is below.
EnterCompiled(t, i) ==
    IF t.armed /\ i \in Alive(t) /\ (\A j \in DOMAIN frames : frames[j].tier = "I")
      THEN SweepZombies(t, Referenced(frames)) ELSE t

\* The activation: compiled when there is an id, interpreted otherwise.
Activate(r, k, m) ==
    IF r.id = 0
      THEN code' = r.t /\ frames' = Append(frames, Frame(k, m, "I", 0, 0))
      ELSE /\ code' = EnterCompiled(r.t, r.id)
           /\ frames' = Append(frames, Frame(k, r.t.nm[r.id].m, "C", r.id, 0))

\* The evaluator sends s to an instance of k, from a doit method whose own
\* inline cache is new.
Doit(k, s) ==
    /\ AtEval
    /\ Len(frames) < IF s = "c" THEN MaxDepth - 1 ELSE MaxDepth
    /\ frames # << >> => Top.m.s = "c"
    /\ k \in live
    /\ \E r \in Activations(code, k, Look(k, s)) : Activate(r, k, Look(k, s))
    /\ UNCHANGED <<dict, live, stale, ic>>

-----------------------------------------------------------------------------
(* The send of "f" in an interpreted frame.                                *)

\* An arm of a monomorphic cache that a redefinition has overtaken, and that
\* a send to another class would carry into a polymorphic cache.
Skewed(m, k) ==
    /\ ic[m].tag = "mono" /\ k \notin DOMAIN ic[m].arms
    /\ \E j \in DOMAIN ic[m].arms :
          ic[m].arms[j].id = 0 /\ ic[m].arms[j].m # Walk(dict, SiteStart(m, j), "f")

\* send_generic
SendInterpreted(k) ==
    LET m == Top.m
        step == IcTransition(ic[m], k, [j \in Classes |-> SiteLook(m, j)])
        fast == FastHit(ic[m], code, k)
        target == IF fast THEN ic[m].arms[k].m ELSE step.m
        cache == IF fast THEN ic[m] ELSE step.ic
    IN  /\ frames # << >> /\ Top.tier \in {"I", "D"} /\ Top.pc = "send"
        /\ k \in live /\ (IsSuper(m) => k = Top.k)
        /\ "skew" \in Admit \/ ~Skewed(m, k)
        /\ IF fast /\ ic[m].arms[k].id # 0
             THEN /\ Activate([t |-> code, id |-> ic[m].arms[k].id], k, NoMethod)
                  /\ ic' = ic
             ELSE \E r \in Activations(code, k, target) :
                     /\ Activate(r, k, target)
                     /\ ic' = [ic EXCEPT ![m] = IF r.id = 0 THEN cache ELSE Seed(cache, k, r.id)]
        /\ UNCHANGED <<dict, live, stale>>

-----------------------------------------------------------------------------
(* The send of "f" in compiled code.                                       *)

\* A new site and the target of this call.  A PIC is built before the old one
\* is freed, and a full cache leaves the site as it is.
Linked(site, target) == [site |-> site, target |-> target]
RekeyPic(n, arms, target) ==
    {Linked(n.site, target), Linked([t |-> "pic", arms |-> arms], target)}

\* rt_resolve_send, for a send to class k from nmethod n.
ResolveSend(t, n, k) ==
    LET new == ResolveTarget(t, k)
        old == DOMAIN n.site.arms
    IN  CASE IsSuper(n.m) ->
               {Linked(Mono(Super(n.m.h), x), x) : x \in SuperTargets(t, n.m)}
          [] ~IsSuper(n.m) /\ (n.site.t = "unresolved" \/ (n.site.t = "mono" /\ k \in old)) ->
               {Linked(Mono(k, new), new)}
          [] ~IsSuper(n.m) /\ n.site.t = "mono" /\ k \notin old ->
               RekeyPic(n, [j \in old \cup {k} |-> ResolveTarget(t, j)], new)
          [] ~IsSuper(n.m) /\ n.site.t = "pic" /\ (k \in old \/ Cardinality(old) < PicMax) ->
               RekeyPic(n, Assign(n.site.arms, k, new), new)
          [] ~IsSuper(n.m) /\ n.site.t = "pic" /\ k \notin old /\ Cardinality(old) >= PicMax ->
               {Linked(n.site, new), Linked([t |-> "mega", arms |-> NoArms], new)}

\* Where the call instruction goes: the adapter has no guard; an entry guards
\* its key class (not past a super site or a PIC, which have done so); the
\* entries of not-entrant code lead back to rt_resolve_send; rt_mega_lookup
\* looks the target up each time.
Hit(t, n, k) ==
    LET arms == n.site.arms
        x == IF n.site.t = "mono" THEN arms[CHOOSE j \in DOMAIN arms : TRUE] ELSE arms[k]
    IN  CASE n.site.t = "unresolved" -> {}
          [] n.site.t = "mega" -> {ResolveTarget(t, k)}
          [] n.site.t = "pic" /\ k \notin DOMAIN arms -> {}
          [] OTHER -> IF x = C2I THEN {C2I}
                      ELSE {y \in {x} \cap Alive(t) :
                               n.site.t = "mono" /\ ~IsSuper(n.m) => t.nm[y].k = k}

Calls(t, n, k) ==
    IF Hit(t, n, k) # {} THEN {Linked(n.site, x) : x \in Hit(t, n, k)}
                         ELSE ResolveSend(t, n, k)

\* rt_interpret_call runs what lookup finds for the receiver, or above the
\* holder for a super site: the adapter's own method is only a hint.
SendCompiled(k) ==
    LET n == code.nm[Top.id]
        inlined == n.inl # NoInline /\ (IsSuper(n.m) \/ n.inl.k = k)
    IN  /\ frames # << >> /\ Top.tier = "C" /\ Top.pc = "send"
        /\ k \in live /\ (IsSuper(n.m) => k = Top.k)
        /\ ~(n.cold /\ ~inlined)
        /\ IF inlined
             THEN /\ frames' = Append(frames, Frame(k, n.inl.m, "N", 0, 0))
                  /\ UNCHANGED code
             ELSE \E c \in Calls(code, n, k) :
                     /\ code' = [code EXCEPT !.nm[Top.id].site = c.site]
                     /\ frames' = Append(frames,
                          IF c.target = C2I
                            THEN Frame(k, SiteLook(n.m, k), "I", 0, C2IDone)
                            ELSE Frame(k, code.nm[c.target].m, "C", c.target, 0))
        /\ UNCHANGED <<dict, live, stale, ic>>

\* rt_uncommon_trap: an inlined guard failed or the site was never seen; the
\* interpreter resumes at the send, in a nested run.
Deopt(f) == [f EXCEPT !.tier = "D", !.id = 0, !.redir = FALSE]
UncommonTrap(k) ==
    LET n == code.nm[Top.id]
    IN  /\ frames # << >> /\ Top.tier = "C" /\ Top.pc = "send"
        /\ k \in live
        /\ n.cold /\ (n.inl = NoInline \/ n.inl.k # k)
        /\ frames' = Append(Below, [Deopt(Top) EXCEPT !.after = Top.id])
        /\ UNCHANGED <<dict, live, stale, ic, code>>

-----------------------------------------------------------------------------
(* Completing an activation.                                               *)

\* note_uncommon_trap: count, and past the limit recompile if the profile has
\* changed.  The nested run may have freed the nmethod and its id may name
\* another one by now: whatever has the id is counted and recompiled.
NeverCapped(n) == FALSE
ThrashCapped(n) == n.version >= MaxVersions
NoteUncommonTrap(t, i) ==
    LET n == t.nm[i]
        m == Look(n.k, n.m.s)
        counted == [t EXCEPT !.nm[i].traps = IF n.traps < TrapLimit THEN n.traps + 1 ELSE @]
    IN  IF i \notin Alive(t) THEN {t}
        ELSE IF n.traps + 1 < TrapLimit \/ ThrashCapped(n) THEN {counted}
        ELSE IF Profile(m) = n.prof THEN {[t EXCEPT !.nm[i].traps = 0]}
        ELSE {IF r.id = 0 THEN [r.t EXCEPT !.nm[i].version = MaxVersions] ELSE r.t :
                r \in Replace(counted, i, m, n.version + 1)}

\* The end of rt_interpret_call: m may be compiled for k if it is what lookup
\* finds, and the caller's site is then linked to the code.
IsDispatchTruth(k, m) == Look(k, m.s) = m
Repoint(t, caller, k, i) ==
    LET n == t.nm[caller]
    IN  CASE ~IsSuper(n.m) /\ n.site.t = "mono" /\ k \in DOMAIN n.site.arms ->
               {[t EXCEPT !.nm[caller].site = Mono(k, i)]}
          [] ~IsSuper(n.m) /\ n.site.t = "pic" /\ k \in DOMAIN n.site.arms ->
               {t, [t EXCEPT !.nm[caller].site.arms[k] = ResolveTarget(t, k)]}
          [] OTHER -> {t}
C2IHatch(t, caller, k, m) ==
    {t} \cup (IF t.jit /\ IsDispatchTruth(k, m)
                THEN UNION {IF r.id = 0 THEN {r.t} ELSE Repoint(r.t, caller, k, r.id) :
                              r \in CompiledFor(t, k, m)}
                ELSE {})

Completed(f) ==
    CASE f.after = 0 -> {code}
      [] f.after = C2IDone -> C2IHatch(code, Below[Len(Below)].id, f.k, f.m)
      [] f.after > 0 -> NoteUncommonTrap(code, f.after)

\* A call returns into frame f, which goes on at pc: rt_deopt_on_return takes
\* over if f's return address was redirected.
ReexecuteSend(f, pc) == IF f.redir THEN Deopt(f) ELSE [f EXCEPT !.pc = pc]
ReturnInto(f, pc) == [(IF f.redir THEN Deopt(f) ELSE f) EXCEPT !.pc = pc]

Return ==
    /\ frames # << >>
    /\ Top.m.s = "f" \/ Top.pc = "loop"
    /\ code' \in Completed(Top)
    /\ frames' = [j \in 1 .. Len(frames) - 1 |->
                    IF j = Len(frames) - 1 /\ frames[j].pc = "send"
                      THEN ReturnInto(frames[j], "loop") ELSE frames[j]]
    /\ UNCHANGED <<dict, live, stale, ic>>

\* The evaluator call of a "c" frame returns.
EvalDone ==
    /\ frames # << >> /\ Top.m.s = "c" /\ Top.pc = "eval"
    /\ frames' = Append(Below, ReturnInto(Top, "send"))
    /\ UNCHANGED <<dict, live, stale, ic, code>>

-----------------------------------------------------------------------------
(* The back edge of the loop.                                              *)

\* rt_poll: an armed poll takes a frame out of not-entrant code.
LoopCompiled ==
    /\ frames # << >> /\ Top.tier = "C" /\ Top.pc = "loop"
    /\ frames' = Append(Below,
          [(IF code.armed /\ Top.id \in NotEntrant(code) THEN Deopt(Top) ELSE Top)
             EXCEPT !.pc = "eval"])
    /\ UNCHANGED <<dict, live, stale, ic, code>>

LoopInterpreted ==
    /\ frames # << >> /\ Top.tier \in {"I", "D"} /\ Top.pc = "loop"
    /\ frames' = Append(Below, [Top EXCEPT !.pc = "eval"])
    /\ UNCHANGED <<dict, live, stale, ic, code>>

\* rt_osr_request: only for the method lookup finds, never into half-warm
\* code; a new compile inherits the version of the key.
OsrRequest ==
    LET i == code.osr[Top.k]
        j == code.byKey[Top.k]["c"]
        found == IF i \in Alive(code) THEN {[t |-> code, id |-> i]}
                 ELSE Compile(code, Top.k, Top.m, IF j = 0 THEN 0 ELSE code.nm[j].version, TRUE)
    IN  /\ frames # << >> /\ Top.tier \in {"I", "D"} /\ Top.pc = "loop"
        /\ code.jit
        /\ Look(Top.k, "c") = Top.m
        /\ ~(i \in Alive(code) /\ HalfWarm(code, i))
        /\ \E r \in found :
              /\ code' = r.t
              /\ frames' = Append(Below, [Top EXCEPT !.pc = "eval", !.id = r.id,
                                            !.tier = IF r.id = 0 THEN @ ELSE "C"])
        /\ UNCHANGED <<dict, live, stale, ic>>

-----------------------------------------------------------------------------
(* Redefinition and collection, in a call of the evaluator.                *)

\* redirect_returns_into_nm, for every invalidated nmethod.
RedirectInnermost(ids) ==
    [j \in DOMAIN frames |->
        IF j = Len(frames) /\ frames[j].tier = "C" /\ frames[j].id \in ids
          THEN [frames[j] EXCEPT !.redir = TRUE] ELSE frames[j]]
Redirect(ids) ==
    [j \in DOMAIN frames |->
        IF frames[j].tier = "C" /\ frames[j].id \in ids
          THEN [frames[j] EXCEPT !.redir = TRUE] ELSE frames[j]]

\* A frame that goes on in code retired lazily, without a redirection.
Lingering(j) ==
    frames[j].tier = "C" /\ ~frames[j].redir /\ frames[j].id \in NotEntrant(code)

\* It inlined the method that is installed again: iter_alive does not see it.
Overlooked(j, h, s) ==
    LET inl == code.nm[frames[j].id].inl
    IN  Lingering(j) /\ inl # NoInline /\ inl.m.s = s /\ OnChain(inl.k, h)

InstallMethod(h, s) ==
    /\ AtEval
    /\ h \in live /\ [h |-> h, s |-> s, v |-> dict[h][s] + 1] \in Redefinitions
    /\ "lazy" \in Admit \/ \A j \in DOMAIN frames : ~Overlooked(j, h, s)
    /\ dict' = [dict EXCEPT ![h][s] = @ + 1]
    /\ stale' = Flush(stale \cup Outdated(dict, dict'))
    /\ ic' = [m \in CMethods |-> [ic[m] EXCEPT !.fresh = FALSE]]
    /\ code' = InvalidateDependents(code, h, s)
    /\ frames' = Redirect(AffectedByInstall(code, h, s))
    /\ UNCHANGED live

\* The end of a scavenge: update_keys, rehash, gc_epilogue.
Scavenge(move) ==
    /\ AtEval
    /\ code' = Rehash(MoveKeys(code, move))
    /\ stale' = Flush(stale \cup Recycled(dict, move))
    /\ UNCHANGED <<dict, live, ic, frames>>

\* What keeps a class alive besides its subclasses and the key of its own
\* alive code: frames, caches, sites, inlined guards, the keys of not-entrant
\* code.
Held(k) ==
    \/ \E j \in DOMAIN frames : frames[j].k = k \/ frames[j].m.h = k
    \/ \E m \in CMethods : k \in DOMAIN ic[m].arms
    \/ \E i \in Slots \ FreeSlots(code) :
          k \in DOMAIN code.nm[i].site.arms \/ code.nm[i].inl.k = k
    \/ \E i \in NotEntrant(code) : code.nm[i].k = k

\* A.5 and A.6 of full_gc, then the moves of the other phases.
FullGC(dead, move) ==
    /\ AtEval
    /\ \A k \in dead : ~Held(k)
    /\ \A j \in live \ dead, k \in dead : ~OnChain(j, k)
    /\ "lazy" \in Admit \/ \A j \in DOMAIN frames : Lingering(j) =>
          Range(code.nm[frames[j].id].site.arms) \cap NotEntrant(code) = {}
    /\ code' = Rehash(MoveKeys(SweepZombies(WeakSweep(code, dead), Referenced(frames)), move))
    /\ live' = live \ dead
    /\ dict' = [k \in Classes |-> IF k \in dead THEN [s \in Selectors |-> 0] ELSE dict[k]]
    /\ stale' = Flush(stale \cup Recycled(dict, move))
    /\ UNCHANGED <<ic, frames>>

\* The program makes the class again; it may lie where the dead one did.
CreateClass(k) ==
    /\ AtEval
    /\ k \notin live
    /\ \A j \in Classes : OnChain(k, j) => j \in live \cup {k}
    /\ live' = live \cup {k}
    /\ UNCHANGED <<dict, stale, ic, code, frames>>

Next ==
    \/ \E k \in CReceivers : Doit(k, "c")
    \/ \E k \in FReceivers : Doit(k, "f")
    \/ \E k \in FReceivers : SendInterpreted(k)
    \/ \E k \in FReceivers : SendCompiled(k)
    \/ \E k \in FReceivers : UncommonTrap(k)
    \/ Return
    \/ EvalDone
    \/ LoopCompiled
    \/ LoopInterpreted
    \/ OsrRequest
    \/ \E h \in Classes, s \in Selectors : InstallMethod(h, s)
    \/ \E move \in Moves : Scavenge(move)
    \/ \E dead \in SUBSET (Mortal \cap live), move \in Moves : FullGC(dead, move)
    \/ \E k \in Mortal : CreateClass(k)

Spec == Init /\ [][Next]_vars

-----------------------------------------------------------------------------
(* Properties.                                                             *)

Site == [t : {"unresolved", "mono", "pic", "mega"},
         arms : UNION {[D -> Slots \cup {C2I}] : D \in SUBSET Classes}]

\* Types of the dictionaries, the cache, the sites and the frames.
TypeOK ==
    /\ dict \in [Classes -> [Selectors -> 0 .. 2]]
    /\ live \subseteq Classes
    /\ \A i \in Slots :
          /\ code.nm[i].st \in {"free", "alive", "notentrant"}
          /\ code.nm[i].site \in Site
          /\ code.nm[i].version \in 0 .. MaxVersions
          /\ code.nm[i].traps \in 0 .. TrapLimit
    /\ Len(frames) <= MaxDepth

\* Every activation, in either tier and inlined ones too, runs the method the
\* dictionaries define for the receiver at that moment: no cache, site, key or
\* inlined body outlives a redefinition, a collection or a dead class
\* (send_generic, rt_resolve_send, rt_interpret_call, install_method).
DispatchIsLookup ==
    [][Len(frames') > Len(frames) =>
         LET f == frames'[Len(frames')]
         IN  f.m = Walk(dict, IF frames # << >> /\ Top.pc = "send" THEN SiteStart(Top.m, f.k)
                              ELSE f.k, f.m.s)]_vars

\* The two tiers are the program of module Program: entering compiled code,
\* on-stack replacement, traps, deoptimization in the middle of a call or at
\* a back edge, invalidation and collection neither repeat nor skip a step of
\* any activation, and change no method that runs.
View == [j \in DOMAIN frames |->
           [k |-> frames[j].k, m |-> frames[j].m,
            pc |-> IF frames[j].pc = "body" THEN "eval" ELSE frames[j].pc]]
Prog == INSTANCE Program WITH frames <- View
ProgramSpec == Prog!Spec

\* A compiled frame always runs code that is installed and is its own
\* method's: no region is freed or reused under an activation
\* (sweep_not_entrant_zombies, weak_sweep).
CodeUnderFrames ==
    \A j \in DOMAIN frames : frames[j].tier = "C" =>
        code.nm[frames[j].id].st # "free" /\ code.nm[frames[j].id].m = frames[j].m

\* A site of alive code only calls installed code for "f", compiled for the
\* class the site expects (flush_nmethod D6.2, rt_resolve_send).
SitesAreLinked ==
    \A i \in Alive(code) : \A k \in DOMAIN code.nm[i].site.arms :
        LET x == code.nm[i].site.arms[k]
        IN  x # C2I => code.nm[x].st # "free" /\ code.nm[x].m.s = "f" /\ code.nm[x].k = k

\* Alive code is code for what lookup finds: its own method for its key, and
\* what it inlined for the class it guards (affected_by_install).
AliveIsCurrent ==
    \A i \in Alive(code) :
        LET n == code.nm[i]
        IN  /\ n.k \in live /\ n.m = Walk(dict, n.k, n.m.s)
            /\ n.inl # NoInline => n.inl.m = Walk(dict, n.inl.k, "f")

\* What the maps name is alive code of that key.  rt_resolve_send calls what
\* it finds there without a look at its state, and retired code sends the
\* caller back to rt_resolve_send: a retired entry would never let it go
\* (set_not_entrant, mark_zombie, rehash).
KeysLeadToAlive ==
    \A k \in Classes :
        /\ \A s \in Selectors : LET i == code.byKey[k][s]
              IN  i # 0 => i \in Alive(code) /\ code.nm[i].k = k /\ code.nm[i].m.s = s
        /\ LET i == code.osr[k]
           IN  i # 0 => i \in Alive(code) /\ code.nm[i].k = k /\ code.nm[i].osr # "no"

\* An activation of code that redefinition has made wrong does not go on in
\* it: its return is redirected (make_not_entrant 2c), or it never calls.
WrongCodeIsLeft ==
    \A j \in DOMAIN frames :
        (/\ frames[j].tier = "C" /\ frames[j].m.s = "c" /\ frames[j].pc # "loop"
         /\ LET n == code.nm[frames[j].id]
            IN  n.inl # NoInline /\ n.inl.m # Walk(dict, n.inl.k, "f"))
        => frames[j].redir
=============================================================================
