------------------------------ MODULE Program ------------------------------
(***************************************************************************)
(* What the two tiers promise: the program of Tiers run by one interpreter *)
(* without caches or compiled code.  A send runs what the dictionaries     *)
(* define at that moment, every activation goes through its steps once, in *)
(* order, and a collection is invisible.  A frame is [k, m, pc].           *)
(***************************************************************************)
EXTENDS MethodLookup

CONSTANTS InitDicts, Redefinitions, CReceivers, FReceivers, Mortal

VARIABLES dict, live, frames

vars == <<dict, live, frames>>

Init ==
    /\ dict \in InitDicts
    /\ live = Classes
    /\ frames = << >>

Top == frames[Len(frames)]
At(pc) == frames # << >> /\ Top.pc = pc
AtEval == frames = << >> \/ At("eval")
Goto(fs, pc) == [fs EXCEPT ![Len(fs)].pc = pc]
Run(k, m) == frames' = Append(frames, [k |-> k, m |-> m, pc |-> "eval"])

\* The evaluator sends s to an instance of k.
Doit(k, s) ==
    /\ AtEval /\ k \in live
    /\ Run(k, Walk(dict, k, s))
    /\ UNCHANGED <<dict, live>>

\* The send of "f" in a "c".
Send(k) ==
    /\ At("send") /\ k \in live
    /\ IsSuper(Top.m) => k = Top.k
    /\ Run(k, Walk(dict, SiteStart(Top.m, k), "f"))
    /\ UNCHANGED <<dict, live>>

\* An activation ends: a caller suspended in its send goes on behind it.
Return ==
    LET below == SubSeq(frames, 1, Len(frames) - 1)
    IN  /\ frames # << >> /\ (Top.m.s = "f" \/ At("loop"))
        /\ frames' = IF below # << >> /\ below[Len(below)].pc = "send"
                       THEN Goto(below, "loop") ELSE below
        /\ UNCHANGED <<dict, live>>

EvalDone ==
    /\ At("eval") /\ Top.m.s = "c"
    /\ frames' = Goto(frames, "send")
    /\ UNCHANGED <<dict, live>>

Loop ==
    /\ At("loop")
    /\ frames' = Goto(frames, "eval")
    /\ UNCHANGED <<dict, live>>

Define(h, s) ==
    /\ AtEval /\ h \in live
    /\ [h |-> h, s |-> s, v |-> dict[h][s] + 1] \in Redefinitions
    /\ dict' = [dict EXCEPT ![h][s] = @ + 1]
    /\ UNCHANGED <<live, frames>>

\* Classes that no activation is about are gone, with their methods.
Forget(dead) ==
    /\ AtEval
    /\ \A i \in DOMAIN frames : {frames[i].k, frames[i].m.h} \cap dead = {}
    /\ live' = live \ dead
    /\ dict' = [k \in Classes |-> IF k \in dead THEN [s \in Selectors |-> 0] ELSE dict[k]]
    /\ UNCHANGED frames

Create(k) ==
    /\ AtEval
    /\ live' = live \cup {k}
    /\ UNCHANGED <<dict, frames>>

Next ==
    \/ \E k \in CReceivers : Doit(k, "c")
    \/ \E k \in FReceivers : Doit(k, "f") \/ Send(k)
    \/ Return \/ EvalDone \/ Loop
    \/ \E h \in Classes, s \in Selectors : Define(h, s)
    \/ \E dead \in SUBSET (Mortal \cap live) : Forget(dead)
    \/ \E k \in Mortal : Create(k)

Spec == Init /\ [][Next]_vars
=============================================================================
