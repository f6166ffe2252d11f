---------------------------- MODULE InlineCache ----------------------------
(***************************************************************************)
(* The inline cache of an interpreted send site: the transition table of   *)
(* src/src/interpreter/ic.rs and the seeding rule of send.rs.              *)
(*                                                                         *)
(* A cache is [tag |-> "empty" | "mono" | "poly" | "mega", arms, fresh].   *)
(* arms maps receiver classes to targets [id, m]: a method, or (mono only) *)
(* the id of an nmethod.  `fresh` says that the epoch in the cache's meta  *)
(* word is vm.ic_epoch; every install_method makes all of them not fresh.  *)
(***************************************************************************)
EXTENDS CodeTable

CONSTANT PolyMax   \* IC_POLY_MAX_PAIRS

ASSUME PolyMaxAssumption == PolyMax \in Nat /\ PolyMax >= 2

ToMethod(m) == [id |-> 0, m |-> m]
ToCode(i) == [id |-> i, m |-> NoMethod]

EmptyIC == [tag |-> "empty", arms |-> [k \in {} |-> ToMethod(NoMethod)], fresh |-> FALSE]
SetMono(k, target) == [tag |-> "mono", arms |-> [j \in {k} |-> target], fresh |-> TRUE]
SetPoly(arms) == [tag |-> "poly", arms |-> arms, fresh |-> TRUE]
SetMega == [tag |-> "mega", arms |-> EmptyIC.arms, fresh |-> FALSE]

\* reverify_poly, row 8: every arm is resolved again before the epoch is
\* restamped (every class understands the selector, so no arm is dropped).
ReverifyHit(arms, k, resolve) ==
    [j \in DOMAIN arms |-> IF j = k THEN ToMethod(resolve[j]) ELSE arms[j]]
Reverify(arms, k, resolve) == [j \in DOMAIN arms |-> ToMethod(resolve[j])]

\* Rows 5 and 6: a monomorphic cache meets another class.  A compiled target
\* is resolved again; a method is carried over as it is.
Demoted(ic, resolve) ==
    [j \in DOMAIN ic.arms |->
        IF ic.arms[j].id = 0 THEN ic.arms[j] ELSE ToMethod(resolve[j])]

\* Rows 7, 9 and 10, on arms that are current.
PolyArms(arms, k, m) ==
    IF k \in DOMAIN arms THEN SetPoly(arms)
    ELSE IF Cardinality(DOMAIN arms) < PolyMax THEN SetPoly(Assign(arms, k, ToMethod(m)))
    ELSE SetMega

\* ic_transition: the cache after a send to class k that missed the fast
\* path, and the method to activate.  resolve is L of the site.
IcTransition(ic, k, resolve) ==
    LET m == resolve[k]
        current == IF ic.fresh THEN ic.arms ELSE Reverify(ic.arms, k, resolve)
    IN  CASE ic.tag = "empty" -> [ic |-> SetMono(k, ToMethod(m)), m |-> m]
          [] ic.tag = "mono" /\ k \in DOMAIN ic.arms -> [ic |-> SetMono(k, ToMethod(m)), m |-> m]
          [] ic.tag = "mono" /\ k \notin DOMAIN ic.arms ->
                [ic |-> SetPoly(Assign(Demoted(ic, resolve), k, ToMethod(m))), m |-> m]
          [] ic.tag = "poly" ->
                [ic |-> PolyArms(current, k, m),
                 m  |-> IF k \in DOMAIN current THEN current[k].m ELSE m]
          [] ic.tag = "mega" -> [ic |-> ic, m |-> m]

\* activate_method: a compiled target replaces an empty cache or the target
\* of a monomorphic cache of the same class, and never loses a class.
Seed(ic, k, i) ==
    IF ic.tag = "empty" \/ (ic.tag = "mono" /\ k \in DOMAIN ic.arms)
      THEN SetMono(k, ToCode(i)) ELSE ic

\* The fast path of send_generic: same class, current epoch, and a compiled
\* target only while it is alive and still has this key.
FastHit(ic, t, k) ==
    /\ ic.tag = "mono" /\ ic.fresh /\ k \in DOMAIN ic.arms
    /\ LET i == ic.arms[k].id
       IN  i # 0 => i \in Alive(t) /\ t.nm[i].k = k /\ t.nm[i].m.s = "f"
=============================================================================
