------------------------------- MODULE Unwind -------------------------------
(***************************************************************************)
(* Returns, non-local returns, ensure: and ifCurtailed: over a stack that  *)
(* interpreted and compiled activations share, and what an unhandled error *)
(* does with the cleanup blocks it passes (src/interpreter/unwind.rs,      *)
(* blocks.rs, compiled_call.rs, embed.rs).                                 *)
(*                                                                         *)
(* `stack' holds activations of both tiers, oldest first.  An interpreted  *)
(* one has a serial and links back to its caller; where its caller is Rust *)
(* code the link is one of EntryLinks and the code's saved_fp is           *)
(* ENTRY_FRAME_SENTINEL.  A closure is known by its home, the frame its    *)
(* `^' returns from.  Values are left out.                                 *)
(***************************************************************************)
EXTENDS Integers, Sequences, FiniteSets

CONSTANTS
    MaxDepth,       \* activations on the stack before the guest calls no deeper
    MaxSerial,      \* activations the guest starts in all
    MaxDoits        \* top-level evaluations

ASSUME UnwindAssumption == MaxDepth \in Nat /\ MaxSerial \in Nat /\ MaxDoits \in Nat

VARIABLES
    stack,          \* activations, oldest first
    pc,             \* what the VM does next, with the home of a `^' it is serving
    nlr,            \* vm.nlr_state: the home of a `^' parked for the home side
    curtailing,     \* vm.curtailing_on_error
    pass,           \* the cleanups an error still has to run, innermost first
    stored,         \* the home of a closure kept in a global
    next,           \* vm.next_frame_serial
    doits,          \* evaluations begun
    due,            \* ghost: how often the cleanup of a protected frame must still run
    lost            \* ghost: whether a `^' was let go by a caller that does not expect one

vars == <<stack, pc, nlr, curtailing, pass, stored, next, doits, due, lost>>

NoHome == [fp |-> 0, serial |-> 0]
Unmarked == [kind |-> "nil", home |-> NoHome]
Armed(kind, c) == [kind |-> kind, home |-> c]
Token(h) == [kind |-> "token", home |-> h]
EntryLinks == {"doit", "c2i", "perform", "cleanup"}
Running == [op |-> "run", home |-> NoHome]
Serving(op, h) == [op |-> op, home |-> h]

Interp(s, link, block, h, marker) ==
    [tier |-> "interp", serial |-> s, link |-> link, block |-> block,
     home |-> h, marker |-> marker]

Native(block, h) ==
    [tier |-> "native", serial |-> 0, link |-> "native", block |-> block,
     home |-> h, marker |-> Unmarked]

WithMarker(f, m) == [f EXCEPT !.marker = m]

Top == stack[Len(stack)]
Below(n) == SubSeq(stack, 1, n)
IsHandler(m) == m.kind \in {"ensure", "ifCurtailed"}
Innermost(S) == CHOOSE i \in S : \A j \in S : j <= i

(* home_is_live: within the stack, and its serial is still in its place. *)
HomeIsLiveAnySerial(h) == h.fp \in 1 .. Len(stack)
HomeIsLive(h) == h.fp \in 1 .. Len(stack) /\ stack[h.fp].serial = h.serial

(* make_closure: a method's blocks return from its own frame, a block's from *)
(* the home of the block.                                                    *)
HomeRef(s, block, h) == IF block THEN h ELSE [fp |-> Len(s) + 1, serial |-> next]

Activation(s, link, block, h, marker) ==
    Append(s, Interp(next, link, block, HomeRef(s, block, h), marker))

Init ==
    /\ stack = <<>> /\ pc = Running /\ nlr = NoHome
    /\ curtailing = FALSE /\ pass = <<>> /\ stored = NoHome
    /\ next = 1 /\ doits = 0 /\ due = [s \in 1 .. MaxSerial |-> 0] /\ lost = FALSE

---------------------------------------------------------------------------
(* What guest code does, in the activation on top. *)

GuestRuns == pc = Running /\ stack # <<>>
MayCall == GuestRuns /\ Len(stack) < MaxDepth /\ next <= MaxSerial
CallLink == IF Top.tier = "native" THEN "c2i" ELSE "call"

(* Blocks at hand: those of every activation, and the one in the global. *)
Closures ==
    ({stack[i].home : i \in 1 .. Len(stack)} \cup {stored}) \ {NoHome}

Doit ==
    /\ pc = Running /\ stack = <<>> /\ doits < MaxDoits /\ next <= MaxSerial
    /\ stack' = Activation(stack, "doit", FALSE, NoHome, Unmarked)
    /\ next' = next + 1
    /\ doits' = doits + 1
    /\ UNCHANGED <<pc, nlr, curtailing, pass, stored, due, lost>>

Call(frames) ==
    /\ stack' = frames
    /\ next' = next + 1
    /\ UNCHANGED <<pc, nlr, curtailing, pass, stored, doits, lost>>

(* A send to an interpreted method; from compiled code through rt_interpret_call. *)
SendMethod ==
    /\ MayCall
    /\ Call(Activation(stack, CallLink, FALSE, NoHome, Unmarked))
    /\ UNCHANGED due

(* perform:withArguments: runs the method inside the primitive.  Called from *)
(* compiled code it is reached through rt_interpret_call, as any other send. *)
Perform ==
    /\ MayCall /\ Top.tier = "interp"
    /\ Call(Activation(stack, "perform", FALSE, NoHome, Unmarked))
    /\ UNCHANGED due

Value ==
    /\ MayCall
    /\ \E h \in Closures : Call(Activation(stack, CallLink, TRUE, h, Unmarked))
    /\ UNCHANGED due

(* ensure: and ifCurtailed: the protected block is always interpreted, and the *)
(* marker of its frame is the cleanup block.                                   *)
EnsureLike ==
    /\ MayCall
    /\ \E kind \in {"ensure", "ifCurtailed"}, h \in Closures, c \in Closures :
            Call(Activation(stack, CallLink, TRUE, h, Armed(kind, c)))
    /\ due' = [due EXCEPT ![next] = 1]

(* A call of compiled code: a method, or a block. *)
EnterCompiled ==
    /\ GuestRuns /\ Len(stack) < MaxDepth
    /\ \E f \in {Native(FALSE, NoHome)} \cup {Native(TRUE, h) : h \in Closures} :
            stack' = Append(stack, f)
    /\ UNCHANGED <<pc, nlr, curtailing, pass, stored, next, doits, due, lost>>

ReturnCompiled ==
    /\ GuestRuns /\ Top.tier = "native"
    /\ stack' = Below(Len(stack) - 1)
    /\ UNCHANGED <<pc, nlr, curtailing, pass, stored, next, doits, due, lost>>

(* An uncommon trap: the rest of the compiled activation runs interpreted, in *)
(* a nested run whose result goes to the compiled code's caller.              *)
Deoptimize ==
    /\ GuestRuns /\ Top.tier = "native" /\ next <= MaxSerial
    /\ Call(Activation(Below(Len(stack) - 1), "c2i", Top.block, Top.home, Unmarked))
    /\ UNCHANGED due

StoreClosure ==
    /\ GuestRuns /\ Top.home # NoHome
    /\ stored' = Top.home
    /\ UNCHANGED <<stack, pc, nlr, curtailing, pass, next, doits, due, lost>>

---------------------------------------------------------------------------
(* Returns. *)

MarkerKept(s, i) == s
Cleared(s, i) == [s EXCEPT ![i] = WithMarker(@, Unmarked)]

(* A cleanup block starts, above the activations of s. *)
Handle(s, link, h) == Activation(s, link, TRUE, h, Unmarked)
Discharged(s) == [due EXCEPT ![s] = @ - 1]

(* What the popped frame's saved_fp and saved_bci say to do next. *)
PopAndDeliver ==
    LET n == Len(stack) - 1 IN
    /\ stack' = IF Top.link = "unwind" THEN Cleared(Below(n), n) ELSE Below(n)
    /\ pc' = CASE Top.link = "ensureRet" -> Serving("return", NoHome)
               [] Top.link = "unwind"    -> Serving("unwind", stack[n].marker.home)
               [] Top.link = "cleanup"   -> Serving("curtail", NoHome)
               [] OTHER                  -> Running
    /\ UNCHANGED next

InterceptEnsureReturn ==
    /\ stack' = Handle(Cleared(stack, Len(stack)), "ensureRet", Top.marker.home)
    /\ next' = next + 1
    /\ pc' = Running

(* do_return, for a return of the guest's and for one the VM is serving. *)
DoReturn ==
    /\ pc.op \in {"run", "return"} /\ stack # <<>> /\ Top.tier = "interp"
    /\ \/ Top.marker.kind = "nil" /\ PopAndDeliver /\ UNCHANGED due
       \/ Top.marker.kind = "ifCurtailed" /\ PopAndDeliver /\ due' = Discharged(Top.serial)
       \/ Top.marker.kind = "ensure" /\ InterceptEnsureReturn /\ due' = Discharged(Top.serial)
    /\ UNCHANGED <<nlr, curtailing, pass, stored, doits, lost>>

---------------------------------------------------------------------------
(* Unhandled errors. *)

EntryOf(i) == Innermost({j \in 1 .. i : stack[j].link \in EntryLinks})
InCleanup == \E i \in 1 .. Len(stack) : stack[i].link = "cleanup"

(* The frames whose cleanups an error at frame `start' runs; 0 stands for the *)
(* sentinel that fp holds while a primitive runs on behalf of compiled code.  *)
Curtailed(start) ==
    IF start = 0 THEN {}
    ELSE {i \in EntryOf(start) .. start : IsHandler(stack[i].marker)}

Pending(f) == [serial |-> f.serial, home |-> f.marker.home]
NthInnermost(S, k) == CHOOSE i \in S : Cardinality({j \in S : j > i}) = k - 1
OldestFirst(S) ==
    [k \in 1 .. Cardinality(S) |-> Pending(stack[NthInnermost(S, Cardinality(S) + 1 - k)])]
Collected(S) == [k \in 1 .. Cardinality(S) |-> Pending(stack[NthInnermost(S, k)])]

(* restore_after_guest_fatal *)
Recover == stack' = <<>> /\ pc' = Running /\ nlr' = NoHome /\ pass' = <<>> /\ lost' = FALSE

(* Ghost: the cleanups the code documents that an error leaves out, those   *)
(* beyond a boundary to compiled code and, when the error is a cleanup's    *)
(* own, all that are left.                                                  *)
Forfeits(start) ==
    IF InCleanup THEN DOMAIN due
    ELSE {s \in DOMAIN due : \A i \in Curtailed(start) : stack[i].serial # s}

(* run_curtailment_blocks_on_error, up to the first block it runs *)
Raise(start) ==
    /\ due' = [s \in DOMAIN due |-> IF s \in Forfeits(start) THEN 0 ELSE due[s]]
    /\ \/ curtailing /\ Recover /\ UNCHANGED curtailing
       \/ /\ ~curtailing
          /\ curtailing' = TRUE
          /\ stack' = [i \in 1 .. Len(stack) |->
                         IF i \in Curtailed(start) THEN Cleared(stack, i)[i] ELSE stack[i]]
          /\ pass' = Collected(Curtailed(start))
          /\ pc' = Serving("curtail", NoHome)
          /\ UNCHANGED <<nlr, lost>>
    /\ UNCHANGED <<stored, next, doits>>

(* error: or a message not understood; raised in compiled code, fp names the *)
(* interpreted frame below it or, inside run_method, no frame.               *)
Error ==
    /\ GuestRuns
    /\ \E start \in IF Top.tier = "interp" THEN {Len(stack)}
                    ELSE {0, Innermost({i \in 1 .. Len(stack) : stack[i].tier = "interp"})} :
            Raise(start)

RunCleanup ==
    /\ pc.op = "curtail" /\ pass # <<>>
    /\ stack' = Handle(stack, "cleanup", Head(pass).home)
    /\ next' = next + 1
    /\ pass' = Tail(pass)
    /\ due' = Discharged(Head(pass).serial)
    /\ pc' = Running
    /\ UNCHANGED <<nlr, curtailing, stored, doits, lost>>

EndCurtailment ==
    /\ pc.op = "curtail" /\ pass = <<>>
    /\ curtailing' = FALSE
    /\ Recover
    /\ UNCHANGED <<stored, next, doits, due>>

---------------------------------------------------------------------------
(* Non-local returns. *)

(* nlr_tos *)
NlrTos ==
    /\ GuestRuns /\ Top.tier = "interp" /\ Top.block
    /\ pc' = Serving("unwind", Top.home)
    /\ UNCHANGED <<stack, nlr, curtailing, pass, stored, next, doits, due, lost>>

(* rt_nlr_originate: parked without looking at the home. *)
NlrOriginate ==
    /\ GuestRuns /\ Top.tier = "native" /\ Top.block
    /\ nlr' = Top.home
    /\ lost' = FALSE
    /\ stack' = Below(Len(stack) - 1)
    /\ pc' = Serving("escape", NoHome)
    /\ UNCHANGED <<curtailing, pass, stored, next, doits, due>>

(* innermost_marked_frame stops at the home, a marker, or an entry frame. *)
ScanStop(h) ==
    Innermost({i \in 1 .. Len(stack) :
                 i = h.fp \/ IsHandler(stack[i].marker) \/ stack[i].link \in EntryLinks})

(* The Rust caller of the interpreter run that a `^' leaves: rt_interpret_call   *)
(* hands the sentinel on; perform:withArguments: takes it for the method's value *)
(* and the curtailment pass does not look at it.                                 *)
AfterEscape(link) ==
    CASE link = "c2i"     -> Serving("escape", NoHome)
      [] link = "cleanup" -> Serving("curtail", NoHome)
      [] OTHER            -> Running

(* continue_unwind *)
CannotReturn ==
    /\ pc.op = "unwind" /\ ~HomeIsLive(pc.home)
    /\ Raise(Len(stack))

ReachedHome ==
    /\ pc.op = "unwind" /\ HomeIsLive(pc.home) /\ ScanStop(pc.home) = pc.home.fp
    /\ stack' = Below(pc.home.fp)
    /\ pc' = Serving("return", pc.home)
    /\ UNCHANGED <<nlr, curtailing, pass, stored, next, doits, due, lost>>

RanHandler ==
    LET i == ScanStop(pc.home)  f == stack[i] IN
    /\ pc.op = "unwind" /\ HomeIsLive(pc.home) /\ i # pc.home.fp /\ IsHandler(f.marker)
    /\ stack' = Handle([Below(i) EXCEPT ![i] = WithMarker(@, Token(pc.home))],
                       "unwind", f.marker.home)
    /\ next' = next + 1
    /\ due' = Discharged(f.serial)
    /\ pc' = Running
    /\ UNCHANGED <<nlr, curtailing, pass, stored, doits, lost>>

Escaped ==
    LET i == ScanStop(pc.home)  f == stack[i] IN
    /\ pc.op = "unwind" /\ HomeIsLive(pc.home) /\ i # pc.home.fp /\ ~IsHandler(f.marker)
    /\ stack' = Below(i - 1)
    /\ nlr' = pc.home
    /\ pc' = AfterEscape(f.link)
    /\ lost' = (f.link # "c2i")
    /\ UNCHANGED <<curtailing, pass, stored, next, doits, due>>

(* The sentinel goes back through compiled code, and enter_compiled takes it up. *)
Relay ==
    /\ pc.op = "escape" /\ Top.tier = "native"
    /\ stack' = Below(Len(stack) - 1)
    /\ UNCHANGED <<pc, nlr, curtailing, pass, stored, next, doits, due, lost>>

TakeUp ==
    /\ pc.op = "escape" /\ Top.tier = "interp"
    /\ nlr' = NoHome
    /\ lost' = FALSE
    /\ pc' = Serving("unwind", nlr)
    /\ UNCHANGED <<stack, curtailing, pass, stored, next, doits, due>>

(* The host has nothing to evaluate. *)
Idle == pc = Running /\ stack = <<>> /\ UNCHANGED vars

Next ==
    \/ Doit \/ SendMethod \/ Perform \/ Value \/ EnsureLike \/ EnterCompiled
    \/ ReturnCompiled \/ Deoptimize \/ StoreClosure \/ DoReturn
    \/ Error \/ RunCleanup \/ EndCurtailment
    \/ NlrTos \/ NlrOriginate \/ CannotReturn \/ ReachedHome \/ RanHandler \/ Escaped
    \/ Relay \/ TakeUp \/ Idle

Spec == Init /\ [][Next]_vars

---------------------------------------------------------------------------
(* Properties. *)

Frames == 1 .. Len(stack)

(* The frames below one fit its link, which is what the panics and the         *)
(* unreachable!() of unwind.rs assert: a cleanup that resumes an unwinding     *)
(* finds its token (resume_unwind), one that resumes a return finds no marker, *)
(* and no frame returns over a token.                                          *)
FramesWellLinked ==
    /\ pc.op \in {"run", "return", "unwind", "escape", "curtail"}
    /\ \A i \in Frames :
         /\ stack[i].link = "doit" <=> i = 1
         /\ stack[i].link \in {"call", "perform", "ensureRet", "unwind"} =>
                stack[i - 1].tier = "interp"
         /\ stack[i].link = "unwind" => stack[i - 1].marker.kind = "token"
         /\ stack[i].link = "ensureRet" => stack[i - 1].marker.kind = "nil"
         /\ stack[i].marker.kind = "token" => i < Len(stack) /\ stack[i + 1].link = "unwind"
    /\ pc.op \in {"return", "unwind"} => stack # <<>> /\ Top.tier = "interp"
    /\ pc.op = "escape" => stack # <<>>

Waits(s) ==
    \/ \E i \in Frames : stack[i].serial = s /\ IsHandler(stack[i].marker)
    \/ \E k \in 1 .. Len(pass) : pass[k].serial = s

(* No cleanup is forgotten and none runs twice: one that has not started is     *)
(* still armed on its frame or waits in the pass of an error, whichever way     *)
(* its frame is left, and an error runs them from the innermost: one pass for   *)
(* every error, in which only a cleanup that fails forfeits the rest            *)
(* (vm_state.rs, curtailing_on_error).                                          *)
NoCleanupForgotten ==
    /\ \A s \in DOMAIN due : due[s] \in {0, 1} /\ (due[s] = 1 => Waits(s))
    /\ pc.op = "curtail" /\ pass # <<>> =>
            \A s \in DOMAIN due : due[s] = 1 => s <= Head(pass).serial

(* A cleanup has failed, which jumps past the reset of the guard: no error has  *)
(* a pass any more (run_curtailment_blocks_on_error).                           *)
Stuck == curtailing /\ pc.op # "curtail" /\ ~InCleanup

(* No cleanup is forgotten and none runs twice as long as none has failed.      *)
CleanupsRun == Stuck \/ NoCleanupForgotten

(* A `^' returns from its home and from no other frame, though it may have to   *)
(* pass compiled code and wait for cleanups: what it has parked it takes up     *)
(* again before anything else runs, and while cleanups run the home stays.      *)
(* Only one that leaves a performed method or a cleanup is let go on the way.   *)
NlrReachesHome ==
    /\ pc.op = "return" /\ pc.home # NoHome => Top.serial = pc.home.serial
    /\ nlr # NoHome => pc.op = "escape" \/ lost
    /\ \A i \in Frames : stack[i].marker.kind = "token" =>
            \E j \in 1 .. i - 1 : stack[j].serial = stack[i].marker.home.serial
=============================================================================
