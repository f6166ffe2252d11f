# A verification of WINVM

WINVM is a Smalltalk virtual machine in Rust: a moving generational heap, a
bytecode interpreter, a JIT compiler, several VM instances per process that
exchange messages ("workers"), and GUI hosts around them.  This directory models,
in TLA+, the parts of it where a wrong ordering corrupts state and a test hardly
ever sees it: the **memory system**, the **worker machinery**, the **two execution
tiers** (inline caches, compiled code and its invalidation), **unwinding** through
both of them, and the **supervision** of the primary VM in the Cocoa host.  Every
definition is a translation of code; `PROJECT.json` gives the lines ("map").

## 1. The system

| component | state it keeps | operations | what is hard about it |
|---|---|---|---|
| event router (`src/runtime/workers.rs`, `InboxSender`, `poll`) | an mpsc channel, the flag `wake_pending`, the hook | `send`, `poll`, `set_wake` | any number of threads send; wakes are coalesced |
| worker registry (`workers.rs`, `world/47_worker.mst`) | `links`, a channel per worker, the table of pending replies | spawn, register hosted, send, poll, alive, terminate, reply | ids are used again; threads die; requests and deaths cross |
| worker thread (`worker_main`) | staging slot, its receiver | boot, init, receive, dispatch, report death, end | guest errors, closed channels, fatal exit |
| cards and offset table (`memory/cards.rs`, `offsets.rs`) | a dirty byte and an offset byte per card | record, clear, resolve | byte-sized chain entries, objects over many cards |
| old generation (`memory/spaces.rs`) | top, committed end | allocate, grow | growth clamped at the reservation |
| allocation (`memory/alloc.rs`) | eden top, `promotion_guarantee_met` | `alloc_words` and its cascade | scavenge, growth and full collections in between |
| store barriers (`memory/store.rs`) | dirty cards | `store`, `post_write_barrier` | which card of a straddling object |
| scavenger (`memory/scavenge.rs`) | from/to, age table, scan pointers | `scavenge` | copies and promotes while it scans what it promoted |
| full collector (`memory/fullgc.rs`) | mark bits, plan, displaced marks | phases A-F | references are rewritten before objects move |
| roots, handles, symbols, genesis, diagnostics (`memory/*`) | tables of oops | push, pop, intern, verify | completeness of a list |
| lookup, inline caches (`runtime/lookup.rs`, `deps.rs`, `interpreter/ic.rs`, `send.rs`) | a global cache keyed by addresses, a cache per send site with an epoch | lookup, install, transition, seed | keys move; a redefinition heals caches lazily |
| code cache (`codecache/nmethod.rs`, `flush.rs`, `stubs.rs`) | compiled methods, their states and call sites, three maps | install, not entrant, flush, sweep, rehash, resolve a send | code must outlive its frames and no longer than that; ids are used again |
| tiering (`runtime/recompile.rs`, `osr.rs`, `frames.rs`, `deopt.rs`, `codecache/deopt_trap.rs`) | trap counts, versions, redirected returns | compile, trap, replace on the stack, deoptimize | the program must not notice |
| unwinding (`interpreter/unwind.rs`, `blocks.rs`, `compiled_call.rs`, `embed.rs`) | frames with serials and markers, `nlr_state`, `curtailing_on_error` | return, non-local return, ensure, error, recovery | cleanups of both tiers, once each; dead homes |
| Cocoa supervisor (`cocoa_gui/src/supervisor.rs`, `main.rs`, `filein.rs`, `rebuild.rs`) | generations of primaries, events, request flags, the UI worker's pending replies | boot, register, watch, restart, rebuild, file in, request, reply | late events of an earlier generation, a thread that dies without a destructor |
| JIT, front end, bytecode, other primitives, pickling | none between calls | compile, encode | meaning of programs |
| Windows/GTK host | a request queue | serve | its drain is one of the router's embeddings |
| image store, Tcl bridge, tools | SQLite, third-party code | | |

How they meet: the mutator calls `alloc_words` and `store`; `alloc_words` calls
both collectors and grows the old generation; both collectors maintain the card
and offset tables that the barriers write and the next scavenge reads.  A worker
thread runs a VM of its own, with a heap of its own, and touches the primary only
by sending envelopes through the primary's router; the primary reaches a worker
only through that worker's channel.  Interpreter and compiled code call each other
through `enter_compiled` and `rt_interpret_call`, share one cache of lookups and one
table of compiled methods, and unwind through each other with a parked target and a
sentinel word.  Collections move the classes those tables are keyed by and flush the
code of dead ones.  In the Cocoa host the primary is one of a series of generations;
the UI worker is hosted by the main thread and keeps its id across them.

What makes each part correct:

* router: no envelope waits in the channel of a sleeping host without a wake on
  its way; every envelope is taken;
* registry: a reply reaches the continuation of its own request and no other,
  once; no running worker is lost; deaths are reported, and only real ones; an
  accepted request is dispatched or its worker's death is reported;
* offset table: from any card below the top, `resolve` finds the object that
  covers the card's first word;
* old generation: objects never overlap, and a slide never overwrites what is
  still to be moved;
* heap: the mutator sees one object graph that nothing but its own loads and
  stores changes; old-to-young references are always on dirty cards; a scavenge
  that was promised room has it;
* tiers: a send runs the method that lookup finds at that moment, every activation
  goes through its steps once and in order, whatever is compiled, invalidated or
  moved meanwhile; compiled code that is on the stack is not freed, what is alive
  agrees with the dictionaries, and every call site leads to code that exists;
* unwinding: every cleanup block runs exactly once, innermost first, whether its
  protected block ends by return, non-local return or error; a `^` returns from its
  home or is an error;
* supervisor: after any failure the UI is linked to a live primary again or the
  process exits; a reply goes to the request it answers; no request is silently
  forgotten; restarts and file-ins asked for take place.

The hazards behind these are in `PROJECT.json` ("hazards"), each at its line.

## 2. Modules

| module | models | 
|---|---|
| `Inbox` | `InboxSender::send` in its three atomic pieces, against `poll` and the drain loops of three embeddings |
| `Workers` (extends `Inbox`) | the registry, `worker_main`, primitives 220-225 and the request/reply layer of `47_worker.mst` |
| `Offsets` | cards and the offset table, as operators |
| `OldGen` (extends `Offsets`) | the old generation alone: allocate, grow, compact, slide |
| `HeapState` (extends `Offsets`) | the heap's variables and geometry |
| `Scavenge`, `FullGC` (extend `HeapState`) | the two collectors |
| `Heap` (extends both) | the mutator: allocation cascade, loads, barriers, GC primitives; the composition |
| `ObjectGraph` | the abstract specification: a graph of objects, no addresses, no collector |
| `MethodLookup` | `lookup.rs` and the superclass walk, as operators on dictionaries |
| `CodeTable` (extends it) | `nmethod.rs`, `flush.rs`, `deps.rs`: the table of compiled methods, as operators |
| `InlineCache` (extends it) | the transition table of an interpreted send site |
| `Tiers` (extends it) | both tiers running one program under redefinition and collection; the composition |
| `Program` | the abstract specification: the same program run by one interpreter without caches or compiled code |
| `Unwind` | returns, non-local returns, `ensure:`/`ifCurtailed:`, errors and recovery over a stack of both tiers |
| `Supervisor` | the Cocoa host: watchdog, generations, main thread, UI worker, and the request protocol of `47_worker.mst` |
| `DataLemmas`, `OffsetsProofs` | lemmas on sequences and naturals, and on the offset table, that the proofs share |
| `WorkersProofs` (the router's too), `OldGenProofs`, `HeapProofs`, `TiersProofs`, `UnwindProofs`, `SupervisorProofs` | theorems about the module they are named after |
| `MCWorkers`, `MCOldGen`, `MCHeap`, `MCTiers`, `MCUnwind`, `MCSupervisor` | instances for TLC |

### The router and the registry

`InboxSender::send` is three actions, because other threads run between them:
`Enqueue` (the channel), `Swap` (`wake_pending.swap(true)`), `FireHook` (only the
thread that found the flag clear).  `poll` is two: `Clear`, then `Recv`.  The
variable `host` tells the embeddings apart: in the Windows/GTK host a wake is a
queued request served by one doit, which a guest error aborts (`DispatchFailed`);
in the Cocoa host it is a run-loop source and the Rust loop goes on; a primary
without a hook pumps.  `set_wake` is called before the first worker exists, so the
hook is part of the initial state.

In `Workers` the primary is the router's drainer and each worker thread one of its
senders.  A worker *id* is a slot and is used again, so each element of `Incs` is
one thread, and envelopes carry it as a ghost field; `target`, `fired`, `erred`,
`noticed` and `terminated` are ghosts as well.  `Spawn`, `RegisterHosted`,
`SendAccepted`/`SendRefused`/`SendFailed` and `Terminate` run where guest code of
the primary runs; `Receive` is `poll` with `dispatchOne:`.  A thread goes through
boot, recv, dispatch and either died, retiring, gone (it reports and drops its
receiver), or gone (closed channel), or vanished (`fatal_exit` ends the thread and
runs no destructor).  The model's bounded counters (`MaxSends`, `MaxCorr`,
`MaxTraffic`) are guards of sends only, so nothing that must happen is cut off.
Messages have no contents: pickling (`mop.rs`) is outside.

### The heap

Addresses count words.  `mem` maps the header address of an object to its size,
slots, age, forwarding word and mark bit; the klass field is one of the slots, and
the size that the code derives from the klass is kept with the object, so the
rule that sizes are read through a forwarded klass is not examined.  `id` is a
ghost identity.  Oop 0 stands for everything a collector passes over.  A new
object's slots hold 0.  Roots are two sets, those of `for_each_root` and those of
`each_code_root`, which the scavenger visits at different times.

A collection is a sequence of steps of `gc.phase`, during which the mutator does
nothing.  A scavenge takes one slot per step (`ScavengeSlot` is `scavenge_oop`
with the write of the slot; slots it would give back unchanged are left out of
a batch), first the roots, then each dirty card below
`old_top_before` (`NextCard` with the offset table's `resolve`; `Cleaned` decides on
the card it leaves), then code roots, then object by object over to-space and
over what was promoted (`ScanObject`).  `FinishScavenge` swaps the survivors and
computes the threshold.  A full collection marks object by object, computes all
forwarding addresses and stashes the marks, rewrites all references, slides one
object per step, restores marks and dirties cards.  `alloc_words` is split where a
collection runs inside it; `request` holds what it keeps meanwhile.  When a copy
finds no room the code records a stall, finishes the current phase and exits; the
model ends at the stall, since nothing uses that heap again.

Left out: the `MACVM_GC_STRESS` hooks, the raw allocation used by genesis,
statistics and tracing.  The sweep of compiled code and the flush of the lookup cache
are in `Tiers`.

### The tiers

One program stands for all: `c` is a loop whose body calls the evaluator and then
sends `f`, the one site that is modelled; `f` calls the evaluator and returns.  In the
evaluator anything may happen that guest code can cause: more sends, `install_method`,
a scavenge, a full collection, the death and the making of a class.  So a frame is
suspended at every kind of point (in a call, in an inlined body, after a
deoptimization) while the world changes under it.  `B` inherits `c` in one initial
program and overrides it with a super send in the other.  A class dies only together
with its subclasses and is made again only below classes that exist, as the references
between them force in the code.

Interpreted sends go through `IcTransition`, row by row as in `ic.rs`, with the epoch
reduced to whether it is the current one.  `Activations` is the compile trigger of
`activate_method`: counters are left out, so any activation may be the one that
compiles.  A compilation (`Compile`) decides from the site's cache whether to inline
`f`, to leave a trap for a site never taken, or to send; it records the inlined
dependency and installs.  A loop entry compiled while some send of the method was never
reached (this one, or one of those `ColdSends` stands for) is half warm: ordinary sends
decline it and the next activation replaces it, with a version that the model stops at
`MaxVersions` (`HealedVersion`).  Compiled sends resolve their site (`ResolveSend`) through
mono, PIC and mega, and c2i for interpreted targets, with the hatch that compiles a
hot one.  `InstallMethod` flushes the lookup cache, ages every inline cache, makes
dependent code not entrant and redirects the returns of its frames; `LoopCompiled`
leaves at an armed poll; `Return` runs what the runtime does after the activation
(counting a trap and recompiling, the c2i hatch, or deoptimizing at a redirected
return).  Addresses are classes: a collection is a permutation of them (`Moves`), and
an entry of the lookup cache that a move or an install made wrong is in `stale` until
flushed.  The model keeps the zombie state only inside `FlushNmethod`, as the code does.

### Unwinding

`stack` holds activations of both tiers.  A frame's `link` is what its saved fp and bci
say: an ordinary call, an entry from Rust (`doit`, `c2i`, `perform`, `cleanup`), or one
of the resume points of a cleanup (`ensureRet`, `unwind`).  `pc` is what the VM does
next where the code is inside a Rust function: running guest code, delivering a return,
continuing an unwinding, carrying the sentinel through compiled code, or running the
cleanups of an error.  A closure is its home, so dead and replaced homes arise by
themselves.  An error collects the handlers up to the entry frame, clears their markers
and runs the blocks one by one, each on an entry frame; then the evaluation is abandoned
(`Recover` is `restore_after_guest_fatal`).  The ghost `due` counts what each protected
frame is still owed.  The cleanups the code says an error leaves out (those beyond a
boundary to compiled code, and the rest when a cleanup itself fails) are subtracted by
`Forfeits`.  A cleanup may fail in any evaluation, and a `^` may leave a cleanup or a
performed method: the ghost `lost` says that a caller that does not expect the sentinel
has let a `^` go.

### The supervisor

Three threads interleave: the watchdog, the main thread with its run loop, and each
generation of the primary.  Registration and events are channels; `wake` is the
coalesced run-loop source; `ask` holds the request flags.  The main thread's pass
(`DrainPerform`, or `RebuildUi` when a rebuild is asked for) is one action, since
nothing else touches its state; the early return after a rebuild consumes the wake as
in the code.  A generation serves requests on a stack, because a doit may dispatch
another; `cur` is `CurrentCorr`.  Requests, restarts, file-ins and rebuilds are asked for
at any time and in any combination, as the callbacks may.  A fatal leaves everything in place and sends `Died`.

## 3. What is checked

| run | instance | what it shows |
|---|---|---|
| `workers_registry` | one slot used by two threads in turn, 2 requests, 2 envelopes of traffic, fatal exits, all three embeddings | `AnsweredByTarget`, `NoOrphan`, `NoticesAreReal`; `NoLostWakeup`, `FlagMeansWake`: the coalescing protocol has no race; `InboxSpec`: the registry's steps are steps of the router, so the router's theorems hold of it |
| `workers_liveness` | two threads at once, one request, GUI host, fair | `Drained`: every envelope is taken, except after a handler's error; `DeathReported`, `RequestServedOrDeathReported`, `TerminatedThreadEnds` |
| `oldgen_offsets` | cards of 2 words, objects of up to several cards, chains of two and more entries, an odd reservation | `ResolveFindsHeader`, `ChainStaysInObject`, `SlideIsSafe` over every order of allocation, growth and compaction |
| `heap` | eden 2, survivors 4, old 8 words, objects of 2 and 4 words over cards of 3, gcScavenge, gcFull and stores by Rust code at any time | `GraphSpec` (refinement of `ObjectGraph`), `WellFormed`, `GuaranteeHolds`, `RememberedSet`, `NoDoubleCopy`, `AgesKept` through every rung of the cascade, up to a stall |
| `tiers` | three classes, two of them receivers, one mortal, one method redefined, two code slots, two activations | `ProgramSpec` (refinement of `Program`) and `DispatchIsLookup`; `AliveIsCurrent`, `WrongCodeIsLeft`, `CodeUnderFrames`, `SitesAreLinked`, `KeysLeadToAlive` |
| `supervisor` | three generations, two requests with one nested dispatch, one rebuild, one file-in, two boot failures, fair | `AnsweredOnce`, `NothingForgotten`; `Recovered`, `RestartReplaces`, `FileInServed` |
| `unwind` | four activations deep, five serials, two evaluations | `CleanupsRun` (up to a cleanup that fails), `NlrReachesHome`, `FramesWellLinked` (what the panics and `unreachable!()` of `unwind.rs` assert) |

Five runs show the code doing other than a comment or document says ("findings" in
`PROJECT.json` has the quotations):

| run | property | what happens |
|---|---|---|
| `tiers_feedback` | `AliveIsCurrent` | a compile reads an inline cache that no send has healed since a redefinition (`feedback.rs:149`), inlines the replaced method, and records the dependency too late to be invalidated |
| `tiers_skew` | `DispatchIsLookup` | a monomorphic cache from before a redefinition meets another class; its old method is carried into the polymorphic cache, which gets the new epoch (`ic.rs:349-368`), and the next send to the first class runs the replaced method.  `ic.rs:382-383` warns of the same mistake in the polymorphic rows |
| `tiers_lazy` | `WrongCodeIsLeft` | code replaced by a better compilation is retired lazily (`make_not_entrant_lazy`) and its suspended frames have no redirected return; if the method it inlined is redefined later they go on in it, since `affected_by_install` looks at alive code only (`deps.rs:59`), although `flush.rs:70-76` says that after a redefinition in-flight activations must leave |
| `supervisor_rebuild` | `RepliesAreOurs` | a rebuilt UI worker numbers its requests from 1 again, and a late reply to the old one's request runs the new one's continuation, although `47_worker.mst:276-277` says a (peer, corr) key is unique |
| `unwind_cleanup` | `NoCleanupForgotten` | a cleanup that fails during an error's pass jumps past the reset of `curtailing_on_error` (`unwind.rs:431`) and recovery does not reset it: no later error in that VM runs any cleanup, although `vm_state.rs:1073` says one pass per error |

### What the passing runs and the theorems leave out

In `Tiers` the constant `Admit` says which of the first three situations may happen.  It
is empty in `tiers` and in the theorems, because what these situations break (a stale
cache, code that is not current, a frame that lingers in it) spreads to every property:
each theorem of section 4 about the tiers holds up to the first of them, and the three
violation runs show what happens then.  The guards name exactly these situations: a send
that would carry an overtaken arm into a polymorphic cache (`Skewed`), a cache arm that
lookup no longer finds (`Inlines`), a redefinition of a method that a lingering frame has
inlined (`Overlooked`), and the sweep of code that a lingering frame's site still calls
(`FullGC`; sites of lazily retired callers are not reset).

Further assumptions and exceptions are in the models and the properties themselves:

* `OverrideAssumption` of `Tiers`: no class at or below one that sends `f` to super
  overrides `f`.  `activate_method` finds compiled code by the receiver's class
  (`send.rs:211-256`), without the check that `rt_interpret_call` (`stubs.rs:1744`) and
  `rt_osr_request` make that the method is the one lookup finds, so with such an override a
  super send runs the override's code, and `DispatchIsLookup` and `ProgramSpec` fail.
* `CleanupsRun` and its theorem speak of the time up to a failing cleanup (`Stuck`); what
  holds without exception would be `NoCleanupForgotten`, which `unwind_cleanup` refutes.
* `NlrReachesHome` excepts a `^` that was `lost`.  One that leaves a method run by
  `perform:withArguments:` from interpreted code becomes the primitive's result
  (`primitives.rs:3565`): the home never returns and `nlr_state` stays parked, although
  `vm_state.rs:1052-1056` says it is "`None` at every `enter_compiled` ENTRY" and "cleared
  only when the unwind finally returns from home".  One that leaves a cleanup during an
  error's pass is parked and ignored by `run_block_to_completion` (`unwind.rs:490`) until
  recovery clears it.
* `GuaranteeHolds` speaks of the cascade's scavenges.  `gcScavenge`
  (`primitives.rs:3467`) scavenges without `ensure_promotion_guarantee` and can run out of
  promotion room while the reservation could still grow, although `scavenge.rs:121-122` says
  the guarantee is "checked before every scavenge call" and `sprint_s08_detail.md:273` that
  it "makes `ScavengePromote` stalls unreachable".  The run `heap` contains that stall.
* `RestartReplaces` speaks of restarts with no rebuild asked for beside them.  The pass
  that serves a rebuild returns early (`main.rs:170-173`) and has consumed the wake;
  nothing signals again, so with a doit that never ends (no heartbeat) the restart waits
  for some unrelated wake.

Others are visible in the code and need no instance:

* `Drained` excepts a handler's error in the GUI host: it aborts the
  drain (`vm_host.rs:1567`), and the envelopes behind it wait for some later send,
  although the router's comment says "never a lost wakeup".
* `alive` (`workers.rs:542`) answers what the last failed send or terminate left, also
  after a `#workerDied` was dispatched; `docs/multi-smalltalk-worker.md:299` says false.
* a worker ended by `fatal_exit` (`vm_state.rs:247`) drops nothing, so its channel stays
  open and sends to it are accepted and never answered; the same document (line 439)
  says the next send fails.  `workers_liveness` therefore has no fatal exits.
* a request larger than two growth segments stalls with the reservation mostly
  uncommitted (`alloc.rs:290`).
* `terminate` and `alive` compute `id - 1` for id 0 (`workers.rs:528`).
* a fatal while a generation boots comes before the fatal hook is installed
  (`supervisor.rs:370`), so the watchdog waits on the registration for ever; a thread
  that cannot be spawned ends the watchdog silently.  Neither is an action of the model.
* a late `Died` or `Restart` retires the successor of the generation it was about
  (`supervisor.rs:298`).  This is modelled: it costs a restart, and `Recovered` shows
  that the host still comes to rest.
* an nmethod id kept across the nested run of a trap may name another nmethod
  afterwards (`deopt_trap.rs:2188`), which is then counted or recompiled.  Modelled;
  harmless to every property.
* the replacement of half-warm code gets `old_version + 1` without a look at
  `MAX_VERSIONS` (`send.rs:237`, `stubs.rs:1774`); the version is a `u8`.

**Bounds.**  The heap instance is the smallest we found in which an object's
header and slot lie on different cards and that card can be cleaned, a card is
shared by an old object and by one promoted in the same cycle, the survivor space
overflows (promotion by overflow as well as by age), a compaction moves one object
over the old place of another, the last growth segment is cut by the reservation,
and an object does not fit eden.  Three identities are enough for an old object, a
promoted one, and the young one it refers to; an allocation is not started when
all are in use.  They are interchangeable (a new object may get any free one), so that
symmetry is sound.  `MaxAge` is 2: with 1 nothing would ever survive a scavenge without
being promoted; the survivor spaces have four words so that the threshold stays there.
Eden holds one small object, so a second allocation scavenges and a large object goes to
old space at once.  Two threads suffice for the
router's races, since a race is between one sender and the drainer, or two senders
and the flag; the theorems below remove this bound.  `MaxSends` in the registry
runs is larger than the traffic and death notices can add up to and never binds.
`workers_registry` runs all three embeddings; `workers_liveness` only the GUI host, the one
whose drain a handler's error can abort, and no fatal exits.  In `tiers` one slot fewer,
or one activation fewer, and code is never freed and its id never reused while a caller is
suspended; `MaxVersions` and `TrapLimit` are 1, so that one trap leads to a
recompilation and the next to the cap.  In `unwind` depth four is a home, a compiled
frame, a protected frame and the block that returns; five serials leave room for a
cleanup.  In `supervisor` three generations are a primary, its successor, and the one a
late event costs.  Deadlock is checked in `tiers`, `supervisor` and `unwind`, whose
idle states are steps; in the other runs every bounded counter ends a behaviour, and a
stalled heap stops for good.

**Fairness.**  In `Workers`, a thread inside `send` finishes it, each worker thread that
has something to do does it, and the primary's loop goes on and serves its inbox.  Threads are the operating system's, and the
host loops wait for nothing else.  A handler is taken to end, normally or by an
error: one that never ends blocks its own VM by design.  Spawning, sending and
terminating are never fair.  In `Supervisor` the watchdog, the main thread's run loop
and each generation's own loop are fair; user requests, fatals, boot failures, and
the end of a doit are not, and the properties say where they need the newest
generation to be out of its doit again and again (`Idle`).

## 4. What is proved

Every theorem holds for all values of the constants that satisfy the named assumptions
of the module it is about; TLC evaluates those in every run.  Where a theorem needs more
it says so in an ASSUME of its own, given below.

`DataLemmas` holds what the other proofs keep citing: what appending, replacing,
taking, cutting and filling do to a sequence, and that a set of naturals has a least
and a greatest element.  The last two replace induction: where a proof needs one (the
chain of offset entries, the frames of a stack, the handlers of a pass) it takes the
least counterexample and derives a smaller one.

**Router** (`WorkersProofs`, first section), for any set of sender threads, envelopes and embeddings:

* `TypeCorrect`: `InboxTypeOK` is invariant;
* `FlagStandsForWake` and `NoWakeupIsLost`.  `NoLostWakeup` is not inductive: a
  sender that finds the flag set leaves without a wake of its own, so it relies on
  the one who set it.  The inductive invariant (`WakeInv`) is therefore its
  conjunction with `FlagMeansWake`: a set flag stands for a wake that is queued or
  about to be, unless the drainer is just about to clear it.  The interesting cases
  are `Swap` on a flag that is set (the sender may leave, since the drainer asleep is
  not about to clear), `Clear` (nothing needs to be promised during a drain) and
  `Recv` on an empty channel (the drainer goes to sleep with nothing queued, and a
  later envelope brings its own sender to the flag).

**Registry** (`WorkersProofs`), for any number of slots, threads, requests and sends:

* `WorkersTypeCorrect`, with the channels and the table of replies typed;
* `NoWorkerIsLost` (`NoOrphan`): the invariant adds that a dead link which still has
  its sender leads to a thread that has ended (`DeadLinksEnded`), so that the slot
  `spawn` takes again never holds the only way to a running worker;
* `NoticesAlwaysReal` (`NoticesAreReal`): a thread that ends without a failure is one
  that no link leads to any more (`EndsAreReal`), so a failed send, which queues a
  notice, can only meet a thread that failed;
* `AnswersComeFromTarget` (`AnsweredByTarget`): the invariant (`ReplyInv`) follows a
  correlation id through the envelope in a worker's channel, the staging slot, the
  reply in the primary's queue and the table of continuations: whoever holds it is the
  thread that accepted the request, and the continuation is taken out when it runs;
* `WorkersImplementRouter` (`InboxSpec`): every action is one of `Inbox` or leaves its
  variables alone; with it `NoWorkerWakeupIsLost` is the router's theorem again.

For the refinement the bound `MaxSends`, which guards the router's sends and not the
registry's, must not be reached: `SendsAssumption` makes it as large as traffic, notices
of failed sends and ends of threads can add up to, and `SentInv` shows that they do not
add up to more.

**Old generation** (`OldGenProofs`), for every reservation, card size, segment and set
of object sizes: all invariants of its run.

* `LayoutInvariant`: objects do not overlap, placed ones end at or below the top,
  the ones still to be moved lie at or above it and inside the committed prefix;
  `SlideAlwaysSafe` follows.  Alone it is not inductive: placing one
  object is harmless to the next source only because the two did not overlap
  before the compaction began;
* `OldGenInvariant` adds the offset table: the placed objects cover everything below the
  top, and the entry of each card below it is either direct, and then the header's
  distance, or backward, and then leads to an earlier card of the same object.
  `OldGenTypeCorrect` and `ChainsStayInObject` are parts of it;
* `ResolveAlwaysFindsHeader`: `resolve` finds the header.  `resolve` is a recursive
  function; its equation is first shown to have a solution on every prefix of the
  table, by the least card without one, and then the least card it gets wrong is
  contradicted by the entry that leads to a smaller one.

**Heap** (`HeapProofs`), for every layout of the spaces, card size, set of shapes, number
of roots and of objects: all invariants of its runs.

* `HeapInvariant` describes the heap in the middle of every phase of both collectors.
  Whenever it can be walked, objects tile their spaces and each card's offset entry leads
  to the object over it (`WalkInv`).  During a scavenge (`ScanInv`): what is left behind is
  forwarded to one copy outside; a root, a slot of an old object and a slot of a copied one
  each hold an oop of from-space only while they are still ahead (of the card, of the scan
  pointer) or in the batch.  During a full collection: what is marked and not gray refers
  to what is marked (`MarkInv`); the plan goes downwards, in order, without overlap or gap
  (`PlanInv`); while objects slide every oop is a place some object will have (`SlideInv`).
  The compaction pointer stays below its object because what the plan has filled and what is
  still to come are disjoint sets of words: a counting argument, with cardinalities;
* `HeapWellFormed`, `RememberedSetComplete`, `NothingCopiedTwice` follow from it;
* `GuaranteeKept` (`GuaranteeHolds`), with all `Operations`: during a scavenge that the
  cascade started the words of from-space not yet forwarded are never more than what is
  left of the committed prefix (`RoomInv`), again by counting;
* `HeapImplementsGraph` (`GraphSpec`), for any finite, non-empty set of identities.  The
  graph is what can be reached from the registers, so the proof needs which identity an
  address stands for at every step of a collector (`IdInv`): outside a scavenge no two
  objects have the same one; during it an identity may be there twice, as the original
  left behind and its one copy, and both lead to the same graph.  During the slide an
  address stands for the object that will be there (`Home`).  That a search of one
  round fewer than there are identities finds the least closed set is shown by counting
  what each round adds.

**Tiers** (`TiersProofs`), for every class hierarchy, program, set of redefinitions,
collection moves, code-cache size, stack depth and limit that satisfy the assumptions
(`OverrideAssumption` among them), up to the situations of `tiers_skew`, `tiers_lazy` and
`tiers_feedback` (`Admit = {}`, section 3): all properties of its run.

* `TiersInvariant` has four parts that need each other.  The table (`TableOK`): keys and
  sites lead to installed code of the class they are for, alive code is what lookup finds.
  The caches (`CachesOK`): a cache of the current epoch holds what lookup finds, and its
  compiled arms are checked when used.  The stack (`StackOK`): a compiled frame's nmethod is
  installed and its own; it goes on in it only while what it inlined is current and its site
  is linked, otherwise its return is redirected; only the innermost frame is at a loop.  The
  classes (`LiveOK`): nothing of these names a dead class, and chains are closed;
* `TypeCorrect`, `CodeStaysUnderFrames`, `SitesStayLinked`, `AliveCodeIsCurrent`,
  `KeysStayAlive` and `NoneGoesOnInWrongCode` follow from it, and `EveryActivationIsLookup`
  from it and each step;
* `TiersImplementProgram` (`ProgramSpec`): every step is the step of `Program` that the
  stack's view shows, or none.  A trap, a scavenge and the redirections of an install leave
  the view alone; entering a loop entry is the back edge the interpreter would have taken.

**Unwinding** (`UnwindProofs`), for any depth, number of serials and evaluations:

* `FramesAlwaysWellLinked`: serials grow along the stack and are never used again, only
  interpreted frames carry markers, a frame that runs a cleanup stands on the frame whose
  cleanup it is, and what `pc` and the parked target name is there;
* `NlrAlwaysReachesHome`.  The invariant adds that the home a suspended unwinding waits
  for (`Anchored`) is the frame at its own place below, under its own serial: what a
  cleanup calls, returns from or unwinds is above it;
* `CleanupsAlwaysRun`.  The ghost count of what a protected frame is owed is one where its
  marker is armed or its block is in the list of the error's pass, and zero elsewhere; the
  list is sorted innermost first and names no frame twice (`CleanupInv`).  No hypothesis
  keeps a cleanup from failing: the invariant holds until one does (`Stuck`), and that a
  stuck VM stays stuck is part of the proof.

**Supervisor** (`SupervisorProofs`), for any number of generations, requests, nested
dispatches, rebuilds and file-ins:

* `SupervisorInvariant`: links arrive in the order of their generations, each one newer
  than the one the UI worker has, and a generation not yet linked to was asked nothing
  (`LinkInv`, `FreshInv`).  That makes the next two inductive: a drain that follows
  several links ends at a generation without requests or replies;
* `SupervisorTypeCorrect`, with the limit on consecutive boot failures;
* `NothingIsForgotten` (`NothingForgotten`), with rebuilds at any time;
* `EachIsAnsweredOnce` (`AnsweredOnce`), with rebuilds at any time: `OnceInv` adds that
  every request the linked generation knows has a number already given out, by this UI
  worker or by an earlier one, so that the next one is new to it.

Only model-checked: all liveness (the prover has neither fairness nor `ENABLED`), and that
ages survive a full collection (`AgesKept`).

## 5. Plan

Done: the router, the registry, the memory system, the two tiers, unwinding, the
supervisor with two-sided requests; proofs of every invariant that a passing run checks, and
of all three refinements (router, program, object graph).  Left, in this order:

1. *Proofs*: `AgesKept`, with ages beside the identities of `IdInv`.
2. *Tiers with a third activation and a second call site*, which needs larger runs than
   five minutes allow; block compilations and their own map (`by_block`).
3. *Handles and the symbol table* as small modules.
4. *Nested host entries* of `embed.rs` (callbacks that evaluate while an evaluation is
   suspended) and native faults, on top of `Unwind`.

## 6. Not modelled

The front end, the bytecode's data movements, code generation and most primitives have
no state between calls, or their correctness is the meaning of programs, which a model
of this kind does not reach; with the JIT's lowering and the two emitters they are the
larger part of the source.  In `Tiers`: the values a deoptimized frame is given, block
compilations, bailouts, doesNotUnderstand:, the debugger's breakpoints, region
allocation and patching.  In `Unwind`: on-stack replacement of a frame that closures
refer to, a guest-defined `cannotReturn:` (none is in the world), nested host entries,
native faults, the die policy; frames have unit size, so a stale fp names the place of a
frame and never a word inside one.  In `Supervisor`: views and windows, a failing thread
spawn, a fatal during the boot, the backstop against rebuild storms.  Address-space
reservation is operating-system calls.  The image store's flows are single SQLite
transactions.  `QBEJIT`, the Tcl interpreter and the GUI assets are third-party or
generated.  `PROJECT.json` ("components") lists each part with its reason.
