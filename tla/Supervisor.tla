----------------------------- MODULE Supervisor -----------------------------
(***************************************************************************)
(* The Cocoa host: the watchdog that boots generations of the primary VM   *)
(* (src/cocoa_gui/src/supervisor.rs), the main thread that hosts the UI    *)
(* worker and drains its inbox (main.rs, rebuild.rs, primary_restart.rs),  *)
(* the File In protocol (filein.rs), and the request protocol between the  *)
(* UI worker and the primary (src/world/47_worker.mst).                    *)
(*                                                                         *)
(* Generations are numbered; each runs on a thread of its own:             *)
(*   st      "boot", "failed"; "up": registered, its birth stamp not read; *)
(*           "loop", "pump", "file" (a doit raised), "filing": in its beat;*)
(*           "done": it left its loop and dropped its VM; "dead": a fatal  *)
(*           ended the thread, which drops nothing                         *)
(*   stop    its stop flag           birth   its File In stamp             *)
(*   req     its inbox               stack   the requests being served,    *)
(*                                           innermost last                *)
(*   cur     CurrentPeer/CurrentCorr hosted  its inbox to the UI worker    *)
(*           while a request is served                                     *)
(* ui.raised: numbers whose doit raised, which by design are not answered. *)
(* A request, and its reply, is a correlation number c and the UI worker   *)
(* VM it came from; the code sends only c.                                 *)
(***************************************************************************)
EXTENDS Naturals, Sequences, SequencesExt, FiniteSets

CONSTANTS
    MaxGens,          \* bound: generations
    MaxCorr,          \* bound: requests of the first UI worker VM; each later one gets one fewer
    MaxNest,          \* bound: dispatches nested in a doit
    MaxRebuilds,      \* bound: UI worker rebuilds
    MaxFileIns,       \* bound: File In requests
    MaxBootFailures   \* MAX_CONSECUTIVE_BOOT_FAILURES

ASSUME SupervisorAssumption ==
    /\ {MaxGens, MaxNest, MaxBootFailures} \subseteq Nat \ {0}
    /\ {MaxCorr, MaxRebuilds, MaxFileIns} \subseteq Nat

VARIABLES
    gens,     \* the generations
    dog,      \* the watchdog: [pc |-> "boot" | "watch" | "exit", fails]
    events,   \* its event channel
    resync,   \* links (generations) on their way to the main thread
    ui,       \* the UI worker: [gen, vm, corr, pending, raised]
    ask,      \* the request flags: a subset of {"restart", "rebuild"}
    file,     \* File In: [seq, pending], pending 0 for none
    wake      \* the drain source of the run loop is signalled

vars == <<gens, dog, events, resync, ui, ask, file, wake>>

NoRequest == [c |-> 0, vm |-> 0]
NewGen == [st |-> "boot", stop |-> FALSE, birth |-> 0, req |-> << >>, stack |-> << >>,
           cur |-> NoRequest, hosted |-> << >>]
NewUi == [gen |-> 0, vm |-> 1, corr |-> 0, pending |-> {}, raised |-> {}]
NoFile == [seq |-> 0, pending |-> 0]

Init ==
    /\ gens = <<NewGen>>
    /\ dog = [pc |-> "boot", fails |-> 0]
    /\ events = << >>
    /\ resync = << >>
    /\ ui = NewUi
    /\ ask = {}
    /\ file = NoFile
    /\ wake = FALSE

exited == dog.pc = "exit"

Gen(g) == gens[g]
SetGen(g, r) == gens' = [gens EXCEPT ![g] = r]
Newest == Len(gens)
At(g, st) == g \in DOMAIN gens /\ Gen(g).st = st
Serving(g) == g \in DOMAIN gens /\ Gen(g).stack # << >>
-----------------------------------------------------------------------------
(* The watchdog thread: watchdog_main.                                     *)

GiveUpLater(n) == n > MaxBootFailures
GiveUp(n) == n >= MaxBootFailures

\* Every event, a restart asked for and a boot to be retried cost a generation.
MayRestart ==
    LET owed == {x \in {"restart", "retry"} :
                    x \in ask \/ (x = "retry" /\ Gen(Newest).st = "failed")}
    IN  Len(gens) + Len(events) + Cardinality(owed) < MaxGens

\* The generation reported its link; main waits for the first one.
WatchdogRegister ==
    /\ dog.pc = "boot" /\ Gen(Newest).st \notin {"boot", "failed"}
    /\ dog' = [pc |-> "watch", fails |-> 0]
    /\ resync' = Append(resync, Newest)
    /\ wake' = (wake \/ Newest # 1)
    /\ UNCHANGED <<gens, events, ui, ask, file>>

\* Its boot failed, or it vanished before it registered: for the first one
\* spawn reports the error and the process ends; later ones are retried.
WatchdogBootFailed ==
    /\ dog.pc = "boot" /\ Gen(Newest).st = "failed"
    /\ Newest # 1 /\ ~GiveUp(dog.fails + 1)
    /\ dog' = [dog EXCEPT !.fails = @ + 1]
    /\ gens' = Append(gens, NewGen)
    /\ UNCHANGED <<events, resync, ui, ask, file, wake>>

\* The process exits with every thread and channel in it.
WatchdogExits ==
    /\ dog.pc = "boot" /\ Gen(Newest).st = "failed"
    /\ Newest = 1 \/ GiveUp(dog.fails + 1)
    /\ dog' = [dog EXCEPT !.pc = "exit"]
    /\ gens' = << >> /\ events' = << >> /\ resync' = << >>
    /\ ui' = NewUi /\ ask' = {} /\ file' = NoFile /\ wake' = FALSE

\* Any event retires the newest generation and boots the next.
WatchdogEvent ==
    /\ dog.pc = "watch" /\ events # << >>
    /\ events' = Tail(events)
    /\ dog' = [dog EXCEPT !.pc = "boot"]
    /\ gens' = Append([gens EXCEPT ![Newest].stop = TRUE], NewGen)
    /\ UNCHANGED <<resync, ui, ask, file, wake>>

-----------------------------------------------------------------------------
(* A generation's thread: primary_generation_main.                         *)

Boot(g) ==
    /\ At(g, "boot")
    /\ \/ SetGen(g, [Gen(g) EXCEPT !.st = "up"])
       \/ /\ MayRestart \/ dog.fails + 1 >= MaxBootFailures
          /\ SetGen(g, [Gen(g) EXCEPT !.st = "failed"])
    /\ UNCHANGED <<dog, events, resync, ui, ask, file, wake>>

\* birth_stamp, after the link has been handed over.
BirthStamp(g) ==
    /\ At(g, "up")
    /\ SetGen(g, [Gen(g) EXCEPT !.st = "loop", !.birth = file.seq])
    /\ UNCHANGED <<dog, events, resync, ui, ask, file, wake>>

\* What is left of a generation: the inbox the main thread holds.
Gone(n, st) == [NewGen EXCEPT !.st = st, !.hosted = n.hosted]

\* The top of the loop: stop, or wake the main thread and pump.
Beat(g) ==
    /\ At(g, "loop")
    /\ IF Gen(g).stop
         THEN SetGen(g, Gone(Gen(g), "done")) /\ UNCHANGED wake
         ELSE SetGen(g, [Gen(g) EXCEPT !.st = "pump"]) /\ wake' = TRUE
    /\ UNCHANGED <<dog, events, resync, ui, ask, file>>

\* dispatchOne: on a request, by pumpInbox: or, nested, by the doit of another
\* request; the class variables now name this one.
DispatchOne(g) ==
    /\ At(g, "pump") /\ Gen(g).req # << >> /\ Len(Gen(g).stack) <= MaxNest
    /\ LET r == Head(Gen(g).req)
       IN  SetGen(g, [Gen(g) EXCEPT !.req = Tail(@), !.stack = Append(@, r), !.cur = r])
    /\ UNCHANGED <<dog, events, resync, ui, ask, file, wake>>

\* serveUiReq: ends: the reply goes to the peer and number snapshotted before
\* the request's body ran, not to the ones in the class variables.  The main
\* thread has dropped the inbox of a generation whose link it replaced.
ReplyToCurrent(n) == n.cur
ReplyTo(n) == Last(n.stack)
Heard(g) == g >= ui.gen
Reply(g) ==
    /\ Serving(g)
    /\ SetGen(g, [Gen(g) EXCEPT !.stack = Front(@),
                                !.hosted = IF Heard(g) THEN Append(@, ReplyTo(Gen(g))) ELSE @,
                                !.cur = IF Len(Gen(g).stack) = 1 THEN NoRequest ELSE @])
    /\ wake' = (wake \/ Heard(g))
    /\ UNCHANGED <<dog, events, resync, ui, ask, file>>

\* A guest error unwinds the whole dispatch; the loop goes on.
Raise(g) ==
    /\ Serving(g)
    /\ SetGen(g, [Gen(g) EXCEPT !.stack = << >>, !.cur = NoRequest, !.st = "file"])
    /\ ui' = IF g # ui.gen THEN ui
             ELSE [ui EXCEPT !.raised = @ \cup {r.c : r \in {q \in Range(Gen(g).stack) : q.vm = ui.vm}}]
    /\ UNCHANGED <<dog, events, resync, ask, file, wake>>

\* A fatal in a doit or a filed-in file: the hook posts Died, then the thread
\* is gone and its inbox stays open.
DiesSilently == << >>
DiedEvent == <<"Died">>
Fatal(g) ==
    /\ Serving(g) \/ At(g, "filing")
    /\ MayRestart
    /\ events' = events \o DiedEvent
    /\ SetGen(g, Gone(Gen(g), "dead"))
    /\ UNCHANGED <<dog, resync, ui, ask, file, wake>>

\* The end of a beat.  take_for: only a file asked for before the birth stamp was read.
TakeStrictlyBefore(seq, birth) == seq < birth
TakeFor(seq, birth) == seq <= birth
TakeFile(g) ==
    /\ \/ At(g, "file")
       \/ At(g, "pump") /\ Gen(g).req = << >> /\ Gen(g).stack = << >>
    /\ IF file.pending # 0 /\ TakeFor(file.pending, Gen(g).birth)
         THEN /\ SetGen(g, [Gen(g) EXCEPT !.st = "filing"])
              /\ file' = [file EXCEPT !.pending = 0]
         ELSE SetGen(g, [Gen(g) EXCEPT !.st = "loop"]) /\ UNCHANGED file
    /\ UNCHANGED <<dog, events, resync, ui, ask, wake>>

FileDone(g) ==
    /\ At(g, "filing")
    /\ SetGen(g, [Gen(g) EXCEPT !.st = "loop"])
    /\ UNCHANGED <<dog, events, resync, ui, ask, file, wake>>

-----------------------------------------------------------------------------
(* The main thread.                                                        *)

\* main: the UI worker boots on the first link.
UiBoot ==
    /\ ui.gen = 0 /\ resync # << >>
    /\ ui' = [ui EXCEPT !.gen = Head(resync)]
    /\ resync' = Tail(resync)
    /\ UNCHANGED <<gens, dog, events, ask, file, wake>>

\* uiRequest:args:onReply:, in a callback: registered first, then sent.  A
\* generation that is done has dropped its inbox, a dead one keeps it open
\* and never reads it.
UiRequest ==
    /\ ui.gen # 0 /\ ui.corr + ui.vm <= MaxCorr
    /\ ui' = [ui EXCEPT !.corr = @ + 1, !.pending = @ \cup {ui.corr + 1}]
    /\ gens' = IF Gen(ui.gen).st \in {"done", "dead"} THEN gens
               ELSE [gens EXCEPT ![ui.gen].req = Append(@, [c |-> ui.corr + 1, vm |-> ui.vm])]
    /\ UNCHANGED <<dog, events, resync, ask, file, wake>>

\* Restart Primary VM, File In and Rebuild only set a flag and wake the run
\* loop.
WakeLater == wake
WakeRunLoop == TRUE
AskRestart ==
    /\ ui.gen # 0 /\ "restart" \notin ask /\ MayRestart
    /\ ask' = ask \cup {"restart"}
    /\ wake' = WakeRunLoop
    /\ UNCHANGED <<gens, dog, events, resync, ui, file>>

AskFileIn ==
    /\ ui.gen # 0 /\ file.seq < MaxFileIns /\ ("restart" \in ask \/ MayRestart)
    /\ file' = [seq |-> file.seq + 1, pending |-> file.seq + 1]
    /\ ask' = ask \cup {"restart"}
    /\ wake' = WakeRunLoop
    /\ UNCHANGED <<gens, dog, events, resync, ui>>

AskRebuild ==
    /\ ui.gen # 0 /\ ui.vm <= MaxRebuilds
    /\ ask' = ask \cup {"rebuild"}
    /\ wake' = WakeRunLoop
    /\ UNCHANGED <<gens, dog, events, resync, ui, file>>

\* rebuild_ui: the old inbox is emptied and a fresh VM takes over the same
\* link; its class variables start over.
DiscardInbox(n) == [n EXCEPT !.hosted = << >>]
RebuildUi ==
    /\ wake /\ "rebuild" \in ask
    /\ wake' = FALSE
    /\ ask' = ask \ {"rebuild"}
    /\ gens' = [gens EXCEPT ![ui.gen] = DiscardInbox(@)]
    /\ ui' = [ui EXCEPT !.vm = @ + 1, !.corr = 0, !.pending = {}, !.raised = {}]
    /\ UNCHANGED <<dog, events, resync, file>>

\* drain_perform: a restart asked for goes to the watchdog.  With links
\* waiting, the last inbox of each old generation is dispatched, the link is
\* replaced and abandonPending drops what nobody will answer; what arrived on
\* the final link is dispatched at the end.  Dispatching a reply runs the
\* continuation registered under its number.
Answered(inbox) == {inbox[i].c : i \in DOMAIN inbox}
DrainPerform ==
    LET linked == IF resync = << >> THEN ui.gen ELSE Last(resync)
        left == IF resync = << >> THEN ui.pending ELSE {}
    IN  /\ ui.gen # 0 /\ wake /\ "rebuild" \notin ask
        /\ wake' = FALSE
        /\ ask' = {}
        /\ events' = IF "restart" \in ask THEN Append(events, "Restart") ELSE events
        /\ resync' = << >>
        /\ ui' = [ui EXCEPT !.gen = linked, !.pending = left \ Answered(Gen(linked).hosted),
                            !.raised = IF linked = ui.gen THEN @ ELSE {}]
        /\ gens' = [g \in DOMAIN gens |->
                      IF g \in {ui.gen, linked} \cup Range(resync)
                        THEN [gens[g] EXCEPT !.hosted = << >>] ELSE gens[g]]
        /\ UNCHANGED <<dog, file>>

-----------------------------------------------------------------------------

GenStep(g) == Boot(g) \/ BirthStamp(g) \/ Beat(g) \/ TakeFile(g)
Watchdog == WatchdogRegister \/ WatchdogBootFailed \/ WatchdogExits \/ WatchdogEvent
Main == UiBoot \/ RebuildUi \/ DrainPerform
Exited == exited /\ UNCHANGED vars

Next ==
    \/ WatchdogRegister \/ WatchdogBootFailed \/ WatchdogExits \/ WatchdogEvent
    \/ \E g \in 1 .. MaxGens :
          \/ Boot(g) \/ BirthStamp(g) \/ Beat(g) \/ TakeFile(g)
          \/ DispatchOne(g) \/ Reply(g) \/ Raise(g) \/ Fatal(g) \/ FileDone(g)
    \/ UiBoot \/ RebuildUi \/ DrainPerform
    \/ UiRequest \/ AskRestart \/ AskFileIn \/ AskRebuild
    \/ Exited

\* The threads are scheduled fairly.  A doit or a filed-in file may run for
\* ever, and a user does nothing in particular.
Fairness ==
    /\ WF_vars(Watchdog)
    /\ WF_vars(Main)
    /\ \A g \in 1 .. MaxGens :
          /\ WF_vars(GenStep(g))
          /\ WF_vars(~Serving(g) /\ DispatchOne(g))

Spec == Init /\ [][Next]_vars /\ Fairness

-----------------------------------------------------------------------------
(* Properties.                                                             *)

Request == [c : 1 .. MaxCorr, vm : 1 .. MaxRebuilds + 1]

\* Types, and the bounds of the code: consecutive boot failures stay below
\* the limit at which the process exits.
TypeOK ==
    /\ dog.fails < MaxBootFailures
    /\ \A g \in DOMAIN gens :
          /\ gens[g].st \in {"boot", "failed", "up", "loop", "pump", "file", "filing", "done", "dead"}
          /\ Range(gens[g].req) \cup Range(gens[g].stack) \cup Range(gens[g].hosted) \subseteq Request
    /\ ui.gen \in 0 .. Len(gens) /\ ui.pending \subseteq 1 .. ui.corr

\* A request is under way once: it is not queued, being served and answered
\* twice over, so that no reply is sent again under the number of another
\* request, however dispatches nest and whatever a fatal, a raise, a new link or
\* a rebuild has dropped (serveUiReq:, dispatchOne:).
AnsweredOnce ==
    ui.gen # 0 =>
        LET n == Gen(ui.gen)
        IN  IsInjective(n.req \o n.stack \o n.hosted)

\* A (peer, corr) key is unique (dispatchOne:): a reply that is about to run a
\* registered continuation answers the request that registered it, not one of
\* an earlier UI worker, whose numbers started at 1 too.
RepliesAreOurs ==
    ui.gen # 0 => \A r \in Range(Gen(ui.gen).hosted) :
                      r.c \in ui.pending => r.vm = ui.vm

\* No continuation waits for nothing: unless its generation is gone (and the
\* next link drops it) or its doit raised, its request is queued or being
\* served, or its reply is under way (serveUiReq:, abandonPending).
NothingForgotten ==
    \A c \in ui.pending :
        LET n == Gen(ui.gen)
        IN  \/ n.st \in {"done", "dead"}
            \/ c \in ui.raised
            \/ [c |-> c, vm |-> ui.vm] \in Range(n.req) \cup Range(n.stack) \cup Range(n.hosted)

\* The newest generation is not in a doit or a filed-in file for ever.
Idle == exited \/ (Gen(Newest).stack = << >> /\ Gen(Newest).st # "filing")

\* After a fatal, or a restart taken, the UI worker is linked to a later
\* generation, whatever events of older generations arrive late and however
\* many boots fail; or the process exits (watchdog_main, drain_perform).  The
\* new generation's heartbeat is needed where a rebuild consumed the wake.
Recovered ==
    []<>Idle => []<>(exited \/ ui.gen = 0 \/ Gen(ui.gen).st \notin {"done", "dead"})

\* A restart asked for replaces the primary, even one whose doit never ends
\* (primary_restart.rs: the request wakes the run loop), as long as no rebuild
\* is asked for beside it: the pass that serves the rebuild returns early and
\* has used up the wake, so the restart waits for the next one.
RestartReplaces ==
    \A g \in 1 .. MaxGens - 1 :
        []<>(Newest = g \/ Idle) /\ []~({"restart", "rebuild"} \subseteq ask)
            => ((ui.gen = g /\ "restart" \in ask) ~> (ui.gen > g \/ exited))

\* A file asked for is taken by a generation (filein.rs: the birth stamp keeps
\* older ones from it, never all).
FileInServed ==
    []<>Idle => (file.pending # 0 ~> (file.pending = 0 \/ exited))
=============================================================================
