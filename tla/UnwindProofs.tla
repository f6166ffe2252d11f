---------------------------- MODULE UnwindProofs ----------------------------
(***************************************************************************)
(* The shared stack keeps its links, a `^' reaches its home, and no        *)
(* cleanup is lost, on stacks of every depth and for every number of       *)
(* activations and evaluations.                                            *)
(*                                                                         *)
(* UnwindInv is the inductive invariant of the links: what kinds of frames *)
(* there are, which homes closures may have, and FramesWellLinked.  NlrInv *)
(* says where the homes of the returns under way are.  CurtailInv and      *)
(* DueInv say which cleanups are still to run; they hold until one fails,  *)
(* and then the VM stays Stuck.                                            *)
(***************************************************************************)
EXTENDS Unwind, DataLemmas, FiniteSetTheorems

Home == [fp : Nat, serial : Nat]
Marker == [kind : {"nil", "ensure", "ifCurtailed", "token"}, home : Home]
Links == EntryLinks \cup {"native", "call", "ensureRet", "unwind"}
Frame == [tier : {"interp", "native"}, serial : Nat, link : Links, block : BOOLEAN,
          home : Home, marker : Marker]
Entry == [serial : Nat, home : Home]
Control == [op : {"run", "return", "unwind", "escape", "curtail"}, home : Home]

\* Types.
TypeInv ==
    /\ stack \in Seq(Frame)
    /\ pc \in Control
    /\ nlr \in Home /\ stored \in Home
    /\ curtailing \in BOOLEAN
    /\ pass \in Seq(Entry)
    /\ next \in Nat \ {0} /\ doits \in Nat
    /\ due \in [1 .. MaxSerial -> Int]

\* The kinds of frames: a compiled one has neither serial nor marker, and only
\* blocks that were called or deoptimized carry a marker.
ShapeInv ==
    \A i \in Frames :
        /\ stack[i].tier = "native" =>
               stack[i].serial = 0 /\ stack[i].link = "native" /\ stack[i].marker.kind = "nil"
        /\ stack[i].tier = "interp" =>
               stack[i].serial \in 1 .. next - 1 /\ stack[i].link # "native"
        /\ stack[i].marker.kind # "nil" =>
               stack[i].block /\ stack[i].link \in {"call", "c2i"}

\* Newer activations have greater serials.
SerialInv ==
    \A i, j \in Frames :
        i < j /\ stack[i].tier = "interp" /\ stack[j].tier = "interp" =>
            stack[i].serial < stack[j].serial

\* A home the VM may return from: a serial given out and, if it is on the stack,
\* it is the method frame its closures name.
Real(h) ==
    /\ h.serial \in 1 .. next - 1
    /\ \A i \in Frames : stack[i].serial = h.serial => i = h.fp /\ ~stack[i].block

Known(h) == h = NoHome \/ Real(h)

HomeInv ==
    /\ \A i \in Frames :
          /\ Known(stack[i].home)
          /\ stack[i].block => Real(stack[i].home)
          /\ stack[i].marker.kind # "nil" => Real(stack[i].marker.home)
    /\ Known(stored)
    /\ \A k \in 1 .. Len(pass) : Real(pass[k].home)
    /\ pc.op = "unwind" => Real(pc.home)
    /\ pc.op = "escape" => Real(nlr)

\* An error's pass has a stack to run its cleanups on.
PassInv == pc.op = "curtail" => stack # << >>

UnwindInv == TypeInv /\ ShapeInv /\ SerialInv /\ HomeInv /\ PassInv /\ FramesWellLinked

-----------------------------------------------------------------------------
\* The home of a token of frame m is on the stack below it.
Anchored(h, m) == h.fp \in 1 .. m - 1 /\ stack[h.fp].serial = h.serial

\* The returns under way: those being served, parked, or waiting for a cleanup.
NlrInv ==
    /\ pc.op = "return" /\ pc.home # NoHome => Top.serial = pc.home.serial
    /\ nlr # NoHome => pc.op = "escape" \/ lost
    /\ \A i \in Frames : stack[i].marker.kind = "token" => Anchored(stack[i].marker.home, i)

-----------------------------------------------------------------------------
\* Frame i is above the cleanup an error is running, if there is one.
Current(i) == pc.op # "curtail" /\ \A c \in i .. Len(stack) : stack[c].link # "cleanup"

\* An error's pass runs one cleanup at a time, and while it lasts curtailing is
\* set.
CurtailInv ==
    /\ pc.op = "curtail" \/ InCleanup => curtailing
    /\ pc.op = "curtail" => ~InCleanup
    /\ \A i, j \in Frames : stack[i].link = "cleanup" /\ stack[j].link = "cleanup" => i = j
    /\ ~curtailing => pass = << >>

\* The armed frames above it and the entries of its pass are the cleanups due.
DueInv ==
    /\ \A s \in 1 .. MaxSerial :
          /\ due[s] \in {0, 1}
          /\ due[s] = 1 => \/ \E i \in Frames : /\ Current(i) /\ IsHandler(stack[i].marker)
                                                /\ stack[i].serial = s
                           \/ \E k \in 1 .. Len(pass) : pass[k].serial = s
    /\ \A i \in Frames : IsHandler(stack[i].marker) =>
          /\ stack[i].serial \in 1 .. MaxSerial
          /\ Current(i) => /\ due[stack[i].serial] = 1
                           /\ \A k \in 1 .. Len(pass) : pass[k].serial # stack[i].serial
    /\ \A k \in 1 .. Len(pass) :
          /\ pass[k].serial \in 1 .. MaxSerial /\ pass[k].serial < next
          /\ due[pass[k].serial] = 1
          /\ \A l \in k + 1 .. Len(pass) : pass[l].serial < pass[k].serial

\* Until a cleanup fails.
CleanupInv == Stuck \/ (CurtailInv /\ DueInv)

-----------------------------------------------------------------------------
(* Frames and markers. *)

\* The fields of the records the model writes.
LEMMA Records ==
    /\ NoHome \in Home /\ NoHome.fp = 0 /\ NoHome.serial = 0
    /\ Unmarked \in Marker /\ Unmarked.kind = "nil" /\ Unmarked.home = NoHome
    /\ Running \in Control /\ Running.op = "run"
    /\ \A h \in Home :
          /\ h.fp \in Nat /\ h.serial \in Nat
          /\ Token(h) \in Marker /\ Token(h).kind = "token" /\ Token(h).home = h
    /\ \A k \in {"ensure", "ifCurtailed"}, h \in Home :
          Armed(k, h) \in Marker /\ Armed(k, h).kind = k /\ Armed(k, h).home = h
    /\ \A o \in {"run", "return", "unwind", "escape", "curtail"}, h \in Home :
          Serving(o, h) \in Control /\ Serving(o, h).op = o /\ Serving(o, h).home = h
BY DEF NoHome, Unmarked, Running, Token, Armed, Serving, Home, Marker, Control

\* The fields of a frame, and a frame with another marker.
LEMMA FrameFields ==
    ASSUME NEW f \in Frame
    PROVE  /\ f.tier \in {"interp", "native"} /\ f.serial \in Nat /\ f.link \in Links
           /\ f.block \in BOOLEAN /\ f.home \in Home /\ f.marker \in Marker
           /\ f.marker.home \in Home
           /\ f.marker.kind \in {"nil", "ensure", "ifCurtailed", "token"}
BY DEF Frame, Marker

\* A frame with another marker keeps its other fields.
LEMMA Remarked ==
    ASSUME NEW f \in Frame, NEW m \in Marker, NEW g, g = WithMarker(f, m)
    PROVE  /\ g \in Frame /\ g.marker = m
           /\ g.tier = f.tier /\ g.serial = f.serial /\ g.link = f.link
           /\ g.block = f.block /\ g.home = f.home
BY DEF WithMarker, Frame

\* What a pass keeps of a frame.
LEMMA PendingFields ==
    ASSUME NEW f \in Frame
    PROVE  /\ Pending(f) \in Entry
           /\ Pending(f).serial = f.serial /\ Pending(f).home = f.marker.home
BY DEF Pending, Entry, Frame, Marker

\* A compiled frame.
LEMMA NativeFields ==
    ASSUME NEW b \in BOOLEAN, NEW h \in Home
    PROVE  LET f == Native(b, h) IN
           /\ f \in Frame /\ f.tier = "native" /\ f.serial = 0 /\ f.link = "native"
           /\ f.block = b /\ f.home = h /\ f.marker = Unmarked
<1>1. Unmarked \in Marker  BY Records
<1> QED  BY <1>1 DEF Native, Frame, Links

\* An interpreted frame.
LEMMA InterpFields ==
    ASSUME NEW n \in Nat, NEW l \in Links, NEW b \in BOOLEAN, NEW h \in Home, NEW m \in Marker
    PROVE  LET f == Interp(n, l, b, h, m) IN
           /\ f \in Frame /\ f.tier = "interp" /\ f.serial = n /\ f.link = l
           /\ f.block = b /\ f.home = h /\ f.marker = m
BY DEF Interp, Frame

-----------------------------------------------------------------------------
(* What a step does to the stack: it keeps the oldest m frames but for their *)
(* markers, and at most one frame is new.                                    *)

Keeps(m) ==
    /\ m \in 0 .. Len(stack) /\ stack' \in Seq(Frame) /\ m <= Len(stack')
    /\ \A j \in 1 .. m :
          /\ stack'[j].tier = stack[j].tier /\ stack'[j].serial = stack[j].serial
          /\ stack'[j].link = stack[j].link /\ stack'[j].block = stack[j].block
          /\ stack'[j].home = stack[j].home

SameMarkers(m) == \A j \in 1 .. m : stack'[j].marker = stack[j].marker

Cut(m) == Keeps(m) /\ Len(stack') = m

Pushed(m, link, block, h, marker) ==
    /\ Keeps(m) /\ Len(stack') = m + 1
    /\ stack'[m + 1].tier = "interp" /\ stack'[m + 1].serial = next
    /\ stack'[m + 1].link = link /\ stack'[m + 1].block = block
    /\ stack'[m + 1].marker = marker
    /\ block => stack'[m + 1].home = h
    /\ ~block => stack'[m + 1].home.fp = m + 1 /\ stack'[m + 1].home.serial = next

\* Activation pushes the frame it describes.
LEMMA ActivationPushes ==
    ASSUME TypeInv, NEW m \in 0 .. Len(stack), NEW s \in Seq(Frame), Len(s) = m,
           \A j \in 1 .. m : /\ s[j].tier = stack[j].tier /\ s[j].serial = stack[j].serial
                             /\ s[j].link = stack[j].link /\ s[j].block = stack[j].block
                             /\ s[j].home = stack[j].home,
           NEW link \in Links, NEW block \in BOOLEAN, NEW h \in Home, NEW marker \in Marker,
           stack' = Activation(s, link, block, h, marker)
    PROVE  Pushed(m, link, block, h, marker) /\ \A j \in 1 .. m : stack'[j] = s[j]
<1>1. next \in Nat  BY DEF TypeInv
<1>2. HomeRef(s, block, h) \in Home
      /\ (block => HomeRef(s, block, h) = h)
      /\ (~block => /\ HomeRef(s, block, h).fp = m + 1
                    /\ HomeRef(s, block, h).serial = next)
  BY <1>1 DEF HomeRef, Home
<1> DEFINE f == Interp(next, link, block, HomeRef(s, block, h), marker)
<1>3. /\ f \in Frame /\ f.tier = "interp" /\ f.serial = next /\ f.link = link
      /\ f.block = block /\ f.home = HomeRef(s, block, h) /\ f.marker = marker
  BY <1>1, <1>2, InterpFields
<1>4. stack' = Append(s, f)  BY DEF Activation
<1> HIDE DEF f
<1>5. /\ stack' \in Seq(Frame) /\ Len(stack') = m + 1 /\ stack'[m + 1] = f
      /\ \A j \in 1 .. m : stack'[j] = s[j]
  BY <1>3, <1>4, SeqAppended
<1> QED  BY <1>2, <1>3, <1>5 DEF Pushed, Keeps

\* Below cuts the stack.
LEMMA BelowCuts ==
    ASSUME TypeInv, NEW m \in 0 .. Len(stack)
    PROVE  /\ Below(m) \in Seq(Frame) /\ Len(Below(m)) = m
           /\ \A j \in 1 .. m : Below(m)[j] = stack[j]
BY SeqCut DEF TypeInv, Below

\* A return cuts the stack.
LEMMA StackCut ==
    ASSUME TypeInv, NEW m \in 0 .. Len(stack), stack' = Below(m)
    PROVE  Cut(m) /\ SameMarkers(m)
BY BelowCuts DEF Cut, Keeps, SameMarkers

-----------------------------------------------------------------------------
(* What such a step preserves, whatever action takes it. *)

\* The frame on top after a step that leaves m frames and a new one.
NewTop(m) == stack'[m + 1]

\* Serials and shapes: the new frame, if any, is compiled or has the serial
\* `next', and is marked only if it is a called block.
Fresh(m) ==
    /\ Len(stack') \in {m, m + 1} /\ next' \in {next, next + 1}
    /\ Len(stack') = m + 1 =>
          \/ /\ NewTop(m).tier = "native" /\ NewTop(m).serial = 0
             /\ NewTop(m).link = "native" /\ NewTop(m).marker.kind = "nil"
          \/ /\ NewTop(m).tier = "interp" /\ NewTop(m).serial = next /\ next' = next + 1
             /\ NewTop(m).link # "native"
             /\ NewTop(m).marker.kind # "nil" => NewTop(m).block /\ NewTop(m).link \in {"call", "c2i"}

\* Markers change only from a handler to none, or on frame m.
Demarked(m) ==
    \A j \in 1 .. m :
        \/ stack'[j].marker = stack[j].marker
        \/ stack'[j].marker.kind = "nil"
        \/ j = m /\ stack[j].marker.kind # "nil"

\* Types a step's frames have.
LEMMA StackTyped ==
    ASSUME TypeInv
    PROVE  /\ Len(stack) \in Nat /\ Frames = 1 .. Len(stack)
           /\ next \in Nat /\ next >= 1
           /\ \A i \in Frames : stack[i] \in Frame
BY DEF TypeInv, Frames

\* Real, of the state a step leads to.
RealAfter(h) ==
    /\ h.serial \in 1 .. next' - 1
    /\ \A i \in 1 .. Len(stack') : stack'[i].serial = h.serial => i = h.fp /\ ~stack'[i].block

\* A real home stays real.
LEMMA KeptReal ==
    ASSUME TypeInv, NEW m, Keeps(m), Fresh(m), NEW h \in Home, Real(h)
    PROVE  RealAfter(h)
<1>1. next' >= next /\ next \in Nat /\ next' \in Nat  BY DEF Fresh, TypeInv
<1>2. h.serial \in Nat /\ h.serial # next /\ h.serial # 0 /\ h.serial \in 1 .. next' - 1
  BY <1>1, Records DEF Real
<1>3. ASSUME NEW i \in 1 .. Len(stack'), stack'[i].serial = h.serial
      PROVE  i = h.fp /\ ~stack'[i].block
  <2>0. m \in Nat /\ Len(stack) \in Nat /\ m <= Len(stack) /\ Len(stack') \in {m, m + 1}
    BY StackTyped DEF Keeps, Fresh
  <2>1. CASE i = m + 1
    BY <1>2, <1>3, <2>0, <2>1 DEF Fresh, NewTop
  <2>2. CASE i \in 1 .. m
    BY <1>3, <2>0, <2>2 DEF Keeps, Real, Frames
  <2> QED  BY <2>0, <2>1, <2>2
<1> QED  BY <1>2, <1>3 DEF RealAfter

\* The kinds of frames are kept.
LEMMA KeptShape ==
    ASSUME TypeInv, ShapeInv, NEW m, Keeps(m), Fresh(m), Demarked(m)
    PROVE  ShapeInv'
<1>0. m \in Nat /\ Len(stack) \in Nat /\ m <= Len(stack) /\ Len(stack') \in {m, m + 1}
      /\ next \in Nat /\ next' \in {next, next + 1} /\ next >= 1
  BY StackTyped DEF Keeps, Fresh
<1> SUFFICES ASSUME NEW i \in 1 .. Len(stack')
             PROVE  /\ stack'[i].tier = "native" => /\ stack'[i].serial = 0
                                                    /\ stack'[i].link = "native"
                                                    /\ stack'[i].marker.kind = "nil"
                    /\ stack'[i].tier = "interp" => /\ stack'[i].serial \in 1 .. next' - 1
                                                    /\ stack'[i].link # "native"
                    /\ stack'[i].marker.kind # "nil" => /\ stack'[i].block
                                                        /\ stack'[i].link \in {"call", "c2i"}
  BY DEF ShapeInv, Frames
<1>1. CASE i = m + 1
  BY <1>0, <1>1 DEF Fresh, NewTop
<1>2. CASE i \in 1 .. m
  <2>1. i \in Frames  BY <1>0, <1>2 DEF Frames
  <2>2. /\ stack'[i].tier = stack[i].tier /\ stack'[i].serial = stack[i].serial
        /\ stack'[i].link = stack[i].link /\ stack'[i].block = stack[i].block
    BY <1>2 DEF Keeps
  <2>3. stack'[i].marker.kind # "nil" => stack[i].marker.kind # "nil"
    BY <1>2 DEF Demarked
  <2> QED  BY <1>0, <2>1, <2>2, <2>3 DEF ShapeInv
<1> QED  BY <1>0, <1>1, <1>2

\* The order of the serials is kept.
LEMMA KeptSerials ==
    ASSUME TypeInv, ShapeInv, SerialInv, NEW m, Keeps(m), Fresh(m)
    PROVE  SerialInv'
<1>0. m \in Nat /\ Len(stack) \in Nat /\ m <= Len(stack) /\ Len(stack') \in {m, m + 1}
      /\ next \in Nat
  BY StackTyped DEF Keeps, Fresh
<1> SUFFICES ASSUME NEW i \in 1 .. Len(stack'), NEW j \in 1 .. Len(stack'), i < j,
                    stack'[i].tier = "interp", stack'[j].tier = "interp"
             PROVE  stack'[i].serial < stack'[j].serial
  BY DEF SerialInv, Frames
<1>1. i \in 1 .. m /\ i \in Frames  BY <1>0 DEF Frames
<1>2. stack'[i].serial = stack[i].serial /\ stack[i].tier = "interp"  BY <1>1 DEF Keeps
<1>3. CASE j = m + 1
  <2>1. stack'[j].serial = next  BY <1>0, <1>3 DEF Fresh, NewTop
  <2>2. stack[i].serial \in 1 .. next - 1  BY <1>1, <1>2 DEF ShapeInv
  <2> QED  BY <1>0, <1>2, <2>1, <2>2
<1>4. CASE j \in 1 .. m
  <2>1. j \in Frames /\ stack'[j].serial = stack[j].serial /\ stack[j].tier = "interp"
    BY <1>0, <1>4 DEF Keeps, Frames
  <2> QED  BY <1>1, <1>2, <2>1 DEF SerialInv
<1> QED  BY <1>0, <1>3, <1>4

-----------------------------------------------------------------------------
\* The part of FramesWellLinked about frames.
LinkInv ==
    \A i \in Frames :
        /\ stack[i].link = "doit" <=> i = 1
        /\ stack[i].link \in {"call", "perform", "ensureRet", "unwind"} =>
               stack[i - 1].tier = "interp"
        /\ stack[i].link = "unwind" => stack[i - 1].marker.kind = "token"
        /\ stack[i].link = "ensureRet" => stack[i - 1].marker.kind = "nil"
        /\ stack[i].marker.kind = "token" => i < Len(stack) /\ stack[i + 1].link = "unwind"

\* The part about what the VM does next.
ControlInv ==
    /\ pc.op \in {"run", "return", "unwind", "escape", "curtail"}
    /\ pc.op \in {"return", "unwind"} => stack # << >> /\ Top.tier = "interp"
    /\ pc.op = "escape" => stack # << >>

\* The two parts of FramesWellLinked.
LEMMA WellLinkedParts == FramesWellLinked <=> LinkInv /\ ControlInv
BY DEF FramesWellLinked, LinkInv, ControlInv

\* Where the kept frames end, the new top or the end of the stack fits them.
Seam(m) ==
    /\ \A j \in 1 .. m - 1 : \/ stack'[j].marker = stack[j].marker
                             \/ IsHandler(stack[j].marker) /\ stack'[j].marker.kind = "nil"
    /\ Len(stack') = m => (m >= 1 => stack'[m].marker.kind # "token")
    /\ Len(stack') = m + 1 =>
          /\ NewTop(m).link = "doit" <=> m = 0
          /\ NewTop(m).link \in {"call", "perform", "ensureRet", "unwind"} =>
                stack'[m].tier = "interp"
          /\ m >= 1 => (NewTop(m).link = "unwind" <=> stack'[m].marker.kind = "token")
          /\ NewTop(m).link = "ensureRet" => stack'[m].marker.kind = "nil"
          /\ m = 0 => NewTop(m).link # "unwind"
          /\ NewTop(m).marker.kind # "token"

\* The links between the frames are kept.
LEMMA KeptLinks ==
    ASSUME TypeInv, LinkInv, NEW m, Keeps(m), Len(stack') \in {m, m + 1}, Seam(m)
    PROVE  LinkInv'
<1>0. m \in Nat /\ Len(stack) \in Nat /\ m <= Len(stack)
  BY StackTyped DEF Keeps
<1> SUFFICES ASSUME NEW i \in 1 .. Len(stack')
             PROVE  /\ stack'[i].link = "doit" <=> i = 1
                    /\ stack'[i].link \in {"call", "perform", "ensureRet", "unwind"} =>
                           stack'[i - 1].tier = "interp"
                    /\ stack'[i].link = "unwind" => stack'[i - 1].marker.kind = "token"
                    /\ stack'[i].link = "ensureRet" => stack'[i - 1].marker.kind = "nil"
                    /\ stack'[i].marker.kind = "token" =>
                           i < Len(stack') /\ stack'[i + 1].link = "unwind"
  BY DEF LinkInv, Frames
<1>1. CASE i = m + 1
  <2>1. i - 1 = m /\ Len(stack') = m + 1  BY <1>0, <1>1
  <2> QED  BY <1>0, <1>1, <2>1 DEF Seam, NewTop
<1>2. CASE i \in 1 .. m
  <2>1. i \in Frames  BY <1>0, <1>2 DEF Frames
  <2>2. /\ stack[i].link = "doit" <=> i = 1
        /\ stack[i].link \in {"call", "perform", "ensureRet", "unwind"} =>
               stack[i - 1].tier = "interp"
        /\ stack[i].link = "unwind" => stack[i - 1].marker.kind = "token"
        /\ stack[i].link = "ensureRet" => stack[i - 1].marker.kind = "nil"
        /\ stack[i].marker.kind = "token" => i < Len(stack) /\ stack[i + 1].link = "unwind"
    BY <2>1 DEF LinkInv
  <2>3. stack'[i].link = stack[i].link  BY <1>2 DEF Keeps
  <2>4. i # 1 => /\ i - 1 \in 1 .. m - 1
                 /\ stack'[i - 1].tier = stack[i - 1].tier
                 /\ \/ stack'[i - 1].marker = stack[i - 1].marker
                    \/ /\ stack[i - 1].marker.kind \in {"ensure", "ifCurtailed"}
                       /\ stack'[i - 1].marker.kind = "nil"
    BY <1>0, <1>2 DEF Keeps, Seam, IsHandler
  <2>5. ASSUME stack'[i].marker.kind = "token"
        PROVE  i < Len(stack') /\ stack'[i + 1].link = "unwind"
    <3>1. CASE i = m
      <4>1. Len(stack') = m + 1 /\ m >= 1  BY <1>0, <1>2, <2>5, <3>1 DEF Seam
      <4> QED  BY <1>0, <2>5, <3>1, <4>1 DEF Seam, NewTop
    <3>2. CASE i # m
      <4>1. i \in 1 .. m - 1 /\ i + 1 \in 1 .. m  BY <1>0, <1>2, <3>2
      <4>2. stack[i].marker.kind = "token"  BY <2>5, <4>1 DEF Seam
      <4>3. stack[i + 1].link = "unwind"  BY <2>2, <4>2
      <4> QED  BY <1>0, <4>1, <4>3 DEF Keeps
    <3> QED  BY <3>1, <3>2
  <2> QED  BY <2>2, <2>3, <2>4, <2>5
<1> QED  BY <1>0, <1>1, <1>2

\* HomeInv of the state a step leads to.
LEMMA HomesAfter ==
    ASSUME \A i \in 1 .. Len(stack') :
              /\ stack'[i].home = NoHome \/ RealAfter(stack'[i].home)
              /\ stack'[i].block => RealAfter(stack'[i].home)
              /\ stack'[i].marker.kind # "nil" => RealAfter(stack'[i].marker.home),
           stored' = NoHome \/ RealAfter(stored'),
           \A k \in 1 .. Len(pass') : RealAfter(pass'[k].home),
           pc'.op = "unwind" => RealAfter(pc'.home),
           pc'.op = "escape" => RealAfter(nlr')
    PROVE  HomeInv'
BY DEF HomeInv, Known, Real, RealAfter, Frames

\* The homes of the frames a step leaves: those of the kept frames were real, the
\* new frame has its own or a real one, and so has a marker it writes.
LEMMA KeptHomes ==
    ASSUME TypeInv, ShapeInv, HomeInv, NEW m, Keeps(m), Fresh(m),
           \A j \in 1 .. m : \/ stack'[j].marker = stack[j].marker
                             \/ stack'[j].marker.kind = "nil"
                             \/ RealAfter(stack'[j].marker.home),
           Len(stack') = m + 1 =>
              /\ \/ ~NewTop(m).block /\ NewTop(m).home = NoHome
                 \/ RealAfter(NewTop(m).home)
                 \/ /\ ~NewTop(m).block /\ NewTop(m).home.fp = m + 1
                    /\ NewTop(m).home.serial = next /\ NewTop(m).tier = "interp"
              /\ NewTop(m).marker.kind # "nil" => RealAfter(NewTop(m).marker.home)
    PROVE  \A i \in 1 .. Len(stack') :
              /\ stack'[i].home = NoHome \/ RealAfter(stack'[i].home)
              /\ stack'[i].block => RealAfter(stack'[i].home)
              /\ stack'[i].marker.kind # "nil" => RealAfter(stack'[i].marker.home)
<1>0. m \in Nat /\ Len(stack) \in Nat /\ m <= Len(stack) /\ Len(stack') \in {m, m + 1}
      /\ next \in Nat /\ next >= 1 /\ next' \in {next, next + 1}
  BY StackTyped DEF Keeps, Fresh
<1> SUFFICES ASSUME NEW i \in 1 .. Len(stack')
             PROVE  /\ stack'[i].home = NoHome \/ RealAfter(stack'[i].home)
                    /\ stack'[i].block => RealAfter(stack'[i].home)
                    /\ stack'[i].marker.kind # "nil" => RealAfter(stack'[i].marker.home)
  OBVIOUS
<1>1. CASE i \in 1 .. m
  <2>1. i \in Frames /\ stack[i] \in Frame  BY <1>0, <1>1, StackTyped
  <2>2. stack[i].home \in Home /\ stack[i].marker.home \in Home  BY <2>1, FrameFields
  <2>3. /\ stack'[i].home = stack[i].home /\ stack'[i].block = stack[i].block
    BY <1>1 DEF Keeps
  <2>4. /\ Real(stack[i].home) => RealAfter(stack[i].home)
        /\ Real(stack[i].marker.home) => RealAfter(stack[i].marker.home)
    BY <2>2, KeptReal
  <2>5. /\ stack[i].home = NoHome \/ Real(stack[i].home)
        /\ stack[i].block => Real(stack[i].home)
        /\ stack[i].marker.kind # "nil" => Real(stack[i].marker.home)
    BY <2>1 DEF HomeInv, Known
  <2> QED  BY <1>1, <2>3, <2>4, <2>5
<1>2. CASE i = m + 1
  <2>1. Len(stack') = m + 1  BY <1>0, <1>2
  <2>2. CASE /\ ~NewTop(m).block /\ NewTop(m).home.fp = m + 1
             /\ NewTop(m).home.serial = next /\ NewTop(m).tier = "interp"
    <3>1. next' = next + 1 /\ stack'[m + 1].serial = next
      BY <2>1, <2>2 DEF Fresh, NewTop
    <3>2. ASSUME NEW j \in 1 .. Len(stack'), stack'[j].serial = next
          PROVE  j = m + 1
      <4>1. CASE j \in 1 .. m
        <5>1. stack[j].serial = next  BY <3>2, <4>1 DEF Keeps
        <5>2. j \in Frames /\ stack[j] \in Frame  BY <1>0, <4>1, StackTyped
        <5>3. stack[j].tier \in {"interp", "native"}  BY <5>2, FrameFields
        <5>4. stack[j].serial # next  BY <1>0, <5>2, <5>3 DEF ShapeInv
        <5> QED  BY <5>1, <5>4
      <4> QED  BY <1>0, <2>1, <4>1
    <3>3. RealAfter(NewTop(m).home)  BY <1>0, <2>2, <3>1, <3>2 DEF RealAfter, NewTop
    <3> QED  BY <1>2, <2>1, <3>3 DEF NewTop
  <2> QED  BY <1>2, <2>1, <2>2 DEF NewTop
<1> QED  BY <1>0, <1>1, <1>2

\* A step that keeps m frames and adds at most one preserves UnwindInv if what
\* it writes fits: the frame, the markers, and the homes it keeps elsewhere.
LEMMA StackStep ==
    ASSUME UnwindInv, TypeInv', NEW m, Keeps(m), Fresh(m), Demarked(m), Seam(m),
           \A j \in 1 .. m : \/ stack'[j].marker = stack[j].marker
                             \/ stack'[j].marker.kind = "nil"
                             \/ RealAfter(stack'[j].marker.home),
           Len(stack') = m + 1 =>
              /\ \/ ~NewTop(m).block /\ NewTop(m).home = NoHome
                 \/ RealAfter(NewTop(m).home)
                 \/ /\ ~NewTop(m).block /\ NewTop(m).home.fp = m + 1
                    /\ NewTop(m).home.serial = next /\ NewTop(m).tier = "interp"
              /\ NewTop(m).marker.kind # "nil" => RealAfter(NewTop(m).marker.home),
           stored' = stored \/ RealAfter(stored'),
           \A k \in 1 .. Len(pass') : RealAfter(pass'[k].home),
           pc'.op = "unwind" => RealAfter(pc'.home),
           pc'.op = "escape" => RealAfter(nlr'),
           ControlInv', PassInv'
    PROVE  UnwindInv'
<1>0. TypeInv /\ ShapeInv /\ SerialInv /\ HomeInv /\ LinkInv /\ ControlInv
  BY WellLinkedParts DEF UnwindInv
<1>1. ShapeInv'  BY <1>0, KeptShape
<1>2. SerialInv'  BY <1>0, KeptSerials
<1>3. LinkInv'
  <2>1. Len(stack') \in {m, m + 1}  BY DEF Fresh
  <2> QED  BY <1>0, <2>1, KeptLinks
<1>4. stored' = NoHome \/ RealAfter(stored')
  <2>1. stored \in Home /\ (stored = NoHome \/ Real(stored))  BY <1>0 DEF TypeInv, HomeInv, Known
  <2>2. Real(stored) => RealAfter(stored)  BY <1>0, <2>1, KeptReal
  <2> QED  BY <2>1, <2>2
<1>5. \A i \in 1 .. Len(stack') :
              /\ stack'[i].home = NoHome \/ RealAfter(stack'[i].home)
              /\ stack'[i].block => RealAfter(stack'[i].home)
              /\ stack'[i].marker.kind # "nil" => RealAfter(stack'[i].marker.home)
  BY <1>0, KeptHomes
<1>6. HomeInv'  BY <1>4, <1>5, HomesAfter
<1>7. FramesWellLinked'
  <2>1. (LinkInv /\ ControlInv)'  BY <1>3
  <2> QED  BY <2>1, WellLinkedParts, PTL
<1> QED  BY <1>1, <1>2, <1>6, <1>7 DEF UnwindInv

\* A real home is real after the step; so are those of the pass.
LEMMA RealStays ==
    ASSUME UnwindInv, NEW m, Keeps(m), Fresh(m)
    PROVE  /\ \A h \in Home : Real(h) => RealAfter(h)
           /\ \A k \in 1 .. Len(pass) : RealAfter(pass[k].home)
           /\ pc.op = "unwind" => RealAfter(pc.home)
           /\ pc.op = "escape" => RealAfter(nlr)
<1>0. TypeInv /\ HomeInv  BY DEF UnwindInv
<1>1. \A h \in Home : Real(h) => RealAfter(h)  BY <1>0, KeptReal
<1>2. nlr \in Home /\ pc.home \in Home  BY <1>0 DEF TypeInv, Control
<1>3. \A k \in 1 .. Len(pass) : pass[k].home \in Home /\ Real(pass[k].home)
  <2> TAKE k \in 1 .. Len(pass)
  <2>1. pass[k] \in Entry  BY <1>0 DEF TypeInv
  <2> QED  BY <1>0, <2>1 DEF HomeInv, Entry
<1> QED  BY <1>0, <1>1, <1>2, <1>3 DEF HomeInv

\* The frame on top.
LEMMA TopIs ==
    ASSUME UnwindInv, stack # << >>
    PROVE  /\ Len(stack) \in Frames /\ Len(stack) >= 1 /\ Len(stack) \in Nat
           /\ Top = stack[Len(stack)] /\ Top \in Frame
           /\ Len(stack) - 1 \in 0 .. Len(stack)
           /\ Top.home \in Home /\ Top.marker \in Marker /\ Top.marker.home \in Home
           /\ Top.marker.kind \in {"nil", "ensure", "ifCurtailed", "token"}
           /\ Top.block \in BOOLEAN /\ Top.tier \in {"interp", "native"} /\ Top.link \in Links
           /\ Top.marker.kind # "token"
           /\ Top.marker.kind # "nil" => Real(Top.marker.home)
           /\ Top.block => Real(Top.home)
           /\ Top.home = NoHome \/ Real(Top.home)
<1>1. TypeInv /\ HomeInv /\ LinkInv  BY WellLinkedParts DEF UnwindInv
<1>2. Len(stack) \in Frames /\ Len(stack) >= 1 /\ Len(stack) \in Nat
  BY <1>1 DEF TypeInv, Frames
<1>3. Top = stack[Len(stack)] /\ Top \in Frame  BY <1>1, <1>2, StackTyped DEF Top
<1>4. /\ Top.home \in Home /\ Top.marker \in Marker /\ Top.marker.home \in Home
      /\ Top.block \in BOOLEAN /\ Top.tier \in {"interp", "native"} /\ Top.link \in Links
      /\ Top.marker.kind \in {"nil", "ensure", "ifCurtailed", "token"}
  BY <1>3, FrameFields
<1>5. Top.marker.kind # "token"
  BY <1>1, <1>2, <1>3 DEF LinkInv
<1>6. /\ Top.marker.kind # "nil" => Real(Top.marker.home)
      /\ Top.block => Real(Top.home)
      /\ Top.home = NoHome \/ Real(Top.home)
  BY <1>1, <1>2, <1>3 DEF HomeInv, Known
<1> QED  BY <1>2, <1>3, <1>4, <1>5, <1>6

\* The blocks at hand have real homes.
LEMMA ClosuresReal ==
    ASSUME UnwindInv, NEW h \in Closures
    PROVE  h \in Home /\ Real(h)
<1>1. TypeInv /\ HomeInv  BY DEF UnwindInv
<1>2. CASE h = stored  BY <1>1, <1>2 DEF Closures, HomeInv, Known, TypeInv
<1>3. CASE \E i \in 1 .. Len(stack) : h = stack[i].home
  <2>1. PICK i \in 1 .. Len(stack) : h = stack[i].home  BY <1>3
  <2>2. i \in Frames /\ stack[i] \in Frame  BY <1>1, StackTyped
  <2> QED  BY <1>1, <2>1, <2>2, FrameFields DEF Closures, HomeInv, Known
<1> QED  BY <1>2, <1>3 DEF Closures

\* A step of the guest that pushes an interpreted frame on the stack.
LEMMA PushStep ==
    ASSUME UnwindInv, NEW link \in {"doit", "call", "c2i", "perform", "cleanup"},
           link = "doit" <=> stack = << >>,
           link \in {"call", "perform"} => Top.tier = "interp",
           NEW block \in BOOLEAN, NEW h \in Home, block => Real(h),
           NEW marker \in Marker, marker.kind # "token",
           marker.kind # "nil" => block /\ link \in {"call", "c2i"} /\ Real(marker.home),
           stack' = Activation(stack, link, block, h, marker), next' = next + 1,
           pc'.op = "run", pc' \in Control, pass' \in Seq(Entry),
           \A k \in 1 .. Len(pass') : \E l \in 1 .. Len(pass) : pass'[k] = pass[l],
           due' \in [1 .. MaxSerial -> Int], doits' \in Nat,
           UNCHANGED <<nlr, curtailing, stored>>
    PROVE  UnwindInv' /\ Pushed(Len(stack), link, block, h, marker) /\ SameMarkers(Len(stack))
<1> DEFINE m == Len(stack)
<1>0. TypeInv /\ m \in Nat /\ m \in 0 .. Len(stack)  BY StackTyped DEF UnwindInv
<1>1. Pushed(m, link, block, h, marker) /\ \A j \in 1 .. m : stack'[j] = stack[j]
  <2>1. link \in Links  BY DEF Links, EntryLinks
  <2>2. stack \in Seq(Frame)  BY <1>0 DEF TypeInv
  <2> QED  BY <1>0, <2>1, <2>2, ActivationPushes
<1> HIDE DEF m
<1>2. Keeps(m) /\ SameMarkers(m) /\ Demarked(m) /\ Len(stack') = m + 1
  BY <1>1 DEF Pushed, SameMarkers, Demarked
<1>3. Fresh(m)
  BY <1>0, <1>1, <1>2 DEF Pushed, Fresh, NewTop
<1>4. TypeInv'
  BY <1>0, <1>2 DEF TypeInv, Keeps
<1>5. stack = << >> <=> m = 0
  BY <1>0 DEF TypeInv, m
<1>6. Seam(m)
  <2>1. stack # << >> => Top = stack[m] /\ m >= 1 /\ Top.marker.kind # "token"
    BY TopIs DEF m
  <2>2. stack # << >> => stack'[m].tier = Top.tier /\ stack'[m].marker = Top.marker
    BY <1>0, <1>1, <2>1
  <2>3. NewTop(m).link = link /\ NewTop(m).marker = marker
    BY <1>1 DEF Pushed, NewTop
  <2>4. stack = << >> => link = "doit"  OBVIOUS
  <2>5. m >= 1 => stack # << >>  BY <1>5, <1>0
  <2> QED  BY <1>0, <1>1, <1>2, <1>5, <2>1, <2>2, <2>3, <2>4, <2>5 DEF Seam
<1>7. \A g \in Home : Real(g) => RealAfter(g)
  BY <1>2, <1>3, RealStays
<1>8. \A k \in 1 .. Len(pass') : RealAfter(pass'[k].home)
  BY <1>2, <1>3, RealStays
<1>9. /\ \/ RealAfter(NewTop(m).home)
         \/ /\ ~NewTop(m).block /\ NewTop(m).home.fp = m + 1
            /\ NewTop(m).home.serial = next /\ NewTop(m).tier = "interp"
      /\ NewTop(m).marker.kind # "nil" => RealAfter(NewTop(m).marker.home)
  <2>1. marker.home \in Home  BY DEF Marker
  <2> QED  BY <1>1, <1>7, <2>1 DEF Pushed, NewTop
<1>10. ControlInv' /\ PassInv'
  BY DEF ControlInv, PassInv
<1>11. UnwindInv'
  BY <1>2, <1>3, <1>4, <1>6, <1>8, <1>9, <1>10, StackStep DEF SameMarkers
<1> QED  BY <1>1, <1>2, <1>11 DEF m

-----------------------------------------------------------------------------
(* UnwindInv is inductive: one lemma per kind of action. *)

\* A call: what it pushes, for the invariants that follow too.
GuestCall(link, block, h, marker) ==
    /\ UnwindInv' /\ Pushed(Len(stack), link, block, h, marker) /\ SameMarkers(Len(stack))

\* What a step may write to the ghost.
LEMMA DueTyped ==
    ASSUME TypeInv
    PROVE  /\ \A s : Discharged(s) \in [1 .. MaxSerial -> Int]
           /\ \A s : [due EXCEPT ![s] = 1] \in [1 .. MaxSerial -> Int]
<1>1. due \in [1 .. MaxSerial -> Int]  BY DEF TypeInv
<1>2. ASSUME NEW s
      PROVE  /\ Discharged(s) \in [1 .. MaxSerial -> Int]
             /\ [due EXCEPT ![s] = 1] \in [1 .. MaxSerial -> Int]
  <2>1. \A D : \A f \in [D -> Int] : \A v \in Int :
           [f EXCEPT ![s] = v] \in [D -> Int]
    OBVIOUS
  <2>2. CASE s \in 1 .. MaxSerial
    <3>1. due[s] - 1 \in Int  BY <1>1, <2>2
    <3>2. 1 \in Int  OBVIOUS
    <3> QED  BY <1>1, <2>1, <3>1, <3>2 DEF Discharged
  <2>3. CASE s \notin 1 .. MaxSerial
    <3>1. \A v : [due EXCEPT ![s] = v] = due  BY <1>1, <2>3
    <3> QED  BY <1>1, <2>1, <3>1, ZenonT(30) DEF Discharged
  <2> QED  BY <2>2, <2>3
<1> QED  BY <1>2

\* CallLink fits the frame on top.
LEMMA CallLinkFits ==
    ASSUME UnwindInv, stack # << >>
    PROVE  /\ CallLink \in {"call", "c2i"}
           /\ CallLink = "call" => Top.tier = "interp"
BY TopIs DEF CallLink

\* A top-level evaluation.
LEMMA DoitStep ==
    ASSUME UnwindInv, Doit
    PROVE  GuestCall("doit", FALSE, NoHome, Unmarked)
<1>1. TypeInv  BY DEF UnwindInv
<1>2. pass \in Seq(Entry) /\ due \in [1 .. MaxSerial -> Int] /\ doits + 1 \in Nat
  BY <1>1 DEF TypeInv
<1> QED  BY <1>2, PushStep, Records DEF Doit, GuestCall

\* A send to an interpreted method.
LEMMA SendStep ==
    ASSUME UnwindInv, SendMethod
    PROVE  GuestCall(CallLink, FALSE, NoHome, Unmarked)
<1>1. TypeInv /\ stack # << >>  BY DEF UnwindInv, SendMethod, MayCall, GuestRuns
<1>2. pass \in Seq(Entry) /\ due \in [1 .. MaxSerial -> Int] /\ doits \in Nat
  BY <1>1 DEF TypeInv
<1>3. pc.op = "run" /\ pc \in Control  BY Records DEF SendMethod, MayCall, GuestRuns
<1>4. PICK link \in {"call", "c2i"} : link = CallLink  BY <1>1, CallLinkFits
<1>5. link = "call" => Top.tier = "interp"  BY <1>1, <1>4, CallLinkFits
<1>6. Unmarked \in Marker /\ Unmarked.kind = "nil" /\ NoHome \in Home  BY Records
<1>7. stack' = Activation(stack, link, FALSE, NoHome, Unmarked) /\ next' = next + 1
      /\ UNCHANGED <<pc, nlr, curtailing, pass, stored, doits, due>>
  BY <1>4 DEF SendMethod, Call
<1>8. GuestCall(link, FALSE, NoHome, Unmarked)
  BY <1>1, <1>2, <1>3, <1>5, <1>6, <1>7, PushStep DEF GuestCall
<1> QED  BY <1>4, <1>8

\* perform:withArguments:.
LEMMA PerformStep ==
    ASSUME UnwindInv, Perform
    PROVE  GuestCall("perform", FALSE, NoHome, Unmarked)
<1>1. TypeInv /\ stack # << >>  BY DEF UnwindInv, Perform, MayCall, GuestRuns
<1>2. pass \in Seq(Entry) /\ due \in [1 .. MaxSerial -> Int] /\ doits \in Nat
  BY <1>1 DEF TypeInv
<1>3. pc.op = "run" /\ pc \in Control  BY Records DEF Perform, MayCall, GuestRuns
<1> QED  BY <1>1, <1>2, <1>3, PushStep, Records DEF Perform, Call, GuestCall

\* A block is called.
LEMMA ValueStep ==
    ASSUME UnwindInv, Value
    PROVE  \E h \in Closures : GuestCall(CallLink, TRUE, h, Unmarked)
<1>1. TypeInv /\ stack # << >>  BY DEF UnwindInv, Value, MayCall, GuestRuns
<1>2. pass \in Seq(Entry) /\ due \in [1 .. MaxSerial -> Int] /\ doits \in Nat
  BY <1>1 DEF TypeInv
<1>3. pc.op = "run" /\ pc \in Control  BY Records DEF Value, MayCall, GuestRuns
<1>4. PICK h \in Closures : Call(Activation(stack, CallLink, TRUE, h, Unmarked))
  BY DEF Value
<1>5. h \in Home /\ Real(h)  BY ClosuresReal
<1>6. due' = due  BY DEF Value
<1>7. PICK link \in {"call", "c2i"} : link = CallLink  BY <1>1, CallLinkFits
<1>8. link = "call" => Top.tier = "interp"  BY <1>1, <1>7, CallLinkFits
<1>9. Unmarked \in Marker /\ Unmarked.kind = "nil" /\ NoHome \in Home  BY Records
<1>10. stack' = Activation(stack, link, TRUE, h, Unmarked) /\ next' = next + 1
       /\ UNCHANGED <<pc, nlr, curtailing, pass, stored, doits, due>>
  BY <1>4, <1>6, <1>7 DEF Call
<1>11. GuestCall(link, TRUE, h, Unmarked)
  BY <1>1, <1>2, <1>3, <1>5, <1>8, <1>9, <1>10, PushStep DEF GuestCall
<1> QED  BY <1>7, <1>11

\* ensure: and ifCurtailed:.
LEMMA EnsureStep ==
    ASSUME UnwindInv, EnsureLike
    PROVE  \E kind \in {"ensure", "ifCurtailed"}, h \in Closures, c \in Closures :
              GuestCall(CallLink, TRUE, h, Armed(kind, c))
<1>1. TypeInv /\ stack # << >> /\ next <= MaxSerial
  BY DEF UnwindInv, EnsureLike, MayCall, GuestRuns
<1>2. pass \in Seq(Entry) /\ due \in [1 .. MaxSerial -> Int] /\ doits \in Nat
  BY <1>1 DEF TypeInv
<1>3. pc.op = "run" /\ pc \in Control  BY Records DEF EnsureLike, MayCall, GuestRuns
<1>4. PICK kind \in {"ensure", "ifCurtailed"}, h \in Closures, c \in Closures :
         Call(Activation(stack, CallLink, TRUE, h, Armed(kind, c)))
  BY DEF EnsureLike
<1>5. h \in Home /\ Real(h) /\ c \in Home /\ Real(c)  BY ClosuresReal
<1>6. due' \in [1 .. MaxSerial -> Int]  BY <1>2, DueTyped, <1>1 DEF EnsureLike
<1>7. Armed(kind, c) \in Marker /\ Armed(kind, c).kind = kind /\ Armed(kind, c).home = c
  BY <1>5, Records
<1>8. PICK link \in {"call", "c2i"} : link = CallLink  BY <1>1, CallLinkFits
<1>9. link = "call" => Top.tier = "interp"  BY <1>1, <1>8, CallLinkFits
<1>10. GuestCall(link, TRUE, h, Armed(kind, c))
  BY <1>1, <1>2, <1>3, <1>4, <1>5, <1>6, <1>7, <1>8, <1>9, PushStep DEF Call, GuestCall
<1> QED  BY <1>8, <1>10

\* The cleanup an error runs.
LEMMA RunCleanupStep ==
    ASSUME UnwindInv, RunCleanup
    PROVE  GuestCall("cleanup", TRUE, Head(pass).home, Unmarked)
<1>1. TypeInv /\ HomeInv /\ stack # << >>  BY DEF UnwindInv, RunCleanup, PassInv
<1>2. pass \in Seq(Entry) /\ pass # << >> /\ doits \in Nat /\ due \in [1 .. MaxSerial -> Int]
  BY <1>1 DEF TypeInv, RunCleanup
<1>3. /\ Tail(pass) \in Seq(Entry) /\ Head(pass) = pass[1] /\ Head(pass) \in Entry
      /\ 1 \in 1 .. Len(pass) /\ Len(pass) \in Nat
      /\ Len(Tail(pass)) = Len(pass) - 1
      /\ \A k \in 1 .. Len(pass) - 1 : Tail(pass)[k] = pass[k + 1]
  BY <1>2, SeqTaken, SeqElements
<1>4. \A k \in 1 .. Len(Tail(pass)) : \E l \in 1 .. Len(pass) : Tail(pass)[k] = pass[l]
  <2> TAKE k \in 1 .. Len(Tail(pass))
  <2>1. k + 1 \in 1 .. Len(pass) /\ Tail(pass)[k] = pass[k + 1]  BY <1>3
  <2> QED  BY <2>1
<1>5. Head(pass).home \in Home /\ Real(Head(pass).home)  BY <1>1, <1>3 DEF HomeInv, Entry
<1>6. due' \in [1 .. MaxSerial -> Int]  BY <1>1, DueTyped DEF RunCleanup
<1>7. PICK h \in Home : h = Head(pass).home /\ Real(h)  BY <1>5
<1>8. Unmarked \in Marker /\ Unmarked.kind = "nil" /\ NoHome \in Home  BY Records
<1>9. stack' = Activation(stack, "cleanup", TRUE, h, Unmarked) /\ next' = next + 1
      /\ UNCHANGED <<nlr, curtailing, stored, doits>> /\ pass' = Tail(pass)
      /\ pc' \in Control /\ pc'.op = "run"
  BY <1>7, Records DEF RunCleanup, Handle
<1>10. GuestCall("cleanup", TRUE, h, Unmarked)
  BY <1>1, <1>2, <1>3, <1>4, <1>6, <1>7, <1>8, <1>9, PushStep DEF GuestCall
<1> QED  BY <1>7, <1>10

\* A call of compiled code.
LEMMA EnterCompiledStep ==
    ASSUME UnwindInv, EnterCompiled
    PROVE  /\ UnwindInv' /\ Keeps(Len(stack)) /\ SameMarkers(Len(stack))
           /\ Len(stack') = Len(stack) + 1
           /\ NewTop(Len(stack)).tier = "native" /\ NewTop(Len(stack)).serial = 0
           /\ NewTop(Len(stack)).link = "native" /\ NewTop(Len(stack)).marker.kind = "nil"
<1> DEFINE m == Len(stack)
<1>0. TypeInv /\ m \in Nat /\ m \in 0 .. Len(stack) /\ stack # << >> /\ stack \in Seq(Frame)
  BY StackTyped DEF UnwindInv, EnterCompiled, GuestRuns, TypeInv
<1>1. pc.op = "run" /\ pc \in Control  BY Records DEF EnterCompiled, GuestRuns
<1>2. PICK f \in {Native(FALSE, NoHome)} \cup {Native(TRUE, h) : h \in Closures} :
          stack' = Append(stack, f)
  BY DEF EnterCompiled
<1>3. PICK b \in BOOLEAN, h \in Home : f = Native(b, h) /\ (~b => h = NoHome) /\ (b => Real(h))
  BY <1>2, ClosuresReal, Records
<1>4. /\ f \in Frame /\ f.tier = "native" /\ f.serial = 0 /\ f.link = "native"
      /\ f.block = b /\ f.home = h /\ f.marker = Unmarked
  BY <1>3, NativeFields
<1>5. /\ stack' \in Seq(Frame) /\ Len(stack') = m + 1 /\ NewTop(m) = f
      /\ \A j \in 1 .. m : stack'[j] = stack[j]
  BY <1>0, <1>2, <1>4, SeqAppended DEF NewTop
<1>6. /\ m >= 1 /\ stack[m].marker.kind # "token"
  BY TopIs, <1>0
<1> HIDE DEF m
<1>7. Keeps(m) /\ SameMarkers(m) /\ Demarked(m) /\ Fresh(m) /\ Seam(m)
  <2>1. Keeps(m) /\ SameMarkers(m) /\ Demarked(m)
    BY <1>0, <1>5 DEF Keeps, SameMarkers, Demarked
  <2>2. next' = next  BY DEF EnterCompiled
  <2>3. Fresh(m)  BY <1>4, <1>5, <2>2, Records DEF Fresh
  <2>4. Seam(m)  BY <1>0, <1>4, <1>5, <1>6, Records DEF Seam
  <2> QED  BY <2>1, <2>3, <2>4
<1>8. UNCHANGED <<pc, nlr, curtailing, pass, stored, next, doits, due>>  BY DEF EnterCompiled
<1>9. TypeInv'  BY <1>0, <1>5, <1>8 DEF TypeInv
<1>10. ControlInv' /\ PassInv'  BY <1>1, <1>8 DEF ControlInv, PassInv
<1>11. UnwindInv'
  <2>1. \A g \in Home : Real(g) => RealAfter(g)  BY <1>7, RealStays
  <2>2. \A k \in 1 .. Len(pass) : RealAfter(pass[k].home)  BY <1>7, RealStays
  <2> QED  BY <1>1, <1>3, <1>4, <1>5, <1>7, <1>8, <1>9, <1>10, <2>1, <2>2, StackStep, Records
           DEF SameMarkers
<1> QED  BY <1>4, <1>5, <1>7, <1>11, Records DEF m

\* A step that only pops frames, down to frame m, which is no token's.
LEMMA CutStep ==
    ASSUME UnwindInv, NEW m, Cut(m), SameMarkers(m), m >= 1 => stack[m].marker.kind # "token",
           next' = next, stored' = stored, curtailing' \in BOOLEAN, doits' = doits, due' \in [1 .. MaxSerial -> Int],
           nlr' \in Home, pc' \in Control, pass' = pass \/ pass' = << >>,
           pc'.op = "unwind" => Real(pc'.home),
           pc'.op = "escape" => Real(nlr'),
           pc'.op \in {"return", "unwind"} => m >= 1 /\ stack[m].tier = "interp",
           pc'.op \in {"escape", "curtail"} => m >= 1
    PROVE  UnwindInv'
<1>0. TypeInv /\ m \in Nat /\ Len(stack') = m /\ Keeps(m) /\ stack' \in Seq(Frame)
      /\ m <= Len(stack) /\ Len(stack) \in Nat
  BY StackTyped DEF UnwindInv, Cut, Keeps
<1>1. Demarked(m) /\ Fresh(m)
  BY <1>0 DEF SameMarkers, Demarked, Fresh
<1>2. Seam(m)
  BY <1>0 DEF SameMarkers, Seam
<1>3. TypeInv'
  <2>1. pass \in Seq(Entry) /\ << >> \in Seq(Entry)  BY <1>0 DEF TypeInv
  <2>2. pass' \in Seq(Entry)  BY <2>1
  <2> QED  BY <1>0, <2>2 DEF TypeInv
<1>4. ControlInv' /\ PassInv'
  <2>1. pc'.op \in {"run", "return", "unwind", "escape", "curtail"}  BY DEF Control
  <2>2. m >= 1 => stack' # << >> /\ stack'[m].tier = stack[m].tier  BY <1>0 DEF Keeps
  <2>3. Top' = stack'[m]  BY <1>0 DEF Top
  <2> QED  BY <2>1, <2>2, <2>3 DEF ControlInv, PassInv
<1>5. \A g \in Home : Real(g) => RealAfter(g)  BY <1>0, <1>1, RealStays
<1>6. \A k \in 1 .. Len(pass') : RealAfter(pass'[k].home)
  BY <1>0, <1>1, RealStays
<1>7. pc'.home \in Home  BY DEF Control
<1> QED  BY <1>0, <1>1, <1>2, <1>3, <1>4, <1>5, <1>6, <1>7, StackStep DEF SameMarkers

\* Compiled code on top of the stack is left.
LEMMA NativeTop ==
    ASSUME UnwindInv, stack # << >>, Top.tier = "native", stack' = Below(Len(stack) - 1)
    PROVE  /\ Cut(Len(stack) - 1) /\ SameMarkers(Len(stack) - 1) /\ Len(stack) - 1 >= 1
           /\ stack[Len(stack) - 1].marker.kind # "token"
           /\ Top.marker.kind = "nil" /\ Top.link = "native" /\ Top.serial = 0
<1> DEFINE n == Len(stack)
<1>1. TypeInv /\ ShapeInv /\ LinkInv  BY WellLinkedParts DEF UnwindInv
<1>2. n \in Frames /\ n >= 1 /\ n \in Nat /\ Top = stack[n]  BY TopIs
<1> HIDE DEF n
<1>3. stack[n].link = "native" /\ stack[n].marker.kind = "nil" /\ stack[n].serial = 0
  BY <1>1, <1>2 DEF ShapeInv
<1>4. n # 1  BY <1>1, <1>2, <1>3 DEF LinkInv
<1>5. n - 1 \in 1 .. n /\ n - 1 >= 1 /\ (n - 1) + 1 = n  BY <1>2, <1>4
<1>6. stack[n - 1].marker.kind # "token"
  BY <1>1, <1>3, <1>5 DEF LinkInv, Frames, n
<1> QED  BY <1>1, <1>2, <1>3, <1>5, <1>6, StackCut DEF n

\* Compiled code returns.
LEMMA ReturnCompiledStep ==
    ASSUME UnwindInv, ReturnCompiled
    PROVE  UnwindInv'
<1>1. TypeInv /\ stack # << >> /\ pc.op = "run" /\ pc \in Control
  BY Records DEF UnwindInv, ReturnCompiled, GuestRuns
<1>2. nlr \in Home /\ curtailing \in BOOLEAN /\ due \in [1 .. MaxSerial -> Int]
  BY <1>1 DEF TypeInv
<1> QED  BY <1>1, <1>2, NativeTop, CutStep DEF ReturnCompiled

\* A `^' leaves a compiled block.
LEMMA NlrOriginateStep ==
    ASSUME UnwindInv, NlrOriginate
    PROVE  UnwindInv'
<1>1. TypeInv /\ stack # << >>  BY DEF UnwindInv, NlrOriginate, GuestRuns
<1>2. nlr \in Home /\ curtailing \in BOOLEAN /\ due \in [1 .. MaxSerial -> Int]
  BY <1>1 DEF TypeInv
<1>3. Top.home \in Home /\ Real(Top.home)  BY <1>1, TopIs DEF NlrOriginate
<1>4. pc' \in Control /\ pc'.op = "escape"  BY Records DEF NlrOriginate
<1> QED  BY <1>1, <1>2, <1>3, <1>4, NativeTop, CutStep DEF NlrOriginate

\* A `^' passes compiled code.
LEMMA RelayStep ==
    ASSUME UnwindInv, Relay
    PROVE  UnwindInv'
<1>1. TypeInv /\ HomeInv /\ stack # << >>
  BY WellLinkedParts DEF UnwindInv, Relay, ControlInv
<1>2. nlr \in Home /\ curtailing \in BOOLEAN /\ due \in [1 .. MaxSerial -> Int] /\ pc \in Control
  BY <1>1 DEF TypeInv
<1>3. pc.op = "escape" /\ Real(nlr)  BY <1>1 DEF Relay, HomeInv
<1> QED  BY <1>1, <1>2, <1>3, NativeTop, CutStep DEF Relay

\* The interpreted rest of a compiled activation takes its place.
LEMMA DeoptimizeStep ==
    ASSUME UnwindInv, Deoptimize
    PROVE  /\ UnwindInv' /\ SameMarkers(Len(stack) - 1) /\ Len(stack) - 1 >= 1
           /\ Pushed(Len(stack) - 1, "c2i", Top.block, Top.home, Unmarked)
           /\ Top.marker.kind = "nil" /\ Top.link = "native"
<1> DEFINE m == Len(stack) - 1
<1>0. TypeInv /\ ShapeInv /\ LinkInv /\ stack # << >> /\ pc.op = "run" /\ pc \in Control
  BY WellLinkedParts, Records DEF UnwindInv, Deoptimize, GuestRuns
<1>1. /\ m + 1 \in Frames /\ m + 1 >= 1 /\ m \in Int /\ m \in 0 .. Len(stack) /\ Top = stack[m + 1]
      /\ m + 1 = Len(stack)
      /\ Top.home \in Home /\ Top.block \in BOOLEAN /\ (Top.block => Real(Top.home))
  BY <1>0, TopIs
<1>2. stack[m + 1].link = "native" /\ stack[m + 1].marker.kind = "nil"
  BY <1>0, <1>1 DEF ShapeInv, Deoptimize
<1>3. m + 1 # 1  BY <1>0, <1>1, <1>2 DEF LinkInv
<1> HIDE DEF m
<1>4. m \in 1 .. m + 1 /\ m >= 1 /\ m \in Nat  BY <1>1, <1>3
<1>5. stack[m].marker.kind # "token"
  BY <1>0, <1>1, <1>2, <1>4 DEF LinkInv, Frames
<1>6. /\ Below(m) \in Seq(Frame) /\ Len(Below(m)) = m
      /\ \A j \in 1 .. m : Below(m)[j] = stack[j]
  BY <1>0, <1>1, BelowCuts
<1>7. stack' = Activation(Below(m), "c2i", Top.block, Top.home, Unmarked) /\ next' = next + 1
      /\ UNCHANGED <<pc, nlr, curtailing, pass, stored, doits, due>>
  BY DEF Deoptimize, Call, m
<1>8. /\ Pushed(m, "c2i", Top.block, Top.home, Unmarked)
      /\ \A j \in 1 .. m : stack'[j] = Below(m)[j]
  <2>1. "c2i" \in Links /\ Unmarked \in Marker  BY Records DEF Links, EntryLinks
  <2>2. \A j \in 1 .. m :
           /\ Below(m)[j].tier = stack[j].tier /\ Below(m)[j].serial = stack[j].serial
           /\ Below(m)[j].link = stack[j].link /\ Below(m)[j].block = stack[j].block
           /\ Below(m)[j].home = stack[j].home
    BY <1>6
  <2> QED  BY <1>0, <1>1, <1>6, <1>7, <2>1, <2>2, ActivationPushes
<1>9. Keeps(m) /\ SameMarkers(m) /\ Demarked(m) /\ Len(stack') = m + 1
  BY <1>6, <1>8 DEF Pushed, SameMarkers, Demarked
<1>10. /\ NewTop(m).tier = "interp" /\ NewTop(m).serial = next /\ NewTop(m).link = "c2i"
       /\ NewTop(m).marker = Unmarked /\ NewTop(m).block = Top.block
       /\ Top.block => NewTop(m).home = Top.home
       /\ ~Top.block => NewTop(m).home.fp = m + 1 /\ NewTop(m).home.serial = next
  BY <1>8 DEF Pushed, NewTop
<1>11. Fresh(m)  BY <1>7, <1>9, <1>10, Records DEF Fresh
<1>12. Seam(m)
  <2>1. stack'[m].marker.kind # "token"  BY <1>4, <1>5, <1>9 DEF SameMarkers
  <2> QED  BY <1>4, <1>9, <1>10, <2>1, Records DEF Seam, SameMarkers
<1>13. TypeInv'  BY <1>0, <1>7, <1>9 DEF TypeInv, Keeps
<1>14. ControlInv' /\ PassInv'  BY <1>0, <1>7 DEF ControlInv, PassInv
<1>15. UnwindInv'
  <2>1. \A g \in Home : Real(g) => RealAfter(g)  BY <1>9, <1>11, RealStays
  <2>2. \A k \in 1 .. Len(pass) : RealAfter(pass[k].home)  BY <1>9, <1>11, RealStays
  <2>3. /\ \/ RealAfter(NewTop(m).home)
           \/ /\ ~NewTop(m).block /\ NewTop(m).home.fp = m + 1
              /\ NewTop(m).home.serial = next /\ NewTop(m).tier = "interp"
        /\ NewTop(m).marker.kind = "nil"
    BY <1>1, <1>10, <2>1, Records
  <2>4. stored' = stored /\ pass' = pass /\ pc'.op = "run"  BY <1>0, <1>7
  <2> QED  BY <1>9, <1>11, <1>12, <1>13, <1>14, <2>2, <2>3, <2>4, StackStep
           DEF SameMarkers
<1> QED  BY <1>1, <1>2, <1>4, <1>8, <1>9, <1>15 DEF m

\* A step that leaves the stack alone.
LEMMA StayStep ==
    ASSUME UnwindInv, stack' = stack
    PROVE  Cut(Len(stack)) /\ SameMarkers(Len(stack))
           /\ (Len(stack) >= 1 => stack[Len(stack)].marker.kind # "token")
<1>1. TypeInv /\ Len(stack) \in Nat  BY StackTyped DEF UnwindInv
<1>2. Cut(Len(stack)) /\ SameMarkers(Len(stack))
  BY <1>1 DEF Cut, Keeps, SameMarkers, TypeInv
<1>3. Len(stack) >= 1 => stack # << >>  BY <1>1
<1> QED  BY <1>2, <1>3, TopIs

\* A closure is kept in a global.
LEMMA StoreClosureStep ==
    ASSUME UnwindInv, StoreClosure
    PROVE  UnwindInv'
<1>0. UNCHANGED <<stack, pc, nlr, curtailing, pass, next, doits, due>> /\ stored' = Top.home
      /\ stack # << >> /\ Top.home # NoHome /\ pc.op = "run"
  BY Records DEF StoreClosure, GuestRuns
<1>1. Top.home \in Home /\ Real(Top.home)  BY <1>0, TopIs
<1>2. TypeInv'  BY <1>0, <1>1 DEF UnwindInv, TypeInv
<1>3. HomeInv'
  <2>1. Real(Top.home)' <=> Real(stored)'  BY <1>0 DEF Top
  <2>2. RealAfter(stored')  BY <1>0, <1>1 DEF Real, RealAfter, Frames
  <2>3. HomeInv  BY DEF UnwindInv
  <2>4. \A i \in Frames :
              /\ stack'[i].home = NoHome \/ RealAfter(stack'[i].home)
              /\ stack'[i].block => RealAfter(stack'[i].home)
              /\ stack'[i].marker.kind # "nil" => RealAfter(stack'[i].marker.home)
    BY <1>0, <2>3 DEF HomeInv, Known, Real, RealAfter, Frames
  <2>5. \A k \in 1 .. Len(pass') : RealAfter(pass'[k].home)
    BY <1>0, <2>3 DEF HomeInv, Real, RealAfter, Frames
  <2> QED  BY <1>0, <2>2, <2>4, <2>5, HomesAfter DEF Frames
<1>4. ShapeInv' /\ SerialInv' /\ PassInv'
  BY <1>0 DEF UnwindInv, ShapeInv, SerialInv, PassInv, Frames
<1>5. FramesWellLinked'
  BY <1>0 DEF UnwindInv, FramesWellLinked, Frames, Top
<1> QED  BY <1>2, <1>3, <1>4, <1>5 DEF UnwindInv

\* A `^' of an interpreted block begins.
LEMMA NlrTosStep ==
    ASSUME UnwindInv, NlrTos
    PROVE  UnwindInv'
<1>1. stack # << >> /\ TypeInv  BY DEF NlrTos, GuestRuns, UnwindInv
<1>2. Top.home \in Home /\ Real(Top.home) /\ Len(stack) >= 1 /\ stack[Len(stack)].tier = "interp"
  BY <1>1, TopIs DEF NlrTos
<1>3. nlr \in Home /\ curtailing \in BOOLEAN /\ due \in [1 .. MaxSerial -> Int]
  BY <1>1 DEF TypeInv
<1>4. pc' \in Control /\ pc'.op = "unwind" /\ pc'.home = Top.home  BY <1>2, Records DEF NlrTos
<1> QED  BY <1>1, <1>2, <1>3, <1>4, StayStep, CutStep DEF NlrTos

\* A parked `^' is taken up.
LEMMA TakeUpStep ==
    ASSUME UnwindInv, TakeUp
    PROVE  UnwindInv'
<1>1. stack # << >> /\ TypeInv /\ HomeInv
  BY WellLinkedParts DEF TakeUp, UnwindInv, ControlInv
<1>2. Len(stack) >= 1 /\ stack[Len(stack)].tier = "interp"
  BY <1>1, TopIs DEF TakeUp
<1>3. nlr \in Home /\ curtailing \in BOOLEAN /\ due \in [1 .. MaxSerial -> Int] /\ Real(nlr)
  BY <1>1 DEF TypeInv, HomeInv, TakeUp
<1>4. pc' \in Control /\ pc'.op = "unwind" /\ pc'.home = nlr /\ nlr' \in Home
  BY <1>3, Records DEF TakeUp
<1> QED  BY <1>1, <1>2, <1>3, <1>4, StayStep, CutStep DEF TakeUp

\* A host that takes back control finds an empty stack.
LEMMA RecoverStep ==
    ASSUME UnwindInv, Recover, curtailing' \in BOOLEAN, due' \in [1 .. MaxSerial -> Int],
           UNCHANGED <<stored, next, doits>>
    PROVE  UnwindInv'
<1>1. TypeInv /\ Len(stack) \in Nat  BY StackTyped DEF UnwindInv
<1>2. Cut(0) /\ SameMarkers(0)
  BY <1>1 DEF Recover, Cut, Keeps, SameMarkers
<1>3. pc' \in Control /\ pc'.op = "run" /\ nlr' \in Home /\ pass' = << >>
  BY Records DEF Recover
<1> QED  BY <1>2, <1>3, CutStep

\* The pass of an error ends.
LEMMA EndCurtailmentStep ==
    ASSUME UnwindInv, EndCurtailment
    PROVE  UnwindInv'
<1>1. curtailing' \in BOOLEAN /\ due' \in [1 .. MaxSerial -> Int]
  BY DEF UnwindInv, TypeInv, EndCurtailment
<1> QED  BY <1>1, RecoverStep DEF EndCurtailment

\* Nothing happens.
LEMMA IdleStep ==
    ASSUME UnwindInv, UNCHANGED vars
    PROVE  UnwindInv'
<1>1. UNCHANGED <<stack, pc, nlr, curtailing, pass, stored, next, doits, due>>  BY DEF vars
<1>2. TypeInv'  BY <1>1 DEF UnwindInv, TypeInv
<1>3. ShapeInv' /\ SerialInv' /\ PassInv'
  BY <1>1 DEF UnwindInv, ShapeInv, SerialInv, PassInv, Frames
<1>4. HomeInv'  BY <1>1 DEF UnwindInv, HomeInv, Known, Real, Frames
<1>5. FramesWellLinked'  BY <1>1 DEF UnwindInv, FramesWellLinked, Frames, Top
<1> QED  BY <1>2, <1>3, <1>4, <1>5 DEF UnwindInv

-----------------------------------------------------------------------------
(* The order in which an error runs the cleanups it has collected. *)

Above(S, i) == {j \in S : j > i}

\* The frames above the innermost, the outermost and the next one.
LEMMA AboveSets ==
    ASSUME NEW n \in Nat, NEW S \in SUBSET (0 .. n), NEW i \in S
    PROVE  /\ (\A j \in S : j <= i) => Above(S, i) = {}
           /\ {j \in S : j < i} = {} => S = Above(S, i) \cup {i}
           /\ \A x \in {j \in S : j < i} :
                 (\A j \in {y \in S : y < i} : j <= x) => Above(S, x) = Above(S, i) \cup {i}
<1>0. \A x \in S : x \in Nat  OBVIOUS
<1>1. ASSUME \A j \in S : j <= i  PROVE Above(S, i) = {}
  <2>1. ASSUME NEW y \in Above(S, i)  PROVE FALSE
    <3>1. y \in S /\ y > i  BY DEF Above
    <3>2. y \in Nat /\ i \in Nat /\ y <= i  BY <1>0, <1>1, <3>1
    <3> QED  BY <3>1, <3>2
  <2> QED  BY <2>1
<1>2. ASSUME {j \in S : j < i} = {}  PROVE S = Above(S, i) \cup {i}
  <2>1. ASSUME NEW x \in S  PROVE x \in Above(S, i) \cup {i}
    <3>1. x \in Nat /\ i \in Nat /\ ~(x < i)  BY <1>0, <1>2
    <3>2. x > i \/ x = i  BY <3>1
    <3> QED  BY <3>2 DEF Above
  <2>2. Above(S, i) \cup {i} \in SUBSET S  BY DEF Above
  <2> QED  BY <2>1, <2>2
<1>3. ASSUME NEW x \in {j \in S : j < i}, \A j \in {y \in S : y < i} : j <= x
      PROVE  Above(S, x) = Above(S, i) \cup {i}
  <2>1. x \in S /\ x \in Nat /\ i \in Nat /\ x < i /\ \A j \in S : j < i => j <= x  BY <1>0, <1>3
  <2>2. ASSUME NEW y \in S  PROVE y > x <=> y > i \/ y = i
    <3>1. y \in Nat /\ (y < i => y <= x)  BY <1>0, <2>1
    <3> QED  BY <2>1, <3>1
  <2>3. ASSUME NEW y  PROVE y \in Above(S, x) <=> y \in Above(S, i) \cup {i}
    BY <2>2 DEF Above
  <2> QED  BY <2>3
<1> QED  BY <1>1, <1>2, <1>3

\* The cardinalities the order is counted with.
LEMMA AboveCounts ==
    ASSUME NEW n \in Nat, NEW S \in SUBSET (0 .. n)
    PROVE  /\ IsFiniteSet(S) /\ Cardinality(S) \in Nat
           /\ \A i \in S : IsFiniteSet(Above(S, i)) /\ Cardinality(Above(S, i)) \in Nat
           /\ \A i, j \in S : i < j => Cardinality(Above(S, j)) < Cardinality(Above(S, i))
           /\ \A i \in S : Cardinality(Above(S, i)) < Cardinality(S)
<1>0. \A x, y, z \in S : /\ x > y /\ y > z => x > z
                          /\ ~(x > x) /\ (x > y \/ x = y \/ y > x)
                          /\ (x <= y <=> ~(x > y)) /\ (x < y <=> y > x)
  <2>1. \A x \in S : x \in Nat  OBVIOUS
  <2> QED  BY <2>1
<1>1. IsFiniteSet(0 .. n)  BY FS_Interval
<1>2. IsFiniteSet(S)  BY <1>1, FS_Subset
<1>3. \A T \in SUBSET S : IsFiniteSet(T) /\ Cardinality(T) \in Nat /\ Cardinality(T) <= Cardinality(S)
  BY <1>2, FS_Subset, FS_CardinalityType
<1>4. \A i \in S : Above(S, i) \in SUBSET S  BY DEF Above
<1>5. ASSUME NEW T \in SUBSET S, NEW U \in SUBSET T, NEW x \in T, x \notin U
      PROVE  Cardinality(U) < Cardinality(T)
  <2>1. IsFiniteSet(T) /\ IsFiniteSet(U) /\ Cardinality(U) \in Nat /\ Cardinality(T) \in Nat
    BY <1>3
  <2>2. Cardinality(U \cup {x}) = Cardinality(U) + 1  BY <1>5, <2>1, FS_AddElement
  <2>3. U \cup {x} \in SUBSET T  OBVIOUS
  <2>4. Cardinality(U \cup {x}) <= Cardinality(T)  BY <2>1, <2>3, FS_Subset
  <2> QED  BY <2>1, <2>2, <2>4
<1>6. ASSUME NEW i \in S, NEW j \in S, i < j
      PROVE  Cardinality(Above(S, j)) < Cardinality(Above(S, i))
  <2>1. Above(S, j) \in SUBSET Above(S, i)  BY <1>0, <1>6 DEF Above
  <2>2. j \in Above(S, i) /\ j \notin Above(S, j)  BY <1>6 DEF Above
  <2> QED  BY <1>4, <1>5, <2>1, <2>2
<1>7. ASSUME NEW i \in S PROVE Cardinality(Above(S, i)) < Cardinality(S)
  <2>1. i \notin Above(S, i)  BY DEF Above
  <2> QED  BY <1>4, <1>5, <2>1
<1> QED  BY <1>2, <1>3, <1>4, <1>6, <1>7

\* Every place in the order is taken: else consider the first that is not.
LEMMA NthExists ==
    ASSUME NEW n \in Nat, NEW S \in SUBSET (0 .. n), NEW k \in 1 .. Cardinality(S)
    PROVE  NthInnermost(S, k) \in S /\ Cardinality(Above(S, NthInnermost(S, k))) = k - 1
<1> DEFINE Has(l) == \E i \in S : Cardinality(Above(S, i)) = l - 1
           T == {l \in Nat : l \in 1 .. Cardinality(S) /\ ~Has(l)}
<1>1. /\ IsFiniteSet(S) /\ Cardinality(S) \in Nat
      /\ \A i \in S : IsFiniteSet(Above(S, i)) /\ Cardinality(Above(S, i)) \in Nat
  BY AboveCounts
<1>2. ASSUME NEW l \in T, \A j \in T : l <= j
      PROVE  FALSE
  <2>0. l \in Nat /\ l \in 1 .. Cardinality(S) /\ ~Has(l)  OBVIOUS
  <2>1. CASE l = 1
    <3>1. S # {}  BY <1>1, <2>0, FS_EmptySet
    <3>2. PICK i \in S : \A j \in S : j <= i  BY <3>1, Greatest
    <3>3. Above(S, i) = {}  BY <3>2, AboveSets
    <3> QED  BY <2>0, <2>1, <3>3, FS_EmptySet
  <2>2. CASE l # 1
    <3>1. l - 1 \in 1 .. Cardinality(S) /\ l - 1 \in Nat /\ l - 1 \notin T  BY <1>1, <1>2, <2>0, <2>2
    <3>2. PICK i \in S : Cardinality(Above(S, i)) = l - 2  BY <3>1
    <3> DEFINE Lower == {j \in S : j < i}
    <3>3. i \notin Above(S, i)  BY DEF Above
    <3>4. Cardinality(Above(S, i) \cup {i}) = l - 1
      <4>1. Cardinality(Above(S, i) \cup {i}) = Cardinality(Above(S, i)) + 1
        BY <1>1, <3>3, FS_AddElement
      <4> QED  BY <2>0, <3>2, <4>1
    <3>5. Lower # {}
      <4>1. Lower = {} => S = Above(S, i) \cup {i}  BY AboveSets
      <4> QED  BY <1>1, <2>0, <3>4, <4>1
    <3>6. Lower \in SUBSET (0 .. n)  OBVIOUS
    <3>7. PICK x \in Lower : \A j \in Lower : j <= x  BY <3>5, <3>6, Greatest
    <3>8. Above(S, x) = Above(S, i) \cup {i}
      <4>1. x \in {j \in S : j < i} /\ \A j \in {y \in S : y < i} : j <= x  BY <3>7
      <4>2. \A z \in {j \in S : j < i} :
               (\A j \in {y \in S : y < i} : j <= z) => Above(S, z) = Above(S, i) \cup {i}
        BY AboveSets
      <4> QED  BY <4>1, <4>2
    <3> QED  BY <2>0, <3>4, <3>7, <3>8
  <2> QED  BY <2>1, <2>2
<1>3. T = {}
  <2>1. T \in SUBSET Nat  OBVIOUS
  <2> HIDE DEF T
  <2> QED  BY <1>2, <2>1, LeastNat
<1>4. Has(k)  BY <1>1, <1>3
<1> QED  BY <1>4 DEF NthInnermost, Above

\* It runs from the innermost outwards.
LEMMA NthOrder ==
    ASSUME NEW n \in Nat, NEW S \in SUBSET (0 .. n),
           NEW k \in 1 .. Cardinality(S), NEW l \in 1 .. Cardinality(S), k < l
    PROVE  NthInnermost(S, l) < NthInnermost(S, k)
<1> DEFINE a == NthInnermost(S, k)  b == NthInnermost(S, l)
<1>1. /\ a \in S /\ Cardinality(Above(S, a)) = k - 1
      /\ b \in S /\ Cardinality(Above(S, b)) = l - 1
  BY NthExists
<1> HIDE DEF a, b
<1>2. Cardinality(S) \in Nat
      /\ \A i, j \in S : i < j => Cardinality(Above(S, j)) < Cardinality(Above(S, i))
  BY AboveCounts
<1>3. a \in Nat /\ b \in Nat  BY <1>1
<1>4. a # b  BY <1>1, <1>2
<1>5. ~(a < b)  BY <1>1, <1>2
<1> QED  BY <1>3, <1>4, <1>5 DEF a, b

\* No frame is left out.
LEMMA NthCovers ==
    ASSUME NEW n \in Nat, NEW S \in SUBSET (0 .. n), NEW i \in S
    PROVE  \E k \in 1 .. Cardinality(S) : NthInnermost(S, k) = i
<1> DEFINE k == Cardinality(Above(S, i)) + 1  a == NthInnermost(S, k)
<1>1. /\ Cardinality(S) \in Nat /\ Cardinality(Above(S, i)) \in Nat
      /\ \A x, y \in S : x < y => Cardinality(Above(S, y)) < Cardinality(Above(S, x))
      /\ Cardinality(Above(S, i)) < Cardinality(S)
  BY AboveCounts
<1>2. k \in 1 .. Cardinality(S) /\ k - 1 = Cardinality(Above(S, i))  BY <1>1
<1> HIDE DEF k
<1>3. a \in S /\ Cardinality(Above(S, a)) = k - 1  BY <1>2, NthExists
<1> HIDE DEF a
<1>4. i \in Nat /\ a \in Nat  BY <1>3
<1>5. a = i  BY <1>1, <1>2, <1>3, <1>4
<1> QED  BY <1>2, <1>5 DEF a

\* The innermost frame of a set of frames.
LEMMA InnermostIs ==
    ASSUME NEW n \in Nat, NEW S \in SUBSET (1 .. n), S # {}
    PROVE  Innermost(S) \in S /\ \A j \in S : j <= Innermost(S)
<1>1. S \in SUBSET (0 .. n)  OBVIOUS
<1>2. \E m \in S : \A j \in S : j <= m  BY <1>1, Greatest
<1> QED  BY <1>2 DEF Innermost

\* The pass of an error: the cleanups of the frames S, innermost first.
LEMMA CollectedIs ==
    ASSUME UnwindInv, NEW S \in SUBSET Frames
    PROVE  /\ Cardinality(S) \in Nat
           /\ Collected(S) \in Seq(Entry) /\ Len(Collected(S)) = Cardinality(S)
           /\ \A k \in 1 .. Cardinality(S) :
                 /\ NthInnermost(S, k) \in S
                 /\ Collected(S)[k].serial = stack[NthInnermost(S, k)].serial
                 /\ Collected(S)[k].home = stack[NthInnermost(S, k)].marker.home
<1>1. TypeInv /\ Len(stack) \in Nat /\ Frames = 1 .. Len(stack)  BY StackTyped DEF UnwindInv
<1>2. S \in SUBSET (0 .. Len(stack))  BY <1>1
<1>3. Cardinality(S) \in Nat  BY <1>1, <1>2, AboveCounts
<1>4. ASSUME NEW k \in 1 .. Cardinality(S)
      PROVE  /\ NthInnermost(S, k) \in S
             /\ Collected(S)[k] \in Entry
             /\ Collected(S)[k].serial = stack[NthInnermost(S, k)].serial
             /\ Collected(S)[k].home = stack[NthInnermost(S, k)].marker.home
  <2>1. NthInnermost(S, k) \in S  BY <1>1, <1>2, NthExists
  <2>2. stack[NthInnermost(S, k)] \in Frame  BY <1>1, <2>1, StackTyped
  <2>3. Collected(S)[k] = Pending(stack[NthInnermost(S, k)])  BY DEF Collected
  <2> QED  BY <2>1, <2>2, <2>3, PendingFields
<1>5. Collected(S) = [k \in 1 .. Cardinality(S) |-> Collected(S)[k]]  BY DEF Collected
<1> QED  BY <1>3, <1>4, <1>5, SeqMade

\* An error looks only at frames of its own interpreter run.
LEMMA CurtailedAre ==
    ASSUME UnwindInv, stack # << >>, NEW start \in {0} \cup Frames
    PROVE  /\ Curtailed(start) \in SUBSET Frames
           /\ \A i \in Curtailed(start) : IsHandler(stack[i].marker)
<1>1. TypeInv /\ LinkInv /\ Len(stack) \in Nat /\ Frames = 1 .. Len(stack)
  BY StackTyped, WellLinkedParts DEF UnwindInv
<1>2. CASE start = 0  BY <1>2 DEF Curtailed
<1>3. CASE start \in Frames
  <2> DEFINE E == {j \in 1 .. start : stack[j].link \in EntryLinks}
  <2>1. 1 \in E  BY <1>1, <1>3 DEF LinkInv, EntryLinks
  <2>2. E \in SUBSET (1 .. start) /\ start \in Nat  BY <1>1, <1>3
  <2>3. Innermost(E) \in E  BY <2>1, <2>2, InnermostIs
  <2>4. EntryOf(start) \in 1 .. start  BY <2>3 DEF EntryOf
  <2>5. start # 0  BY <1>1, <1>3
  <2> QED  BY <1>1, <1>3, <2>4, <2>5 DEF Curtailed
<1> QED  BY <1>2, <1>3

\* What an error that starts a pass does to the stack.
Curtails(start) ==
    /\ Cut(Len(stack))
    /\ \A j \in Frames : stack'[j].marker =
            IF j \in Curtailed(start) THEN Unmarked ELSE stack[j].marker
    /\ pass' = Collected(Curtailed(start)) /\ pc'.op = "curtail"

\* An error is raised.
LEMMA RaiseStep ==
    ASSUME UnwindInv, stack # << >>, NEW start \in {0} \cup Frames, Raise(start)
    PROVE  UnwindInv' /\ (~curtailing => Curtails(start))
<1> DEFINE C == Curtailed(start)
<1>1. TypeInv /\ LinkInv /\ HomeInv /\ Len(stack) \in Nat /\ Frames = 1 .. Len(stack)
  BY StackTyped, WellLinkedParts DEF UnwindInv
<1>2. due' \in [1 .. MaxSerial -> Int]
  <2>1. due \in [1 .. MaxSerial -> Int]  BY <1>1 DEF TypeInv
  <2> QED  BY <2>1 DEF Raise
<1>3. UNCHANGED <<stored, next, doits>>  BY DEF Raise
<1>4. CASE curtailing
  <2>1. Recover /\ curtailing' = curtailing  BY <1>4 DEF Raise
  <2> QED  BY <1>1, <1>2, <1>3, <1>4, <2>1, RecoverStep DEF TypeInv
<1>5. CASE ~curtailing
  <2>1. /\ curtailing' = TRUE /\ pass' = Collected(C) /\ nlr' = nlr
        /\ pc' = Serving("curtail", NoHome)
        /\ stack' = [i \in 1 .. Len(stack) |-> IF i \in C THEN Cleared(stack, i)[i] ELSE stack[i]]
    BY <1>5 DEF Raise
  <2>2. C \in SUBSET Frames /\ \A i \in C : IsHandler(stack[i].marker)  BY CurtailedAre
  <2> HIDE DEF C
  <2>3. ASSUME NEW i \in Frames
        PROVE  /\ stack'[i] \in Frame
               /\ stack'[i].tier = stack[i].tier /\ stack'[i].serial = stack[i].serial
               /\ stack'[i].link = stack[i].link /\ stack'[i].block = stack[i].block
               /\ stack'[i].home = stack[i].home
               /\ stack'[i].marker = IF i \in C THEN Unmarked ELSE stack[i].marker
    <3>1. stack[i] \in Frame /\ i \in DOMAIN stack  BY <1>1, StackTyped DEF TypeInv
    <3>2. Cleared(stack, i)[i] = WithMarker(stack[i], Unmarked)  BY <3>1 DEF Cleared
    <3>3. CASE i \in C
      <4>1. stack'[i] = WithMarker(stack[i], Unmarked)  BY <1>1, <2>1, <3>2, <3>3
      <4> QED  BY <3>1, <3>3, <4>1, Remarked, Records
    <3>4. CASE i \notin C
      <4>1. stack'[i] = stack[i]  BY <1>1, <2>1, <3>4
      <4> QED  BY <3>1, <3>4, <4>1
    <3> QED  BY <3>3, <3>4
  <2>4. stack' \in Seq(Frame) /\ Len(stack') = Len(stack)
    <3>1. stack' = [k \in 1 .. Len(stack) |-> stack'[k]]  BY <2>1
    <3>2. \A k \in 1 .. Len(stack) : stack'[k] \in Frame  BY <1>1, <2>3
    <3> QED  BY <1>1, <3>1, <3>2, SeqMade
  <2>5. Keeps(Len(stack))  BY <1>1, <2>3, <2>4 DEF Keeps
  <2>6. pc' \in Control /\ pc'.op = "curtail"  BY <2>1, Records
  <2>7. Curtails(start)  BY <2>1, <2>3, <2>4, <2>5, <2>6 DEF Curtails, Cut, C
  <2>8. Fresh(Len(stack))  BY <1>1, <1>3, <2>4 DEF Fresh
  <2>9. Demarked(Len(stack))  BY <1>1, <2>3, Records DEF Demarked
  <2>10. Seam(Len(stack))
    <3>1. Len(stack) >= 1 /\ stack[Len(stack)].marker.kind # "token" /\ Len(stack) \in Frames
      BY TopIs
    <3>2. stack'[Len(stack)].marker.kind # "token"  BY <2>3, <3>1, Records
    <3>3. \A j \in 1 .. Len(stack) - 1 : \/ stack'[j].marker = stack[j].marker
                                         \/ /\ IsHandler(stack[j].marker)
                                            /\ stack'[j].marker.kind = "nil"
      <4> TAKE j \in 1 .. Len(stack) - 1
      <4>1. j \in Frames  BY <1>1
      <4> QED  BY <2>2, <2>3, <4>1, Records
    <3> QED  BY <1>1, <2>4, <3>2, <3>3 DEF Seam
  <2>11. /\ Collected(C) \in Seq(Entry) /\ Len(Collected(C)) = Cardinality(C)
         /\ \A k \in 1 .. Cardinality(C) :
                 /\ NthInnermost(C, k) \in C
                 /\ Collected(C)[k].home = stack[NthInnermost(C, k)].marker.home
    BY <2>2, CollectedIs
  <2>12. TypeInv'  BY <1>1, <1>2, <1>3, <2>1, <2>4, <2>6, <2>11 DEF TypeInv
  <2>13. \A k \in 1 .. Len(pass') : RealAfter(pass'[k].home)
    <3> SUFFICES ASSUME NEW k \in 1 .. Cardinality(C)
                 PROVE  RealAfter(Collected(C)[k].home)
      BY <2>1, <2>11
    <3> DEFINE i == NthInnermost(C, k)
    <3>1. i \in Frames /\ IsHandler(stack[i].marker) /\ Collected(C)[k].home = stack[i].marker.home
      BY <2>2, <2>11
    <3> HIDE DEF i
    <3>2. stack[i].marker.home \in Home  BY <1>1, <3>1, StackTyped, FrameFields
    <3>3. Real(stack[i].marker.home)  BY <1>1, <3>1 DEF HomeInv, IsHandler
    <3>4. \A g \in Home : Real(g) => RealAfter(g)  BY <2>5, <2>8, RealStays
    <3> QED  BY <3>1, <3>2, <3>3, <3>4
  <2>14. ControlInv' /\ PassInv'
    <3>1. stack' # << >>  BY <1>1, <2>4, TopIs
    <3> QED  BY <2>6, <3>1 DEF ControlInv, PassInv
  <2>15. \A j \in 1 .. Len(stack) : \/ stack'[j].marker = stack[j].marker
                                    \/ stack'[j].marker.kind = "nil"
    BY <1>1, <2>3, Records
  <2>16. Len(stack') # Len(stack) + 1  BY <1>1, <2>4
  <2>17. stored' = stored /\ pc'.op # "unwind" /\ pc'.op # "escape"  BY <1>3, <2>6
  <2>18. UnwindInv'
    BY <2>5, <2>8, <2>9, <2>10, <2>12, <2>13, <2>14, <2>15, <2>16, <2>17, StackStep
  <2> QED  BY <2>7, <2>18
<1> QED  BY <1>4, <1>5

\* Where an error starts.
LEMMA ErrorStart ==
    ASSUME UnwindInv, Error
    PROVE  /\ stack # << >> /\ pc.op = "run"
           /\ \E start \in {0} \cup Frames : Raise(start)
<1>1. stack # << >> /\ pc.op = "run"  BY Records DEF Error, GuestRuns
<1>2. TypeInv /\ ShapeInv /\ LinkInv /\ Len(stack) \in Nat /\ Frames = 1 .. Len(stack)
  BY StackTyped, WellLinkedParts DEF UnwindInv
<1>3. Len(stack) \in Frames  BY <1>1, TopIs
<1>4. 1 \in Frames /\ stack[1].tier = "interp"
  <2>1. 1 \in Frames  BY <1>2, <1>3
  <2>2. stack[1].link = "doit"  BY <1>2, <2>1 DEF LinkInv
  <2>3. stack[1].tier \in {"interp", "native"}  BY <1>2, <2>1, StackTyped, FrameFields
  <2> QED  BY <1>2, <2>1, <2>2, <2>3 DEF ShapeInv
<1>5. Innermost({i \in 1 .. Len(stack) : stack[i].tier = "interp"}) \in Frames
  <2> DEFINE I == {i \in 1 .. Len(stack) : stack[i].tier = "interp"}
  <2>1. 1 \in I  BY <1>2, <1>4
  <2>2. Innermost(I) \in I  BY <1>2, <2>1, InnermostIs
  <2> QED  BY <1>2, <2>2
<1> QED  BY <1>1, <1>3, <1>5 DEF Error

\* An error of the guest's.
LEMMA ErrorStep ==
    ASSUME UnwindInv, Error
    PROVE  UnwindInv'
BY ErrorStart, RaiseStep

\* A `^' whose home is gone.
LEMMA CannotReturnStep ==
    ASSUME UnwindInv, CannotReturn
    PROVE  UnwindInv' /\ stack # << >> /\ Raise(Len(stack)) /\ Len(stack) \in Frames
<1>1. stack # << >>  BY WellLinkedParts DEF UnwindInv, ControlInv, CannotReturn
<1>2. Len(stack) \in Frames /\ Raise(Len(stack))  BY <1>1, TopIs DEF CannotReturn
<1>3. PICK start \in {0} \cup Frames : start = Len(stack)  BY <1>2
<1> QED  BY <1>1, <1>2, <1>3, RaiseStep

\* The cleanup of frame m starts on top of it: its marker becomes the token of an
\* unwinding, or none.
LEMMA HandleStep ==
    ASSUME UnwindInv, NEW m \in Frames, stack[m].marker.kind # "nil",
           NEW s \in Seq(Frame), Len(s) = m, \A j \in 1 .. m : s[j] = stack[j],
           NEW mark \in Marker, mark.kind \in {"nil", "token"},
           mark.kind = "token" => Real(mark.home),
           NEW link \in {"ensureRet", "unwind"}, link = "unwind" <=> mark.kind = "token",
           NEW h \in Home, Real(h),
           stack' = Handle([s EXCEPT ![m] = WithMarker(s[m], mark)], link, h),
           next' = next + 1, pc' \in Control, pc'.op = "run", due' \in [1 .. MaxSerial -> Int],
           UNCHANGED <<nlr, curtailing, pass, stored, doits>>
    PROVE  /\ UnwindInv' /\ Pushed(m, link, TRUE, h, Unmarked)
           /\ SameMarkers(m - 1) /\ stack'[m].marker = mark
<1>1. TypeInv /\ ShapeInv /\ Len(stack) \in Nat /\ Frames = 1 .. Len(stack)
  BY StackTyped DEF UnwindInv
<1>2. m \in Nat /\ m \in 0 .. Len(stack) /\ m \in DOMAIN s /\ m \in 1 .. m  BY <1>1
<1> DEFINE g == WithMarker(s[m], mark)
           t == [s EXCEPT ![m] = g]
<1>3. s[m] = stack[m] /\ stack[m] \in Frame  BY <1>1, <1>2, StackTyped
<1>4. /\ g \in Frame /\ g.marker = mark
      /\ g.tier = stack[m].tier /\ g.serial = stack[m].serial /\ g.link = stack[m].link
      /\ g.block = stack[m].block /\ g.home = stack[m].home
  BY <1>3, Remarked
<1>5. stack' = Activation(t, link, TRUE, h, Unmarked)  BY DEF Handle
<1> HIDE DEF g
<1>6. /\ t \in Seq(Frame) /\ Len(t) = m /\ t[m] = g
      /\ \A j \in 1 .. m : j # m => t[j] = stack[j]
  BY <1>2, <1>4, SeqReplaced, SeqElements
<1> HIDE DEF t
<1>7. \A j \in 1 .. m : /\ t[j].tier = stack[j].tier /\ t[j].serial = stack[j].serial
                        /\ t[j].link = stack[j].link /\ t[j].block = stack[j].block
                        /\ t[j].home = stack[j].home
  BY <1>4, <1>6
<1>8. /\ Pushed(m, link, TRUE, h, Unmarked)
      /\ \A j \in 1 .. m : stack'[j] = t[j]
  <2>1. link \in Links /\ Unmarked \in Marker /\ TRUE \in BOOLEAN  BY Records DEF Links
  <2> QED  BY <1>1, <1>2, <1>5, <1>6, <1>7, <2>1, ActivationPushes
<1>9. SameMarkers(m - 1) /\ stack'[m].marker = mark
      /\ \A j \in 1 .. m : j # m => stack'[j].marker = stack[j].marker
  <2>1. \A j \in 1 .. m - 1 : j \in 1 .. m /\ j # m  BY <1>2
  <2>2. \A j \in 1 .. m : j # m => stack'[j].marker = stack[j].marker  BY <1>6, <1>8
  <2>3. stack'[m].marker = mark  BY <1>2, <1>4, <1>6, <1>8
  <2> QED  BY <2>1, <2>2, <2>3 DEF SameMarkers
<1>10. /\ Keeps(m) /\ Len(stack') = m + 1
       /\ NewTop(m).tier = "interp" /\ NewTop(m).serial = next /\ NewTop(m).link = link
       /\ NewTop(m).marker = Unmarked /\ NewTop(m).block = TRUE /\ NewTop(m).home = h
  BY <1>8 DEF Pushed, NewTop
<1>11. Fresh(m)  BY <1>10, Records DEF Fresh
<1>12. Demarked(m)  BY <1>2, <1>9 DEF Demarked
<1>13. stack'[m].tier = "interp"
  <2>1. stack[m].tier = "interp"  BY <1>1, <1>3, FrameFields DEF ShapeInv
  <2> QED  BY <1>2, <1>10, <2>1 DEF Keeps
<1>14. Seam(m)
  <2>1. m >= 1 /\ m # 0 /\ Len(stack') # m  BY <1>1, <1>2, <1>10
  <2>2. Unmarked.kind = "nil"  BY Records
  <2>3. \A j \in 1 .. m - 1 : stack'[j].marker = stack[j].marker  BY <1>9 DEF SameMarkers
  <2> QED  BY <1>9, <1>10, <1>13, <2>1, <2>2, <2>3 DEF Seam
<1>15. TypeInv'  BY <1>1, <1>10 DEF TypeInv, Keeps
<1>16. ControlInv' /\ PassInv'  BY DEF ControlInv, PassInv
<1>17. /\ \A x \in Home : Real(x) => RealAfter(x)
       /\ \A k \in 1 .. Len(pass) : RealAfter(pass[k].home)
  BY <1>10, <1>11, RealStays
<1>18. mark.home \in Home  BY DEF Marker
<1>19. \A j \in 1 .. m : \/ stack'[j].marker = stack[j].marker
                         \/ stack'[j].marker.kind = "nil"
                         \/ RealAfter(stack'[j].marker.home)
  BY <1>2, <1>9, <1>17, <1>18
<1>20. /\ RealAfter(NewTop(m).home)
       /\ NewTop(m).marker.kind = "nil"
  BY <1>10, <1>17, Records
<1>21. UnwindInv'
  BY <1>10, <1>11, <1>12, <1>14, <1>15, <1>16, <1>17, <1>19, <1>20, StackStep
<1> QED  BY <1>8, <1>9, <1>21

\* What do_return delivers to.
Delivers ==
    /\ Cut(Len(stack) - 1)
    /\ \A j \in 1 .. Len(stack) - 1 :
          \/ stack'[j].marker = stack[j].marker
          \/ /\ stack[j].marker.kind = "token" /\ stack'[j].marker.kind = "nil"
    /\ pc'.op \in {"run", "return", "unwind", "curtail"}
    /\ pc'.op = "return" => pc'.home = NoHome
    /\ pc'.op = "curtail" <=> Top.link = "cleanup"
    /\ pc'.op = "unwind" =>
          /\ Len(stack) - 1 \in Frames /\ stack[Len(stack) - 1].marker.kind = "token"
          /\ pc'.home = stack[Len(stack) - 1].marker.home

\* do_return pops a frame.
LEMMA PopStep ==
    ASSUME UnwindInv, stack # << >>, Top.tier = "interp", PopAndDeliver,
           due' \in [1 .. MaxSerial -> Int],
           UNCHANGED <<nlr, curtailing, pass, stored, doits>>
    PROVE  UnwindInv' /\ Delivers
<1> DEFINE n == Len(stack) - 1
<1>1. TypeInv /\ ShapeInv /\ LinkInv /\ HomeInv /\ Len(stack) \in Nat /\ Frames = 1 .. Len(stack)
  BY StackTyped, WellLinkedParts DEF UnwindInv
<1>2. /\ n + 1 = Len(stack) /\ n \in Nat /\ n + 1 \in Frames /\ n \in 0 .. Len(stack)
      /\ Top = stack[n + 1] /\ Top.link \in Links
  BY TopIs
<1>3. /\ stack' = IF Top.link = "unwind" THEN Cleared(Below(n), n) ELSE Below(n)
      /\ pc' = CASE Top.link = "ensureRet" -> Serving("return", NoHome)
                 [] Top.link = "unwind"    -> Serving("unwind", stack[n].marker.home)
                 [] Top.link = "cleanup"   -> Serving("curtail", NoHome)
                 [] OTHER                  -> Running
      /\ next' = next
  BY DEF PopAndDeliver
<1> HIDE DEF n
<1>4. n >= 1 => n \in Frames  BY <1>1, <1>2
<1>5. Top.link \in {"ensureRet", "unwind", "cleanup"} => n >= 1
  BY <1>1, <1>2 DEF LinkInv
<1>6. Top.link \in {"ensureRet", "unwind"} => stack[n].tier = "interp"
  <2>1. (n + 1) - 1 = n  BY <1>2
  <2> QED  BY <1>1, <1>2, <2>1 DEF LinkInv
<1>7. n >= 1 => (stack[n].marker.kind = "token" <=> Top.link = "unwind")
  <2>1. (n + 1) - 1 = n  BY <1>2
  <2> QED  BY <1>1, <1>2, <1>4, <2>1 DEF LinkInv
<1>8. CASE Top.link # "unwind"
  <2>1. Cut(n) /\ SameMarkers(n)  BY <1>1, <1>2, <1>3, <1>8, StackCut
  <2>2. /\ pc' \in Control /\ pc'.op \in {"run", "return", "curtail"}
        /\ pc'.op = "return" => pc'.home = NoHome /\ Top.link = "ensureRet"
        /\ pc'.op = "curtail" <=> Top.link = "cleanup"
    BY <1>3, <1>8, Records
  <2>3. n >= 1 => stack[n].marker.kind # "token"  BY <1>7, <1>8
  <2>4. nlr' \in Home /\ curtailing' \in BOOLEAN  BY <1>1 DEF TypeInv
  <2>5. UnwindInv'
    <3>1. pc'.op \in {"return", "unwind"} => n >= 1 /\ stack[n].tier = "interp"
      BY <1>5, <1>6, <2>2
    <3>2. pc'.op \in {"escape", "curtail"} => n >= 1  BY <1>5, <2>2
    <3>3. pc'.op # "unwind" /\ pc'.op # "escape"  BY <2>2
    <3> QED  BY <1>3, <2>1, <2>2, <2>3, <2>4, <3>1, <3>2, <3>3, CutStep
  <2> QED  BY <2>1, <2>2, <2>5 DEF Delivers, SameMarkers, n
<1>9. CASE Top.link = "unwind"
  <2>0. n >= 1 /\ n \in Frames /\ n \in 1 .. n /\ stack[n].marker.kind = "token"
    BY <1>2, <1>4, <1>5, <1>7, <1>9
  <2>1. /\ Below(n) \in Seq(Frame) /\ Len(Below(n)) = n
        /\ \A j \in 1 .. n : Below(n)[j] = stack[j]
    BY <1>1, <1>2, BelowCuts
  <2> DEFINE g == WithMarker(stack[n], Unmarked)
  <2>2. stack[n] \in Frame /\ Below(n)[n] = stack[n]  BY <1>1, <2>0, <2>1, StackTyped
  <2>3. /\ g \in Frame /\ g.marker = Unmarked
        /\ g.tier = stack[n].tier /\ g.serial = stack[n].serial /\ g.link = stack[n].link
        /\ g.block = stack[n].block /\ g.home = stack[n].home
    <3>1. Unmarked \in Marker  BY Records
    <3> QED  BY <2>2, <3>1, Remarked
  <2>4. stack' = [Below(n) EXCEPT ![n] = g]  BY <1>3, <1>9, <2>2 DEF Cleared
  <2> HIDE DEF g
  <2>5. n \in DOMAIN Below(n)  BY <2>0, <2>1, SeqElements
  <2>6. /\ stack' \in Seq(Frame) /\ Len(stack') = n /\ stack'[n] = g
        /\ \A j \in 1 .. n : j # n => stack'[j] = stack[j]
    BY <2>1, <2>3, <2>4, <2>5, SeqReplaced, SeqElements
  <2>7. Keeps(n)  BY <1>2, <2>3, <2>6 DEF Keeps
  <2>8. \A j \in 1 .. n : \/ stack'[j].marker = stack[j].marker
                          \/ j = n /\ stack'[j].marker.kind = "nil"
    BY <2>3, <2>6, Records
  <2>9. /\ pc' \in Control /\ pc'.op = "unwind" /\ pc'.home = stack[n].marker.home
        /\ stack[n].marker.home \in Home /\ Real(stack[n].marker.home)
    <3>1. stack[n].marker.home \in Home  BY <2>2, FrameFields
    <3>2. Real(stack[n].marker.home)  BY <1>1, <2>0 DEF HomeInv
    <3>3. pc' = Serving("unwind", stack[n].marker.home)  BY <1>3, <1>9
    <3> QED  BY <3>1, <3>2, <3>3, Records
  <2>10. Fresh(n) /\ Demarked(n)  BY <1>2, <1>3, <2>6, <2>8 DEF Fresh, Demarked
  <2>11. Seam(n)
    <3>1. \A j \in 1 .. n - 1 : stack'[j].marker = stack[j].marker  BY <1>2, <2>6
    <3>2. stack'[n].marker.kind = "nil"  BY <2>3, <2>6, Records
    <3> QED  BY <1>2, <2>6, <3>1, <3>2 DEF Seam
  <2>12. TypeInv'  BY <1>1, <1>3, <2>6, <2>9 DEF TypeInv
  <2>13. ControlInv' /\ PassInv'
    <3>1. stack' # << >> /\ Top' = stack'[n] /\ stack'[n].tier = "interp"
      BY <1>6, <1>9, <2>0, <2>3, <2>6 DEF Top
    <3> QED  BY <2>9, <3>1 DEF ControlInv, PassInv
  <2>14. /\ \A x \in Home : Real(x) => RealAfter(x)
         /\ \A k \in 1 .. Len(pass) : RealAfter(pass[k].home)
    BY <2>7, <2>10, RealStays
  <2>15. RealAfter(pc'.home) /\ pc'.op # "escape"  BY <2>9, <2>14
  <2>16. Len(stack') # n + 1 /\ stored' = stored /\ pass' = pass  BY <1>2, <2>6
  <2>17. UnwindInv'
    BY <2>7, <2>8, <2>10, <2>11, <2>12, <2>13, <2>14, <2>15, <2>16, StackStep
  <2>18. Delivers
    <3>1. Cut(n)  BY <2>6, <2>7 DEF Cut
    <3> QED  BY <1>9, <2>0, <2>8, <2>9, <3>1 DEF Delivers, n
  <2> QED  BY <2>17, <2>18
<1> QED  BY <1>8, <1>9

\* The three ways through do_return.
LEMMA DoReturnStep ==
    ASSUME UnwindInv, DoReturn
    PROVE  /\ UnwindInv' /\ stack # << >>
           /\ \/ Top.marker.kind = "nil" /\ due' = due /\ Delivers /\ next' = next
              \/ Top.marker.kind = "ifCurtailed" /\ due' = Discharged(Top.serial) /\ Delivers
                 /\ next' = next
              \/ /\ Top.marker.kind = "ensure" /\ due' = Discharged(Top.serial)
                 /\ Pushed(Len(stack), "ensureRet", TRUE, Top.marker.home, Unmarked)
                 /\ SameMarkers(Len(stack) - 1) /\ stack'[Len(stack)].marker = Unmarked
                 /\ pc'.op = "run"
<1>1. /\ TypeInv /\ stack # << >> /\ Top.tier = "interp"
      /\ UNCHANGED <<nlr, curtailing, pass, stored, doits>>
  BY DEF UnwindInv, DoReturn
<1>2. due \in [1 .. MaxSerial -> Int] /\ Discharged(Top.serial) \in [1 .. MaxSerial -> Int]
  BY <1>1, DueTyped DEF TypeInv
<1>3. CASE Top.marker.kind = "nil"
  <2>1. PopAndDeliver /\ due' = due /\ next' = next  BY <1>3 DEF DoReturn, PopAndDeliver
  <2> QED  BY <1>1, <1>2, <1>3, <2>1, PopStep
<1>4. CASE Top.marker.kind = "ifCurtailed"
  <2>1. PopAndDeliver /\ due' = Discharged(Top.serial) /\ next' = next
    BY <1>4 DEF DoReturn, PopAndDeliver
  <2> QED  BY <1>1, <1>2, <1>4, <2>1, PopStep
<1>5. CASE Top.marker.kind = "ensure"
  <2>1. InterceptEnsureReturn /\ due' = Discharged(Top.serial)  BY <1>5 DEF DoReturn
  <2>2. /\ stack' = Handle(Cleared(stack, Len(stack)), "ensureRet", Top.marker.home)
        /\ next' = next + 1 /\ pc' = Running
    BY <2>1 DEF InterceptEnsureReturn
  <2>3. PICK m \in Frames, h \in Home :
           /\ m = Len(stack) /\ h = Top.marker.home /\ Real(h) /\ Top = stack[m]
    BY <1>1, <1>5, TopIs
  <2>4. PICK s \in Seq(Frame) : s = stack  BY <1>1 DEF TypeInv
  <2>5. stack' = Handle([s EXCEPT ![m] = WithMarker(s[m], Unmarked)], "ensureRet", h)
    BY <2>2, <2>3, <2>4 DEF Cleared
  <2>6. Unmarked \in Marker /\ Unmarked.kind = "nil" /\ pc' \in Control /\ pc'.op = "run"
    BY <2>2, Records
  <2>7. /\ UnwindInv' /\ Pushed(m, "ensureRet", TRUE, h, Unmarked)
        /\ SameMarkers(m - 1) /\ stack'[m].marker = Unmarked
    <3>1. stack[m].marker.kind # "nil"  BY <1>5, <2>3
    <3>2. Len(s) = m /\ \A j \in 1 .. m : s[j] = stack[j]  BY <2>3, <2>4
    <3>3. due' \in [1 .. MaxSerial -> Int]  BY <1>2, <2>1
    <3>4. Unmarked.kind \in {"nil", "token"} /\ (Unmarked.kind = "token" => Real(Unmarked.home))
      BY <2>6
    <3>5. /\ "ensureRet" \in {"ensureRet", "unwind"}
          /\ "ensureRet" = "unwind" <=> Unmarked.kind = "token"
      BY <2>6
    <3>6. next' = next + 1 /\ UNCHANGED <<nlr, curtailing, pass, stored, doits>>  BY <1>1, <2>2
    <3>7. Unmarked \in Marker /\ pc' \in Control /\ pc'.op = "run" /\ Real(h)  BY <2>3, <2>6
    <3> QED
      BY <1>1, <2>5, <3>1, <3>2, <3>3, <3>4, <3>5, <3>6, <3>7, HandleStep, ZenonT(30)
  <2> QED  BY <1>1, <1>5, <2>1, <2>3, <2>6, <2>7
<1> QED  BY <1>3, <1>4, <1>5 DEF DoReturn

\* Where the scan of an unwinding stops: at or above a live home, with no armed
\* frame and no entry frame above.
LEMMA ScanStops ==
    ASSUME UnwindInv, pc.op = "unwind", HomeIsLive(pc.home)
    PROVE  /\ ScanStop(pc.home) \in Frames /\ pc.home.fp \in Frames
           /\ pc.home.fp <= ScanStop(pc.home)
           /\ \/ ScanStop(pc.home) = pc.home.fp
              \/ IsHandler(stack[ScanStop(pc.home)].marker)
              \/ stack[ScanStop(pc.home)].link \in EntryLinks
           /\ \A j \in Frames : j > ScanStop(pc.home) =>
                 ~IsHandler(stack[j].marker) /\ stack[j].link \notin EntryLinks
           /\ stack[pc.home.fp].tier = "interp" /\ stack[pc.home.fp].marker.kind = "nil"
           /\ stack[pc.home.fp].serial = pc.home.serial
           /\ pc.home \in Home /\ Real(pc.home)
<1>1. TypeInv /\ ShapeInv /\ HomeInv /\ Len(stack) \in Nat /\ Frames = 1 .. Len(stack)
  BY StackTyped DEF UnwindInv
<1>2. pc.home \in Home /\ Real(pc.home)  BY <1>1 DEF TypeInv, Control, HomeInv
<1>3. pc.home.fp \in Frames /\ stack[pc.home.fp].serial = pc.home.serial
  BY <1>1 DEF HomeIsLive
<1> DEFINE S == {i \in 1 .. Len(stack) :
                    i = pc.home.fp \/ IsHandler(stack[i].marker) \/ stack[i].link \in EntryLinks}
<1>4. pc.home.fp \in S  BY <1>1, <1>3
<1>5. ScanStop(pc.home) \in S /\ \A j \in S : j <= ScanStop(pc.home)
  <2>1. S \in SUBSET (1 .. Len(stack)) /\ S # {}  BY <1>4
  <2>2. ScanStop(pc.home) = Innermost(S)  BY DEF ScanStop
  <2> HIDE DEF S
  <2> QED  BY <1>1, <2>1, <2>2, InnermostIs
<1>6. \A j \in Frames : j > ScanStop(pc.home) =>
         ~IsHandler(stack[j].marker) /\ stack[j].link \notin EntryLinks
  BY <1>1, <1>5
<1>7. stack[pc.home.fp].tier = "interp" /\ stack[pc.home.fp].marker.kind = "nil"
  <2> DEFINE f == stack[pc.home.fp]
  <2>1. f \in Frame /\ ~f.block /\ f.serial # 0  BY <1>1, <1>2, <1>3, StackTyped DEF Real
  <2>2. f.tier \in {"interp", "native"}  BY <2>1, FrameFields
  <2> QED  BY <1>1, <1>3, <2>1, <2>2 DEF ShapeInv
<1> QED  BY <1>1, <1>2, <1>3, <1>4, <1>5, <1>6, <1>7

\* A `^' gets to its home.
LEMMA ReachedHomeStep ==
    ASSUME UnwindInv, ReachedHome
    PROVE  UnwindInv' /\ Cut(pc.home.fp) /\ SameMarkers(pc.home.fp)
<1>1. /\ TypeInv /\ pc.op = "unwind" /\ HomeIsLive(pc.home) /\ stack' = Below(pc.home.fp)
      /\ pc' = Serving("return", pc.home)
      /\ UNCHANGED <<nlr, curtailing, pass, stored, next, doits, due>>
  BY DEF ReachedHome, UnwindInv
<1>2. PICK m \in Frames : m = pc.home.fp  BY <1>1, ScanStops
<1>3. stack[m].tier = "interp" /\ stack[m].marker.kind = "nil" /\ pc.home \in Home
  BY <1>1, <1>2, ScanStops
<1>4. m \in Nat /\ m >= 1 /\ m \in 0 .. Len(stack)  BY <1>1, StackTyped
<1>5. Cut(m) /\ SameMarkers(m)  BY <1>1, <1>2, <1>4, StackCut
<1>6. pc' \in Control /\ pc'.op = "return"  BY <1>1, <1>3, Records
<1>7. nlr' \in Home /\ curtailing' \in BOOLEAN /\ due' \in [1 .. MaxSerial -> Int]
  BY <1>1 DEF TypeInv
<1>8. UnwindInv'  BY <1>1, <1>3, <1>4, <1>5, <1>6, <1>7, CutStep
<1> QED  BY <1>2, <1>5, <1>8

\* A `^' leaves an interpreter run.
LEMMA EscapedStep ==
    ASSUME UnwindInv, Escaped
    PROVE  LET i == ScanStop(pc.home) IN
           /\ UnwindInv' /\ Cut(i - 1) /\ SameMarkers(i - 1)
           /\ i \in Frames /\ pc.home.fp < i /\ stack[i].link \in EntryLinks \ {"doit"}
           /\ ~IsHandler(stack[i].marker)
           /\ stack[i].link = "c2i" => pc'.op = "escape"
           /\ stack[i].link = "cleanup" => pc'.op = "curtail"
           /\ stack[i].link = "perform" => pc'.op = "run"
<1>1. TypeInv /\ LinkInv /\ Len(stack) \in Nat /\ Frames = 1 .. Len(stack)
  BY StackTyped, WellLinkedParts DEF UnwindInv
<1>2. /\ pc.op = "unwind" /\ HomeIsLive(pc.home) /\ ScanStop(pc.home) # pc.home.fp
      /\ ~IsHandler(stack[ScanStop(pc.home)].marker)
      /\ stack' = Below(ScanStop(pc.home) - 1) /\ nlr' = pc.home
      /\ pc' = AfterEscape(stack[ScanStop(pc.home)].link)
      /\ UNCHANGED <<curtailing, pass, stored, next, doits, due>>
  BY DEF Escaped
<1>3. PICK i \in Frames : i = ScanStop(pc.home)  BY <1>2, ScanStops
<1>4. /\ i \in Nat /\ pc.home.fp \in Nat /\ pc.home.fp >= 1 /\ pc.home.fp < i
      /\ pc.home \in Home /\ Real(pc.home)
  <2>1. pc.home.fp \in Frames /\ pc.home.fp <= i /\ pc.home \in Home /\ Real(pc.home)
    BY <1>2, <1>3, ScanStops
  <2> QED  BY <1>1, <1>2, <1>3, <2>1
<1>5. i # 1 /\ i - 1 \in Frames /\ i - 1 \in 0 .. Len(stack) /\ i - 1 >= 1 /\ (i - 1) + 1 = i
  BY <1>1, <1>4
<1>6. stack[i].link \in EntryLinks \ {"doit"}
  <2>1. stack[i].link \in EntryLinks  BY <1>2, <1>3, ScanStops
  <2> QED  BY <1>1, <1>5, <2>1 DEF LinkInv
<1>7. stack[i - 1].marker.kind # "token"
  BY <1>1, <1>5, <1>6 DEF LinkInv, EntryLinks
<1>8. PICK m \in Nat : m = i - 1  BY <1>5
<1>9. Cut(m) /\ SameMarkers(m)  BY <1>1, <1>2, <1>3, <1>5, <1>8, StackCut
<1>10. /\ pc' \in Control /\ pc'.op \in {"run", "escape", "curtail"}
       /\ stack[i].link = "c2i" => pc'.op = "escape"
       /\ stack[i].link = "cleanup" => pc'.op = "curtail"
       /\ stack[i].link = "perform" => pc'.op = "run"
  BY <1>2, <1>3, <1>6, Records DEF AfterEscape, EntryLinks
<1>11. UnwindInv'
  <2>1. curtailing' \in BOOLEAN /\ due' \in [1 .. MaxSerial -> Int]  BY <1>1, <1>2 DEF TypeInv
  <2> QED  BY <1>2, <1>4, <1>5, <1>7, <1>8, <1>9, <1>10, <2>1, CutStep
<1> QED  BY <1>2, <1>3, <1>4, <1>6, <1>8, <1>9, <1>10, <1>11

\* A `^' waits for a cleanup.
LEMMA RanHandlerStep ==
    ASSUME UnwindInv, RanHandler
    PROVE  LET i == ScanStop(pc.home) IN
           /\ UnwindInv' /\ i \in Frames /\ pc.home.fp < i /\ IsHandler(stack[i].marker)
           /\ Pushed(i, "unwind", TRUE, stack[i].marker.home, Unmarked)
           /\ SameMarkers(i - 1) /\ stack'[i].marker = Token(pc.home)
           /\ due' = Discharged(stack[i].serial)
<1>1. TypeInv /\ HomeInv /\ Len(stack) \in Nat /\ Frames = 1 .. Len(stack)
  BY StackTyped DEF UnwindInv
<1>2. /\ pc.op = "unwind" /\ HomeIsLive(pc.home) /\ ScanStop(pc.home) # pc.home.fp
      /\ IsHandler(stack[ScanStop(pc.home)].marker)
      /\ stack' = Handle([Below(ScanStop(pc.home)) EXCEPT
                             ![ScanStop(pc.home)] = WithMarker(@, Token(pc.home))],
                         "unwind", stack[ScanStop(pc.home)].marker.home)
      /\ next' = next + 1 /\ due' = Discharged(stack[ScanStop(pc.home)].serial) /\ pc' = Running
      /\ UNCHANGED <<nlr, curtailing, pass, stored, doits>>
  BY DEF RanHandler
<1>3. PICK i \in Frames : i = ScanStop(pc.home)  BY <1>2, ScanStops
<1>4. /\ i \in Nat /\ i \in 0 .. Len(stack) /\ pc.home.fp < i
      /\ pc.home \in Home /\ Real(pc.home)
  <2>1. pc.home.fp \in Frames /\ pc.home.fp <= i /\ pc.home \in Home /\ Real(pc.home)
    BY <1>2, <1>3, ScanStops
  <2> QED  BY <1>1, <1>2, <1>3, <2>1
<1>5. stack[i].marker.kind # "nil"  BY <1>2, <1>3 DEF IsHandler
<1>6. PICK h \in Home : h = stack[i].marker.home /\ Real(h)
  <2>1. stack[i].marker.home \in Home  BY <1>1, StackTyped, FrameFields
  <2> QED  BY <1>1, <1>5, <2>1 DEF HomeInv
<1>7. PICK s \in Seq(Frame) : s = Below(i) /\ Len(s) = i /\ \A j \in 1 .. i : s[j] = stack[j]
  BY <1>1, <1>4, BelowCuts
<1>8. PICK mark \in Marker : /\ mark = Token(pc.home) /\ mark.kind = "token" /\ mark.home = pc.home
  BY <1>4, Records
<1>9. stack' = Handle([s EXCEPT ![i] = WithMarker(s[i], mark)], "unwind", h)
  BY <1>2, <1>3, <1>6, <1>7, <1>8
<1>10. pc' \in Control /\ pc'.op = "run" /\ due' \in [1 .. MaxSerial -> Int]
  BY <1>1, <1>2, Records, DueTyped
<1>11. /\ UnwindInv' /\ Pushed(i, "unwind", TRUE, h, Unmarked)
       /\ SameMarkers(i - 1) /\ stack'[i].marker = mark
  BY <1>2, <1>4, <1>5, <1>6, <1>7, <1>8, <1>9, <1>10, HandleStep
<1> QED  BY <1>2, <1>3, <1>4, <1>6, <1>8, <1>11

-----------------------------------------------------------------------------
\* UnwindInv holds at the start.
LEMMA UnwindInit == Init => UnwindInv
<1> SUFFICES ASSUME Init PROVE UnwindInv  OBVIOUS
<1>1. TypeInv
  <2>1. << >> \in Seq(Frame) /\ << >> \in Seq(Entry)  OBVIOUS
  <2>2. [s \in 1 .. MaxSerial |-> 0] \in [1 .. MaxSerial -> Int]  OBVIOUS
  <2>3. NoHome \in Home /\ Running \in Control  BY Records
  <2>4. 1 \in Nat \ {0} /\ 0 \in Nat  OBVIOUS
  <2> QED  BY <2>1, <2>2, <2>3, <2>4 DEF Init, TypeInv
<1>2. stack = << >> /\ Frames = {} /\ pass = << >> /\ stored = NoHome /\ pc.op = "run"
  BY Records DEF Init, Frames
<1>3. ShapeInv /\ SerialInv /\ PassInv  BY <1>2 DEF ShapeInv, SerialInv, PassInv
<1>4. HomeInv  BY <1>2 DEF HomeInv, Known
<1>5. FramesWellLinked  BY <1>2 DEF FramesWellLinked
<1> QED  BY <1>1, <1>3, <1>4, <1>5 DEF UnwindInv

\* Every step keeps it.
LEMMA UnwindStep == UnwindInv /\ [Next]_vars => UnwindInv'
<1> SUFFICES ASSUME UnwindInv, [Next]_vars PROVE UnwindInv'  OBVIOUS
<1>1. CASE Doit  BY <1>1, DoitStep DEF GuestCall
<1>2. CASE SendMethod  BY <1>2, SendStep DEF GuestCall
<1>3. CASE Perform  BY <1>3, PerformStep DEF GuestCall
<1>4. CASE Value  BY <1>4, ValueStep DEF GuestCall
<1>5. CASE EnsureLike  BY <1>5, EnsureStep DEF GuestCall
<1>6. CASE EnterCompiled  BY <1>6, EnterCompiledStep
<1>7. CASE ReturnCompiled  BY <1>7, ReturnCompiledStep
<1>8. CASE Deoptimize  BY <1>8, DeoptimizeStep
<1>9. CASE StoreClosure  BY <1>9, StoreClosureStep
<1>10. CASE DoReturn  BY <1>10, DoReturnStep
<1>11. CASE Error  BY <1>11, ErrorStep
<1>12. CASE RunCleanup  BY <1>12, RunCleanupStep DEF GuestCall
<1>13. CASE EndCurtailment  BY <1>13, EndCurtailmentStep
<1>14. CASE NlrTos  BY <1>14, NlrTosStep
<1>15. CASE NlrOriginate  BY <1>15, NlrOriginateStep
<1>16. CASE CannotReturn  BY <1>16, CannotReturnStep
<1>17. CASE ReachedHome  BY <1>17, ReachedHomeStep
<1>18. CASE RanHandler  BY <1>18, RanHandlerStep
<1>19. CASE Escaped  BY <1>19, EscapedStep
<1>20. CASE Relay  BY <1>20, RelayStep
<1>21. CASE TakeUp  BY <1>21, TakeUpStep
<1>22. CASE UNCHANGED vars  BY <1>22, IdleStep
<1> QED
  BY <1>1, <1>2, <1>3, <1>4, <1>5, <1>6, <1>7, <1>8, <1>9, <1>10, <1>11, <1>12, <1>13,
     <1>14, <1>15, <1>16, <1>17, <1>18, <1>19, <1>20, <1>21, <1>22 DEF Next, Idle

\* The frames below one always fit its link, whatever cleanups, performed methods
\* and errors do: the panics and unreachable!() of unwind.rs are never reached, on
\* stacks of every depth.
THEOREM FramesAlwaysWellLinked == Spec => []FramesWellLinked
<1>1. UnwindInv => FramesWellLinked  BY DEF UnwindInv
<1> QED  BY <1>1, UnwindInit, UnwindStep, PTL DEF Spec

-----------------------------------------------------------------------------
(* A `^' reaches its home. *)

\* Anchored, of the state a step leads to.
AnchoredAfter(h, m) == h.fp \in 1 .. m - 1 /\ stack'[h.fp].serial = h.serial

\* Kept frames keep the homes of their tokens.
LEMMA KeptAnchored ==
    ASSUME TypeInv, NEW m, Keeps(m), NEW h \in Home, NEW i \in 0 .. m, Anchored(h, i)
    PROVE  AnchoredAfter(h, i)
<1>1. m \in Nat /\ h.fp \in Nat /\ i \in Nat /\ i <= m  BY StackTyped, Records DEF Keeps
<1>2. \A j \in 1 .. i : stack'[j].serial = stack[j].serial  BY <1>1 DEF Keeps
<1>3. h.fp \in 1 .. i - 1 /\ h.fp \in 1 .. i /\ stack[h.fp].serial = h.serial
  BY <1>1 DEF Anchored
<1> QED  BY <1>2, <1>3 DEF AnchoredAfter

\* A step preserves NlrInv if the home of every token it writes is below, and it
\* parks no return but one that is on its way or let go.
LEMMA NlrKept ==
    ASSUME UnwindInv, UnwindInv', NlrInv, NEW m, Keeps(m), Len(stack') \in {m, m + 1},
           \A j \in 1 .. m : \/ stack'[j].marker = stack[j].marker
                             \/ stack'[j].marker.kind # "token"
                             \/ AnchoredAfter(stack'[j].marker.home, j),
           pc'.op = "return" /\ pc'.home # NoHome => stack'[Len(stack')].serial = pc'.home.serial,
           nlr' # NoHome => pc'.op = "escape" \/ lost'
    PROVE  NlrInv'
<1>1. TypeInv /\ LinkInv' /\ Len(stack) \in Nat /\ Frames = 1 .. Len(stack)
  <2>1. TypeInv  BY DEF UnwindInv
  <2>2. FramesWellLinked'  BY DEF UnwindInv
  <2>3. LinkInv'  BY <2>2 DEF FramesWellLinked, LinkInv
  <2> QED  BY <2>1, <2>3, StackTyped
<1>2. m \in Nat /\ m <= Len(stack)  BY <1>1 DEF Keeps
<1>3. ASSUME NEW i \in 1 .. Len(stack'), stack'[i].marker.kind = "token"
      PROVE  AnchoredAfter(stack'[i].marker.home, i)
  <2>1. i < Len(stack')  BY <1>1, <1>3 DEF LinkInv, Frames
  <2>2. i \in 1 .. m /\ i \in Frames /\ i \in 0 .. m  BY <1>1, <1>2, <2>1
  <2>3. CASE stack'[i].marker = stack[i].marker
    <3>1. stack[i].marker.home \in Home  BY <1>1, <2>2, StackTyped, FrameFields
    <3>2. Anchored(stack[i].marker.home, i)  BY <1>3, <2>2, <2>3 DEF NlrInv
    <3> QED  BY <1>1, <2>2, <2>3, <3>1, <3>2, KeptAnchored
  <2> QED  BY <1>3, <2>2, <2>3
<1> QED  BY <1>3 DEF NlrInv, Anchored, AnchoredAfter, Frames, Top

\* A step of the guest or the end of one, when nothing is on its way.
LEMMA NlrQuiet ==
    ASSUME UnwindInv, UnwindInv', NlrInv, NEW m, Keeps(m), Len(stack') \in {m, m + 1},
           \A j \in 1 .. m : \/ stack'[j].marker = stack[j].marker
                             \/ stack'[j].marker.kind # "token",
           pc.op # "escape", (nlr' = nlr /\ lost' = lost) \/ nlr' = NoHome,
           pc'.op \in {"run", "curtail"}
    PROVE  NlrInv'
<1>1. nlr' # NoHome => lost'  BY DEF NlrInv
<1> QED  BY <1>1, NlrKept

\* NlrInv holds at the start.
LEMMA NlrInit == Init => NlrInv
<1> SUFFICES ASSUME Init PROVE NlrInv  OBVIOUS
<1>1. pc.op = "run" /\ nlr = NoHome /\ Frames = {}  BY Records DEF Init, Frames
<1> QED  BY <1>1 DEF NlrInv

\* Calls.
LEMMA NlrCall ==
    ASSUME UnwindInv, NlrInv, NEW link, NEW block, NEW h, NEW marker,
           GuestCall(link, block, h, marker), pc.op # "escape", pc'.op = "run",
           nlr' = nlr, lost' = lost
    PROVE  NlrInv'
<1>1. UnwindInv' /\ Keeps(Len(stack)) /\ Len(stack') = Len(stack) + 1 /\ SameMarkers(Len(stack))
  BY DEF GuestCall, Pushed
<1> QED  BY <1>1, NlrQuiet DEF SameMarkers

\* Returns.
LEMMA NlrReturn ==
    ASSUME UnwindInv, NlrInv, DoReturn
    PROVE  NlrInv'
<1>1. UnwindInv' /\ stack # << >> /\ TypeInv /\ Len(stack) \in Nat /\ Len(stack) >= 1
      /\ Frames = 1 .. Len(stack)
  BY DoReturnStep, TopIs, StackTyped DEF UnwindInv
<1>2. nlr' = nlr /\ lost' = lost /\ pc.op \in {"run", "return"}  BY DEF DoReturn
<1>3. nlr' # NoHome => lost'  BY <1>2 DEF NlrInv
<1>4. CASE Delivers
  <2>1. PICK m \in Nat : m = Len(stack) - 1  BY <1>1
  <2>2. Keeps(m) /\ Len(stack') = m  BY <1>4, <2>1 DEF Delivers, Cut
  <2>3. \A j \in 1 .. m : \/ stack'[j].marker = stack[j].marker
                          \/ stack'[j].marker.kind # "token"
    BY <1>4, <2>1 DEF Delivers
  <2>4. pc'.op = "return" => pc'.home = NoHome  BY <1>4 DEF Delivers
  <2> QED  BY <1>1, <1>3, <2>2, <2>3, <2>4, NlrKept
<1>5. CASE /\ Pushed(Len(stack), "ensureRet", TRUE, Top.marker.home, Unmarked)
           /\ SameMarkers(Len(stack) - 1) /\ stack'[Len(stack)].marker = Unmarked
           /\ pc'.op = "run"
  <2>1. Keeps(Len(stack)) /\ Len(stack') = Len(stack) + 1  BY <1>5 DEF Pushed
  <2>2. \A j \in 1 .. Len(stack) : \/ stack'[j].marker = stack[j].marker
                                   \/ stack'[j].marker.kind # "token"
    <3> TAKE j \in 1 .. Len(stack)
    <3>1. CASE j = Len(stack)  BY <1>5, <3>1, Records
    <3>2. CASE j # Len(stack)
      <4>1. j \in 1 .. Len(stack) - 1  BY <1>1, <3>2
      <4> QED  BY <1>5, <4>1 DEF SameMarkers
    <3> QED  BY <3>1, <3>2
  <2> QED  BY <1>1, <1>2, <1>5, <2>1, <2>2, NlrQuiet
<1> QED  BY <1>4, <1>5, DoReturnStep

\* Errors.
LEMMA NlrRaise ==
    ASSUME UnwindInv, NlrInv, UnwindInv', stack # << >>, NEW start \in {0} \cup Frames,
           Raise(start), pc.op # "escape"
    PROVE  NlrInv'
<1>1. Len(stack) \in Nat /\ Frames = 1 .. Len(stack)  BY StackTyped DEF UnwindInv
<1>2. CASE curtailing
  <2>1. Recover  BY <1>2 DEF Raise
  <2>2. stack' = << >> /\ nlr' = NoHome /\ pc'.op = "run"  BY <2>1, Records DEF Recover
  <2>3. Keeps(0) /\ Len(stack') = 0  BY <1>1, <2>2 DEF Keeps
  <2> QED  BY <2>2, <2>3, NlrQuiet
<1>3. CASE ~curtailing
  <2>1. Curtails(start)  BY <1>3, RaiseStep
  <2>2. nlr' = nlr /\ lost' = lost  BY <1>3 DEF Raise
  <2>3. Keeps(Len(stack)) /\ Len(stack') = Len(stack) /\ pc'.op = "curtail"
    BY <2>1 DEF Curtails, Cut
  <2>4. \A j \in 1 .. Len(stack) : \/ stack'[j].marker = stack[j].marker
                                   \/ stack'[j].marker.kind # "token"
    BY <1>1, <2>1, Records DEF Curtails
  <2> QED  BY <2>2, <2>3, <2>4, NlrQuiet
<1> QED  BY <1>2, <1>3

\* Compiled code: it may only be left.
LEMMA NlrCompiled ==
    ASSUME UnwindInv, NlrInv, ReturnCompiled \/ NlrOriginate \/ Relay
    PROVE  NlrInv'
<1>1. UnwindInv'  BY ReturnCompiledStep, NlrOriginateStep, RelayStep
<1>2. TypeInv /\ stack # << >> /\ Top.tier = "native" /\ stack' = Below(Len(stack) - 1)
  BY WellLinkedParts DEF UnwindInv, ControlInv, ReturnCompiled, NlrOriginate, Relay, GuestRuns
<1>3. Len(stack) \in Nat  BY <1>2, TopIs
<1>4. PICK m \in Nat : m = Len(stack) - 1 /\ m >= 1  BY <1>2, <1>3, NativeTop
<1>5. Keeps(m) /\ Len(stack') = m /\ SameMarkers(m)  BY <1>2, <1>4, NativeTop DEF Cut
<1>6. CASE ReturnCompiled
  <2>1. pc.op = "run" /\ pc' = pc /\ nlr' = nlr /\ lost' = lost
    BY <1>6, Records DEF ReturnCompiled, GuestRuns
  <2> QED  BY <1>1, <1>5, <2>1, NlrQuiet DEF SameMarkers
<1>7. CASE NlrOriginate \/ Relay
  <2>1. pc'.op = "escape"  BY <1>7, Records DEF NlrOriginate, Relay
  <2> QED  BY <1>1, <1>5, <2>1, NlrKept DEF SameMarkers
<1> QED  BY <1>6, <1>7

\* A `^' begins, and one is taken up again: the stack stays.
LEMMA NlrBegins ==
    ASSUME UnwindInv, NlrInv, NlrTos \/ TakeUp
    PROVE  NlrInv'
<1>1. UnwindInv' /\ stack' = stack  BY NlrTosStep, TakeUpStep DEF NlrTos, TakeUp
<1>2. Keeps(Len(stack)) /\ Len(stack') = Len(stack) /\ SameMarkers(Len(stack))
  BY <1>1, StayStep DEF Cut
<1>3. CASE NlrTos
  <2>1. nlr' = nlr /\ lost' = lost /\ pc.op = "run" /\ stack # << >>
    BY <1>3, Records DEF NlrTos, GuestRuns
  <2>2. Top.home \in Home  BY <2>1, TopIs
  <2>3. pc'.op = "unwind"  BY <1>3, <2>2, Records DEF NlrTos
  <2>4. nlr' # NoHome => lost'  BY <2>1 DEF NlrInv
  <2> QED  BY <1>1, <1>2, <2>3, <2>4, NlrKept DEF SameMarkers
<1>4. CASE TakeUp
  <2>1. nlr' = NoHome /\ pc' = Serving("unwind", nlr) /\ nlr \in Home
    BY <1>4 DEF TakeUp, UnwindInv, TypeInv
  <2>2. pc'.op = "unwind"  BY <2>1, Records
  <2> QED  BY <1>1, <1>2, <2>1, <2>2, NlrKept DEF SameMarkers
<1> QED  BY <1>3, <1>4

\* continue_unwind with a live home.
LEMMA NlrUnwinds ==
    ASSUME UnwindInv, NlrInv, ReachedHome \/ RanHandler \/ Escaped
    PROVE  NlrInv'
<1>1. pc.op = "unwind" /\ HomeIsLive(pc.home)  BY DEF ReachedHome, RanHandler, Escaped
<1>2. TypeInv /\ Len(stack) \in Nat /\ Frames = 1 .. Len(stack)  BY StackTyped DEF UnwindInv
<1>3. nlr # NoHome => lost  BY <1>1 DEF NlrInv
<1>4. PICK h \in Home : /\ h = pc.home /\ h.fp \in Frames /\ stack[h.fp].serial = h.serial
  BY <1>1, ScanStops
<1>5. PICK i \in Frames : i = ScanStop(pc.home)  BY <1>1, ScanStops
<1>6. i \in Nat /\ h.fp \in Nat /\ h.fp <= i  BY <1>1, <1>2, <1>4, <1>5, ScanStops
<1>7. CASE ReachedHome
  <2>1. UnwindInv' /\ Keeps(h.fp) /\ Len(stack') = h.fp /\ SameMarkers(h.fp)
    BY <1>4, <1>7, ReachedHomeStep DEF Cut
  <2>2. pc'.op = "return" /\ pc'.home = h /\ nlr' = nlr /\ lost' = lost
    BY <1>4, <1>7, Records DEF ReachedHome
  <2>3. stack'[h.fp].serial = h.serial
    <3>1. h.fp \in 1 .. h.fp  BY <1>2, <1>4, <1>6
    <3> QED  BY <1>4, <2>1, <3>1 DEF Keeps
  <2> QED  BY <1>3, <2>1, <2>2, <2>3, NlrKept DEF SameMarkers
<1>8. CASE RanHandler
  <2>1. /\ UnwindInv' /\ h.fp < i /\ Keeps(i) /\ Len(stack') = i + 1
        /\ SameMarkers(i - 1) /\ stack'[i].marker = Token(h)
    BY <1>4, <1>5, <1>8, RanHandlerStep DEF Pushed
  <2>2. Token(h).home = h  BY Records
  <2>3. pc'.op = "run" /\ nlr' = nlr /\ lost' = lost  BY <1>8, Records DEF RanHandler
  <2>4. AnchoredAfter(h, i)
    <3>1. Anchored(h, i)  BY <1>2, <1>4, <1>6, <2>1 DEF Anchored
    <3>2. i \in 0 .. i  BY <1>6
    <3> QED  BY <1>2, <2>1, <3>1, <3>2, KeptAnchored
  <2>5. \A j \in 1 .. i : \/ stack'[j].marker = stack[j].marker
                          \/ AnchoredAfter(stack'[j].marker.home, j)
    <3> TAKE j \in 1 .. i
    <3>1. CASE j = i  BY <2>1, <2>2, <2>4, <3>1
    <3>2. CASE j # i
      <4>1. j \in 1 .. i - 1  BY <1>6, <3>2
      <4> QED  BY <2>1, <4>1 DEF SameMarkers
    <3> QED  BY <3>1, <3>2
  <2> QED  BY <1>3, <2>1, <2>3, <2>5, NlrKept
<1>9. CASE Escaped
  <2>1. /\ UnwindInv' /\ Cut(i - 1) /\ SameMarkers(i - 1) /\ h.fp < i
        /\ stack[i].link \in EntryLinks \ {"doit"}
        /\ stack[i].link = "c2i" => pc'.op = "escape"
    BY <1>4, <1>5, <1>9, EscapedStep
  <2>2. lost' = (stack[i].link # "c2i")  BY <1>5, <1>9 DEF Escaped
  <2>3. pc'.op \in {"escape", "curtail", "run"}
    BY <1>5, <1>9, <2>1, EscapedStep DEF EntryLinks
  <2>4. PICK m \in Nat : m = i - 1  BY <1>2, <1>6
  <2>5. Keeps(m) /\ Len(stack') = m /\ SameMarkers(m)  BY <2>1, <2>4 DEF Cut
  <2> QED  BY <2>1, <2>2, <2>3, <2>5, NlrKept DEF SameMarkers
<1> QED  BY <1>7, <1>8, <1>9

\* Every step keeps NlrInv.
LEMMA NlrStep == UnwindInv /\ NlrInv /\ [Next]_vars => NlrInv'
<1> SUFFICES ASSUME UnwindInv, NlrInv, [Next]_vars PROVE NlrInv'  OBVIOUS
<1>0. UnwindInv' /\ Len(stack) \in Nat /\ Frames = 1 .. Len(stack)
  BY UnwindStep, StackTyped DEF UnwindInv
<1>1. CASE Doit
  <2>1. pc.op = "run" /\ pc' = pc /\ nlr' = nlr /\ lost' = lost  BY <1>1, Records DEF Doit
  <2> QED  BY <1>1, <2>1, DoitStep, NlrCall
<1>2. CASE SendMethod
  <2>1. pc.op = "run" /\ pc' = pc /\ nlr' = nlr /\ lost' = lost
    BY <1>2, Records DEF SendMethod, MayCall, GuestRuns, Call
  <2> QED  BY <1>2, <2>1, SendStep, NlrCall
<1>3. CASE Perform
  <2>1. pc.op = "run" /\ pc' = pc /\ nlr' = nlr /\ lost' = lost
    BY <1>3, Records DEF Perform, MayCall, GuestRuns, Call
  <2> QED  BY <1>3, <2>1, PerformStep, NlrCall
<1>4. CASE Value
  <2>1. pc.op = "run" /\ pc' = pc /\ nlr' = nlr /\ lost' = lost
    BY <1>4, Records DEF Value, MayCall, GuestRuns, Call
  <2> QED  BY <1>4, <2>1, ValueStep, NlrCall
<1>5. CASE EnsureLike
  <2>1. pc.op = "run" /\ pc' = pc /\ nlr' = nlr /\ lost' = lost
    BY <1>5, Records DEF EnsureLike, MayCall, GuestRuns, Call
  <2> QED  BY <1>5, <2>1, EnsureStep, NlrCall
<1>6. CASE EnterCompiled
  <2>1. pc.op = "run" /\ pc' = pc /\ nlr' = nlr /\ lost' = lost  BY <1>6, Records DEF EnterCompiled, GuestRuns
  <2> QED  BY <1>0, <1>6, <2>1, EnterCompiledStep, NlrQuiet DEF SameMarkers
<1>7. CASE ReturnCompiled \/ NlrOriginate \/ Relay  BY <1>7, NlrCompiled
<1>8. CASE Deoptimize
  <2>1. pc.op = "run" /\ pc' = pc /\ nlr' = nlr /\ lost' = lost  BY <1>8, Records DEF Deoptimize, GuestRuns, Call
  <2>2. PICK m \in Nat : m = Len(stack) - 1 /\ Keeps(m) /\ Len(stack') = m + 1 /\ SameMarkers(m)
    BY <1>0, <1>8, DeoptimizeStep DEF Pushed
  <2> QED  BY <1>0, <2>1, <2>2, NlrQuiet DEF SameMarkers
<1>9. CASE StoreClosure
  <2>1. pc.op = "run" /\ pc' = pc /\ nlr' = nlr /\ lost' = lost /\ stack' = stack
    BY <1>9, Records DEF StoreClosure, GuestRuns
  <2> QED  BY <1>0, <2>1, StayStep, NlrQuiet DEF SameMarkers, Cut
<1>10. CASE DoReturn  BY <1>10, NlrReturn
<1>11. CASE Error
  <2>1. stack # << >> /\ pc.op = "run" /\ \E start \in {0} \cup Frames : Raise(start)
    BY <1>11, ErrorStart
  <2> QED  BY <1>0, <2>1, NlrRaise
<1>12. CASE RunCleanup
  <2>1. pc.op = "curtail" /\ pc'.op = "run" /\ nlr' = nlr /\ lost' = lost
    BY <1>12, Records DEF RunCleanup
  <2> QED  BY <1>12, <2>1, RunCleanupStep, NlrCall
<1>13. CASE EndCurtailment
  <2>1. stack' = << >> /\ nlr' = NoHome /\ pc'.op = "run" /\ pc.op = "curtail"
    BY <1>13, Records DEF EndCurtailment, Recover
  <2>2. Keeps(0) /\ Len(stack') = 0  BY <1>0, <2>1 DEF Keeps
  <2> QED  BY <1>0, <2>1, <2>2, NlrQuiet
<1>14. CASE NlrTos \/ TakeUp  BY <1>14, NlrBegins
<1>15. CASE CannotReturn
  <2>1. stack # << >> /\ Raise(Len(stack)) /\ Len(stack) \in {0} \cup Frames /\ pc.op = "unwind"
    BY <1>15, CannotReturnStep DEF CannotReturn
  <2>2. PICK start \in {0} \cup Frames : start = Len(stack)  BY <2>1
  <2> QED  BY <1>0, <2>1, <2>2, NlrRaise
<1>16. CASE ReachedHome \/ RanHandler \/ Escaped  BY <1>16, NlrUnwinds
<1>17. CASE UNCHANGED vars
  BY <1>17 DEF vars, NlrInv, Anchored, Frames, Top
<1> QED
  BY <1>1, <1>2, <1>3, <1>4, <1>5, <1>6, <1>7, <1>8, <1>9, <1>10, <1>11, <1>12, <1>13,
     <1>14, <1>15, <1>16, <1>17 DEF Next, Idle

\* A `^' returns from its home and from no other frame, whatever compiled code it
\* passes and whatever cleanups it waits for (continue_unwind, resume_unwind,
\* enter_compiled); only one that leaves a performed method or a cleanup is let go.
THEOREM NlrAlwaysReachesHome == Spec => []NlrReachesHome
<1>1. UnwindInv /\ NlrInv => NlrReachesHome
  <2> SUFFICES ASSUME UnwindInv, NlrInv PROVE NlrReachesHome  OBVIOUS
  <2>1. \A i \in Frames : stack[i].marker.kind = "token" =>
            \E j \in 1 .. i - 1 : stack[j].serial = stack[i].marker.home.serial
    BY DEF NlrInv, Anchored
  <2> QED  BY <2>1 DEF NlrInv, NlrReachesHome
<1>2. Init => UnwindInv /\ NlrInv  BY UnwindInit, NlrInit
<1>3. UnwindInv /\ NlrInv /\ [Next]_vars => UnwindInv' /\ NlrInv'  BY UnwindStep, NlrStep
<1> QED  BY <1>1, <1>2, <1>3, PTL DEF Spec

-----------------------------------------------------------------------------
(* No cleanup is lost. *)

\* Steps that neither start nor end a cleanup of an error.
SameCleanup(m) ==
    /\ Keeps(m) /\ Len(stack') \in {m, m + 1}
    /\ \A j \in m + 1 .. Len(stack) : stack[j].link # "cleanup"
    /\ Len(stack') = m + 1 => NewTop(m).link # "cleanup"
    /\ pc.op # "curtail" /\ pc'.op # "curtail" /\ UNCHANGED <<curtailing, pass>>

\* Such steps leave the cleanup of an error where it is.
LEMMA SameInCleanup ==
    ASSUME TypeInv, NEW m, SameCleanup(m)
    PROVE  /\ (\E i \in 1 .. Len(stack') : stack'[i].link = "cleanup") <=> InCleanup
           /\ \A i \in 1 .. Len(stack') :
                 stack'[i].link = "cleanup" => i \in Frames /\ stack[i].link = "cleanup"
           /\ \A j \in 1 .. m :
                 (\A c \in j .. Len(stack') : stack'[c].link # "cleanup") <=> Current(j)
<1>0. m \in Nat /\ Len(stack) \in Nat /\ m <= Len(stack) /\ Frames = 1 .. Len(stack)
      /\ Len(stack') \in {m, m + 1}
  BY StackTyped DEF SameCleanup, Keeps
<1>1. \A i \in 1 .. m : stack'[i].link = stack[i].link  BY DEF SameCleanup, Keeps
<1>2. \A i \in 1 .. Len(stack') : stack'[i].link = "cleanup" => i \in 1 .. m
  <2> TAKE i \in 1 .. Len(stack')
  <2>1. CASE i = m + 1
    <3>1. Len(stack') = m + 1  BY <1>0, <2>1
    <3> QED  BY <2>1, <3>1 DEF SameCleanup, NewTop
  <2> QED  BY <1>0, <2>1
<1>3. \A i \in 1 .. Len(stack) : stack[i].link = "cleanup" => i \in 1 .. m
  <2> TAKE i \in 1 .. Len(stack)
  <2>1. i \in 1 .. m \/ i \in m + 1 .. Len(stack)  BY <1>0
  <2> QED  BY <2>1 DEF SameCleanup
<1>4. \A i \in 1 .. m : i \in 1 .. Len(stack) /\ i \in 1 .. Len(stack')  BY <1>0
<1>5. (\E i \in 1 .. Len(stack') : stack'[i].link = "cleanup") <=> InCleanup
  BY <1>1, <1>2, <1>3, <1>4 DEF InCleanup
<1>6. ASSUME NEW j \in 1 .. m
      PROVE  (\A c \in j .. Len(stack') : stack'[c].link # "cleanup") <=> Current(j)
  <2>1. pc.op # "curtail"  BY DEF SameCleanup
  <2>2. \A c \in j .. Len(stack') : c \in 1 .. Len(stack')  BY <1>0
  <2>3. \A c \in j .. Len(stack) : c \in 1 .. Len(stack)  BY <1>0
  <2>4. \A c \in 1 .. m : c >= j => c \in j .. Len(stack) /\ c \in j .. Len(stack')  BY <1>0
  <2>5. \A c \in j .. Len(stack') : c >= j  BY <1>0
  <2>6. \A c \in j .. Len(stack) : c >= j  BY <1>0
  <2> QED  BY <1>1, <1>2, <1>3, <2>1, <2>2, <2>3, <2>4, <2>5, <2>6 DEF Current
<1> QED  BY <1>0, <1>1, <1>2, <1>4, <1>5, <1>6

\* CurtailInv of the state a step leads to.
LEMMA CurtailAfter ==
    ASSUME NEW c \in BOOLEAN, c <=> \E i \in 1 .. Len(stack') : stack'[i].link = "cleanup",
           pc'.op = "curtail" \/ c => curtailing',
           pc'.op = "curtail" => ~c,
           \A i, j \in 1 .. Len(stack') :
              stack'[i].link = "cleanup" /\ stack'[j].link = "cleanup" => i = j,
           ~curtailing' => pass' = << >>
    PROVE  CurtailInv'
BY DEF CurtailInv, InCleanup, Frames

\* Such steps keep CurtailInv.
LEMMA CurtailKept ==
    ASSUME UnwindInv, CurtailInv, NEW m, SameCleanup(m)
    PROVE  CurtailInv'
<1>1. TypeInv  BY DEF UnwindInv
<1>2. /\ InCleanup <=> \E i \in 1 .. Len(stack') : stack'[i].link = "cleanup"
      /\ \A i \in 1 .. Len(stack') :
            stack'[i].link = "cleanup" => i \in Frames /\ stack[i].link = "cleanup"
  BY <1>1, SameInCleanup
<1>3. PICK c \in BOOLEAN : c <=> InCleanup  OBVIOUS
<1>4. pc.op # "curtail" /\ pc'.op # "curtail" /\ curtailing' = curtailing /\ pass' = pass
  BY DEF SameCleanup
<1>5. /\ c => curtailing
      /\ ~curtailing => pass = << >>
      /\ \A i, j \in Frames : stack[i].link = "cleanup" /\ stack[j].link = "cleanup" => i = j
  BY <1>3, <1>4 DEF CurtailInv
<1> QED  BY <1>2, <1>3, <1>4, <1>5, CurtailAfter

\* Such steps keep the VM stuck.
LEMMA StuckKept ==
    ASSUME UnwindInv, Stuck, NEW m, SameCleanup(m)
    PROVE  Stuck'
<1>1. TypeInv  BY DEF UnwindInv
<1>2. InCleanup <=> \E i \in 1 .. Len(stack') : stack'[i].link = "cleanup"
  BY <1>1, SameInCleanup
<1> QED  BY <1>2 DEF Stuck, SameCleanup, InCleanup

\* DueInv of the state a step leads to; cur tells the frames that are current.
LEMMA DueAfter ==
    ASSUME NEW cur, \A i \in 1 .. Len(stack') : i \in cur <=>
              pc'.op # "curtail" /\ \A c \in i .. Len(stack') : stack'[c].link # "cleanup",
           \A s \in 1 .. MaxSerial :
              /\ due'[s] \in {0, 1}
              /\ due'[s] = 1 =>
                    \/ \E i \in 1 .. Len(stack') :
                          i \in cur /\ IsHandler(stack'[i].marker) /\ stack'[i].serial = s
                    \/ \E k \in 1 .. Len(pass') : pass'[k].serial = s,
           \A i \in 1 .. Len(stack') : IsHandler(stack'[i].marker) =>
              /\ stack'[i].serial \in 1 .. MaxSerial
              /\ i \in cur => /\ due'[stack'[i].serial] = 1
                              /\ \A k \in 1 .. Len(pass') : pass'[k].serial # stack'[i].serial,
           \A k \in 1 .. Len(pass') :
              /\ pass'[k].serial \in 1 .. MaxSerial /\ pass'[k].serial < next'
              /\ due'[pass'[k].serial] = 1
              /\ \A l \in k + 1 .. Len(pass') : pass'[l].serial < pass'[k].serial
    PROVE  DueInv'
BY DEF DueInv, Current, IsHandler, Frames

\* An armed frame's serial is its own.
LEMMA ArmedSerial ==
    ASSUME UnwindInv, NEW i \in Frames, IsHandler(stack[i].marker)
    PROVE  /\ stack[i].tier = "interp" /\ stack[i].serial \in 1 .. next - 1
           /\ stack[i].block /\ stack[i].link \in {"call", "c2i"}
           /\ \A j \in Frames : IsHandler(stack[j].marker) /\ j # i =>
                 stack[j].serial # stack[i].serial
           /\ \A j \in Frames : IsHandler(stack[j].marker) /\ j < i =>
                 stack[j].serial < stack[i].serial
<1>1. TypeInv /\ ShapeInv /\ SerialInv /\ Len(stack) \in Nat /\ next \in Nat
      /\ Frames = 1 .. Len(stack)
  BY StackTyped DEF UnwindInv
<1>2. ASSUME NEW j \in Frames, IsHandler(stack[j].marker)
      PROVE  /\ stack[j].tier = "interp" /\ stack[j].serial \in 1 .. next - 1
             /\ stack[j].block /\ stack[j].link \in {"call", "c2i"}
  <2>1. stack[j].marker.kind # "nil"  BY <1>2 DEF IsHandler
  <2>2. stack[j].tier \in {"interp", "native"}  BY <1>1, StackTyped, FrameFields
  <2> QED  BY <1>1, <2>1, <2>2 DEF ShapeInv
<1>3. ASSUME NEW j \in Frames, IsHandler(stack[j].marker), j # i
      PROVE  stack[j].serial # stack[i].serial /\ (j < i => stack[j].serial < stack[i].serial)
  <2>1. stack[i].serial \in Nat /\ stack[j].serial \in Nat  BY <1>1, <1>2, <1>3
  <2>2. j < i \/ i < j  BY <1>1, <1>3
  <2>3. /\ i < j => stack[i].serial < stack[j].serial
        /\ j < i => stack[j].serial < stack[i].serial
    BY <1>1, <1>2, <1>3 DEF SerialInv
  <2> QED  BY <1>1, <2>1, <2>2, <2>3
<1>4. \A j \in Frames : j < i => j # i  BY <1>1
<1> QED  BY <1>2, <1>3, <1>4

\* A step that neither starts nor ends a cleanup of an error keeps DueInv, if the
\* cleanup of at most one frame x starts, the cleanups of the frames it pops have
\* started, and the new frame, if armed, is due.
LEMMA DueKept ==
    ASSUME UnwindInv, DueInv, NEW m, SameCleanup(m), next' \in {next, next + 1}, NEW x,
           x # 0 => x \in Frames /\ IsHandler(stack[x].marker) /\ Current(x),
           NEW armed \in BOOLEAN,
           armed <=> Len(stack') = m + 1 /\ IsHandler(NewTop(m).marker),
           armed => NewTop(m).serial = next /\ next <= MaxSerial /\ next' = next + 1,
           \A s \in 1 .. MaxSerial :
              due'[s] = IF x # 0 /\ s = stack[x].serial THEN 0
                        ELSE IF armed /\ s = next THEN 1 ELSE due[s],
           \A j \in 1 .. m : IsHandler(stack'[j].marker) <=> IsHandler(stack[j].marker) /\ j # x,
           \A j \in m + 1 .. Len(stack) : IsHandler(stack[j].marker) => j = x
    PROVE  DueInv'
<1>0. /\ TypeInv /\ m \in Nat /\ Len(stack) \in Nat /\ m <= Len(stack) /\ Frames = 1 .. Len(stack)
      /\ Len(stack') \in {m, m + 1} /\ pass' = pass /\ pc'.op # "curtail" /\ pc.op # "curtail"
      /\ next \in Nat /\ next >= 1
  BY StackTyped DEF UnwindInv, SameCleanup, Keeps
<1> DEFINE cur == {i \in 1 .. Len(stack') : \A c \in i .. Len(stack') : stack'[c].link # "cleanup"}
<1>1. \A i \in 1 .. Len(stack') : i \in cur <=>
              pc'.op # "curtail" /\ \A c \in i .. Len(stack') : stack'[c].link # "cleanup"
  BY <1>0
<1>2. \A j \in 1 .. m : /\ j \in Frames /\ j \in 1 .. Len(stack') /\ (j \in cur <=> Current(j))
                        /\ stack'[j].serial = stack[j].serial
  <2>1. \A j \in 1 .. m : j \in Frames /\ j \in 1 .. Len(stack')  BY <1>0
  <2>2. \A j \in 1 .. m : (\A c \in j .. Len(stack') : stack'[c].link # "cleanup") <=> Current(j)
    BY <1>0, SameInCleanup
  <2>3. \A j \in 1 .. m : stack'[j].serial = stack[j].serial  BY DEF SameCleanup, Keeps
  <2> QED  BY <2>1, <2>2, <2>3
<1>3. armed => /\ m + 1 \in 1 .. Len(stack') /\ m + 1 \in cur
               /\ stack'[m + 1].serial = next /\ IsHandler(stack'[m + 1].marker)
  <2> SUFFICES ASSUME armed PROVE /\ m + 1 \in 1 .. Len(stack') /\ m + 1 \in cur
                                  /\ stack'[m + 1].serial = next /\ IsHandler(stack'[m + 1].marker)
    OBVIOUS
  <2>1. Len(stack') = m + 1 /\ NewTop(m).link # "cleanup"  BY DEF SameCleanup
  <2>2. m + 1 \in 1 .. Len(stack') /\ \A c \in m + 1 .. Len(stack') : c = m + 1  BY <1>0, <2>1
  <2> QED  BY <2>1, <2>2 DEF NewTop
<1> HIDE DEF cur
<1>4. x # 0 => /\ stack[x].serial \in 1 .. MaxSerial /\ stack[x].serial # next
               /\ stack[x].serial \in Nat
               /\ \A k \in 1 .. Len(pass) : pass[k].serial # stack[x].serial
  <2>1. x # 0 => stack[x].serial \in 1 .. next - 1  BY ArmedSerial
  <2>2. x # 0 => /\ stack[x].serial \in 1 .. MaxSerial
                 /\ \A k \in 1 .. Len(pass) : pass[k].serial # stack[x].serial
    BY DEF DueInv
  <2> QED  BY <1>0, <2>1, <2>2
<1>5. ASSUME NEW s \in 1 .. MaxSerial
      PROVE  /\ due'[s] \in {0, 1}
             /\ due'[s] = 1 =>
                    \/ \E i \in 1 .. Len(stack') :
                          i \in cur /\ IsHandler(stack'[i].marker) /\ stack'[i].serial = s
                    \/ \E k \in 1 .. Len(pass') : pass'[k].serial = s
  <2>1. due[s] \in {0, 1}  BY DEF DueInv
  <2>2. due'[s] \in {0, 1}  BY <2>1
  <2>3. CASE armed /\ s = next  BY <1>3, <2>2, <2>3
  <2>4. CASE ~(armed /\ s = next) /\ due'[s] = 1
    <3>1. due[s] = 1 /\ ~(x # 0 /\ s = stack[x].serial)  BY <2>4
    <3>2. CASE \E k \in 1 .. Len(pass) : pass[k].serial = s  BY <1>0, <2>2, <3>2
    <3>3. CASE \E i \in Frames : Current(i) /\ IsHandler(stack[i].marker) /\ stack[i].serial = s
      <4>1. PICK i \in Frames : Current(i) /\ IsHandler(stack[i].marker) /\ stack[i].serial = s
        BY <3>3
      <4>2. i # x
        <5>1. i # 0  BY <1>0
        <5> QED  BY <3>1, <4>1, <5>1
      <4>3. i \in 1 .. m
        <5>1. i \in 1 .. m \/ i \in m + 1 .. Len(stack)  BY <1>0
        <5> QED  BY <4>1, <4>2, <5>1
      <4> QED  BY <1>2, <2>2, <4>1, <4>2, <4>3
    <3> QED  BY <3>1, <3>2, <3>3 DEF DueInv
  <2> QED  BY <2>2, <2>3, <2>4
<1>6. ASSUME NEW i \in 1 .. Len(stack'), IsHandler(stack'[i].marker)
      PROVE  /\ stack'[i].serial \in 1 .. MaxSerial
             /\ i \in cur => /\ due'[stack'[i].serial] = 1
                             /\ \A k \in 1 .. Len(pass') : pass'[k].serial # stack'[i].serial
  <2>1. CASE i = m + 1
    <3>1. armed /\ stack'[i].serial = next /\ next \in 1 .. MaxSerial
      <4>1. armed  BY <1>0, <1>6, <2>1 DEF NewTop
      <4>2. stack'[i].serial = next /\ next <= MaxSerial  BY <2>1, <4>1 DEF NewTop
      <4>3. MaxSerial \in Nat  BY UnwindAssumption
      <4> QED  BY <1>0, <4>1, <4>2, <4>3
    <3>2. due'[next] = 1  BY <1>4, <3>1
    <3>3. \A k \in 1 .. Len(pass) : pass[k].serial # next
      <4> TAKE k \in 1 .. Len(pass)
      <4>1. pass[k].serial < next /\ pass[k].serial \in 1 .. MaxSerial  BY DEF DueInv
      <4> QED  BY <1>0, <4>1
    <3> QED  BY <1>0, <3>1, <3>2, <3>3
  <2>2. CASE i \in 1 .. m
    <3>1. /\ i \in Frames /\ IsHandler(stack[i].marker) /\ i # x
          /\ stack'[i].serial = stack[i].serial
      BY <1>2, <1>6, <2>2
    <3>2. stack[i].serial \in 1 .. MaxSerial  BY <3>1 DEF DueInv
    <3>3. ASSUME i \in cur
          PROVE  /\ due'[stack[i].serial] = 1
                 /\ \A k \in 1 .. Len(pass) : pass[k].serial # stack[i].serial
      <4>1. Current(i)  BY <1>2, <2>2, <3>3
      <4>2. /\ due[stack[i].serial] = 1
            /\ \A k \in 1 .. Len(pass) : pass[k].serial # stack[i].serial
        BY <3>1, <4>1 DEF DueInv
      <4>3. x # 0 => stack[i].serial # stack[x].serial  BY <3>1, ArmedSerial
      <4>4. stack[i].serial # next
        <5>1. stack[i].serial \in 1 .. next - 1  BY <3>1, ArmedSerial
        <5> QED  BY <1>0, <5>1
      <4> QED  BY <3>2, <4>2, <4>3, <4>4
    <3> QED  BY <1>0, <3>1, <3>2, <3>3
  <2> QED  BY <1>0, <2>1, <2>2
<1>7. ASSUME NEW k \in 1 .. Len(pass)
      PROVE  /\ pass[k].serial \in 1 .. MaxSerial /\ pass[k].serial < next'
             /\ due'[pass[k].serial] = 1
             /\ \A l \in k + 1 .. Len(pass) : pass[l].serial < pass[k].serial
  <2>1. /\ pass[k].serial \in 1 .. MaxSerial /\ pass[k].serial < next
        /\ due[pass[k].serial] = 1
        /\ \A l \in k + 1 .. Len(pass) : pass[l].serial < pass[k].serial
    BY DEF DueInv
  <2>2. pass[k].serial \in Nat  BY <2>1
  <2>3. pass[k].serial < next' /\ pass[k].serial # next  BY <1>0, <2>1, <2>2
  <2>4. x # 0 => pass[k].serial # stack[x].serial  BY <1>4
  <2> QED  BY <2>1, <2>3, <2>4
<1>8. \A k \in 1 .. Len(pass') :
              /\ pass'[k].serial \in 1 .. MaxSerial /\ pass'[k].serial < next'
              /\ due'[pass'[k].serial] = 1
              /\ \A l \in k + 1 .. Len(pass') : pass'[l].serial < pass'[k].serial
  BY <1>0, <1>7
<1>9. \A s \in 1 .. MaxSerial :
         /\ due'[s] \in {0, 1}
         /\ due'[s] = 1 =>
               \/ \E i \in 1 .. Len(stack') :
                     i \in cur /\ IsHandler(stack'[i].marker) /\ stack'[i].serial = s
               \/ \E k \in 1 .. Len(pass') : pass'[k].serial = s
  BY <1>5
<1>10. \A i \in 1 .. Len(stack') : IsHandler(stack'[i].marker) =>
         /\ stack'[i].serial \in 1 .. MaxSerial
         /\ i \in cur => /\ due'[stack'[i].serial] = 1
                         /\ \A k \in 1 .. Len(pass') : pass'[k].serial # stack'[i].serial
  BY <1>6
<1> QED  BY <1>1, <1>8, <1>9, <1>10, DueAfter, ZenonT(30)

\* A step that neither starts nor ends a cleanup, of an error or otherwise.
LEMMA CleanupsQuiet ==
    ASSUME UnwindInv, CleanupInv, NEW m, SameCleanup(m),
           next' \in {next, next + 1}, due' = due,
           Len(stack') = m + 1 => ~IsHandler(NewTop(m).marker),
           \A j \in 1 .. m : IsHandler(stack'[j].marker) <=> IsHandler(stack[j].marker),
           \A j \in m + 1 .. Len(stack) : ~IsHandler(stack[j].marker)
    PROVE  CleanupInv'
<1> SUFFICES ASSUME ~Stuck PROVE CurtailInv' /\ DueInv'  BY StuckKept DEF CleanupInv
<1> CurtailInv /\ DueInv  BY DEF CleanupInv
<1>1. CurtailInv'  BY CurtailKept
<1>2. PICK x : x = 0  OBVIOUS
<1>3. \A j \in 1 .. m : IsHandler(stack'[j].marker) <=> IsHandler(stack[j].marker) /\ j # x
  BY <1>2
<1>4. PICK armed \in BOOLEAN : armed = FALSE  OBVIOUS
<1>5. armed <=> Len(stack') = m + 1 /\ IsHandler(NewTop(m).marker)  BY <1>4
<1>6. DueInv'  BY <1>2, <1>3, <1>4, <1>5, DueKept
<1> QED  BY <1>1, <1>6

\* The cleanup of frame x starts, by a return or a `^'.
LEMMA CleanupStarts ==
    ASSUME UnwindInv, CleanupInv, NEW m, SameCleanup(m),
           next' \in {next, next + 1},
           NEW x \in Frames, IsHandler(stack[x].marker), Current(x),
           due' = Discharged(stack[x].serial),
           Len(stack') = m + 1 => ~IsHandler(NewTop(m).marker),
           \A j \in 1 .. m : IsHandler(stack'[j].marker) <=> IsHandler(stack[j].marker) /\ j # x,
           \A j \in m + 1 .. Len(stack) : IsHandler(stack[j].marker) => j = x
    PROVE  CleanupInv'
<1> SUFFICES ASSUME ~Stuck PROVE CurtailInv' /\ DueInv'  BY StuckKept DEF CleanupInv
<1> CurtailInv /\ DueInv  BY DEF CleanupInv
<1>1. CurtailInv'  BY CurtailKept
<1>2. x # 0  BY StackTyped DEF UnwindInv
<1>3. PICK armed \in BOOLEAN : armed = FALSE  OBVIOUS
<1>4. armed <=> Len(stack') = m + 1 /\ IsHandler(NewTop(m).marker)  BY <1>3
<1>5. due[stack[x].serial] = 1  BY DEF DueInv
<1>6. DOMAIN due = 1 .. MaxSerial  BY DEF UnwindInv, TypeInv
<1>7. \A s \in 1 .. MaxSerial :
              due'[s] = IF x # 0 /\ s = stack[x].serial THEN 0
                        ELSE IF armed /\ s = next THEN 1 ELSE due[s]
  BY <1>2, <1>3, <1>5, <1>6 DEF Discharged
<1>8. DueInv'  BY <1>2, <1>3, <1>4, <1>7, DueKept
<1> QED  BY <1>1, <1>8

\* Calls.
LEMMA CleanupCall ==
    ASSUME UnwindInv, CleanupInv, NEW link, link # "cleanup", NEW block, NEW h,
           GuestCall(link, block, h, Unmarked),
           pc.op = "run", pc' = pc, next' = next + 1, UNCHANGED <<curtailing, pass, due>>
    PROVE  CleanupInv'
<1>1. PICK m \in Nat : m = Len(stack) /\ Frames = 1 .. m  BY StackTyped DEF UnwindInv
<1>2. /\ Keeps(m) /\ Len(stack') = m + 1 /\ SameMarkers(m)
      /\ NewTop(m).link = link /\ NewTop(m).marker = Unmarked
  BY <1>1 DEF GuestCall, Pushed, NewTop
<1>3. SameCleanup(m)  BY <1>1, <1>2 DEF SameCleanup
<1>4. ~IsHandler(NewTop(m).marker)  BY <1>2, Records DEF IsHandler
<1>5. \A j \in 1 .. m : IsHandler(stack'[j].marker) <=> IsHandler(stack[j].marker)
  BY <1>2 DEF SameMarkers
<1>6. \A j \in m + 1 .. Len(stack) : ~IsHandler(stack[j].marker)  BY <1>1
<1> QED  BY <1>3, <1>4, <1>5, <1>6, CleanupsQuiet

\* ensure: and ifCurtailed: arm the frame they push.
LEMMA CleanupArmed ==
    ASSUME UnwindInv, CleanupInv, EnsureLike
    PROVE  CleanupInv'
<1>1. PICK m \in Nat : m = Len(stack) /\ Frames = 1 .. m  BY StackTyped DEF UnwindInv
<1>2. PICK kind \in {"ensure", "ifCurtailed"}, h \in Closures, c \in Closures :
               GuestCall(CallLink, TRUE, h, Armed(kind, c))
  BY EnsureStep
<1>3. /\ pc.op = "run" /\ pc' = pc /\ next' = next + 1 /\ curtailing' = curtailing
      /\ pass' = pass /\ stack # << >> /\ next <= MaxSerial /\ due' = [due EXCEPT ![next] = 1]
  BY Records DEF EnsureLike, MayCall, GuestRuns, Call
<1>4. CallLink # "cleanup"  BY <1>3, CallLinkFits
<1>5. /\ Keeps(m) /\ Len(stack') = m + 1 /\ SameMarkers(m) /\ NewTop(m).serial = next
      /\ NewTop(m).link # "cleanup" /\ NewTop(m).marker = Armed(kind, c)
  BY <1>1, <1>2, <1>4 DEF GuestCall, Pushed, NewTop
<1>6. SameCleanup(m)  BY <1>1, <1>3, <1>5 DEF SameCleanup
<1>7. IsHandler(NewTop(m).marker)
  <2>1. c \in Home  BY ClosuresReal
  <2> QED  BY <1>5, <2>1, Records DEF IsHandler
<1>8. PICK armed \in BOOLEAN : armed = TRUE  OBVIOUS
<1>9. PICK x : x = 0  OBVIOUS
<1>10. \A s \in 1 .. MaxSerial : due'[s] = IF x # 0 /\ s = stack[x].serial THEN 0
                                           ELSE IF armed /\ s = next THEN 1 ELSE due[s]
  <2>1. DOMAIN due = 1 .. MaxSerial  BY DEF UnwindInv, TypeInv
  <2> QED  BY <1>3, <1>8, <1>9, <2>1
<1>11. \A j \in 1 .. m : IsHandler(stack'[j].marker) <=> IsHandler(stack[j].marker) /\ j # x
  BY <1>5, <1>9 DEF SameMarkers
<1>12. \A j \in m + 1 .. Len(stack) : IsHandler(stack[j].marker) => j = x  BY <1>1
<1>13. ASSUME CurtailInv, DueInv PROVE DueInv'
  <2>1. armed <=> Len(stack') = m + 1 /\ IsHandler(NewTop(m).marker)  BY <1>5, <1>7, <1>8
  <2>2. next' \in {next, next + 1}  BY <1>3
  <2>3. x # 0 => x \in Frames /\ IsHandler(stack[x].marker) /\ Current(x)  BY <1>9
  <2>4. armed => NewTop(m).serial = next /\ next <= MaxSerial /\ next' = next + 1
    BY <1>3, <1>5
  <2> QED  BY <1>6, <1>10, <1>11, <1>12, <1>13, <2>1, <2>2, <2>3, <2>4, DueKept
<1>14. CASE CurtailInv /\ DueInv  BY <1>6, <1>13, <1>14, CurtailKept DEF CleanupInv
<1>15. CASE Stuck  BY <1>6, <1>15, StuckKept DEF CleanupInv
<1> QED  BY <1>14, <1>15 DEF CleanupInv

\* Steps on a compiled activation, and steps that leave the stack.
LEMMA CleanupCompiled ==
    ASSUME UnwindInv, CleanupInv,
           ReturnCompiled \/ NlrOriginate \/ Relay
    PROVE  CleanupInv'
<1>1. TypeInv /\ stack # << >> /\ Top.tier = "native"
      /\ stack' = Below(Len(stack) - 1)
  BY WellLinkedParts DEF UnwindInv, ControlInv, ReturnCompiled, NlrOriginate, Relay, GuestRuns
<1>2. Len(stack) \in Nat /\ Frames = 1 .. Len(stack) /\ Top = stack[Len(stack)]
  BY <1>1, StackTyped, TopIs
<1>3. PICK m \in Nat : m = Len(stack) - 1 /\ m >= 1  BY <1>1, <1>2, NativeTop
<1>4. /\ Keeps(m) /\ Len(stack') = m /\ SameMarkers(m)
      /\ Top.marker.kind = "nil" /\ Top.link = "native" /\ Top.serial = 0
  BY <1>1, <1>3, NativeTop DEF Cut
<1>5. \A j \in m + 1 .. Len(stack) : j = Len(stack)  BY <1>2, <1>3
<1>6. pc.op # "curtail" /\ pc'.op # "curtail" /\ UNCHANGED <<curtailing, pass, next, due>>
  BY Records DEF ReturnCompiled, NlrOriginate, Relay, GuestRuns
<1>7. SameCleanup(m)
  <2>1. Len(stack') # m + 1 /\ Len(stack') \in {m, m + 1}  BY <1>3, <1>4
  <2> QED  BY <1>2, <1>4, <1>5, <1>6, <2>1 DEF SameCleanup
<1>8. \A j \in 1 .. m : IsHandler(stack'[j].marker) <=> IsHandler(stack[j].marker)
  BY <1>4 DEF SameMarkers
<1>9. \A j \in m + 1 .. Len(stack) : ~IsHandler(stack[j].marker)
  BY <1>2, <1>4, <1>5 DEF IsHandler
<1>10. next' \in {next, next + 1} /\ due' = due /\ Len(stack') # m + 1  BY <1>3, <1>4, <1>6
<1> QED  BY <1>7, <1>8, <1>9, <1>10, CleanupsQuiet

\* A step that leaves the stack, or calls compiled code.
LEMMA CleanupStays ==
    ASSUME UnwindInv, CleanupInv,
           StoreClosure \/ NlrTos \/ TakeUp
    PROVE  CleanupInv'
<1>1. TypeInv /\ stack # << >> /\ stack' = stack
  BY WellLinkedParts DEF UnwindInv, ControlInv, StoreClosure, NlrTos, TakeUp, GuestRuns
<1>2. PICK m \in Nat : m = Len(stack) /\ Frames = 1 .. m  BY <1>1, StackTyped
<1>3. Keeps(m) /\ Len(stack') = m /\ SameMarkers(m)  BY <1>1, <1>2, StayStep DEF Cut
<1>4. pc.op # "curtail" /\ UNCHANGED <<curtailing, pass, next, due>>
  BY Records DEF StoreClosure, NlrTos, TakeUp, GuestRuns
<1>5. pc'.op # "curtail"
  <2>1. Top.home \in Home /\ nlr \in Home  BY <1>1, TopIs DEF TypeInv
  <2> QED  BY <2>1, Records DEF NlrTos, TakeUp, StoreClosure, GuestRuns
<1>6. SameCleanup(m)
  <2>1. Len(stack') # m + 1 /\ Len(stack') \in {m, m + 1}  BY <1>2, <1>3
  <2> QED  BY <1>2, <1>3, <1>4, <1>5, <2>1 DEF SameCleanup
<1>7. \A j \in 1 .. m : IsHandler(stack'[j].marker) <=> IsHandler(stack[j].marker)
  BY <1>3 DEF SameMarkers
<1>8. \A j \in m + 1 .. Len(stack) : ~IsHandler(stack[j].marker)  BY <1>2
<1>9. next' \in {next, next + 1} /\ due' = due /\ Len(stack') # m + 1  BY <1>2, <1>3, <1>4
<1> QED  BY <1>6, <1>7, <1>8, <1>9, CleanupsQuiet

\* Compiled code is called, or deoptimized.
LEMMA CleanupTiers ==
    ASSUME UnwindInv, CleanupInv, EnterCompiled \/ Deoptimize
    PROVE  CleanupInv'
<1>1. stack # << >> /\ pc.op = "run" /\ pc' = pc /\ next' \in {next, next + 1}
      /\ UNCHANGED <<curtailing, pass, due>>
  BY Records DEF EnterCompiled, Deoptimize, GuestRuns, Call
<1>2. Len(stack) \in Nat /\ Frames = 1 .. Len(stack) /\ Top = stack[Len(stack)]
  BY <1>1, StackTyped, TopIs DEF UnwindInv
<1>3. PICK m \in Nat : /\ Keeps(m) /\ Len(stack') = m + 1 /\ SameMarkers(m)
                       /\ NewTop(m).link \in {"native", "c2i"} /\ NewTop(m).marker.kind = "nil"
                       /\ \A j \in m + 1 .. Len(stack) :
                             stack[j].link = "native" /\ stack[j].marker.kind = "nil"
  <2>1. CASE EnterCompiled
    <3>1. \A j \in Len(stack) + 1 .. Len(stack) : FALSE  BY <1>2
    <3> QED  BY <1>2, <2>1, <3>1, EnterCompiledStep
  <2>2. CASE Deoptimize
    <3>1. PICK m \in Nat : m = Len(stack) - 1  BY <1>2, <2>2, DeoptimizeStep
    <3>2. /\ Keeps(m) /\ Len(stack') = m + 1 /\ SameMarkers(m)
          /\ NewTop(m).link = "c2i" /\ NewTop(m).marker = Unmarked
          /\ Top.marker.kind = "nil" /\ Top.link = "native"
      BY <2>2, <3>1, DeoptimizeStep DEF Pushed, NewTop
    <3>3. \A j \in m + 1 .. Len(stack) : j = Len(stack)  BY <1>2, <3>1
    <3>4. Unmarked.kind = "nil"  BY Records
    <3> QED  BY <1>2, <3>2, <3>3, <3>4
  <2> QED  BY <2>1, <2>2
<1>4. SameCleanup(m)  BY <1>1, <1>3 DEF SameCleanup
<1>5. \A j \in 1 .. m : IsHandler(stack'[j].marker) <=> IsHandler(stack[j].marker)
  BY <1>3 DEF SameMarkers
<1>6. ~IsHandler(NewTop(m).marker) /\ \A j \in m + 1 .. Len(stack) : ~IsHandler(stack[j].marker)
  BY <1>3 DEF IsHandler
<1> QED  BY <1>1, <1>4, <1>5, <1>6, CleanupsQuiet

\* While an error has a cleanup to start or to end, its pass is all that is due.
LEMMA DueInPass ==
    ASSUME UnwindInv, DueInv, NEW m, Keeps(m), Len(stack') \in {m, m + 1},
           \A i \in 1 .. Len(stack') :
              ~(pc'.op # "curtail" /\ \A c \in i .. Len(stack') : stack'[c].link # "cleanup"),
           Len(stack') = m + 1 => ~IsHandler(NewTop(m).marker),
           \A j \in 1 .. m : IsHandler(stack'[j].marker) => IsHandler(stack[j].marker),
           \A s \in 1 .. MaxSerial :
              due'[s] \in {0, 1} /\ (due'[s] = 1 => \E k \in 1 .. Len(pass') : pass'[k].serial = s),
           \A k \in 1 .. Len(pass') :
              /\ pass'[k].serial \in 1 .. MaxSerial /\ pass'[k].serial < next'
              /\ due'[pass'[k].serial] = 1
              /\ \A l \in k + 1 .. Len(pass') : pass'[l].serial < pass'[k].serial
    PROVE  DueInv'
<1>0. m \in Nat /\ Len(stack) \in Nat /\ m <= Len(stack) /\ Frames = 1 .. Len(stack)
  BY StackTyped DEF UnwindInv, Keeps
<1>1. PICK cur : cur = {}  OBVIOUS
<1>2. \A i \in 1 .. Len(stack') : i \in cur <=>
              pc'.op # "curtail" /\ \A c \in i .. Len(stack') : stack'[c].link # "cleanup"
  BY <1>1
<1>3. ASSUME NEW i \in 1 .. Len(stack'), IsHandler(stack'[i].marker)
      PROVE  stack'[i].serial \in 1 .. MaxSerial
  <2>1. i # m + 1  BY <1>0, <1>3 DEF NewTop
  <2>2. i \in 1 .. m /\ i \in Frames  BY <1>0, <2>1
  <2>3. IsHandler(stack[i].marker) /\ stack'[i].serial = stack[i].serial
    BY <1>3, <2>2 DEF Keeps
  <2> QED  BY <2>2, <2>3 DEF DueInv
<1> QED  BY <1>1, <1>2, <1>3, DueAfter

\* An error's cleanup is left, by a return or a `^', and the pass goes on.
LEMMA CleanupReturns ==
    ASSUME UnwindInv, CleanupInv, NEW c \in Frames, stack[c].link = "cleanup",
           NEW m \in Nat, m = c - 1, Keeps(m), Len(stack') = m, pc'.op = "curtail",
           \A j \in 1 .. m : IsHandler(stack'[j].marker) => IsHandler(stack[j].marker),
           \A j \in Frames : j > c => ~IsHandler(stack[j].marker),
           UNCHANGED <<curtailing, pass, due, next>>
    PROVE  CleanupInv'
<1>1. Len(stack) \in Nat /\ Frames = 1 .. Len(stack)  BY StackTyped DEF UnwindInv
<1>2. InCleanup  BY DEF InCleanup, Frames
<1>3. CurtailInv /\ DueInv  BY <1>2 DEF CleanupInv, Stuck
<1>4. curtailing  BY <1>2, <1>3 DEF CurtailInv
<1>5. \A i \in 1 .. Len(stack') : stack'[i].link # "cleanup"
  <2> TAKE i \in 1 .. Len(stack')
  <2>1. i \in 1 .. m /\ i \in Frames /\ i # c  BY <1>1
  <2>2. stack[i].link # "cleanup"  BY <1>3, <2>1 DEF CurtailInv
  <2> QED  BY <2>1, <2>2 DEF Keeps
<1>6. CurtailInv'
  <2>1. PICK b \in BOOLEAN : b = FALSE  OBVIOUS
  <2> QED  BY <1>4, <1>5, <2>1, CurtailAfter
<1>7. \A i \in Frames : IsHandler(stack[i].marker) => ~Current(i)
  <2> TAKE i \in Frames
  <2>1. CASE i > c  BY <2>1
  <2>2. CASE ~(i > c)
    <3>1. c \in i .. Len(stack)  BY <1>1, <2>2
    <3> QED  BY <3>1 DEF Current
  <2> QED  BY <2>1, <2>2
<1>8. Len(stack') # m + 1 /\ Len(stack') \in {m, m + 1}  OBVIOUS
<1>9. \A s \in 1 .. MaxSerial : due[s] \in {0, 1}
                              /\ (due[s] = 1 => \E k \in 1 .. Len(pass) : pass[k].serial = s)
  BY <1>3, <1>7 DEF DueInv
<1>10. \A k \in 1 .. Len(pass) :
              /\ pass[k].serial \in 1 .. MaxSerial /\ pass[k].serial < next
              /\ due[pass[k].serial] = 1
              /\ \A l \in k + 1 .. Len(pass) : pass[l].serial < pass[k].serial
  BY <1>3 DEF DueInv
<1>11. due' = due /\ pass' = pass /\ next' = next  OBVIOUS
<1>12. DueInv'  BY <1>3, <1>8, <1>9, <1>10, <1>11, DueInPass
<1> QED  BY <1>6, <1>12 DEF CleanupInv

\* Returns.
LEMMA CleanupReturn ==
    ASSUME UnwindInv, CleanupInv, DoReturn
    PROVE  CleanupInv'
<1>1. /\ stack # << >> /\ Len(stack) \in Nat /\ Len(stack) \in Frames /\ Len(stack) >= 1
      /\ Frames = 1 .. Len(stack) /\ Top = stack[Len(stack)] /\ TypeInv
  BY DoReturnStep, TopIs, StackTyped DEF UnwindInv
<1>2. pc.op \in {"run", "return"} /\ UNCHANGED <<nlr, curtailing, pass, stored, doits>>
  BY DEF DoReturn
<1>3. PICK n \in Nat : n = Len(stack) /\ n >= 1  BY <1>1
<1>4. PICK m \in Nat : m = n - 1  BY <1>3
<1>5. \A j \in m + 1 .. Len(stack) : j = n  BY <1>3, <1>4
<1>6. IsHandler(Top.marker) => Top.link # "cleanup" /\ Current(n)
  <2> SUFFICES ASSUME IsHandler(Top.marker) PROVE Top.link # "cleanup" /\ Current(n)  OBVIOUS
  <2>1. stack[n].link \in {"call", "c2i"}
    <3>1. n \in Frames /\ IsHandler(stack[n].marker)  BY <1>1, <1>3
    <3> QED  BY <3>1, ArmedSerial
  <2>2. \A c \in n .. Len(stack) : c = n  BY <1>3
  <2> QED  BY <1>1, <1>2, <1>3, <2>1, <2>2 DEF Current
<1>7. ASSUME Delivers, Top.link # "cleanup"
      PROVE  /\ SameCleanup(m) /\ Len(stack') = m
             /\ \A j \in 1 .. m : IsHandler(stack'[j].marker) <=> IsHandler(stack[j].marker)
  <2>1. /\ Keeps(m) /\ Len(stack') = m /\ pc'.op # "curtail"
        /\ \A j \in 1 .. m : \/ stack'[j].marker = stack[j].marker
                             \/ /\ stack[j].marker.kind = "token" /\ stack'[j].marker.kind = "nil"
    BY <1>3, <1>4, <1>7 DEF Delivers, Cut
  <2>2. SameCleanup(m)
    <3>1. Len(stack') # m + 1 /\ Len(stack') \in {m, m + 1}  BY <1>4, <2>1
    <3> QED  BY <1>1, <1>2, <1>3, <1>5, <1>7, <2>1, <3>1 DEF SameCleanup
  <2>3. \A j \in 1 .. m : IsHandler(stack'[j].marker) <=> IsHandler(stack[j].marker)
    BY <2>1 DEF IsHandler
  <2> QED  BY <2>1, <2>2, <2>3
<1>8. CASE Top.marker.kind = "nil" /\ due' = due /\ Delivers /\ next' = next
  <2>1. CASE Top.link = "cleanup"
    <3>1. /\ Keeps(m) /\ Len(stack') = m /\ pc'.op = "curtail"
          /\ \A j \in 1 .. m : stack'[j].marker = stack[j].marker \/ stack'[j].marker.kind = "nil"
      BY <1>3, <1>4, <1>8, <2>1 DEF Delivers, Cut
    <3>2. \A j \in 1 .. m : IsHandler(stack'[j].marker) => IsHandler(stack[j].marker)
      BY <3>1 DEF IsHandler
    <3>3. n \in Frames /\ stack[n].link = "cleanup" /\ \A j \in Frames : ~(j > n)
      BY <1>1, <1>3, <2>1
    <3> QED  BY <1>2, <1>4, <1>8, <3>1, <3>2, <3>3, CleanupReturns
  <2>2. CASE Top.link # "cleanup"
    <3>1. \A j \in m + 1 .. Len(stack) : ~IsHandler(stack[j].marker)
      BY <1>1, <1>3, <1>5, <1>8 DEF IsHandler
    <3>2. Len(stack') # m + 1  BY <1>4, <1>7, <1>8, <2>2
    <3> QED  BY <1>1, <1>7, <1>8, <2>2, <3>1, <3>2, CleanupsQuiet
  <2> QED  BY <2>1, <2>2
<1>9. CASE Top.marker.kind = "ifCurtailed" /\ due' = Discharged(Top.serial) /\ Delivers
           /\ next' = next
  <2>1. IsHandler(Top.marker) /\ Top.link # "cleanup" /\ Current(n)
    BY <1>6, <1>9 DEF IsHandler
  <2>2. Len(stack') # m + 1 /\ n \in Frames /\ IsHandler(stack[n].marker)
        /\ due' = Discharged(stack[n].serial)
    BY <1>1, <1>3, <1>4, <1>7, <1>9, <2>1
  <2>3. \A j \in 1 .. m : IsHandler(stack'[j].marker) <=> IsHandler(stack[j].marker) /\ j # n
    <3>1. \A j \in 1 .. m : j # n  BY <1>3, <1>4
    <3> QED  BY <1>7, <1>9, <2>1, <3>1
  <2> QED  BY <1>1, <1>5, <1>7, <1>9, <2>1, <2>2, <2>3, CleanupStarts
<1>10. CASE /\ Top.marker.kind = "ensure" /\ due' = Discharged(Top.serial)
            /\ Pushed(Len(stack), "ensureRet", TRUE, Top.marker.home, Unmarked)
            /\ SameMarkers(Len(stack) - 1) /\ stack'[Len(stack)].marker = Unmarked
            /\ pc'.op = "run"
  <2>1. IsHandler(Top.marker) /\ Top.link # "cleanup" /\ Current(n)
    BY <1>6, <1>10 DEF IsHandler
  <2>2. /\ n \in Frames /\ IsHandler(stack[n].marker) /\ due' = Discharged(stack[n].serial)
        /\ Keeps(n) /\ Len(stack') = n + 1 /\ NewTop(n).link = "ensureRet"
        /\ NewTop(n).marker = Unmarked /\ SameMarkers(m) /\ stack'[n].marker = Unmarked
    BY <1>1, <1>3, <1>4, <1>10, <2>1 DEF Pushed, NewTop
  <2>3. ~IsHandler(Unmarked)  BY Records DEF IsHandler
  <2>4. \A j \in n + 1 .. Len(stack) : FALSE  BY <1>3
  <2>5. SameCleanup(n)  BY <1>2, <1>10, <2>2, <2>4 DEF SameCleanup
  <2>6. \A j \in 1 .. n : IsHandler(stack'[j].marker) <=> IsHandler(stack[j].marker) /\ j # n
    <3> TAKE j \in 1 .. n
    <3>1. CASE j = n  BY <2>2, <2>3, <3>1
    <3>2. CASE j # n
      <4>1. j \in 1 .. m  BY <1>3, <1>4, <3>2
      <4> QED  BY <2>2, <3>2, <4>1 DEF SameMarkers
    <3> QED  BY <3>1, <3>2
  <2>7. next' \in {next, next + 1}
    <3>1. next' = next + 1
      BY <1>10 DEF DoReturn, InterceptEnsureReturn
    <3> QED  BY <3>1
  <2>8. \A j \in n + 1 .. Len(stack) : IsHandler(stack[j].marker) => j = n  BY <2>4
  <2>9. Len(stack') = n + 1 => ~IsHandler(NewTop(n).marker)  BY <2>2, <2>3
  <2> QED  BY <1>1, <1>10, <2>1, <2>2, <2>5, <2>6, <2>7, <2>8, <2>9, CleanupStarts
<1> QED  BY <1>8, <1>9, <1>10, DoReturnStep

\* The next cleanup of an error's pass starts.
LEMMA CleanupOfPass ==
    ASSUME UnwindInv, CleanupInv, RunCleanup
    PROVE  CleanupInv'
<1> CurtailInv /\ DueInv  BY DEF CleanupInv, Stuck, RunCleanup
<1>1. PICK m \in Nat : m = Len(stack) /\ Frames = 1 .. m  BY StackTyped DEF UnwindInv
<1>2. /\ pc.op = "curtail" /\ pass # << >> /\ pc'.op = "run" /\ curtailing' = curtailing
      /\ pass' = Tail(pass) /\ due' = Discharged(Head(pass).serial) /\ next' = next + 1
  BY Records DEF RunCleanup
<1>3. /\ Keeps(m) /\ Len(stack') = m + 1 /\ SameMarkers(m)
      /\ stack'[m + 1].link = "cleanup" /\ NewTop(m).marker = Unmarked
  BY <1>1, RunCleanupStep DEF GuestCall, Pushed, NewTop
<1>4. curtailing /\ \A i \in Frames : stack[i].link # "cleanup"
  BY <1>1, <1>2 DEF CurtailInv, InCleanup, Frames
<1>5. \A i \in 1 .. Len(stack') : stack'[i].link = "cleanup" => i = m + 1
  <2> TAKE i \in 1 .. Len(stack')
  <2>1. CASE i # m + 1
    <3>1. i \in 1 .. m  BY <1>3, <2>1
    <3> QED  BY <1>1, <1>3, <1>4, <3>1 DEF Keeps
  <2> QED  BY <2>1
<1>6. CurtailInv'
  <2>1. PICK c \in BOOLEAN : c = TRUE  OBVIOUS
  <2>2. m + 1 \in 1 .. Len(stack')  BY <1>3
  <2>3. c <=> \E i \in 1 .. Len(stack') : stack'[i].link = "cleanup"  BY <1>3, <2>1, <2>2
  <2> QED  BY <1>2, <1>4, <1>5, <2>1, <2>3, CurtailAfter
<1>7. pass \in Seq(Entry) /\ Len(pass) \in Nat /\ Len(pass) >= 1
      /\ Head(pass) = pass[1] /\ Len(pass') = Len(pass) - 1
      /\ \A k \in 1 .. Len(pass') : pass'[k] = pass[k + 1]
  <2>1. pass \in Seq(Entry)  BY DEF UnwindInv, TypeInv
  <2> QED  BY <1>2, <2>1
<1>8. \A i \in Frames : ~Current(i)  BY <1>2 DEF Current
<1>9. \A i \in 1 .. Len(stack') :
              ~(pc'.op # "curtail" /\ \A c \in i .. Len(stack') : stack'[c].link # "cleanup")
  <2> TAKE i \in 1 .. Len(stack')
  <2>1. m + 1 \in i .. Len(stack')  BY <1>3
  <2> QED  BY <1>3, <2>1
<1>10. \A s \in 1 .. MaxSerial : due[s] \in {0, 1}
                              /\ (due[s] = 1 => \E k \in 1 .. Len(pass) : pass[k].serial = s)
  BY <1>8 DEF DueInv
<1>11. \A k \in 1 .. Len(pass) :
              /\ pass[k].serial \in 1 .. MaxSerial /\ pass[k].serial < next
              /\ due[pass[k].serial] = 1
              /\ \A l \in k + 1 .. Len(pass) : pass[l].serial < pass[k].serial
  BY DEF DueInv
<1>12. 1 \in 1 .. Len(pass)  BY <1>7
<1>13. \A s \in 1 .. MaxSerial : due'[s] = IF s = pass[1].serial THEN 0 ELSE due[s]
  <2>1. DOMAIN due = 1 .. MaxSerial  BY DEF UnwindInv, TypeInv
  <2>2. due[pass[1].serial] = 1  BY <1>11, <1>12
  <2> QED  BY <1>2, <1>7, <2>1, <2>2 DEF Discharged
<1>14. ASSUME NEW k \in 1 .. Len(pass')
       PROVE  /\ pass'[k].serial \in 1 .. MaxSerial /\ pass'[k].serial < next'
              /\ due'[pass'[k].serial] = 1
              /\ \A l \in k + 1 .. Len(pass') : pass'[l].serial < pass'[k].serial
  <2>1. k + 1 \in 1 .. Len(pass) /\ k + 1 \in 1 + 1 .. Len(pass) /\ pass'[k] = pass[k + 1]
    BY <1>7
  <2>2. /\ pass[k + 1].serial \in 1 .. MaxSerial /\ pass[k + 1].serial < next
        /\ due[pass[k + 1].serial] = 1
        /\ \A l \in k + 1 + 1 .. Len(pass) : pass[l].serial < pass[k + 1].serial
    BY <1>11, <2>1
  <2>3. pass[k + 1].serial < pass[1].serial /\ pass[1].serial \in Nat  BY <1>11, <1>12, <2>1
  <2>4. next \in Nat /\ pass[k + 1].serial \in Nat  BY <2>2, StackTyped DEF UnwindInv
  <2>5. \A l \in k + 1 .. Len(pass') : l + 1 \in k + 1 + 1 .. Len(pass) /\ pass'[l] = pass[l + 1]
    BY <1>7
  <2>6. \A l \in k + 1 .. Len(pass') : pass'[l].serial < pass'[k].serial
    BY <2>1, <2>2, <2>5
  <2>7. pass[k + 1].serial # pass[1].serial /\ pass[k + 1].serial < next'  BY <1>2, <2>2, <2>3, <2>4
  <2> QED  BY <1>13, <2>1, <2>2, <2>6, <2>7
<1>15. ASSUME NEW s \in 1 .. MaxSerial
       PROVE  due'[s] \in {0, 1} /\ (due'[s] = 1 => \E k \in 1 .. Len(pass') : pass'[k].serial = s)
  <2>1. due'[s] \in {0, 1}  BY <1>10, <1>13
  <2>2. ASSUME due'[s] = 1  PROVE \E k \in 1 .. Len(pass') : pass'[k].serial = s
    <3>1. s # pass[1].serial /\ due[s] = 1  BY <1>13, <2>2
    <3>2. PICK k \in 1 .. Len(pass) : pass[k].serial = s  BY <1>10, <3>1
    <3>3. k # 1  BY <3>1, <3>2
    <3>4. k - 1 \in 1 .. Len(pass') /\ (k - 1) + 1 = k  BY <1>7, <3>3
    <3>5. pass'[k - 1] = pass[k]  BY <1>7, <3>4
    <3> QED  BY <3>2, <3>4, <3>5
  <2> QED  BY <2>1, <2>2
<1>16. \A j \in 1 .. m : IsHandler(stack'[j].marker) => IsHandler(stack[j].marker)
  BY <1>3 DEF SameMarkers
<1>17. ~IsHandler(NewTop(m).marker) /\ Len(stack') \in {m, m + 1}
  BY <1>3, Records DEF IsHandler
<1>18. DueInv'
  BY <1>3, <1>9, <1>14, <1>15, <1>16, <1>17, DueInPass
<1> QED  BY <1>6, <1>18 DEF CleanupInv


\* continue_unwind with a live home.
LEMMA CleanupUnwinds ==
    ASSUME UnwindInv, CleanupInv, ReachedHome \/ RanHandler \/ Escaped
    PROVE  CleanupInv'
<1>1. pc.op = "unwind" /\ HomeIsLive(pc.home) /\ UNCHANGED <<curtailing, pass>>
  BY DEF ReachedHome, RanHandler, Escaped
<1>2. TypeInv /\ Len(stack) \in Nat /\ Frames = 1 .. Len(stack)  BY StackTyped DEF UnwindInv
<1>3. PICK h \in Home : /\ h = pc.home /\ h.fp \in Frames /\ stack[h.fp].serial = h.serial
  BY <1>1, ScanStops
<1>4. PICK i \in Frames : i = ScanStop(pc.home)  BY <1>1, ScanStops
<1>5. i \in Nat /\ h.fp \in Nat /\ h.fp <= i /\ h.fp >= 1 /\ i <= Len(stack)
  BY <1>1, <1>2, <1>3, <1>4, ScanStops
<1>6. \A j \in Frames : j > i => ~IsHandler(stack[j].marker) /\ stack[j].link # "cleanup"
  BY <1>1, <1>4, ScanStops DEF EntryLinks
<1>7. CASE ReachedHome
  <2>1. PICK m \in Nat : m = h.fp /\ m = i  BY <1>3, <1>4, <1>5, <1>7 DEF ReachedHome
  <2>2. Keeps(m) /\ Len(stack') = m /\ SameMarkers(m)
    BY <1>3, <1>7, <2>1, ReachedHomeStep DEF Cut
  <2>3. pc'.op = "return" /\ next' = next /\ due' = due  BY <1>3, <1>7, Records DEF ReachedHome
  <2>4. \A j \in m + 1 .. Len(stack) : j \in Frames /\ j > i  BY <1>2, <1>5, <2>1
  <2>5. Len(stack') # m + 1 /\ Len(stack') \in {m, m + 1}  BY <2>1, <2>2
  <2>6. SameCleanup(m)  BY <1>1, <1>6, <2>2, <2>3, <2>4, <2>5 DEF SameCleanup
  <2>7. \A j \in 1 .. m : IsHandler(stack'[j].marker) <=> IsHandler(stack[j].marker)
    BY <2>2 DEF SameMarkers
  <2>8. \A j \in m + 1 .. Len(stack) : ~IsHandler(stack[j].marker)  BY <1>6, <2>4
  <2> QED  BY <2>3, <2>5, <2>6, <2>7, <2>8, CleanupsQuiet
<1>8. CASE RanHandler
  <2>1. /\ h.fp < i /\ Keeps(i) /\ Len(stack') = i + 1 /\ IsHandler(stack[i].marker)
        /\ SameMarkers(i - 1) /\ stack'[i].marker = Token(h)
        /\ NewTop(i).marker = Unmarked /\ NewTop(i).link = "unwind"
        /\ due' = Discharged(stack[i].serial)
    BY <1>3, <1>4, <1>8, RanHandlerStep DEF Pushed, NewTop
  <2>2. ~IsHandler(Token(h)) /\ ~IsHandler(Unmarked)  BY Records DEF IsHandler
  <2>3. pc'.op = "run" /\ next' = next + 1  BY <1>8, Records DEF RanHandler
  <2>4. \A j \in i .. Len(stack) : stack[j].link # "cleanup"
    <3>1. \A j \in i .. Len(stack) : j = i \/ (j \in Frames /\ j > i)  BY <1>2, <1>5
    <3>2. stack[i].link # "cleanup"  BY <2>1, ArmedSerial
    <3> QED  BY <1>6, <3>1, <3>2
  <2>5. Current(i)  BY <1>1, <2>4 DEF Current
  <2>6. SameCleanup(i)
    <3>1. \A j \in i + 1 .. Len(stack) : j \in i .. Len(stack)  BY <1>2, <1>5
    <3> QED  BY <1>1, <2>1, <2>3, <2>4, <3>1 DEF SameCleanup
  <2>7. \A j \in 1 .. i : IsHandler(stack'[j].marker) <=> IsHandler(stack[j].marker) /\ j # i
    <3> TAKE j \in 1 .. i
    <3>1. CASE j = i  BY <2>1, <2>2, <3>1
    <3>2. CASE j # i
      <4>1. j \in 1 .. i - 1  BY <1>5, <3>2
      <4> QED  BY <2>1, <3>2, <4>1 DEF SameMarkers
    <3> QED  BY <3>1, <3>2
  <2>8. \A j \in i + 1 .. Len(stack) : IsHandler(stack[j].marker) => j = i
    <3>1. \A j \in i + 1 .. Len(stack) : j \in Frames /\ j > i  BY <1>2, <1>5
    <3> QED  BY <1>6, <3>1
  <2>9. Len(stack') = i + 1 => ~IsHandler(NewTop(i).marker)  BY <2>1, <2>2
  <2> QED  BY <2>1, <2>3, <2>5, <2>6, <2>7, <2>8, <2>9, CleanupStarts
<1>9. CASE Escaped
  <2>1. /\ Cut(i - 1) /\ SameMarkers(i - 1) /\ h.fp < i /\ ~IsHandler(stack[i].marker)
        /\ stack[i].link \in EntryLinks \ {"doit"}
        /\ stack[i].link = "c2i" => pc'.op = "escape"
        /\ stack[i].link = "cleanup" => pc'.op = "curtail"
        /\ stack[i].link = "perform" => pc'.op = "run"
    BY <1>3, <1>4, <1>9, EscapedStep
  <2>2. PICK m \in Nat : m = i - 1  BY <1>2, <1>5
  <2>3. Keeps(m) /\ Len(stack') = m /\ SameMarkers(m)  BY <2>1, <2>2 DEF Cut
  <2>4. \A j \in m + 1 .. Len(stack) : j = i \/ (j \in Frames /\ j > i)  BY <1>2, <1>5, <2>2
  <2>5. next' = next /\ due' = due  BY <1>9 DEF Escaped
  <2>6. Len(stack') # m + 1 /\ Len(stack') \in {m, m + 1}  BY <2>2, <2>3
  <2>7. \A j \in 1 .. m : IsHandler(stack'[j].marker) <=> IsHandler(stack[j].marker)
    BY <2>3 DEF SameMarkers
  <2>8. CASE stack[i].link = "cleanup"
    BY <1>1, <1>6, <2>1, <2>2, <2>3, <2>5, <2>7, <2>8, CleanupReturns
  <2>9. CASE stack[i].link # "cleanup"
    <3>1. pc'.op # "curtail"  BY <2>1, <2>9 DEF EntryLinks
    <3>2. SameCleanup(m)  BY <1>1, <1>6, <2>3, <2>4, <2>6, <2>9, <3>1 DEF SameCleanup
    <3>3. \A j \in m + 1 .. Len(stack) : ~IsHandler(stack[j].marker)  BY <1>6, <2>1, <2>4
    <3> QED  BY <2>5, <2>6, <2>7, <3>2, <3>3, CleanupsQuiet
  <2> QED  BY <2>8, <2>9
<1> QED  BY <1>7, <1>8, <1>9

\* Errors.
LEMMA CleanupRaise ==
    ASSUME UnwindInv, CleanupInv, stack # << >>,
           pc.op \in {"run", "unwind"}, NEW start \in {0} \cup Frames, Raise(start)
    PROVE  CleanupInv'
<1>1. PICK m \in Nat : m = Len(stack) /\ Frames = 1 .. m  BY StackTyped DEF UnwindInv
<1>2. DOMAIN due = 1 .. MaxSerial  BY DEF UnwindInv, TypeInv
<1>3. \A s \in 1 .. MaxSerial : due'[s] = IF s \in Forfeits(start) THEN 0 ELSE due[s]
  BY <1>2 DEF Raise
<1>4. doits' = doits /\ next' = next  BY DEF Raise
<1>5. CASE curtailing
  <2>1. stack' = << >> /\ pc'.op = "run" /\ curtailing'
    BY <1>5, Records DEF Raise, Recover
  <2>2. Len(stack') = 0  BY <2>1
  <2> QED  BY <2>1, <2>2 DEF CleanupInv, Stuck, InCleanup
<1>6. CASE ~curtailing
  <2> CurtailInv /\ DueInv  BY <1>6 DEF CleanupInv, Stuck
  <2> DEFINE C == Curtailed(start)
  <2>1. /\ Keeps(m) /\ Len(stack') = m /\ pass' = Collected(C) /\ pc'.op = "curtail"
        /\ \A j \in Frames : stack'[j].marker = IF j \in C THEN Unmarked ELSE stack[j].marker
    BY <1>1, <1>6, RaiseStep DEF Curtails, Cut
  <2>2. curtailing' = TRUE  BY <1>6 DEF Raise
  <2>3. ~InCleanup /\ \A j \in Frames : stack[j].link # "cleanup"
    BY <1>6 DEF CurtailInv, InCleanup, Frames
  <2>4. C \in SUBSET Frames /\ \A j \in C : IsHandler(stack[j].marker)  BY CurtailedAre
  <2>5. \A s \in 1 .. MaxSerial : s \notin Forfeits(start) <=> \E j \in C : stack[j].serial = s
    BY <1>2, <2>3 DEF Forfeits
  <2> HIDE DEF C
  <2>6. CurtailInv'
    <3>1. PICK c \in BOOLEAN : c = FALSE  OBVIOUS
    <3>2. \A j \in 1 .. Len(stack') : stack'[j].link # "cleanup"  BY <1>1, <2>1, <2>3 DEF Keeps
    <3> QED  BY <2>1, <2>2, <3>1, <3>2, CurtailAfter
  <2>7. \A j \in C : /\ stack[j].serial \in 1 .. MaxSerial /\ due[stack[j].serial] = 1
                     /\ stack[j].serial \in 1 .. next - 1
    <3> TAKE j \in C
    <3>1. j \in Frames /\ IsHandler(stack[j].marker)  BY <2>4
    <3>2. Current(j)
      <4>1. \A c \in j .. Len(stack) : c \in Frames  BY <1>1, <3>1
      <4> QED  BY <2>3, <4>1 DEF Current
    <3> QED  BY <3>1, <3>2, ArmedSerial DEF DueInv
  <2>8. \A i, j \in C : j < i => stack[j].serial < stack[i].serial  BY <2>4, ArmedSerial
  <2>9. PICK n \in Nat : /\ n = Cardinality(C) /\ Len(pass') = n
                         /\ \A k \in 1 .. n : /\ NthInnermost(C, k) \in C
                                              /\ pass'[k].serial = stack[NthInnermost(C, k)].serial
    BY <2>1, <2>4, CollectedIs
  <2>10. C \in SUBSET (0 .. m)  BY <1>1, <2>4
  <2>11. ASSUME NEW s \in 1 .. MaxSerial
         PROVE  due'[s] \in {0, 1} /\ (due'[s] = 1 => \E k \in 1 .. Len(pass') : pass'[k].serial = s)
    <3>1. due[s] \in {0, 1}  BY DEF DueInv
    <3>2. ASSUME due'[s] = 1  PROVE \E k \in 1 .. Len(pass') : pass'[k].serial = s
      <4>1. s \notin Forfeits(start)  BY <1>3, <3>2
      <4>2. PICK j \in C : stack[j].serial = s  BY <2>5, <4>1
      <4>3. PICK k \in 1 .. Cardinality(C) : NthInnermost(C, k) = j  BY <1>1, <2>10, NthCovers
      <4> QED  BY <2>9, <4>2, <4>3
    <3> QED  BY <1>3, <3>1, <3>2
  <2>12. ASSUME NEW k \in 1 .. Len(pass')
         PROVE  /\ pass'[k].serial \in 1 .. MaxSerial /\ pass'[k].serial < next'
                /\ due'[pass'[k].serial] = 1
                /\ \A l \in k + 1 .. Len(pass') : pass'[l].serial < pass'[k].serial
    <3>1. PICK i \in C : i = NthInnermost(C, k) /\ pass'[k].serial = stack[i].serial  BY <2>9
    <3>2. stack[i].serial \in 1 .. MaxSerial /\ stack[i].serial \in 1 .. next - 1
          /\ due[stack[i].serial] = 1
      BY <2>7
    <3>3. stack[i].serial < next' /\ next \in Nat
      BY <1>4, <3>2, StackTyped DEF UnwindInv
    <3>4. due'[stack[i].serial] = 1
      <4>1. stack[i].serial \notin Forfeits(start)  BY <2>5, <3>2
      <4> QED  BY <1>3, <3>2, <4>1
    <3>5. ASSUME NEW l \in k + 1 .. Len(pass')  PROVE pass'[l].serial < pass'[k].serial
      <4>1. l \in 1 .. n /\ k \in 1 .. n /\ k < l  BY <2>9
      <4>2. PICK j \in C : j = NthInnermost(C, l) /\ pass'[l].serial = stack[j].serial
        BY <2>9, <4>1
      <4>3. j < i  BY <1>1, <2>9, <2>10, <3>1, <4>1, <4>2, NthOrder
      <4> QED  BY <2>8, <3>1, <4>2, <4>3
    <3> QED  BY <3>1, <3>2, <3>3, <3>4, <3>5
  <2>13. \A j \in 1 .. m : IsHandler(stack'[j].marker) => IsHandler(stack[j].marker)
    <3>1. ~IsHandler(Unmarked)  BY Records DEF IsHandler
    <3> QED  BY <1>1, <2>1, <3>1
  <2>14. Len(stack') # m + 1 /\ Len(stack') \in {m, m + 1}  BY <1>1, <2>1
  <2>15. DueInv'  BY <2>1, <2>11, <2>12, <2>13, <2>14, DueInPass
  <2> QED  BY <2>6, <2>15 DEF CleanupInv
<1> QED  BY <1>5, <1>6

\* The pass is over.
LEMMA CleanupEnd ==
    ASSUME UnwindInv, CleanupInv, EndCurtailment
    PROVE  CleanupInv'
<1> CurtailInv /\ DueInv  BY DEF CleanupInv, Stuck, EndCurtailment
<1>1. /\ pc.op = "curtail" /\ pass = << >> /\ ~curtailing' /\ stack' = << >> /\ pass' = << >>
      /\ pc'.op = "run" /\ due' = due
  BY Records DEF EndCurtailment, Recover
<1>2. Len(stack') = 0 /\ Len(pass') = 0 /\ Keeps(0)
  BY <1>1, StackTyped DEF UnwindInv, Keeps
<1>3. CurtailInv'
  <2>1. PICK c \in BOOLEAN : c = FALSE  OBVIOUS
  <2> QED  BY <1>1, <1>2, <2>1, CurtailAfter
<1>4. \A s \in 1 .. MaxSerial : due[s] = 0
  <2> TAKE s \in 1 .. MaxSerial
  <2>1. \A i \in Frames : ~Current(i)  BY <1>1 DEF Current
  <2>2. \A k \in 1 .. Len(pass) : FALSE  BY <1>1
  <2> QED  BY <2>1, <2>2 DEF DueInv
<1>5. DueInv'  BY <1>1, <1>2, <1>4, DueInPass
<1> QED  BY <1>3, <1>5 DEF CleanupInv


\* Nothing is due at the start.
LEMMA CleanupInit == Init => CleanupInv
<1> SUFFICES ASSUME Init PROVE CurtailInv /\ DueInv  BY DEF CleanupInv
<1>1. /\ pc.op = "run" /\ Frames = {} /\ Len(stack) = 0 /\ Len(pass) = 0 /\ pass = << >>
      /\ curtailing = FALSE /\ \A s \in 1 .. MaxSerial : due[s] = 0
  BY Records DEF Init, Frames
<1>2. ~InCleanup  BY <1>1 DEF InCleanup
<1> QED  BY <1>1, <1>2 DEF CurtailInv, DueInv

\* Every step keeps CleanupInv.
LEMMA CleanupStep == UnwindInv /\ CleanupInv /\ [Next]_vars => CleanupInv'
<1> SUFFICES ASSUME UnwindInv, CleanupInv, [Next]_vars PROVE CleanupInv'  OBVIOUS
<1>1. CASE Doit
  <2>1. /\ pc.op = "run" /\ pc' = pc /\ next' = next + 1
        /\ UNCHANGED <<curtailing, pass, due>>
    BY <1>1, Records DEF Doit
  <2>2. GuestCall("doit", FALSE, NoHome, Unmarked)  BY <1>1, DoitStep
  <2> QED  BY <2>1, <2>2, CleanupCall
<1>2. CASE SendMethod
  <2>1. /\ pc.op = "run" /\ pc' = pc /\ next' = next + 1 /\ stack # << >>
        /\ UNCHANGED <<curtailing, pass, due>>
    BY <1>2, Records DEF SendMethod, MayCall, GuestRuns, Call
  <2>2. CallLink # "cleanup"  BY <2>1, CallLinkFits
  <2> QED  BY <1>2, <2>1, <2>2, SendStep, CleanupCall
<1>3. CASE Perform
  <2>1. /\ pc.op = "run" /\ pc' = pc /\ next' = next + 1 /\ stack # << >>
        /\ UNCHANGED <<curtailing, pass, due>>
    BY <1>3, Records DEF Perform, MayCall, GuestRuns, Call
  <2> QED  BY <1>3, <2>1, PerformStep, CleanupCall
<1>4. CASE Value
  <2>1. /\ pc.op = "run" /\ pc' = pc /\ next' = next + 1 /\ stack # << >>
        /\ UNCHANGED <<curtailing, pass, due>>
    BY <1>4, Records DEF Value, MayCall, GuestRuns, Call
  <2>2. CallLink # "cleanup"  BY <2>1, CallLinkFits
  <2> QED  BY <1>4, <2>1, <2>2, ValueStep, CleanupCall
<1>5. CASE EnsureLike  BY <1>5, CleanupArmed
<1>6. CASE EnterCompiled \/ Deoptimize  BY <1>6, CleanupTiers
<1>7. CASE ReturnCompiled \/ NlrOriginate \/ Relay  BY <1>7, CleanupCompiled
<1>8. CASE StoreClosure \/ NlrTos \/ TakeUp  BY <1>8, CleanupStays
<1>9. CASE DoReturn  BY <1>9, CleanupReturn
<1>10. CASE Error
  <2>1. stack # << >> /\ pc.op = "run" /\ \E start \in {0} \cup Frames : Raise(start)
    BY <1>10, ErrorStart
  <2>2. pc.op \in {"run", "unwind"}  BY <2>1
  <2> QED  BY <2>1, <2>2, CleanupRaise
<1>11. CASE CannotReturn
  <2>1. stack # << >> /\ Raise(Len(stack)) /\ Len(stack) \in {0} \cup Frames
    BY <1>11, CannotReturnStep
  <2>2. pc.op \in {"run", "unwind"}  BY <1>11 DEF CannotReturn
  <2>3. PICK start \in {0} \cup Frames : start = Len(stack)  BY <2>1
  <2>4. Raise(start)  BY <2>1, <2>3
  <2> QED  BY <2>1, <2>2, <2>4, CleanupRaise
<1>12. CASE RunCleanup  BY <1>12, CleanupOfPass
<1>13. CASE EndCurtailment  BY <1>13, CleanupEnd
<1>14. CASE ReachedHome \/ RanHandler \/ Escaped  BY <1>14, CleanupUnwinds
<1>15. CASE UNCHANGED vars
  <2>1. UNCHANGED <<stack, pc, nlr, curtailing, pass, next, doits, due>>  BY <1>15 DEF vars
  <2>2. CurtailInv => CurtailInv'  BY <2>1 DEF CurtailInv, InCleanup, Frames
  <2>3. DueInv => DueInv'  BY <2>1 DEF DueInv, Current, IsHandler, Frames
  <2>4. Stuck => Stuck'  BY <2>1 DEF Stuck, InCleanup
  <2> QED  BY <2>2, <2>3, <2>4 DEF CleanupInv
<1> QED
  BY <1>1, <1>2, <1>3, <1>4, <1>5, <1>6, <1>7, <1>8, <1>9, <1>10, <1>11, <1>12, <1>13,
     <1>14, <1>15 DEF Next, Idle

\* As long as no cleanup has failed, none is forgotten or run twice, whichever way
\* its frame is left (do_return, continue_unwind, run_curtailment_blocks_on_error),
\* and an error runs them from the innermost.
THEOREM CleanupsAlwaysRun == Spec => []CleanupsRun
<1>1. UnwindInv /\ CleanupInv => CleanupsRun
  <2> SUFFICES ASSUME UnwindInv, DueInv PROVE NoCleanupForgotten  BY DEF CleanupInv, CleanupsRun
  <2>1. DOMAIN due = 1 .. MaxSerial /\ pass \in Seq(Entry)  BY DEF UnwindInv, TypeInv
  <2>2. \A s \in DOMAIN due : due[s] \in {0, 1} /\ (due[s] = 1 => Waits(s))
    BY <2>1 DEF DueInv, Waits
  <2>3. ASSUME pc.op = "curtail", pass # << >>, NEW s \in DOMAIN due, due[s] = 1
        PROVE  s <= Head(pass).serial
    <3>1. \A i \in Frames : ~Current(i)  BY <2>3 DEF Current
    <3>2. PICK k \in 1 .. Len(pass) : pass[k].serial = s  BY <2>1, <2>3, <3>1 DEF DueInv
    <3>3. Len(pass) \in Nat /\ 1 \in 1 .. Len(pass) /\ Head(pass) = pass[1]  BY <2>1, <2>3
    <3>4. pass[1].serial \in 1 .. MaxSerial /\ pass[k].serial \in 1 .. MaxSerial
          /\ \A l \in 1 + 1 .. Len(pass) : pass[l].serial < pass[1].serial
      BY <3>2, <3>3 DEF DueInv
    <3>5. k = 1 \/ k \in 1 + 1 .. Len(pass)  BY <3>3
    <3> QED  BY <3>2, <3>3, <3>4, <3>5
  <2> QED  BY <2>2, <2>3 DEF NoCleanupForgotten
<1>2. Init => UnwindInv /\ CleanupInv  BY UnwindInit, CleanupInit
<1>3. UnwindInv /\ CleanupInv /\ [Next]_vars => UnwindInv' /\ CleanupInv'
  BY UnwindStep, CleanupStep
<1> QED  BY <1>1, <1>2, <1>3, PTL DEF Spec

=============================================================================
