----------------------------- MODULE MCWorkers -----------------------------
(* Two worker threads, one primary. *)
EXTENDS Workers, TLC

CONSTANTS w1, w2, primary
MCIncs == {w1, w2}
MCSenders == {w1, w2, primary}
EveryHost == {"gui", "hosted", "pump"}
Gui == {"gui"}
MCEnvelopes == Envelope
Symmetry == Permutations(MCIncs)
=============================================================================
