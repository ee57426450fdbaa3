------------------------- MODULE MCConcurrentForEach -------------------------
(* Model-checking instances of ConcurrentForEach. *)
EXTENDS ConcurrentForEach

CONSTANTS a, b

TwoLoops == {a, b}
MCEvents == TwoLoops \X (0 .. NumChunks - 1) \X (1 .. NumSteps)
MCWaiters == TwoLoops \X (0 .. NumChunks - 1)
=============================================================================
