---------------------------- MODULE MCDailyStream ----------------------------
(* Instances of DailyStream: two streams over two days *)
EXTENDS DailyStream, TLC

CONSTANTS s1, s2

TwoStreams == {s1, s2}
Symmetry   == Permutations(TwoStreams)
==============================================================================
