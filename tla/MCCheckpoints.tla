--------------------------- MODULE MCCheckpoints ---------------------------
(* Checkpoints on a small instance; the series are interchangeable.        *)
EXTENDS Checkpoints, TLC

SeriesSymmetry == Permutations(Series)
============================================================================
