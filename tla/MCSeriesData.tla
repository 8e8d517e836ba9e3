---------------------------- MODULE MCSeriesData ---------------------------
(* Allocations of up to 7 units are enough for a series to leave its node, *)
(* to be reallocated again while biased, to have more bias than the field  *)
(* of 4 can store and to be unbiased for each of the two reasons.          *)
EXTENDS SeriesData
============================================================================
