----------------------------- MODULE MCSignals -----------------------------
(* Signals for TLC: every bound is a constant of the specification.        *)
EXTENDS Signals
============================================================================
