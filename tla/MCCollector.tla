---------------------------- MODULE MCCollector ----------------------------
(* Collector on a small pool with every kind of root.  No symmetry: one of *)
(* the properties is temporal.                                             *)
EXTENDS Collector
============================================================================
