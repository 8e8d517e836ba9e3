----------------------------- MODULE Collector -----------------------------
(***************************************************************************)
(* Mark and sweep over the node pool (Recycle_Core).                       *)
(*                                                                         *)
(* A node is an array (its cells may refer to nodes), another series, a    *)
(* pairing of two cells, or an API handle.  A handle belongs to a frame;   *)
(* it is an orphan once that frame has failed.  Besides its cells a series *)
(* may ask, with flags, for the nodes in its LINK and MISC to be marked.   *)
(*                                                                         *)
(* Queue_Mark_Node_Deep recurses over LINK, MISC and pairings, but defers  *)
(* the items of arrays to GC_Mark_Stack.  `pending` is the calls that the  *)
(* recursion still has to make, `mark_stack` the arrays that still have to *)
(* be gone through; the order within each is left open, and so is the      *)
(* order of the pool and how far one segment of it goes.                   *)
(*                                                                         *)
(* Cells that refer to an unmanaged context by their binding are skipped   *)
(* by the marking and are left out; every reference here is to a managed   *)
(* node, as the code requires of the contents of cells.                    *)
(***************************************************************************)
EXTENDS Naturals, FiniteSets

CONSTANTS
    Nodes,          \* the nodes of SER_POOL
    UsedRoots,      \* the kinds of roots the running program makes use of
    MaxRefs         \* bound on the references in the heap

RootKinds ==
    {"natives", "symbols", "stack", "guarded", "frames", "devices"}

ASSUME CollectorAssumption ==
    /\ UsedRoots \subseteq RootKinds
    /\ MaxRefs \in Nat

VARIABLES
    kind,          \* what each node is used for
    managed,       \* NODE_FLAG_MANAGED
    inaccessible,  \* SERIES_INFO_INACCESSIBLE: the data is gone
    cells,         \* the nodes that the cells of a node refer to
    links,         \* the nodes in LINK and MISC that need a mark
    roots,         \* the nodes each kind of root refers to
    phase,         \* what Recycle_Core is doing; "run": it is not
    mode,          \* its arguments: "recycle", "list" or "shutdown"
    todo,          \* the roots of this phase that are not visited yet
    pending,       \* calls of Queue_Mark_Node_Deep to be made
    mark_stack,    \* GC_Mark_Stack
    marked,        \* NODE_FLAG_MARKED
    sweeplist      \* what Recycle_Core reported last

heap_vars == <<kind, managed, inaccessible, cells, links, roots>>
gc_vars == <<phase, mode, todo, pending, mark_stack, marked, sweeplist>>
vars == <<kind, managed, inaccessible, cells, links, roots, phase, mode, todo,
          pending, mark_stack, marked, sweeplist>>

Kinds == {"free", "array", "binary", "pairing", "handle", "orphan"}

\* The order in which Recycle_Core marks.
Phases == {"run", "series", "sweep", "down"} \union RootKinds

AfterPhase(p) ==
    CASE p = "series"  -> IF mode = "shutdown" THEN "sweep" ELSE "natives"
      [] p = "natives" -> "symbols"
      [] p = "symbols" -> "stack"
      [] p = "stack"   -> "guarded"
      [] p = "guarded" -> "frames"
      [] p = "frames"  -> "devices"
      [] p = "devices" -> "sweep"

InUse == {n \in Nodes : kind[n] # "free"}

TypeOK ==
    /\ kind \in [Nodes -> Kinds]
    /\ managed \subseteq InUse
    /\ inaccessible \subseteq managed
    /\ cells \in [Nodes -> SUBSET Nodes]
    /\ links \in [Nodes -> SUBSET Nodes]
    /\ roots \in [RootKinds -> SUBSET Nodes]
    /\ phase \in Phases
    /\ mode \in {"recycle", "list", "shutdown"}
    /\ todo \subseteq Nodes
    /\ pending \subseteq Nodes
    /\ mark_stack \subseteq Nodes
    /\ marked \subseteq Nodes
    /\ sweeplist \subseteq Nodes

Init ==
    /\ kind = [n \in Nodes |-> "free"]
    /\ managed = {}
    /\ inaccessible = {}
    /\ cells = [n \in Nodes |-> {}]
    /\ links = [n \in Nodes |-> {}]
    /\ roots = [r \in RootKinds |-> {}]
    /\ phase = "run"
    /\ mode = "recycle"
    /\ todo = {}
    /\ pending = {}
    /\ mark_stack = {}
    /\ marked = {}
    /\ sweeplist = {}

----------------------------------------------------------------------------
(* The running program.                                                    *)

References ==
    (UNION {{n} \X cells[n] \X {"cell"} : n \in Nodes})
        \union (UNION {{n} \X links[n] \X {"link"} : n \in Nodes})
        \union (UNION {{r} \X roots[r] \X {"root"} : r \in RootKinds})

Room == Cardinality(References) < MaxRefs

\* What a cell may refer to.
Value(m) == m \in managed /\ kind[m] \in {"array", "binary", "pairing"}

\* Make_Array or Make_Series.
Make_Series(n, k) ==
    /\ kind[n] = "free"
    /\ k \in {"array", "binary"}
    /\ kind' = [kind EXCEPT ![n] = k]
    /\ UNCHANGED <<managed, inaccessible, cells, links, roots>>

\* Alloc_Pairing, filled and managed at once and never changed.
Alloc_Pairing(n, m) ==
    /\ kind[n] = "free"
    /\ Room
    /\ Value(m)
    /\ kind' = [kind EXCEPT ![n] = "pairing"]
    /\ managed' = managed \union {n}
    /\ cells' = [cells EXCEPT ![n] = {m}]
    /\ UNCHANGED <<inaccessible, links, roots>>

\* Alloc_Value: a handle managed by the running frame.
Alloc_Value(n) ==
    /\ kind[n] = "free"
    /\ kind' = [kind EXCEPT ![n] = "handle"]
    /\ managed' = managed \union {n}
    /\ UNCHANGED <<inaccessible, cells, links, roots>>

\* rebUnmanage; rebManage.
RL_rebUnmanage(n) ==
    /\ kind[n] = "handle"
    /\ n \in managed
    /\ managed' = managed \ {n}
    /\ UNCHANGED <<kind, inaccessible, cells, links, roots>>

RL_rebManage(n) ==
    /\ kind[n] = "handle"
    /\ n \notin managed
    /\ managed' = managed \union {n}
    /\ UNCHANGED <<kind, inaccessible, cells, links, roots>>

\* A fail() takes the frame of a managed handle.
Fail_Core(n) ==
    /\ kind[n] = "handle"
    /\ n \in managed
    /\ kind' = [kind EXCEPT ![n] = "orphan"]
    /\ UNCHANGED <<managed, inaccessible, cells, links, roots>>

Manage_Series(n) ==
    /\ kind[n] \in {"array", "binary"}
    /\ n \notin managed
    /\ managed' = managed \union {n}
    /\ UNCHANGED <<kind, inaccessible, cells, links, roots>>

\* Free_Unmanaged_Series (of what no guard protects), rebRelease.
Release(n) ==
    /\ \/ kind[n] \in {"array", "binary"} /\ n \notin managed
       \/ kind[n] = "handle"
    /\ n \notin roots["guarded"]
    /\ kind' = [kind EXCEPT ![n] = "free"]
    /\ managed' = managed \ {n}
    /\ cells' = [cells EXCEPT ![n] = {}]
    /\ links' = [links EXCEPT ![n] = {}]
    /\ UNCHANGED <<inaccessible, roots>>

\* Decay_Series without freeing the node (FREE, stolen context variables).
Decay_Series(n) ==
    /\ kind[n] \in {"array", "binary"}
    /\ n \in managed \ (inaccessible \union roots["symbols"])
    /\ inaccessible' = inaccessible \union {n}
    /\ cells' = [cells EXCEPT ![n] = {}]
    /\ UNCHANGED <<kind, managed, links, roots>>

Set_Cell(n, m) ==
    /\ kind[n] \in {"array", "handle"}
    /\ n \notin inaccessible
    /\ Value(m)
    /\ Room
    /\ cells' = [cells EXCEPT ![n] = @ \union {m}]
    /\ UNCHANGED <<kind, managed, inaccessible, links, roots>>

Clear_Cell(n, m) ==
    /\ kind[n] \in {"array", "handle"}
    /\ cells' = [cells EXCEPT ![n] = @ \ {m}]
    /\ UNCHANGED <<kind, managed, inaccessible, links, roots>>

\* LINK or MISC; only arrays have them looked at while unmanaged.
Set_Link(n, m) ==
    /\ Cardinality(links[n]) < 2
    /\ kind[n] = "array" \/ (kind[n] = "binary" /\ n \in managed)
    /\ n \notin inaccessible \union roots["symbols"]
    /\ Value(m)
    /\ kind[m] # "pairing"
    /\ Room
    /\ links' = [links EXCEPT ![n] = @ \union {m}]
    /\ UNCHANGED <<kind, managed, inaccessible, cells, roots>>

\* Symbols are strings without links; every guard is on a managed series
\* or on a value.
Push_Root(r, m) ==
    /\ r \in UsedRoots
    /\ Value(m)
    /\ r = "symbols" =>
          kind[m] = "binary" /\ links[m] = {} /\ m \notin inaccessible
    /\ Room
    /\ roots' = [roots EXCEPT ![r] = @ \union {m}]
    /\ UNCHANGED <<kind, managed, inaccessible, cells, links>>

Drop_Root(r, m) ==
    /\ r # "symbols"
    /\ roots' = [roots EXCEPT ![r] = @ \ {m}]
    /\ UNCHANGED <<kind, managed, inaccessible, cells, links>>

Mutator ==
    \/ \E n \in Nodes, k \in Kinds : Make_Series(n, k)
    \/ \E n \in Nodes :
          \/ Alloc_Value(n)
          \/ RL_rebUnmanage(n)
          \/ RL_rebManage(n)
          \/ Fail_Core(n)
          \/ Manage_Series(n)
          \/ Release(n)
          \/ Decay_Series(n)
    \/ \E n, m \in Nodes :
          \/ Alloc_Pairing(n, m)
          \/ Set_Cell(n, m)
          \/ Clear_Cell(n, m)
          \/ Set_Link(n, m)
    \/ \E r \in RootKinds, m \in Nodes : Push_Root(r, m) \/ Drop_Root(r, m)

----------------------------------------------------------------------------
(* Marking.                                                                *)

\* Recycle_Core begins, when the program has stopped for it.
Recycle_Core(m) ==
    /\ phase = "run"
    /\ mode' = m
    /\ phase' = "series"
    /\ todo' = Nodes
    /\ UNCHANGED <<kind, managed, inaccessible, cells, links, roots, pending,
                   mark_stack, marked, sweeplist>>

\* Faulty: marks the unmanaged array itself too.
Mark_Root_Series_MarkAll(n) ==
    /\ phase = "series"
    /\ pending = {}
    /\ n \in todo
    /\ todo' = todo \ {n}
    /\ pending' = IF kind[n] = "handle" THEN cells[n]
                  ELSE IF kind[n] = "array" /\ n \notin managed
                  THEN cells[n] \union links[n] ELSE {}
    /\ marked' = IF kind[n] \in {"array", "handle"} THEN marked \union {n}
                                                    ELSE marked
    /\ UNCHANGED <<kind, managed, inaccessible, cells, links, roots, phase,
                   mode, mark_stack, sweeplist>>

\* One node of the pool: a handle, an unmanaged array, or nothing to do.
Mark_Root_Series(n) ==
    /\ phase = "series"
    /\ pending = {}
    /\ n \in todo
    /\ todo' = todo \ {n}
    /\ CASE kind[n] = "orphan" ->
              /\ kind' = [kind EXCEPT ![n] = "free"]
              /\ managed' = managed \ {n}
              /\ cells' = [cells EXCEPT ![n] = {}]
              /\ UNCHANGED <<links, pending, marked>>
         [] kind[n] = "handle" ->
              /\ pending' = cells[n]
              /\ marked' = IF n \in managed THEN marked \union {n} ELSE marked
              /\ UNCHANGED <<kind, managed, cells, links>>
         [] kind[n] = "array" /\ n \notin managed ->
              /\ pending' = cells[n] \union links[n]
              /\ UNCHANGED <<kind, managed, cells, links, marked>>
         [] OTHER ->
              UNCHANGED <<kind, managed, cells, links, pending, marked>>
    /\ UNCHANGED <<inaccessible, roots, phase, mode, mark_stack, sweeplist>>

\* The next root of a later phase.  Symbols are only marked.
Visit_Root(n) ==
    /\ phase \in RootKinds
    /\ pending = {}
    /\ n \in todo
    /\ todo' = todo \ {n}
    /\ IF phase = "symbols"
       THEN marked' = marked \union {n} /\ UNCHANGED pending
       ELSE pending' = {n} /\ UNCHANGED marked
    /\ UNCHANGED <<heap_vars, phase, mode, mark_stack, sweeplist>>

\* Faulty: visits what is marked already.
Queue_Mark_Node_Deep_Again(n) ==
    /\ n \in pending
    /\ marked' = marked \union {n}
    /\ pending' = (pending \union links[n]) \ {n}
    /\ mark_stack' = IF kind[n] = "array" THEN mark_stack \union {n}
                                          ELSE mark_stack
    /\ UNCHANGED <<heap_vars, phase, mode, todo, sweeplist>>

(***************************************************************************)
(* A pairing is marked after its cells are visited; since pairings are     *)
(* never changed the visit cannot come back to it except by way of an      *)
(* array, whose items are visited later.                                   *)
(***************************************************************************)
Queue_Mark_Node_Deep(n) ==
    /\ n \in pending
    /\ CASE n \in marked ->
              /\ pending' = pending \ {n}
              /\ UNCHANGED <<links, mark_stack, marked>>
         [] n \notin marked /\ kind[n] = "pairing" ->
              /\ pending' = (pending \union cells[n]) \ {n}
              /\ marked' = marked \union {n}
              /\ UNCHANGED <<links, mark_stack>>
         [] n \notin marked /\ n \in inaccessible ->
              /\ pending' = pending \ {n}
              /\ marked' = marked \union {n}
              /\ links' = [links EXCEPT ![n] = {}]
              /\ UNCHANGED mark_stack
         [] n \notin marked \union inaccessible
            /\ kind[n] \notin {"pairing", "free"} ->
              /\ pending' = (pending \union links[n]) \ {n}
              /\ marked' = marked \union {n}
              /\ mark_stack' = IF kind[n] = "array" THEN mark_stack \union {n}
                                                    ELSE mark_stack
              /\ UNCHANGED links
    /\ UNCHANGED <<kind, managed, inaccessible, cells, roots, phase, mode,
                   todo, sweeplist>>

\* Faulty: drops the array.
Propagate_All_GC_Marks_Drop(n) ==
    /\ pending = {}
    /\ n \in mark_stack
    /\ mark_stack' = mark_stack \ {n}
    /\ UNCHANGED <<heap_vars, phase, mode, todo, pending, marked, sweeplist>>

\* One array of the stack.
Propagate_All_GC_Marks(n) ==
    /\ pending = {}
    /\ n \in mark_stack
    /\ mark_stack' = mark_stack \ {n}
    /\ pending' = cells[n]
    /\ UNCHANGED <<heap_vars, phase, mode, todo, marked, sweeplist>>

\* Every phase ends with its marks propagated.
Next_Phase ==
    /\ phase \in RootKinds \union {"series"}
    /\ todo = {}
    /\ pending = {}
    /\ mark_stack = {}
    /\ phase' = AfterPhase(phase)
    /\ todo' = IF phase' \in RootKinds THEN roots[phase'] ELSE {}
    /\ UNCHANGED <<heap_vars, mode, pending, mark_stack, marked, sweeplist>>

----------------------------------------------------------------------------
(* Sweeping, by the first four bits of the node's header.                  *)

Header(n) ==
    IF kind[n] = "free" THEN 12
    ELSE 8 + (IF n \in managed THEN 2 ELSE 0) + (IF n \in marked THEN 1 ELSE 0)

\* Faulty: live nodes stay marked; freed nodes stay managed.
Sweep_Series_KeepMarks ==
    /\ phase = "sweep"
    /\ mode # "list"
    /\ LET dead == {n \in Nodes : Header(n) = 10}
       IN  /\ kind' = [n \in Nodes |-> IF n \in dead THEN "free" ELSE kind[n]]
           /\ managed' = managed \ dead
           /\ inaccessible' = inaccessible \ dead
           /\ cells' = [n \in Nodes |-> IF n \in dead THEN {} ELSE cells[n]]
           /\ links' = [n \in Nodes |-> IF n \in dead THEN {} ELSE links[n]]
    /\ phase' = IF mode = "shutdown" THEN "down" ELSE "run"
    /\ UNCHANGED <<roots, mode, todo, pending, mark_stack, marked, sweeplist>>
Sweep_Series_KeepManaged ==
    /\ phase = "sweep"
    /\ mode # "list"
    /\ kind' = [n \in Nodes |-> IF Header(n) = 10 THEN "free" ELSE kind[n]]
    /\ marked' = {}
    /\ phase' = IF mode = "shutdown" THEN "down" ELSE "run"
    /\ UNCHANGED <<managed, inaccessible, cells, links, roots, mode, todo,
                   pending, mark_stack, sweeplist>>

\* It panics on a node that is marked but not managed.
Sweep_Series ==
    /\ phase = "sweep"
    /\ mode # "list"
    /\ \A n \in Nodes : Header(n) # 9
    /\ LET dead == {n \in Nodes : Header(n) = 10}
       IN  /\ kind' = [n \in Nodes |-> IF n \in dead THEN "free" ELSE kind[n]]
           /\ managed' = managed \ dead
           /\ inaccessible' = inaccessible \ dead
           /\ cells' = [n \in Nodes |-> IF n \in dead THEN {} ELSE cells[n]]
           /\ links' = [n \in Nodes |-> IF n \in dead THEN {} ELSE links[n]]
    /\ marked' = marked \ {n \in Nodes : Header(n) = 11}
    /\ phase' = IF mode = "shutdown" THEN "down" ELSE "run"
    /\ UNCHANGED <<roots, mode, todo, pending, mark_stack, sweeplist>>

\* RECYCLE/VERBOSE: report instead of freeing.
Fill_Sweeplist ==
    /\ phase = "sweep"
    /\ mode = "list"
    /\ LET looked == {n \in Nodes : Header(n) \in {9, 11}}
       IN  /\ sweeplist' = looked \ marked
           /\ marked' = marked \ looked
    /\ phase' = "run"
    /\ UNCHANGED <<heap_vars, mode, todo, pending, mark_stack>>

\* Everything that Recycle_Core does after it has begun.
Collect ==
    \/ \E n \in Nodes :
          \/ Mark_Root_Series(n)
          \/ Visit_Root(n)
          \/ Queue_Mark_Node_Deep(n)
          \/ Propagate_All_GC_Marks(n)
    \/ Next_Phase
    \/ Sweep_Series
    \/ Fill_Sweeplist

Next ==
    \/ phase = "run" /\ Mutator /\ UNCHANGED gc_vars
    \/ \E m \in {"recycle", "list", "shutdown"} : Recycle_Core(m)
    \/ Collect

Spec == Init /\ [][Next]_vars

\* The collector is ordinary sequential code: it goes on once it has begun.
FairSpec == Spec /\ WF_vars(Collect)

----------------------------------------------------------------------------
(* Reachability, without an algorithm.                                     *)

\* What a node keeps alive.
Out(n) ==
    IF n \in inaccessible THEN {}
    ELSE links[n] \union (IF kind[n] \in {"array", "pairing"} THEN cells[n]
                                                              ELSE {})

\* What is alive whatever else is.
Base ==
    {n \in managed : kind[n] = "handle"}
    \union (UNION {cells[n] : n \in {h \in Nodes : kind[h] = "handle"}})
    \union (UNION {cells[n] \union links[n] :
                     n \in {a \in Nodes : kind[a] = "array"} \ managed})
    \union (IF mode = "shutdown" THEN {}
            ELSE UNION {roots[r] : r \in RootKinds})

Closed(S) == Base \subseteq S /\ \A n \in S : Out(n) \subseteq S

Live == {n \in Nodes : \A S \in SUBSET Nodes : Closed(S) => n \in S}

----------------------------------------------------------------------------
(* Properties.                                                             *)

\* Whatever exists refers only to what exists: no collection frees a node
\* that an array, pairing, handle, LINK, MISC or root still leads to.
NoDangling ==
    phase = "run" =>
        /\ \A n \in InUse \ inaccessible :
              cells[n] \union links[n] \subseteq managed
        /\ \A r \in RootKinds : roots[r] \subseteq managed

\* The collector does not come to a node that is free, nor to a sweep with a
\* node that is marked but not managed: the panics of Queue_Mark_Node_Deep
\* and Sweep_Series.
NoPanic ==
    /\ \A n \in pending : kind[n] # "free"
    /\ phase = "sweep" => \A n \in Nodes : Header(n) # 9

\* A collection frees exactly the managed nodes that cannot be reached, API
\* handles of failed frames included, and nothing of the unmanaged ones;
\* marks of one collection do not leak into the next.
SweepExact ==
    [][phase = "sweep" /\ mode # "list" /\ phase' \in {"run", "down"} =>
         InUse' = {n \in InUse : n \notin managed \/ n \in Live}]_vars

\* Marking comes to an end, whatever cycles the heap has.
CollectionEnds == phase = "series" ~> phase \in {"run", "down"}
============================================================================
