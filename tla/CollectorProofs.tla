-------------------------- MODULE CollectorProofs --------------------------
(***************************************************************************)
(* Proofs about Collector, for any set of nodes, any bound on references   *)
(* and any choice of roots.                                                *)
(*                                                                         *)
(* The argument is the classical one about tracing.  The nodes that are    *)
(* marked or about to be visited (Found) are contained in every set that   *)
(* contains the base and is closed under references; and everything that   *)
(* a finished part of the work leads to is in Found.  When the marking is  *)
(* over Found is the marked nodes, so these are the least closed set.      *)
(***************************************************************************)
EXTENDS Collector, TLAPS

----------------------------------------------------------------------------
(* The inductive invariant.                                                *)

\* What the pool's scan for roots takes from one node.
Start(n) ==
    IF kind[n] = "handle"
    THEN cells[n] \union (IF n \in managed THEN {n} ELSE {})
    ELSE IF kind[n] = "array" /\ n \notin managed THEN cells[n] \union links[n]
    ELSE {}

Sound(S) ==
    /\ \A n \in Nodes : Start(n) \subseteq S
    /\ mode # "shutdown" => \A r \in RootKinds : roots[r] \subseteq S
    /\ \A n \in S : Out(n) \subseteq S

NodeInv(n) ==
    /\ \A m \in cells[n] : Value(m)
    /\ n \notin inaccessible => \A m \in links[n] : Value(m)
    /\ n \in inaccessible => cells[n] = {} /\ kind[n] \in {"array", "binary"}
    /\ kind[n] = "free" => cells[n] = {} /\ links[n] = {}
    /\ kind[n] \in {"handle", "orphan", "pairing"} => links[n] = {}
    /\ kind[n] = "binary" => cells[n] = {}
    /\ kind[n] = "binary" /\ n \notin managed => links[n] = {}
    /\ kind[n] \in {"pairing", "orphan"} => n \in managed

RootInv ==
    /\ \A r \in RootKinds : \A m \in roots[r] : Value(m)
    /\ \A m \in roots["symbols"] :
          kind[m] = "binary" /\ links[m] = {} /\ m \notin inaccessible

HeapInv == (\A n \in Nodes : NodeInv(n)) /\ RootInv

Found == marked \union pending

\* The kinds of roots whose phase is over.
Done(p) ==
    CASE p = "natives" -> {}
      [] p = "symbols" -> {"natives"}
      [] p = "stack"   -> {"natives", "symbols"}
      [] p = "guarded" -> {"natives", "symbols", "stack"}
      [] p = "frames"  -> {"natives", "symbols", "stack", "guarded"}
      [] p = "devices" -> {"natives", "symbols", "stack", "guarded", "frames"}
      [] p = "sweep"   -> IF mode = "shutdown" THEN {} ELSE RootKinds
      [] OTHER         -> {}

Marking == phase \notin {"run", "down"}

WorkInv ==
    /\ \A n \in pending : Value(n)
    /\ \A n \in mark_stack : n \in marked \ inaccessible /\ kind[n] = "array"
    /\ \A n \in marked : Value(n) \/ (n \in managed /\ kind[n] = "handle")
    /\ phase \in RootKinds => mode # "shutdown" /\ todo \subseteq roots[phase]

\* Nothing that was passed is missing.
Complete ==
    /\ \A n \in marked \ mark_stack : Out(n) \subseteq Found
    /\ \A n \in mark_stack : links[n] \subseteq Found
    /\ \A n \in Nodes : (phase = "series" => n \notin todo)
                           => Start(n) \subseteq Found
    /\ \A r \in Done(phase) : roots[r] \subseteq Found
    /\ phase \in RootKinds => roots[phase] \ todo \subseteq Found

\* Nothing is found that need not be.
Correct == \A S \in SUBSET Nodes : Sound(S) => Found \subseteq S

Quiet == todo = {} /\ pending = {} /\ mark_stack = {}

IInv ==
    /\ TypeOK
    /\ phase # "down" => HeapInv
    /\ Marking => WorkInv /\ Complete /\ Correct
    /\ phase \in {"run", "sweep", "down"} => Quiet
    /\ phase \in {"run", "down"} => marked = {}

\* The part of TypeOK that is about the heap.
HeapType ==
    /\ kind \in [Nodes -> Kinds]
    /\ managed \subseteq InUse
    /\ inaccessible \subseteq managed
    /\ cells \in [Nodes -> SUBSET Nodes]
    /\ links \in [Nodes -> SUBSET Nodes]
    /\ roots \in [RootKinds -> SUBSET Nodes]

----------------------------------------------------------------------------
(* The program: whatever it does leaves the heap without dangling          *)
(* references.                                                             *)

\* No operation of the program leaves a reference to a node that is free,
\* unmanaged or a handle, or a link where the marking does not look.
LEMMA MutatorInv ==
    ASSUME HeapType, HeapInv, Mutator
    PROVE  HeapType' /\ HeapInv'
<1> USE DEF HeapType
<1>1. ASSUME NEW n \in Nodes, NEW k \in Kinds, Make_Series(n, k)
      PROVE  HeapType' /\ HeapInv'
  <2>1. HeapType'
    BY <1>1 DEF Make_Series, InUse, Kinds
  <2>2. ASSUME NEW x \in Nodes
        PROVE  NodeInv(x)'
    BY <1>1, <2>2
    DEF Make_Series, HeapInv, NodeInv, RootInv, Value, InUse, Kinds, RootKinds
  <2>3. RootInv'
    BY <1>1 DEF Make_Series, HeapInv, RootInv, Value, InUse, Kinds, RootKinds
  <2> QED
    BY <2>1, <2>2, <2>3 DEF HeapInv
<1>2. ASSUME NEW n \in Nodes, Alloc_Value(n)
      PROVE  HeapType' /\ HeapInv'
  <2>1. HeapType'
    BY <1>2 DEF Alloc_Value, InUse, Kinds
  <2>2. ASSUME NEW x \in Nodes
        PROVE  NodeInv(x)'
    BY <1>2, <2>2
    DEF Alloc_Value, HeapInv, NodeInv, RootInv, Value, InUse, Kinds, RootKinds
  <2>3. RootInv'
    BY <1>2 DEF Alloc_Value, HeapInv, RootInv, Value, InUse, Kinds, RootKinds
  <2> QED
    BY <2>1, <2>2, <2>3 DEF HeapInv
<1>3. ASSUME NEW n \in Nodes, RL_rebUnmanage(n)
      PROVE  HeapType' /\ HeapInv'
  <2>1. HeapType'
    BY <1>3 DEF RL_rebUnmanage, InUse, Kinds, HeapInv, NodeInv
  <2>2. ASSUME NEW x \in Nodes
        PROVE  NodeInv(x)'
    BY <1>3, <2>2
    DEF RL_rebUnmanage, HeapInv, NodeInv, RootInv, Value, InUse, Kinds, RootKinds
  <2>3. RootInv'
    BY <1>3 DEF RL_rebUnmanage, HeapInv, RootInv, Value, InUse, Kinds, RootKinds
  <2> QED
    BY <2>1, <2>2, <2>3 DEF HeapInv
<1>4. ASSUME NEW n \in Nodes, RL_rebManage(n)
      PROVE  HeapType' /\ HeapInv'
  <2>1. HeapType'
    BY <1>4 DEF RL_rebManage, InUse, Kinds
  <2>2. ASSUME NEW x \in Nodes
        PROVE  NodeInv(x)'
    BY <1>4, <2>2
    DEF RL_rebManage, HeapInv, NodeInv, RootInv, Value, InUse, Kinds, RootKinds
  <2>3. RootInv'
    BY <1>4 DEF RL_rebManage, HeapInv, RootInv, Value, InUse, Kinds, RootKinds
  <2> QED
    BY <2>1, <2>2, <2>3 DEF HeapInv
<1>5. ASSUME NEW n \in Nodes, Fail_Core(n)
      PROVE  HeapType' /\ HeapInv'
  <2>1. HeapType'
    BY <1>5 DEF Fail_Core, InUse, Kinds
  <2>2. ASSUME NEW x \in Nodes
        PROVE  NodeInv(x)'
    BY <1>5, <2>2
    DEF Fail_Core, HeapInv, NodeInv, RootInv, Value, InUse, Kinds, RootKinds
  <2>3. RootInv'
    BY <1>5 DEF Fail_Core, HeapInv, RootInv, Value, InUse, Kinds, RootKinds
  <2> QED
    BY <2>1, <2>2, <2>3 DEF HeapInv
<1>6. ASSUME NEW n \in Nodes, Manage_Series(n)
      PROVE  HeapType' /\ HeapInv'
  <2>1. HeapType'
    BY <1>6 DEF Manage_Series, InUse, Kinds
  <2>2. ASSUME NEW x \in Nodes
        PROVE  NodeInv(x)'
    BY <1>6, <2>2
    DEF Manage_Series, HeapInv, NodeInv, RootInv, Value, InUse, Kinds, RootKinds
  <2>3. RootInv'
    BY <1>6 DEF Manage_Series, HeapInv, RootInv, Value, InUse, Kinds, RootKinds
  <2> QED
    BY <2>1, <2>2, <2>3 DEF HeapInv
<1>7. ASSUME NEW n \in Nodes, Release(n)
      PROVE  HeapType' /\ HeapInv'
  <2>1. HeapType'
    BY <1>7 DEF Release, InUse, Kinds, HeapInv, NodeInv
  <2>2. ASSUME NEW x \in Nodes
        PROVE  NodeInv(x)'
    BY <1>7, <2>2
    DEF Release, HeapInv, NodeInv, RootInv, Value, InUse, Kinds, RootKinds
  <2>3. RootInv'
    BY <1>7 DEF Release, HeapInv, RootInv, Value, InUse, Kinds, RootKinds
  <2> QED
    BY <2>1, <2>2, <2>3 DEF HeapInv
<1>8. ASSUME NEW n \in Nodes, Decay_Series(n)
      PROVE  HeapType' /\ HeapInv'
  <2>1. HeapType'
    BY <1>8 DEF Decay_Series, InUse, Kinds
  <2>2. ASSUME NEW x \in Nodes
        PROVE  NodeInv(x)'
    BY <1>8, <2>2
    DEF Decay_Series, HeapInv, NodeInv, RootInv, Value, InUse, Kinds, RootKinds
  <2>3. RootInv'
    BY <1>8 DEF Decay_Series, HeapInv, RootInv, Value, InUse, Kinds, RootKinds
  <2> QED
    BY <2>1, <2>2, <2>3 DEF HeapInv
<1>9. ASSUME NEW n \in Nodes, NEW m \in Nodes, Alloc_Pairing(n, m)
      PROVE  HeapType' /\ HeapInv'
  <2>1. HeapType'
    BY <1>9 DEF Alloc_Pairing, InUse, Kinds
  <2>2. ASSUME NEW x \in Nodes
        PROVE  NodeInv(x)'
    BY <1>9, <2>2
    DEF Alloc_Pairing, HeapInv, NodeInv, RootInv, Value, InUse, Kinds, RootKinds
  <2>3. RootInv'
    BY <1>9 DEF Alloc_Pairing, HeapInv, RootInv, Value, InUse, Kinds, RootKinds
  <2> QED
    BY <2>1, <2>2, <2>3 DEF HeapInv
<1>10. ASSUME NEW n \in Nodes, NEW m \in Nodes, Set_Cell(n, m)
      PROVE  HeapType' /\ HeapInv'
  <2>1. HeapType'
    BY <1>10 DEF Set_Cell, InUse, Kinds
  <2>2. ASSUME NEW x \in Nodes
        PROVE  NodeInv(x)'
    BY <1>10, <2>2
    DEF Set_Cell, HeapInv, NodeInv, RootInv, Value, InUse, Kinds, RootKinds
  <2>3. RootInv'
    BY <1>10 DEF Set_Cell, HeapInv, RootInv, Value, InUse, Kinds, RootKinds
  <2> QED
    BY <2>1, <2>2, <2>3 DEF HeapInv
<1>11. ASSUME NEW n \in Nodes, NEW m \in Nodes, Clear_Cell(n, m)
      PROVE  HeapType' /\ HeapInv'
  <2>1. HeapType'
    BY <1>11 DEF Clear_Cell, InUse, Kinds
  <2>2. ASSUME NEW x \in Nodes
        PROVE  NodeInv(x)'
    BY <1>11, <2>2
    DEF Clear_Cell, HeapInv, NodeInv, RootInv, Value, InUse, Kinds, RootKinds
  <2>3. RootInv'
    BY <1>11 DEF Clear_Cell, HeapInv, RootInv, Value, InUse, Kinds, RootKinds
  <2> QED
    BY <2>1, <2>2, <2>3 DEF HeapInv
<1>12. ASSUME NEW n \in Nodes, NEW m \in Nodes, Set_Link(n, m)
      PROVE  HeapType' /\ HeapInv'
  <2>1. HeapType'
    BY <1>12 DEF Set_Link, InUse, Kinds
  <2>2. ASSUME NEW x \in Nodes
        PROVE  NodeInv(x)'
    BY <1>12, <2>2
    DEF Set_Link, HeapInv, NodeInv, RootInv, Value, InUse, Kinds, RootKinds
  <2>3. RootInv'
    BY <1>12 DEF Set_Link, HeapInv, RootInv, Value, InUse, Kinds, RootKinds
  <2> QED
    BY <2>1, <2>2, <2>3 DEF HeapInv
<1>13. ASSUME NEW r \in RootKinds, NEW m \in Nodes, Push_Root(r, m)
      PROVE  HeapType' /\ HeapInv'
  <2>1. HeapType'
    BY <1>13 DEF Push_Root, InUse, Kinds
  <2>2. ASSUME NEW x \in Nodes
        PROVE  NodeInv(x)'
    BY <1>13, <2>2
    DEF Push_Root, HeapInv, NodeInv, RootInv, Value, InUse, Kinds, RootKinds
  <2>3. RootInv'
    BY <1>13 DEF Push_Root, HeapInv, RootInv, Value, InUse, Kinds, RootKinds
  <2> QED
    BY <2>1, <2>2, <2>3 DEF HeapInv
<1>14. ASSUME NEW r \in RootKinds, NEW m \in Nodes, Drop_Root(r, m)
      PROVE  HeapType' /\ HeapInv'
  <2>1. HeapType'
    BY <1>14 DEF Drop_Root, InUse, Kinds
  <2>2. ASSUME NEW x \in Nodes
        PROVE  NodeInv(x)'
    BY <1>14, <2>2
    DEF Drop_Root, HeapInv, NodeInv, RootInv, Value, InUse, Kinds, RootKinds
  <2>3. RootInv'
    BY <1>14 DEF Drop_Root, HeapInv, RootInv, Value, InUse, Kinds, RootKinds
  <2> QED
    BY <2>1, <2>2, <2>3 DEF HeapInv
<1> QED
  BY <1>1, <1>2, <1>3, <1>4, <1>5, <1>6, <1>7, <1>8,
     <1>9, <1>10, <1>11, <1>12, <1>13, <1>14 DEF Mutator

----------------------------------------------------------------------------
(* Marking.                                                                *)

\* A step that changes nothing of what the marking depends on.
SameGraph ==
    /\ roots' = roots
    /\ mode' = mode
    /\ \A n \in Nodes : /\ Start(n)' = Start(n)
                        /\ Out(n)' = Out(n)
                        /\ Value(n)' <=> Value(n)

LEMMA SoundSame ==
    ASSUME SameGraph, NEW S \in SUBSET Nodes, Sound(S)'
    PROVE  Sound(S)
BY DEF SameGraph, Sound

\* Steps that leave the heap alone.
LEMMA HeapSame ==
    ASSUME HeapType, HeapInv, UNCHANGED <<heap_vars, mode>>
    PROVE  HeapType' /\ HeapInv' /\ SameGraph
<1>1. UNCHANGED <<kind, managed, inaccessible, cells, links, roots, mode>>
  BY DEF heap_vars
<1> QED
  BY <1>1 DEF HeapType, HeapInv, NodeInv, RootInv, SameGraph, Start, Out,
              Value, InUse

\* An orphan is freed: nothing refers to it and it leads to nothing.
LEMMA OrphanFreed ==
    ASSUME HeapType, HeapInv, NEW n \in Nodes, kind[n] = "orphan",
           kind' = [kind EXCEPT ![n] = "free"],
           managed' = managed \ {n},
           cells' = [cells EXCEPT ![n] = {}],
           UNCHANGED <<inaccessible, links, roots, mode>>
    PROVE  HeapType' /\ HeapInv' /\ SameGraph
<1> USE DEF HeapType, HeapInv, NodeInv
<1>1. HeapType'
  BY DEF InUse, Kinds
<1>2. \A x \in Nodes : Value(x)' <=> Value(x)
  BY DEF Value
<1>3. ASSUME NEW x \in Nodes
      PROVE  NodeInv(x)'
  BY <1>3 DEF InUse, Kinds, Value
<1>4. RootInv'
  BY DEF RootInv, Value, RootKinds
<1>5. ASSUME NEW x \in Nodes
      PROVE  Start(x)' = Start(x) /\ Out(x)' = Out(x)
  <2>1. CASE x = n
    <3>1. Start(n) = {} /\ Start(n)' = {}
      BY DEF Start
    <3>2. Out(n) = {} /\ Out(n)' = {}
      BY DEF Out
    <3> QED
      BY <2>1, <3>1, <3>2
  <2>2. CASE x # n
    BY <1>5, <2>2 DEF Start, Out
  <2> QED
    BY <2>1, <2>2
<1> QED
  BY <1>1, <1>2, <1>3, <1>4, <1>5 DEF SameGraph

\* A decayed series loses the links that nobody follows.
LEMMA LinksCleared ==
    ASSUME HeapType, HeapInv, NEW n \in inaccessible,
           links' = [links EXCEPT ![n] = {}],
           UNCHANGED <<kind, managed, inaccessible, cells, roots, mode>>
    PROVE  HeapType' /\ HeapInv' /\ SameGraph
<1> USE DEF HeapType, HeapInv, NodeInv
<1>0. n \in Nodes /\ n \in managed
  BY DEF InUse
<1>1. HeapType'
  BY <1>0 DEF InUse, Kinds
<1>2. \A x \in Nodes : Value(x)' <=> Value(x)
  BY DEF Value
<1>3. ASSUME NEW x \in Nodes
      PROVE  NodeInv(x)'
  BY <1>0, <1>3 DEF InUse, Kinds, Value
<1>4. RootInv'
  BY <1>0 DEF RootInv, Value, RootKinds
<1>5. ASSUME NEW x \in Nodes
      PROVE  Start(x)' = Start(x) /\ Out(x)' = Out(x)
  <2>1. CASE x = n
    <3>1. Start(n)' = Start(n)
      BY <1>0 DEF Start
    <3>2. Out(n) = {} /\ Out(n)' = {}
      BY DEF Out
    <3> QED
      BY <2>1, <3>1, <3>2
  <2>2. CASE x # n
    BY <1>5, <2>2 DEF Start, Out
  <2> QED
    BY <2>1, <2>2
<1> QED
  BY <1>1, <1>2, <1>3, <1>4, <1>5 DEF SameGraph

\* The invariant in the form in which the steps of the marking use it.
LEMMA MarkingFacts ==
    ASSUME IInv, Marking
    PROVE  /\ HeapType /\ HeapInv /\ WorkInv /\ Complete /\ Correct
           /\ phase \in Phases /\ todo \subseteq Nodes
           /\ pending \subseteq Nodes /\ mark_stack \subseteq Nodes
           /\ marked \subseteq Nodes /\ sweeplist \subseteq Nodes
           /\ mode \in {"recycle", "list", "shutdown"}
BY DEF IInv, Marking, TypeOK, HeapType

\* A step that finds only what every sound set contains.
LEMMA CorrectStep ==
    ASSUME Correct, SameGraph,
           \A S \in SUBSET Nodes : Sound(S) /\ Found \subseteq S
                                      => Found' \subseteq S
    PROVE  Correct'
BY SoundSame DEF Correct

\* The scan of the pool for unmanaged arrays and handles finds, at each
\* node, what that node is a root for.
LEMMA MarkRootSeriesInv ==
    ASSUME IInv, NEW n \in Nodes, Mark_Root_Series(n)
    PROVE  IInv'
<1> DEFINE FreesOrphan ==
             /\ kind[n] = "orphan"
             /\ kind' = [kind EXCEPT ![n] = "free"]
             /\ managed' = managed \ {n}
             /\ cells' = [cells EXCEPT ![n] = {}]
             /\ UNCHANGED <<links, pending, marked>>
<1> DEFINE FromHandle ==
             /\ kind[n] = "handle"
             /\ pending' = cells[n]
             /\ marked' = IF n \in managed THEN marked \union {n} ELSE marked
             /\ UNCHANGED <<kind, managed, cells, links>>
<1> DEFINE FromArray ==
             /\ kind[n] = "array" /\ n \notin managed
             /\ pending' = cells[n] \union links[n]
             /\ UNCHANGED <<kind, managed, cells, links, marked>>
<1> DEFINE Passes ==
             /\ kind[n] \notin {"orphan", "handle"}
             /\ ~(kind[n] = "array" /\ n \notin managed)
             /\ UNCHANGED <<kind, managed, cells, links, pending, marked>>
<1>1. FreesOrphan \/ FromHandle \/ FromArray \/ Passes
  <2>1. CASE kind[n] = "orphan"
    BY <2>1 DEF Mark_Root_Series
  <2>2. CASE kind[n] = "handle"
    BY <2>2 DEF Mark_Root_Series
  <2>3. CASE kind[n] = "array" /\ n \notin managed
    BY <2>3 DEF Mark_Root_Series
  <2>4. CASE kind[n] \notin {"orphan", "handle"}
             /\ ~(kind[n] = "array" /\ n \notin managed)
    BY <2>4 DEF Mark_Root_Series
  <2> QED
    BY <2>1, <2>2, <2>3, <2>4
<1>2. /\ phase = "series" /\ pending = {} /\ n \in todo
      /\ todo' = todo \ {n}
      /\ UNCHANGED <<inaccessible, roots, phase, mode, mark_stack, sweeplist>>
  BY DEF Mark_Root_Series
<1>3. /\ HeapType /\ HeapInv /\ WorkInv /\ Complete /\ Correct
      /\ phase \in Phases /\ todo \subseteq Nodes
      /\ pending \subseteq Nodes /\ mark_stack \subseteq Nodes
      /\ marked \subseteq Nodes /\ sweeplist \subseteq Nodes
      /\ mode \in {"recycle", "list", "shutdown"}
  BY <1>2, MarkingFacts DEF Marking
<1>4. HeapType' /\ HeapInv' /\ SameGraph
  <2>1. CASE FreesOrphan
    BY <1>2, <1>3, <2>1, OrphanFreed
  <2>2. CASE UNCHANGED <<kind, managed, cells, links>>
    BY <1>2, <1>3, <2>2, HeapSame DEF heap_vars
  <2> QED
    BY <1>1, <2>1, <2>2
<1>5. NodeInv(n)
  BY <1>3 DEF HeapInv
<1>6. Found' = Found \union Start(n)
  <2>1. CASE FreesOrphan
    BY <1>2, <2>1 DEF Found, Start
  <2>2. CASE FromHandle
    BY <1>2, <2>2 DEF Found, Start
  <2>3. CASE FromArray
    BY <1>2, <2>3 DEF Found, Start
  <2>4. CASE Passes
    BY <1>2, <2>4 DEF Found, Start
  <2> QED
    BY <1>1, <2>1, <2>2, <2>3, <2>4
<1>7. /\ marked \subseteq marked'
      /\ marked' \subseteq marked \union {x \in {n} : FromHandle /\ n \in managed}
  <2>1. CASE FromHandle
    BY <2>1
  <2>2. CASE UNCHANGED marked
    BY <2>2
  <2> QED
    BY <1>1, <2>1, <2>2
<1>8. \A x \in pending' : Value(x)
  <2>1. CASE FromHandle
    BY <1>5, <2>1 DEF NodeInv
  <2>2. CASE FromArray
    BY <1>3, <1>5, <2>2 DEF NodeInv, HeapType
  <2>3. CASE UNCHANGED pending
    BY <1>2, <2>3
  <2> QED
    BY <1>1, <2>1, <2>2, <2>3
<1>9. \A x \in Nodes : kind[x] # "orphan" =>
          kind'[x] = kind[x] /\ (x \in managed' <=> x \in managed)
  <2>1. CASE FreesOrphan
    BY <1>3, <2>1 DEF HeapType
  <2>2. CASE UNCHANGED <<kind, managed>>
    BY <2>2
  <2> QED
    BY <1>1, <2>1, <2>2
<1>10. TypeOK'
  <2>1. pending' \subseteq Nodes
    BY <1>3, <1>8 DEF Value, HeapType, InUse
  <2>2. marked' \subseteq Nodes
    BY <1>3, <1>7
  <2> QED
    BY <1>2, <1>3, <1>4, <2>1, <2>2 DEF TypeOK, HeapType
<1>11. WorkInv'
  <2>1. \A x \in pending' : Value(x)'
    BY <1>4, <1>8, <1>10 DEF SameGraph, TypeOK
  <2>2. \A x \in mark_stack' :
           x \in marked' \ inaccessible' /\ kind'[x] = "array"
    BY <1>2, <1>3, <1>7, <1>9 DEF WorkInv
  <2>3. ASSUME NEW x \in marked'
        PROVE  Value(x)' \/ (x \in managed' /\ kind'[x] = "handle")
    <3>1. CASE FromHandle
      BY <1>2, <1>3, <1>7, <2>3, <3>1 DEF WorkInv, Value
    <3>2. CASE x \in marked
      BY <1>3, <1>4, <1>9, <3>2 DEF WorkInv, SameGraph
    <3> QED
      BY <1>7, <2>3, <3>1, <3>2
  <2> QED
    BY <1>2, <2>1, <2>2, <2>3 DEF WorkInv, RootKinds
<1>12. Complete'
  <2>1. ASSUME NEW x \in marked' \ mark_stack'
        PROVE  Out(x)' \subseteq Found'
    <3>1. x \in Nodes /\ Out(x)' = Out(x)
      BY <1>4, <1>10, <2>1 DEF TypeOK, SameGraph
    <3>2. CASE x \in marked
      BY <1>2, <1>3, <1>6, <2>1, <3>1, <3>2 DEF Complete
    <3>3. CASE x \notin marked
      <4>1. x = n /\ kind[n] = "handle" /\ links[n] = {}
        BY <1>5, <1>7, <2>1, <3>3 DEF NodeInv
      <4> QED
        BY <3>1, <4>1 DEF Out
    <3> QED
      BY <3>2, <3>3
  <2>2. \A x \in mark_stack' : links'[x] \subseteq Found'
    BY <1>1, <1>2, <1>3, <1>6 DEF Complete
  <2>3. \A x \in Nodes : (phase' = "series" => x \notin todo')
                           => Start(x)' \subseteq Found'
    BY <1>2, <1>3, <1>4, <1>6 DEF Complete, SameGraph
  <2> QED
    BY <1>2, <2>1, <2>2, <2>3 DEF Complete, Done, RootKinds
<1>13. Correct'
  BY <1>3, <1>4, <1>6, CorrectStep DEF Sound
<1> QED
  BY <1>2, <1>4, <1>10, <1>11, <1>12, <1>13 DEF IInv

\* A root is found because its kind of root is sound.
LEMMA VisitRootInv ==
    ASSUME IInv, NEW n \in Nodes, Visit_Root(n)
    PROVE  IInv'
<1>1. /\ phase \in RootKinds /\ pending = {} /\ n \in todo
      /\ todo' = todo \ {n}
      /\ IF phase = "symbols"
         THEN marked' = marked \union {n} /\ UNCHANGED pending
         ELSE pending' = {n} /\ UNCHANGED marked
      /\ UNCHANGED <<kind, managed, inaccessible, cells, links, roots,
                     phase, mode, mark_stack, sweeplist>>
  BY DEF Visit_Root, heap_vars
<1>2. /\ HeapType /\ HeapInv /\ WorkInv /\ Complete /\ Correct
      /\ phase \in Phases /\ todo \subseteq Nodes
      /\ pending \subseteq Nodes /\ mark_stack \subseteq Nodes
      /\ marked \subseteq Nodes /\ sweeplist \subseteq Nodes
      /\ mode \in {"recycle", "list", "shutdown"}
  BY <1>1, MarkingFacts DEF Marking, RootKinds
<1>3. HeapType' /\ HeapInv' /\ SameGraph
  BY <1>1, <1>2, HeapSame DEF heap_vars
<1>4. Found' = Found \union {n}
  BY <1>1 DEF Found
<1>5. n \in roots[phase] /\ Value(n) /\ mode # "shutdown"
  BY <1>1, <1>2 DEF WorkInv, HeapInv, RootInv
<1>6. ASSUME phase = "symbols"
      PROVE  Out(n) = {} /\ n \notin inaccessible
  BY <1>2, <1>5, <1>6 DEF HeapInv, RootInv, Out
<1>7. TypeOK'
  BY <1>1, <1>2, <1>3 DEF TypeOK, HeapType
<1>8. WorkInv'
  <2>1. \A x \in pending' : Value(x)'
    BY <1>1, <1>3, <1>5 DEF SameGraph
  <2>2. \A x \in mark_stack' :
           x \in marked' \ inaccessible' /\ kind'[x] = "array"
    BY <1>1, <1>2 DEF WorkInv
  <2>3. \A x \in marked' : Value(x)' \/ (x \in managed' /\ kind'[x] = "handle")
    BY <1>1, <1>2, <1>3, <1>5 DEF WorkInv, SameGraph
  <2> QED
    BY <1>1, <1>2, <2>1, <2>2, <2>3 DEF WorkInv
<1>9. Complete'
  <2>1. ASSUME NEW x \in marked' \ mark_stack'
        PROVE  Out(x)' \subseteq Found'
    <3>1. x \in Nodes /\ Out(x)' = Out(x)
      BY <1>3, <1>7, <2>1 DEF TypeOK, SameGraph
    <3>2. CASE x \in marked
      BY <1>1, <1>2, <1>4, <2>1, <3>1, <3>2 DEF Complete
    <3>3. CASE x \notin marked
      BY <1>1, <1>6, <2>1, <3>1, <3>3
    <3> QED
      BY <3>2, <3>3
  <2>2. \A x \in mark_stack' : links'[x] \subseteq Found'
    BY <1>1, <1>2, <1>4 DEF Complete
  <2>3. \A x \in Nodes : Start(x)' \subseteq Found'
    BY <1>1, <1>2, <1>3, <1>4 DEF Complete, SameGraph, RootKinds
  <2>4. \A r \in Done(phase)' : roots'[r] \subseteq Found'
    <3>1. Done(phase)' = Done(phase)
      BY <1>1 DEF Done
    <3> QED
      BY <1>1, <1>2, <1>4, <3>1 DEF Complete
  <2>5. roots'[phase'] \ todo' \subseteq Found'
    BY <1>1, <1>2, <1>4 DEF Complete
  <2> QED
    BY <2>1, <2>2, <2>3, <2>4, <2>5 DEF Complete
<1>10. Correct'
  BY <1>1, <1>2, <1>3, <1>4, <1>5, CorrectStep DEF Sound
<1> QED
  BY <1>1, <1>3, <1>7, <1>8, <1>9, <1>10 DEF IInv, RootKinds

\* The items of an array are found when it comes off the mark stack.
LEMMA PropagateInv ==
    ASSUME IInv, NEW n \in Nodes, Propagate_All_GC_Marks(n)
    PROVE  IInv'
<1>1. /\ pending = {} /\ n \in mark_stack
      /\ mark_stack' = mark_stack \ {n}
      /\ pending' = cells[n]
      /\ UNCHANGED <<kind, managed, inaccessible, cells, links, roots,
                     phase, mode, todo, marked, sweeplist>>
  BY DEF Propagate_All_GC_Marks, heap_vars
<1>2. phase \notin {"run", "sweep", "down"} /\ Marking
  BY <1>1 DEF IInv, Quiet, Marking
<1>3. /\ HeapType /\ HeapInv /\ WorkInv /\ Complete /\ Correct
      /\ phase \in Phases /\ todo \subseteq Nodes
      /\ pending \subseteq Nodes /\ mark_stack \subseteq Nodes
      /\ marked \subseteq Nodes /\ sweeplist \subseteq Nodes
      /\ mode \in {"recycle", "list", "shutdown"}
  BY <1>2, MarkingFacts
<1>4. HeapType' /\ HeapInv' /\ SameGraph
  BY <1>1, <1>3, HeapSame DEF heap_vars
<1>5. n \in marked /\ n \notin inaccessible /\ kind[n] = "array"
  BY <1>1, <1>3 DEF WorkInv
<1>6. Out(n) = links[n] \union cells[n]
  BY <1>5 DEF Out
<1>7. Found' = Found \union cells[n]
  BY <1>1 DEF Found
<1>8. Out(n) \subseteq Found'
  BY <1>1, <1>3, <1>6, <1>7 DEF Complete
<1>9. TypeOK'
  BY <1>1, <1>3, <1>4 DEF TypeOK, HeapType
<1>10. WorkInv'
  <2>1. \A x \in pending' : Value(x)'
    BY <1>1, <1>3, <1>4, <1>9 DEF SameGraph, HeapInv, NodeInv, TypeOK
  <2>2. \A x \in mark_stack' :
           x \in marked' \ inaccessible' /\ kind'[x] = "array"
    BY <1>1, <1>3 DEF WorkInv
  <2>3. \A x \in marked' : Value(x)' \/ (x \in managed' /\ kind'[x] = "handle")
    BY <1>1, <1>3, <1>4 DEF WorkInv, SameGraph
  <2> QED
    BY <1>1, <1>3, <2>1, <2>2, <2>3 DEF WorkInv
<1>11. Complete'
  <2>1. ASSUME NEW x \in marked' \ mark_stack'
        PROVE  Out(x)' \subseteq Found'
    <3>1. x \in Nodes /\ Out(x)' = Out(x)
      BY <1>4, <1>9, <2>1 DEF TypeOK, SameGraph
    <3>2. CASE x = n
      BY <1>8, <3>1, <3>2
    <3>3. CASE x # n
      BY <1>1, <1>3, <1>7, <2>1, <3>1, <3>3 DEF Complete
    <3> QED
      BY <3>2, <3>3
  <2>2. \A x \in mark_stack' : links'[x] \subseteq Found'
    BY <1>1, <1>3, <1>7 DEF Complete
  <2>3. \A x \in Nodes : (phase' = "series" => x \notin todo')
                           => Start(x)' \subseteq Found'
    BY <1>1, <1>3, <1>4, <1>7 DEF Complete, SameGraph
  <2>4. \A r \in Done(phase)' : roots'[r] \subseteq Found'
    <3>1. Done(phase)' = Done(phase)
      BY <1>1 DEF Done
    <3> QED
      BY <1>1, <1>3, <1>7, <3>1 DEF Complete
  <2>5. phase' \in RootKinds => roots'[phase'] \ todo' \subseteq Found'
    BY <1>1, <1>3, <1>7 DEF Complete
  <2> QED
    BY <2>1, <2>2, <2>3, <2>4, <2>5 DEF Complete
<1>12. Correct'
  <2>1. n \in Found
    BY <1>5 DEF Found
  <2> QED
    BY <1>3, <1>4, <1>6, <1>7, <2>1, CorrectStep DEF Sound
<1> QED
  BY <1>1, <1>2, <1>4, <1>9, <1>10, <1>11, <1>12 DEF IInv

\* A visit of a node finds what the node leads to, except the items of an
\* array, which is put on the mark stack instead.
LEMMA QueueInv ==
    ASSUME IInv, NEW n \in Nodes, Queue_Mark_Node_Deep(n)
    PROVE  IInv'
<1> DEFINE Known ==
             /\ n \in marked
             /\ pending' = pending \ {n}
             /\ UNCHANGED <<links, mark_stack, marked>>
<1> DEFINE Pairing ==
             /\ n \notin marked /\ kind[n] = "pairing"
             /\ pending' = (pending \union cells[n]) \ {n}
             /\ marked' = marked \union {n}
             /\ UNCHANGED <<links, mark_stack>>
<1> DEFINE Decayed ==
             /\ n \notin marked /\ n \in inaccessible
             /\ pending' = pending \ {n}
             /\ marked' = marked \union {n}
             /\ links' = [links EXCEPT ![n] = {}]
             /\ UNCHANGED mark_stack
<1> DEFINE Series ==
             /\ n \notin marked /\ n \notin inaccessible
             /\ kind[n] \in {"array", "binary"}
             /\ pending' = (pending \union links[n]) \ {n}
             /\ marked' = marked \union {n}
             /\ mark_stack' = IF kind[n] = "array" THEN mark_stack \union {n}
                                                   ELSE mark_stack
             /\ UNCHANGED links
<1>1. /\ n \in pending
      /\ UNCHANGED <<kind, managed, inaccessible, cells, roots, phase, mode,
                     todo, sweeplist>>
  BY DEF Queue_Mark_Node_Deep
<1>2. phase \notin {"run", "sweep", "down"} /\ Marking
  BY <1>1 DEF IInv, Quiet, Marking
<1>3. /\ HeapType /\ HeapInv /\ WorkInv /\ Complete /\ Correct
      /\ phase \in Phases /\ todo \subseteq Nodes
      /\ pending \subseteq Nodes /\ mark_stack \subseteq Nodes
      /\ marked \subseteq Nodes /\ sweeplist \subseteq Nodes
      /\ mode \in {"recycle", "list", "shutdown"}
  BY <1>2, MarkingFacts
<1>4. Value(n) /\ NodeInv(n)
  BY <1>1, <1>3 DEF WorkInv, HeapInv
<1>5. Known \/ Pairing \/ Decayed \/ Series
  <2>1. CASE n \in marked
    BY <2>1 DEF Queue_Mark_Node_Deep
  <2>2. CASE n \notin marked /\ kind[n] = "pairing"
    <3>1. n \notin inaccessible
      BY <1>4, <2>2 DEF NodeInv
    <3> QED
      BY <2>2, <3>1 DEF Queue_Mark_Node_Deep
  <2>3. CASE n \notin marked /\ n \in inaccessible
    <3>1. kind[n] # "pairing"
      BY <1>4, <2>3 DEF NodeInv
    <3> QED
      BY <2>3, <3>1 DEF Queue_Mark_Node_Deep
  <2>4. CASE n \notin marked /\ n \notin inaccessible /\ kind[n] # "pairing"
    <3>1. kind[n] \in {"array", "binary"}
      BY <1>4, <2>4 DEF Value
    <3> QED
      BY <2>4, <3>1 DEF Queue_Mark_Node_Deep
  <2> QED
    BY <2>1, <2>2, <2>3, <2>4
<1>6. HeapType' /\ HeapInv' /\ SameGraph
  <2>1. CASE Decayed
    BY <1>1, <1>3, <2>1, LinksCleared
  <2>2. CASE UNCHANGED links
    BY <1>1, <1>3, <2>2, HeapSame DEF heap_vars
  <2> QED
    BY <1>5, <2>1, <2>2
<1>7. /\ Found \subseteq Found' /\ Found' \subseteq Found \union Out(n)
      /\ marked \subseteq marked' /\ marked' \subseteq marked \union {n}
      /\ mark_stack \subseteq mark_stack'
      /\ mark_stack' \subseteq mark_stack \union {n}
      /\ n \notin marked /\ n \notin mark_stack' => Out(n) \subseteq Found'
      /\ n \in mark_stack' /\ n \notin mark_stack =>
            /\ n \in marked' /\ n \notin inaccessible /\ kind[n] = "array"
            /\ links[n] \subseteq Found'
  <2>1. CASE Known
    BY <1>1, <2>1 DEF Found
  <2>2. CASE Pairing
    <3>1. n \notin inaccessible /\ links[n] = {}
      BY <1>4, <2>2 DEF NodeInv
    <3>2. Out(n) = cells[n]
      BY <2>2, <3>1 DEF Out
    <3> QED
      BY <1>1, <2>2, <3>2 DEF Found
  <2>3. CASE Decayed
    <3>1. Out(n) = {}
      BY <2>3 DEF Out
    <3> QED
      BY <1>1, <2>3, <3>1 DEF Found
  <2>4. CASE Series
    <3>1. kind[n] = "array" => Out(n) = links[n] \union cells[n]
      BY <2>4 DEF Out
    <3>2. kind[n] = "binary" => Out(n) = links[n]
      BY <2>4 DEF Out
    <3>3. Found' = Found \union links[n]
      BY <1>1, <2>4 DEF Found
    <3>4. CASE kind[n] = "array"
      BY <2>4, <3>1, <3>3, <3>4
    <3>5. CASE kind[n] = "binary"
      BY <2>4, <3>2, <3>3, <3>5
    <3> QED
      BY <2>4, <3>4, <3>5
  <2> QED
    BY <1>5, <2>1, <2>2, <2>3, <2>4
<1>8. \A x \in Out(n) : Value(x)
  BY <1>4 DEF NodeInv, Out
<1>9. \A x \in pending' : Value(x) /\ x \in Nodes
  <2>1. pending' \subseteq pending \union Out(n)
    <3>1. CASE Known \/ Decayed
      BY <3>1
    <3>2. CASE Pairing
      BY <1>4, <3>2 DEF NodeInv, Out
    <3>3. CASE Series
      BY <3>3 DEF Out
    <3> QED
      BY <1>5, <3>1, <3>2, <3>3
  <2> QED
    BY <1>3, <1>8, <2>1 DEF WorkInv, Value, HeapType, InUse
<1>10. TypeOK'
  BY <1>1, <1>3, <1>6, <1>7, <1>9 DEF TypeOK, HeapType
<1>11. WorkInv'
  <2>1. \A x \in pending' : Value(x)'
    BY <1>6, <1>9 DEF SameGraph
  <2>2. \A x \in mark_stack' :
           x \in marked' \ inaccessible' /\ kind'[x] = "array"
    BY <1>1, <1>3, <1>7 DEF WorkInv
  <2>3. \A x \in marked' : Value(x)' \/ (x \in managed' /\ kind'[x] = "handle")
    BY <1>1, <1>3, <1>4, <1>6, <1>7 DEF WorkInv, SameGraph
  <2> QED
    BY <1>1, <1>3, <2>1, <2>2, <2>3 DEF WorkInv
<1>12. Complete'
  <2>1. ASSUME NEW x \in marked' \ mark_stack'
        PROVE  Out(x)' \subseteq Found'
    <3>1. x \in Nodes /\ Out(x)' = Out(x)
      BY <1>6, <1>10, <2>1 DEF TypeOK, SameGraph
    <3>2. CASE x \in marked
      BY <1>3, <1>7, <2>1, <3>1, <3>2 DEF Complete
    <3>3. CASE x \notin marked
      BY <1>7, <2>1, <3>1, <3>3
    <3> QED
      BY <3>2, <3>3
  <2>2. ASSUME NEW x \in mark_stack'
        PROVE  links'[x] \subseteq Found'
    <3>1. links'[x] = links[x]
      <4>1. CASE Decayed
        BY <1>3, <2>2, <4>1 DEF WorkInv, HeapType
      <4>2. CASE UNCHANGED links
        BY <4>2
      <4> QED
        BY <1>5, <4>1, <4>2
    <3>2. CASE x \in mark_stack
      BY <1>3, <1>7, <3>1, <3>2 DEF Complete
    <3>3. CASE x \notin mark_stack
      BY <1>7, <2>2, <3>1, <3>3
    <3> QED
      BY <3>2, <3>3
  <2>3. \A x \in Nodes : (phase' = "series" => x \notin todo')
                           => Start(x)' \subseteq Found'
    BY <1>1, <1>3, <1>6, <1>7 DEF Complete, SameGraph
  <2>4. \A r \in Done(phase)' : roots'[r] \subseteq Found'
    <3>1. Done(phase)' = Done(phase)
      BY <1>1 DEF Done
    <3> QED
      BY <1>1, <1>3, <1>7, <3>1 DEF Complete
  <2>5. phase' \in RootKinds => roots'[phase'] \ todo' \subseteq Found'
    BY <1>1, <1>3, <1>7 DEF Complete
  <2> QED
    BY <2>1, <2>2, <2>3, <2>4, <2>5 DEF Complete
<1>13. Correct'
  <2>1. n \in Found
    BY <1>1 DEF Found
  <2> QED
    BY <1>3, <1>6, <1>7, <2>1, CorrectStep DEF Sound
<1> QED
  BY <1>1, <1>2, <1>6, <1>10, <1>11, <1>12, <1>13 DEF IInv

\* A phase ends when all that it found has been visited.
LEMMA NextPhaseInv ==
    ASSUME IInv, Next_Phase
    PROVE  IInv'
<1>1. /\ phase \in RootKinds \union {"series"}
      /\ todo = {} /\ pending = {} /\ mark_stack = {}
      /\ phase' = AfterPhase(phase)
      /\ todo' = IF phase' \in RootKinds THEN roots[phase'] ELSE {}
      /\ UNCHANGED <<kind, managed, inaccessible, cells, links, roots, mode,
                     pending, mark_stack, marked, sweeplist>>
  BY DEF Next_Phase, heap_vars
<1>2. /\ HeapType /\ HeapInv /\ WorkInv /\ Complete /\ Correct
      /\ phase \in Phases /\ todo \subseteq Nodes
      /\ pending \subseteq Nodes /\ mark_stack \subseteq Nodes
      /\ marked \subseteq Nodes /\ sweeplist \subseteq Nodes
      /\ mode \in {"recycle", "list", "shutdown"}
  BY <1>1, MarkingFacts DEF Marking, RootKinds
<1>3. HeapType' /\ HeapInv' /\ SameGraph
  BY <1>1, <1>2, HeapSame DEF heap_vars
<1>4. /\ phase' \in RootKinds \union {"sweep"}
      /\ phase' \in RootKinds => mode # "shutdown"
      /\ Done(phase') \subseteq Done(phase) \union (RootKinds \intersect {phase})
  <2>1. CASE phase = "series"
    BY <1>1, <2>1 DEF AfterPhase, Done, RootKinds
  <2>2. CASE phase \in RootKinds
    <3>1. mode # "shutdown"
      BY <1>2, <2>2 DEF WorkInv
    <3>2. CASE phase = "natives"
      BY <1>1, <3>1, <3>2 DEF AfterPhase, Done, RootKinds
    <3>3. CASE phase = "symbols"
      BY <1>1, <3>1, <3>3 DEF AfterPhase, Done, RootKinds
    <3>4. CASE phase = "stack"
      BY <1>1, <3>1, <3>4 DEF AfterPhase, Done, RootKinds
    <3>5. CASE phase = "guarded"
      BY <1>1, <3>1, <3>5 DEF AfterPhase, Done, RootKinds
    <3>6. CASE phase = "frames"
      BY <1>1, <3>1, <3>6 DEF AfterPhase, Done, RootKinds
    <3>7. CASE phase = "devices"
      BY <1>1, <3>1, <3>7 DEF AfterPhase, Done, RootKinds
    <3> QED
      BY <2>2, <3>2, <3>3, <3>4, <3>5, <3>6, <3>7 DEF RootKinds
  <2> QED
    BY <1>1, <2>1, <2>2
<1>5. Found' = Found
  BY <1>1 DEF Found
<1>6. TypeOK'
  BY <1>1, <1>2, <1>3, <1>4 DEF TypeOK, HeapType, Phases
<1>7. WorkInv'
  BY <1>1, <1>2, <1>3, <1>4 DEF WorkInv, SameGraph
<1>8. Complete'
  <2>1. \A x \in marked' \ mark_stack' : Out(x)' \subseteq Found'
    BY <1>1, <1>2, <1>3, <1>5 DEF Complete, SameGraph
  <2>2. \A x \in Nodes : Start(x)' \subseteq Found'
    BY <1>1, <1>2, <1>3, <1>5 DEF Complete, SameGraph
  <2>3. \A r \in Done(phase)' : roots'[r] \subseteq Found'
    <3>1. Done(phase)' = Done(phase')
      BY <1>1 DEF Done
    <3> QED
      BY <1>1, <1>2, <1>4, <1>5, <3>1 DEF Complete
  <2>4. phase' \in RootKinds => roots'[phase'] \ todo' \subseteq Found'
    BY <1>1
  <2> QED
    BY <1>1, <2>1, <2>2, <2>3, <2>4 DEF Complete
<1>9. Correct'
  BY <1>2, <1>3, <1>5, CorrectStep
<1> QED
  BY <1>1, <1>3, <1>4, <1>6, <1>7, <1>8, <1>9 DEF IInv, Quiet, RootKinds

\* A collection starts with nothing found.
LEMMA RecycleInv ==
    ASSUME IInv, NEW m \in {"recycle", "list", "shutdown"}, Recycle_Core(m)
    PROVE  IInv'
<1>1. /\ phase = "run" /\ phase' = "series" /\ mode' = m /\ todo' = Nodes
      /\ UNCHANGED <<kind, managed, inaccessible, cells, links, roots,
                     pending, mark_stack, marked, sweeplist>>
  BY DEF Recycle_Core
<1>2. /\ TypeOK /\ HeapInv
      /\ pending = {} /\ mark_stack = {} /\ marked = {}
  BY <1>1 DEF IInv, Quiet
<1>3. TypeOK'
  BY <1>1, <1>2 DEF TypeOK, Phases, InUse
<1>4. HeapInv'
  BY <1>1, <1>2 DEF HeapInv, NodeInv, RootInv, Value
<1>5. WorkInv'
  BY <1>1, <1>2 DEF WorkInv, RootKinds
<1>6. Found' = {}
  BY <1>1, <1>2 DEF Found
<1>7. Complete'
  BY <1>1, <1>2 DEF Complete, Done, RootKinds
<1>8. Correct'
  BY <1>6 DEF Correct
<1> QED
  BY <1>1, <1>3, <1>4, <1>5, <1>7, <1>8 DEF IInv

----------------------------------------------------------------------------
(* Sweeping.                                                               *)

\* The headers that the sweep meets.
LEMMA Headers ==
    ASSUME IInv, phase = "sweep", NEW n \in Nodes
    PROVE  /\ Header(n) # 9
           /\ Header(n) = 10 <=> n \in managed \ marked
           /\ Header(n) = 11 <=> n \in marked
<1>1. n \in managed => kind[n] # "free"
  BY DEF IInv, TypeOK, InUse
<1>2. n \in marked => n \in managed
  BY DEF IInv, Marking, WorkInv, Value
<1>3. CASE kind[n] = "free"
  BY <1>1, <1>2, <1>3 DEF Header
<1>4. CASE kind[n] # "free" /\ n \in marked
  BY <1>2, <1>4 DEF Header
<1>5. CASE kind[n] # "free" /\ n \notin marked /\ n \in managed
  BY <1>5 DEF Header
<1>6. CASE kind[n] # "free" /\ n \notin marked /\ n \notin managed
  BY <1>6 DEF Header
<1> QED
  BY <1>3, <1>4, <1>5, <1>6

\* When the marking is over, the marked nodes are the least sound set.
LEMMA MarkedIsLeast ==
    ASSUME IInv, phase = "sweep"
    PROVE  /\ marked \subseteq Nodes /\ Sound(marked)
           /\ \A S \in SUBSET Nodes : Sound(S) => marked \subseteq S
<1>1. /\ HeapType /\ HeapInv /\ WorkInv /\ Complete /\ Correct
      /\ phase \in Phases /\ todo \subseteq Nodes
      /\ pending \subseteq Nodes /\ mark_stack \subseteq Nodes
      /\ marked \subseteq Nodes /\ sweeplist \subseteq Nodes
      /\ mode \in {"recycle", "list", "shutdown"}
  BY MarkingFacts DEF Marking
<1>2. pending = {} /\ mark_stack = {} /\ Found = marked
  BY DEF IInv, Quiet, Found
<1>3. \A n \in Nodes : Start(n) \subseteq marked
  BY <1>1, <1>2 DEF Complete
<1>4. mode # "shutdown" => \A r \in RootKinds : roots[r] \subseteq marked
  BY <1>1, <1>2 DEF Complete, Done
<1>5. \A n \in marked : Out(n) \subseteq marked
  BY <1>1, <1>2 DEF Complete
<1> QED
  BY <1>1, <1>2, <1>3, <1>4, <1>5 DEF Sound, Correct

\* The reachability of the property, without its unions.
LEMMA ClosedIsSound ==
    ASSUME HeapType, NEW S \in SUBSET Nodes
    PROVE  Closed(S) <=> Sound(S)
<1> DEFINE Handles == {h \in Nodes : kind[h] = "handle"}
<1> DEFINE Arrays == {a \in Nodes : kind[a] = "array"} \ managed
<1>1. managed \subseteq Nodes
  BY DEF HeapType, InUse
<1>2. Base \subseteq S <=>
        /\ \A n \in managed : kind[n] = "handle" => n \in S
        /\ \A n \in Handles : cells[n] \subseteq S
        /\ \A n \in Arrays : cells[n] \union links[n] \subseteq S
        /\ mode # "shutdown" => \A r \in RootKinds : roots[r] \subseteq S
  <2> DEFINE OwnHandles == {n \in managed : kind[n] = "handle"}
             InHandles == UNION {cells[n] : n \in Handles}
             InArrays == UNION {cells[n] \union links[n] : n \in Arrays}
             InRoots == UNION {roots[r] : r \in RootKinds}
  <2>1. OwnHandles \subseteq S
           <=> \A n \in managed : kind[n] = "handle" => n \in S
    OBVIOUS
  <2>2. InHandles \subseteq S <=> \A n \in Handles : cells[n] \subseteq S
    OBVIOUS
  <2>3. InArrays \subseteq S
           <=> \A n \in Arrays : cells[n] \union links[n] \subseteq S
    OBVIOUS
  <2>4. InRoots \subseteq S <=> \A r \in RootKinds : roots[r] \subseteq S
    OBVIOUS
  <2>5. Base = OwnHandles \union InHandles \union InArrays
                 \union (IF mode = "shutdown" THEN {} ELSE InRoots)
    BY DEF Base
  <2>6. Base \subseteq S <=>
          /\ OwnHandles \subseteq S /\ InHandles \subseteq S
          /\ InArrays \subseteq S
          /\ mode # "shutdown" => InRoots \subseteq S
    <3> HIDE DEF OwnHandles, InHandles, InArrays, InRoots
    <3> QED
      BY <2>5
  <2> QED
    BY <2>1, <2>2, <2>3, <2>4, <2>6
<1>3. (\A n \in Nodes : Start(n) \subseteq S) <=>
        /\ \A n \in managed : kind[n] = "handle" => n \in S
        /\ \A n \in Handles : cells[n] \subseteq S
        /\ \A n \in Arrays : cells[n] \union links[n] \subseteq S
  BY <1>1 DEF Start
<1> QED
  BY <1>2, <1>3 DEF Closed, Sound

\* What is alive is what is marked.
LEMMA MarkedIsLive ==
    ASSUME IInv, phase = "sweep"
    PROVE  Live = marked
BY MarkedIsLeast, ClosedIsSound DEF Live, IInv, TypeOK, HeapType

\* The sweep frees nothing that what remains refers to.
LEMMA SweepInv ==
    ASSUME IInv, Sweep_Series
    PROVE  IInv'
<1> DEFINE dead == managed \ marked
<1>1. /\ phase = "sweep" /\ mode # "list"
      /\ phase' = IF mode = "shutdown" THEN "down" ELSE "run"
      /\ UNCHANGED <<roots, mode, todo, pending, mark_stack, sweeplist>>
  BY DEF Sweep_Series
<1>2. managed \subseteq Nodes /\ HeapType /\ HeapInv /\ WorkInv
  BY <1>1, MarkingFacts DEF Marking, HeapType, InUse
<1>3. {n \in Nodes : Header(n) = 10} = dead
  BY <1>1, <1>2, Headers
<1>4. {n \in Nodes : Header(n) = 11} = marked
  BY <1>1, Headers, MarkedIsLeast
<1>5. /\ kind' = [n \in Nodes |-> IF n \in dead THEN "free" ELSE kind[n]]
      /\ managed' = managed \ dead
      /\ inaccessible' = inaccessible \ dead
      /\ cells' = [n \in Nodes |-> IF n \in dead THEN {} ELSE cells[n]]
      /\ links' = [n \in Nodes |-> IF n \in dead THEN {} ELSE links[n]]
      /\ marked' = {}
  BY <1>3, <1>4 DEF Sweep_Series
<1>6. Sound(marked)
  BY <1>1, MarkedIsLeast
<1>7. TypeOK'
  BY <1>1, <1>2, <1>5 DEF IInv, TypeOK, HeapType, InUse, Phases, Kinds
<1>8. \A x \in marked : Value(x) => Value(x)'
  BY <1>2, <1>5 DEF Value
<1>9. ASSUME NEW x \in Nodes
      PROVE  NodeInv(x)'
  <2>1. NodeInv(x)
    BY <1>2 DEF HeapInv
  <2>2. CASE x \in dead
    <3>1. kind'[x] = "free" /\ cells'[x] = {} /\ links'[x] = {}
      BY <1>5, <2>2
    <3>2. x \notin inaccessible'
      BY <1>5, <2>2
    <3> QED
      BY <3>1, <3>2 DEF NodeInv
  <2>3. CASE x \notin dead
    <3>1. /\ kind'[x] = kind[x] /\ cells'[x] = cells[x] /\ links'[x] = links[x]
          /\ x \in managed' <=> x \in managed
          /\ x \in inaccessible' <=> x \in inaccessible
      BY <1>5, <2>3
    <3>2. cells[x] \subseteq marked
      <4>1. Start(x) \subseteq marked /\ (x \in marked => Out(x) \subseteq marked)
        BY <1>6 DEF Sound
      <4>2. CASE x \in managed
        <5>1. x \in marked
          BY <2>3, <4>2
        <5>2. CASE kind[x] = "handle"
          BY <4>1, <5>2 DEF Start
        <5>3. CASE kind[x] # "handle"
          BY <1>2, <2>1, <4>1, <5>1, <5>3 DEF WorkInv, Value, NodeInv, Out
        <5> QED
          BY <5>2, <5>3
      <4>3. CASE x \notin managed
        <5>1. CASE kind[x] \in {"handle", "array"}
          BY <4>1, <4>3, <5>1 DEF Start
        <5>2. CASE kind[x] \notin {"handle", "array"}
          BY <1>2, <2>1, <4>3, <5>2 DEF NodeInv, HeapType, Kinds
        <5> QED
          BY <5>1, <5>2
      <4> QED
        BY <4>2, <4>3
    <3>3. x \notin inaccessible => links[x] \subseteq marked
      <4>1. Start(x) \subseteq marked /\ (x \in marked => Out(x) \subseteq marked)
        BY <1>6 DEF Sound
      <4>2. CASE x \in managed
        BY <2>3, <4>1, <4>2 DEF Out
      <4>3. CASE x \notin managed
        <5>1. CASE kind[x] = "array"
          BY <4>1, <4>3, <5>1 DEF Start
        <5>2. CASE kind[x] # "array"
          BY <1>2, <2>1, <4>3, <5>2 DEF NodeInv, HeapType, Kinds
        <5> QED
          BY <5>1, <5>2
      <4> QED
        BY <4>2, <4>3
    <3> HIDE DEF dead
    <3>4. \A m \in cells'[x] : Value(m)'
      BY <1>8, <2>1, <3>1, <3>2 DEF NodeInv
    <3>5. x \notin inaccessible' => \A m \in links'[x] : Value(m)'
      BY <1>8, <2>1, <3>1, <3>3 DEF NodeInv
    <3> QED
      BY <2>1, <3>1, <3>4, <3>5 DEF NodeInv
  <2> QED
    BY <2>2, <2>3
<1>10. ASSUME mode # "shutdown"
       PROVE  RootInv'
  <2>1. \A r \in RootKinds : roots[r] \subseteq marked
    BY <1>6, <1>10 DEF Sound
  <2>2. \A r \in RootKinds : \A m \in roots'[r] : Value(m)'
    BY <1>1, <1>2, <1>8, <2>1 DEF HeapInv, RootInv
  <2>3. \A m \in roots["symbols"] : m \notin dead /\ m \in Nodes
    BY <1>2, <2>1 DEF RootKinds, HeapType
  <2>4. \A m \in roots'["symbols"] :
           kind'[m] = "binary" /\ links'[m] = {} /\ m \notin inaccessible'
    BY <1>1, <1>2, <1>5, <2>3 DEF HeapInv, RootInv
  <2> QED
    BY <2>2, <2>4 DEF RootInv
<1>11. Quiet'
  BY <1>1 DEF IInv, Quiet
<1> QED
  BY <1>1, <1>5, <1>7, <1>9, <1>10, <1>11 DEF IInv, HeapInv, Marking

LEMMA FillSweeplistInv ==
    ASSUME IInv, Fill_Sweeplist
    PROVE  IInv'
<1>1. /\ phase = "sweep" /\ phase' = "run"
      /\ UNCHANGED <<kind, managed, inaccessible, cells, links, roots, mode,
                     todo, pending, mark_stack>>
  BY DEF Fill_Sweeplist, heap_vars
<1>2. {n \in Nodes : Header(n) \in {9, 11}} = marked
  BY <1>1, Headers, MarkedIsLeast
<1>3. sweeplist' = {} /\ marked' = {}
  BY <1>2 DEF Fill_Sweeplist
<1>4. HeapType /\ HeapInv
  BY <1>1, MarkingFacts DEF Marking
<1>5. HeapType' /\ HeapInv'
  BY <1>1, <1>4, HeapSame DEF heap_vars
<1>6. TypeOK'
  BY <1>1, <1>3, <1>5 DEF IInv, TypeOK, HeapType, Phases
<1> QED
  BY <1>1, <1>3, <1>5, <1>6 DEF IInv, Quiet, Marking

\* The program runs only between collections.
LEMMA ProgramInv ==
    ASSUME IInv, phase = "run", Mutator, UNCHANGED gc_vars
    PROVE  IInv'
<1>1. UNCHANGED <<phase, mode, todo, pending, mark_stack, marked, sweeplist>>
  BY DEF gc_vars
<1>2. HeapType /\ HeapInv
  BY DEF IInv, TypeOK, HeapType
<1>3. HeapType' /\ HeapInv'
  BY <1>2, MutatorInv
<1>4. TypeOK'
  BY <1>1, <1>3 DEF IInv, TypeOK, HeapType
<1> QED
  BY <1>1, <1>3, <1>4 DEF IInv, Quiet, Marking

----------------------------------------------------------------------------
(* The theorems.                                                           *)

LEMMA InitInv ==
    ASSUME Init
    PROVE  IInv
<1>1. TypeOK
  BY DEF Init, TypeOK, InUse, Kinds, Phases
<1>2. HeapInv
  BY DEF Init, HeapInv, NodeInv, RootInv, RootKinds
<1> QED
  BY <1>1, <1>2 DEF Init, IInv, Quiet, Marking

LEMMA StepInv ==
    ASSUME IInv, [Next]_vars
    PROVE  IInv'
<1>1. CASE phase = "run" /\ Mutator /\ UNCHANGED gc_vars
  BY <1>1, ProgramInv
<1>2. ASSUME NEW m \in {"recycle", "list", "shutdown"}, Recycle_Core(m)
      PROVE  IInv'
  BY <1>2, RecycleInv
<1>3. CASE Collect
  <2>1. ASSUME NEW n \in Nodes,
               \/ Mark_Root_Series(n)
               \/ Visit_Root(n)
               \/ Queue_Mark_Node_Deep(n)
               \/ Propagate_All_GC_Marks(n)
        PROVE  IInv'
    BY <2>1, MarkRootSeriesInv, VisitRootInv, QueueInv, PropagateInv
  <2> QED
    BY <1>3, <2>1, NextPhaseInv, SweepInv, FillSweeplistInv DEF Collect
<1>4. CASE UNCHANGED vars
  <2>1. UNCHANGED <<kind, managed, inaccessible, cells, links, roots, phase,
                    mode, todo, pending, mark_stack, marked, sweeplist>>
    BY <1>4 DEF vars
  <2>2. TypeOK'
    BY <2>1 DEF IInv, TypeOK, InUse
  <2>3. HeapInv => HeapInv'
    BY <2>1 DEF HeapInv, NodeInv, RootInv, Value
  <2>4. WorkInv => WorkInv'
    BY <2>1 DEF WorkInv, Value
  <2>5. Complete => Complete'
    BY <2>1 DEF Complete, Found, Start, Out, Done
  <2>6. Correct => Correct'
    BY <2>1 DEF Correct, Sound, Found, Start, Out
  <2> QED
    BY <2>1, <2>2, <2>3, <2>4, <2>5, <2>6 DEF IInv, Marking, Quiet
<1> QED
  BY <1>1, <1>2, <1>3, <1>4 DEF Next

LEMMA Invariance == Spec => []IInv
<1>1. Init => IInv
  BY InitInv
<1>2. IInv /\ [Next]_vars => IInv'
  BY StepInv
<1> QED
  BY <1>1, <1>2, PTL DEF Spec

\* The types are kept by every operation and every step of a collection.
THEOREM TypeCorrect == Spec => []TypeOK
<1>1. IInv => TypeOK
  BY DEF IInv
<1> QED
  BY <1>1, Invariance, PTL

\* No collection frees what an array, pairing, handle, LINK, MISC or root
\* refers to, whatever the heap looks like and in whatever order Recycle_Core
\* visits it.
THEOREM CollectorSafe == Spec => []NoDangling
<1>1. ASSUME IInv
      PROVE  NoDangling
  BY <1>1 DEF IInv, NoDangling, HeapInv, NodeInv, RootInv, Value, TypeOK, InUse
<1> QED
  BY <1>1, Invariance, PTL

\* The panics of Queue_Mark_Node_Deep and of Sweep_Series are unreachable.
THEOREM CollectorNeverPanics == Spec => []NoPanic
<1>1. ASSUME IInv
      PROVE  NoPanic
  <2>1. ASSUME NEW n \in pending
        PROVE  kind[n] # "free"
    <3>1. Marking
      BY <1>1, <2>1 DEF IInv, Quiet, Marking
    <3> QED
      BY <1>1, <2>1, <3>1 DEF IInv, WorkInv, Value
  <2>2. phase = "sweep" => \A n \in Nodes : Header(n) # 9
    BY <1>1, Headers
  <2> QED
    BY <2>1, <2>2 DEF NoPanic
<1> QED
  BY <1>1, Invariance, PTL

\* The sweep of Recycle_Core frees exactly the managed nodes that are not in
\* the least set that contains the roots and is closed under references.
THEOREM SweepIsExact == Spec => SweepExact
<1>1. ASSUME IInv, [Next]_vars,
             phase = "sweep", mode # "list", phase' \in {"run", "down"}
      PROVE  InUse' = {n \in InUse : n \notin managed \/ n \in Live}
  <2>1. Sweep_Series
    <3>1. pending = {} /\ mark_stack = {}
      BY <1>1 DEF IInv, Quiet
    <3>2. phase' # phase /\ phase \notin RootKinds
      BY <1>1 DEF RootKinds
    <3>3. ~ UNCHANGED vars
      BY <3>2 DEF vars
    <3> QED
      BY <1>1, <3>1, <3>2, <3>3
      DEF Next, Collect, Recycle_Core, Mark_Root_Series, Visit_Root,
          Queue_Mark_Node_Deep, Propagate_All_GC_Marks, Next_Phase,
          Fill_Sweeplist
  <2>2. {n \in Nodes : Header(n) = 10} = managed \ marked
    BY <1>1, Headers DEF IInv, TypeOK, InUse
  <2>3. kind' = [n \in Nodes |-> IF n \in managed \ marked THEN "free" ELSE kind[n]]
    BY <2>1, <2>2 DEF Sweep_Series
  <2> QED
    BY <1>1, <2>3, MarkedIsLive DEF InUse
<1>2. IInv /\ [Next]_vars =>
        [phase = "sweep" /\ mode # "list" /\ phase' \in {"run", "down"} =>
           InUse' = {n \in InUse : n \notin managed \/ n \in Live}]_vars
  BY <1>1
<1> QED
  BY <1>2, Invariance, PTL DEF Spec, SweepExact
============================================================================
