---------------------------- MODULE Checkpoints ----------------------------
(***************************************************************************)
(* The recovery discipline of the interpreter core: what PUSH_TRAP         *)
(* remembers, what a fail() throws away, and which of the operations that  *)
(* run between the two keep the memory sound.                              *)
(*                                                                         *)
(* Errors leave C frames with longjmp, so nothing on the way runs a        *)
(* destructor.  A trap therefore stores the LENGTHS of the global stacks   *)
(* (struct Reb_State) and Trapped_Helper truncates every stack back to its *)
(* stored length, freeing the manual series that lie above the mark in     *)
(* GC_Manuals.  That is only right if the part below the mark still holds  *)
(* the series it held when the mark was taken, and GC_Manuals is not a     *)
(* stack: Untrack_Manual_Series moves the last entry into the hole that a  *)
(* release leaves.                                                         *)
(*                                                                         *)
(* A behaviour is one thread of the interpreter.  `scopes` is the C stack  *)
(* restricted to the activations that have taken a snapshot: traps,        *)
(* evaluator frames (which snapshot for ASSERT_STATE_BALANCED) and API     *)
(* runs (which save and restore the signal mask in C locals).              *)
(***************************************************************************)
EXTENDS Naturals, Sequences

CONSTANTS
    Series,     \* series nodes
    Stacks,     \* stacks captured by length only: data stack, mold buffer
    MaxScopes,  \* bound on the C stack (C_STACK_OVERFLOWING)
    MaxGuards,  \* bound on GC_Guarded
    MaxHeight   \* bound on each member of Stacks

ASSUME BoundsAssumption ==
    /\ MaxScopes \in Nat
    /\ MaxGuards \in Nat
    /\ MaxHeight \in Nat

VARIABLES
    status,     \* Series -> "free" | "manual" | "managed"
    manuals,    \* GC_Manuals
    guarded,    \* GC_Guarded
    height,     \* DSP, length of MOLD_BUF, length of TG_Mold_Stack
    haltable,   \* is SIG_HALT in Eval_Sigmask?
    scopes,     \* the activations that hold a snapshot, outermost first
    error       \* has Fail_Core set the error of the innermost trap?

vars == <<status, manuals, guarded, height, haltable, scopes, error>>

Range1(f) == {f[i] : i \in DOMAIN f}

\* The series that are manually managed: allocated, and not the collector's.
Manual == {s \in Series : status[s] = "manual"}

(***************************************************************************)
(* Snapshots.  The field `live` is a history variable: the manual series   *)
(* in existence when the snapshot was taken.  The code does not store it.  *)
(***************************************************************************)
Snapshot ==
    [kind : {"trap", "frame", "run"},
     manuals_len : Nat,
     guarded_len : Nat,
     height : [Stacks -> Nat],
     saved_sigmask : BOOLEAN,
     live : SUBSET Series]

\* Faulty: one past the end; the length of the wrong list.
Snap_State_Core_OffByOne(kind) ==
    [kind |-> kind, manuals_len |-> Len(manuals) + 1,
     guarded_len |-> Len(guarded), height |-> height,
     saved_sigmask |-> haltable, live |-> Manual]
Snap_State_Core_WrongList(kind) ==
    [kind |-> kind, manuals_len |-> Len(guarded),
     guarded_len |-> Len(guarded), height |-> height,
     saved_sigmask |-> haltable, live |-> Manual]

Snap_State_Core(kind) ==
    [kind |-> kind,
     manuals_len |-> Len(manuals),
     guarded_len |-> Len(guarded),
     height |-> height,
     saved_sigmask |-> haltable,
     live |-> Manual]

Depth == Len(scopes)

\* Where the innermost activation's own part of each stack begins.
ManualsFloor == IF Depth = 0 THEN 0 ELSE scopes[Depth].manuals_len
GuardedFloor == IF Depth = 0 THEN 0 ELSE scopes[Depth].guarded_len
HeightFloor(k) == IF Depth = 0 THEN 0 ELSE scopes[Depth].height[k]

Chop(seq, n) == [i \in 1..n |-> seq[i]]

TypeOK ==
    /\ status \in [Series -> {"free", "manual", "managed"}]
    /\ manuals \in Seq(Series)
    /\ guarded \in Seq(Series)
    /\ height \in [Stacks -> Nat]
    /\ haltable \in BOOLEAN
    /\ scopes \in Seq(Snapshot)
    /\ error \in BOOLEAN

Init ==
    /\ status = [s \in Series |-> "free"]
    /\ manuals = <<>>
    /\ guarded = <<>>
    /\ height = [k \in Stacks |-> 0]
    /\ haltable = TRUE
    /\ scopes = <<>>
    /\ error = FALSE

----------------------------------------------------------------------------
(* Manual series.                                                          *)

\* Faulty: the tail is chopped whatever is there.
Untrack_Manual_Series_NoMove(m, s) == Chop(m, Len(m) - 1)

\* Remove s, letting the last entry take its place.
Untrack_Manual_Series(m, s) ==
    [i \in 1..(Len(m) - 1) |-> IF m[i] = s THEN m[Len(m)] ELSE m[i]]

Make_Series(s) ==
    /\ status[s] = "free"
    /\ status' = [status EXCEPT ![s] = "manual"]
    /\ manuals' = Append(manuals, s)
    /\ UNCHANGED <<guarded, height, haltable, scopes>>

Manage_Series(s) ==
    /\ status[s] = "manual"
    /\ status' = [status EXCEPT ![s] = "managed"]
    /\ manuals' = Untrack_Manual_Series(manuals, s)
    /\ UNCHANGED <<guarded, height, haltable, scopes>>

\* Also rebFree.  A caller that still guards s would leave the guard dangling.
Free_Unmanaged_Series(s) ==
    /\ status[s] = "manual"
    /\ s \notin Range1(guarded)
    /\ status' = [status EXCEPT ![s] = "free"]
    /\ manuals' = Untrack_Manual_Series(manuals, s)
    /\ UNCHANGED <<guarded, height, haltable, scopes>>

\* rebMalloc the new series t, then free the old one.
RL_rebRealloc(s, t) ==
    /\ status[s] = "manual"
    /\ status[t] = "free"
    /\ s \notin Range1(guarded)
    /\ status' = [status EXCEPT ![s] = "free", ![t] = "manual"]
    /\ manuals' = Untrack_Manual_Series(Append(manuals, t), s)
    /\ UNCHANGED <<guarded, height, haltable, scopes>>

\* The collector may free any managed series that no guard keeps alive.
Sweep_Series(s) ==
    /\ status[s] = "managed"
    /\ s \notin Range1(guarded)
    /\ status' = [status EXCEPT ![s] = "free"]
    /\ UNCHANGED <<manuals, guarded, height, haltable, scopes>>

\* The series the innermost activation created itself.  A caller further out
\* still holds pointers to the others.
Own == {manuals[i] : i \in (ManualsFloor + 1)..Len(manuals)}

----------------------------------------------------------------------------
(* Guards and the stacks that are only counted.                            *)

Push_Guard_Node(s) ==
    /\ Len(guarded) < MaxGuards
    /\ status[s] # "free"
    /\ guarded' = Append(guarded, s)
    /\ UNCHANGED <<status, manuals, height, haltable, scopes>>

DROP_GC_GUARD ==
    /\ Len(guarded) > GuardedFloor
    /\ guarded' = Chop(guarded, Len(guarded) - 1)
    /\ UNCHANGED <<status, manuals, height, haltable, scopes>>

Push(k) ==
    /\ height[k] < MaxHeight
    /\ height' = [height EXCEPT ![k] = @ + 1]
    /\ UNCHANGED <<status, manuals, guarded, haltable, scopes>>

\* Faulty: drops below what the activation pushed.
Drop_Unbalanced(k) ==
    /\ height' = [height EXCEPT ![k] = @ - 1]
    /\ UNCHANGED <<status, manuals, guarded, haltable, scopes>>

Drop(k) ==
    /\ height[k] > HeightFloor(k)
    /\ height' = [height EXCEPT ![k] = @ - 1]
    /\ UNCHANGED <<status, manuals, guarded, haltable, scopes>>

----------------------------------------------------------------------------
(* Activations.                                                            *)

PUSH_TRAP ==
    /\ Depth < MaxScopes
    /\ scopes' = Append(scopes, Snap_State_Core("trap"))
    /\ UNCHANGED <<status, manuals, guarded, height, haltable>>

\* The protected code returned.  Nothing is checked and nothing restored: what
\* it left on the stacks now belongs to the activation around the trap.
DROP_TRAP_SAME_STACKLEVEL_AS_PUSH ==
    /\ Depth > 0
    /\ scopes[Depth].kind = "trap"
    /\ scopes' = Chop(scopes, Depth - 1)
    /\ UNCHANGED <<status, manuals, guarded, height, haltable>>

Push_Frame ==
    /\ Depth < MaxScopes
    /\ scopes' = Append(scopes, Snap_State_Core("frame"))
    /\ UNCHANGED <<status, manuals, guarded, height, haltable>>

\* What Assert_State_Balanced_Debug compares, less the signal mask.
Balanced(s) ==
    /\ s.manuals_len = Len(manuals)
    /\ s.guarded_len = Len(guarded)
    /\ s.height = height

Drop_Frame ==
    /\ Depth > 0
    /\ scopes[Depth].kind = "frame"
    /\ Balanced(scopes[Depth])
    /\ scopes' = Chop(scopes, Depth - 1)
    /\ UNCHANGED <<status, manuals, guarded, height, haltable>>

\* Run_Va_May_Fail_Core up to the evaluation, and after it returned normally.
Enter_Run(interruptible) ==
    /\ Depth < MaxScopes
    /\ scopes' = Append(scopes, Snap_State_Core("run"))
    /\ haltable' = interruptible
    /\ UNCHANGED <<status, manuals, guarded, height>>

Leave_Run ==
    /\ Depth > 0
    /\ scopes[Depth].kind = "run"
    /\ haltable' = scopes[Depth].saved_sigmask
    /\ scopes' = Chop(scopes, Depth - 1)
    /\ UNCHANGED <<status, manuals, guarded, height>>

----------------------------------------------------------------------------
(* Failure.  Fail_Core drops the activations above the innermost trap and  *)
(* jumps; with no trap it panics, which ends the program.  Trapped_Helper  *)
(* then runs in the trap's activation.                                     *)

Traps == {i \in 1..Depth : scopes[i].kind = "trap"}

Saved_State(i) == i \in Traps /\ \A j \in Traps : j <= i

Fail_Core ==
    \E i \in 1..Depth :
        /\ Saved_State(i)
        /\ scopes' = Chop(scopes, i)
        /\ error' = TRUE
        /\ UNCHANGED <<status, manuals, guarded, height, haltable>>

\* Free what lies above mlen, cut every stack, and leave the trap.
Recovery(mlen, glen, mask) ==
    /\ error
    /\ status' = [x \in Series |->
                    IF \E n \in (mlen + 1)..Len(manuals) : manuals[n] = x
                    THEN "free" ELSE status[x]]
    /\ manuals' = Chop(manuals, mlen)
    /\ guarded' = Chop(guarded, glen)
    /\ height' = scopes[Depth].height
    /\ haltable' = mask
    /\ scopes' = Chop(scopes, Depth - 1)
    /\ error' = FALSE

\* Faulty: GC_Guarded, the mask, or all but the last series forgotten.
Trapped_Helper_KeepGuards ==
    LET s == scopes[Depth]
    IN  Recovery(s.manuals_len, Len(guarded), s.saved_sigmask)
Trapped_Helper_KeepMask ==
    LET s == scopes[Depth]
    IN  Recovery(s.manuals_len, s.guarded_len, haltable)
Trapped_Helper_FreeOne ==
    LET s == scopes[Depth]
        n == Len(manuals)
    IN  Recovery(IF n > s.manuals_len THEN n - 1 ELSE n,
                 s.guarded_len, s.saved_sigmask)

Trapped_Helper ==
    LET s == scopes[Depth]
    IN  Recovery(s.manuals_len, s.guarded_len, s.saved_sigmask)

----------------------------------------------------------------------------
Running ==
    \/ \E s \in Series : Make_Series(s)
    \/ \E s \in Series : Sweep_Series(s)
    \/ \E s \in Series : Push_Guard_Node(s)
    \/ DROP_GC_GUARD
    \/ \E k \in Stacks : Push(k)
    \/ \E k \in Stacks : Drop(k)
    \/ PUSH_TRAP
    \/ DROP_TRAP_SAME_STACKLEVEL_AS_PUSH
    \/ Push_Frame
    \/ Drop_Frame
    \/ \E b \in BOOLEAN : Enter_Run(b)
    \/ Leave_Run

\* An activation releases only what it, or a callee that returned, created.
Releasing ==
    \/ \E s \in Own : Manage_Series(s)
    \/ \E s \in Own : Free_Unmanaged_Series(s)
    \/ \E s \in Own, t \in Series : RL_rebRealloc(s, t)

Next ==
    \/ ~error /\ UNCHANGED error /\ (Running \/ Releasing)
    \/ ~error /\ Fail_Core
    \/ Trapped_Helper

Spec == Init /\ [][Next]_vars

\* API clients are under no such rule: rebRealloc takes any live pointer.
NextApi ==
    \/ ~error /\ UNCHANGED error
       /\ (Running \/ \E s, t \in Series : RL_rebRealloc(s, t))
    \/ ~error /\ Fail_Core
    \/ Trapped_Helper

SpecApi == Init /\ [][NextApi]_vars

----------------------------------------------------------------------------
(* Properties.                                                             *)

\* GC_Manuals lists each manual series exactly once and nothing else, so no
\* series can leak past the loop in Trapped_Helper or be freed twice by it.
ManualsTracked ==
    /\ Range1(manuals) = Manual
    /\ \A i, j \in DOMAIN manuals : manuals[i] = manuals[j] => i = j

\* No stack ever shrinks below a mark that is still in force, and marks are in
\* order: the truncations of Trapped_Helper (and its assertion on GC_Manuals)
\* never lengthen a stack over stale entries.
CheckpointsNested ==
    /\ \A i \in 1..Depth :
          /\ scopes[i].manuals_len <= Len(manuals)
          /\ scopes[i].guarded_len <= Len(guarded)
          /\ \A k \in Stacks : scopes[i].height[k] <= height[k]
    /\ \A i, j \in 1..Depth : i <= j =>
          /\ scopes[i].manuals_len <= scopes[j].manuals_len
          /\ scopes[i].guarded_len <= scopes[j].guarded_len
          /\ \A k \in Stacks : scopes[i].height[k] <= scopes[j].height[k]

\* Although releases reorder GC_Manuals, the entries below a mark are always
\* the series that were manual when the mark was taken.
MarksKeepTheirSeries ==
    \A i \in 1..Depth :
        {manuals[n] : n \in 1..scopes[i].manuals_len} = scopes[i].live

\* The collector never follows a guard to a freed series, even when the guard
\* outlives a failure that freed series around it.
GuardsLive ==
    \A n \in DOMAIN guarded : status[guarded[n]] # "free"

\* Whenever control is back in an evaluator frame or a trap body the signal
\* mask is what it was on entry, however the calls in between ended: the
\* assertion Assert_State_Balanced_Debug makes with "is this always true?".
SigmaskRestored ==
    ~error /\ Depth > 0 /\ scopes[Depth].kind # "run" =>
        haltable = scopes[Depth].saved_sigmask

\* Recovery frees every manual series created since the trap it reaches was
\* pushed, and no older one.
FailFreesExactly ==
    [][error /\ ~error' => Manual' = scopes[Depth].live]_vars

\* What the allocator's comment promises API clients: memory obtained inside
\* a rescued call does not outlive the failure of that call.
FailFreesNewMemory ==
    [][error /\ ~error' => Manual' \subseteq scopes[Depth].live]_vars

============================================================================
