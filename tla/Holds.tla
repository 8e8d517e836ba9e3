------------------------------- MODULE Holds -------------------------------
(***************************************************************************)
(* SERIES_INFO_HOLD: the read-only lock on an array that is being run or   *)
(* enumerated.                                                             *)
(*                                                                         *)
(* A frame reads its code from a feed.  The first feed (or loop) to use an *)
(* array sets the array's HOLD bit and remembers in TOOK_HOLD that it must *)
(* clear it; later ones find the bit set and leave it alone.  The hold is  *)
(* given up when the feed reaches its END, when Abort_Frame is applied to  *)
(* the frame (every error does that, and a few natives when their code     *)
(* throws), or when the loop finishes.  Dropping a frame does not give it  *)
(* up, and that is how most callers leave on a THROW.  A subframe has no   *)
(* feed of its own: it reads on in the feed of the frame right below it    *)
(* (argument fulfillment) or, for a VARARGS!, of one further down.         *)
(*                                                                         *)
(* `stack` is the C stack restricted to frames, loops over a series (which *)
(* run their body under rebRescue) and traps.                              *)
(***************************************************************************)
EXTENDS Naturals, Sequences

CONSTANTS
    Arrays,     \* the arrays that code is run from
    NoArray,    \* the feed is a C va_list
    MaxDepth,   \* bound on the C stack
    MaxItems    \* bound on the length of an array or va_list

ASSUME HoldsAssumption ==
    /\ NoArray \notin Arrays
    /\ MaxDepth \in Nat
    /\ MaxItems \in Nat

VARIABLES
    held,     \* the arrays with SERIES_INFO_HOLD
    stack,    \* innermost last
    failing   \* is an error on its way to the innermost trap?

vars == <<held, stack, failing>>

(***************************************************************************)
(* A frame with a feed of its own has the array (or NoArray), the number   *)
(* of items before END and FEED_FLAG_TOOK_HOLD.  A subframe only has the   *)
(* position of the frame whose feed it uses.  A loop has its series and    *)
(* took_hold.                                                              *)
(***************************************************************************)
Level == [kind : {"frame", "sub", "loop", "trap"},
          array : Arrays \union {NoArray},
          left : Nat,
          took : BOOLEAN,
          src : Nat]

Frame(array, left, took) ==
    [kind |-> "frame", array |-> array, left |-> left, took |-> took,
     src |-> 0]
Sub(src) ==
    [kind |-> "sub", array |-> NoArray, left |-> 0, took |-> FALSE,
     src |-> src]
Loop(array, took) ==
    [kind |-> "loop", array |-> array, left |-> 0, took |-> took, src |-> 0]
Trap ==
    [kind |-> "trap", array |-> NoArray, left |-> 0, took |-> FALSE,
     src |-> 0]

Depth == Len(stack)
Top == stack[Depth]

\* Where the feed of level i is.
Feed(i) == IF stack[i].kind = "sub" THEN stack[i].src ELSE i

IsFrame(i) == stack[i].kind \in {"frame", "sub"}

TypeOK ==
    /\ held \subseteq Arrays
    /\ stack \in Seq(Level)
    /\ \A i \in 1..Depth :
          stack[i].kind = "sub" =>
             /\ stack[i].src \in 1..(i - 1)
             /\ stack[stack[i].src].kind = "frame"
    /\ failing \in BOOLEAN

Init ==
    /\ held = {}
    /\ stack = <<Trap>>
    /\ failing = FALSE

Running == ~failing /\ Depth < MaxDepth

----------------------------------------------------------------------------
(* Frames.                                                                 *)

\* Faulty: takes the hold whoever has it.
Push_Frame_Greedy(a, n) ==
    /\ Running
    /\ held' = IF n = 0 THEN held ELSE held \union {a}
    /\ stack' = Append(stack, Frame(a, n, n > 0))
    /\ UNCHANGED failing

\* An empty feed is not held, an array that is already held is left alone.
Push_Frame(a, n) ==
    /\ Running
    /\ held' = IF n = 0 THEN held ELSE held \union {a}
    /\ stack' = Append(stack, Frame(a, n, n > 0 /\ a \notin held))
    /\ UNCHANGED failing

\* Faulty: holds the feed's array without looking if there is one.
Push_Valist_Frame_Held(n) ==
    /\ Running
    /\ held' = held \union {NoArray}
    /\ stack' = Append(stack, Frame(NoArray, n, FALSE))
    /\ UNCHANGED failing

\* There is nothing to hold in a va_list.
Push_Valist_Frame(n) ==
    /\ Running
    /\ stack' = Append(stack, Frame(NoArray, n, FALSE))
    /\ UNCHANGED <<held, failing>>

\* Push_Frame on the feed of frame j, which is not at its end.
Push_Subframe(j) ==
    /\ Running
    /\ stack[j].kind = "frame"
    /\ stack[j].left > 0
    /\ IF stack[j].array = NoArray \/ stack[j].array \in held
       THEN /\ stack' = Append(stack, Sub(j))
            /\ UNCHANGED held
       ELSE /\ held' = held \union {stack[j].array}
            /\ stack' = Append([stack EXCEPT ![j].took = TRUE], Sub(j))
    /\ UNCHANGED failing

\* Fetch_Next_In_Feed: at the END of an array the hold is given up.
Fetch_Next ==
    /\ ~failing
    /\ Depth > 0
    /\ IsFrame(Depth)
    /\ LET j == Feed(Depth)
       IN  /\ stack[j].left > 0
           /\ IF stack[j].left = 1 /\ stack[j].took
              THEN /\ stack' = [stack EXCEPT ![j].left = 0, ![j].took = FALSE]
                   /\ held' = held \ {stack[j].array}
              ELSE /\ stack' = [stack EXCEPT ![j].left = @ - 1]
                   /\ UNCHANGED held
    /\ UNCHANGED failing

\* Drop_Frame, at the end of the feed or before it: because the evaluation
\* threw (DO and every single step), because CASE, SWITCH or EVALUATE have
\* what they want, or because a subframe leaves the rest to its frame.
Drop_Frame ==
    /\ ~failing
    /\ Depth > 0
    /\ IsFrame(Depth)
    /\ stack' = SubSeq(stack, 1, Depth - 1)
    /\ UNCHANGED <<held, failing>>

----------------------------------------------------------------------------
(* Abort_Frame, applied to every frame above level k, innermost first.     *)

Aborting(k) == {Feed(i) : i \in {i \in (k + 1)..Depth : IsFrame(i)}}

\* Faulty: the hold stays; the hold goes even if another level took it.
Released_Nothing(k) == {}
Released_All(k) ==
    {stack[j].array : j \in {j \in Aborting(k) : stack[j].left > 0}}

\* The holds that are given up.
Released(k) ==
    {stack[j].array : j \in {j \in Aborting(k) :
                                stack[j].left > 0 /\ stack[j].took}}

\* A va_list is fed to its end; an array's hold is not taken any more.
Aborted(f) ==
    IF f.left = 0 THEN f
    ELSE IF f.array = NoArray THEN [f EXCEPT !.left = 0]
    ELSE [f EXCEPT !.took = FALSE]

Unwind(k) ==
    /\ held' = held \ Released(k)
    /\ stack' = [i \in 1..k |-> IF i \in Aborting(k) THEN Aborted(stack[i])
                                                     ELSE stack[i]]

\* A native that aborts its frame when its code throws (REDUCE, COMPOSE, ANY,
\* ALL, NONE, MOLD of a template, paths...), or wants no more of it.
Abort_Frame ==
    /\ ~failing
    /\ Depth > 0
    /\ Top.kind = "frame"
    /\ Unwind(Depth - 1)
    /\ UNCHANGED failing

\* fail(): abort the frames above the innermost trap, and jump to it.
Fail_Core(k) ==
    /\ ~failing
    /\ stack[k].kind \in {"trap", "loop"}
    /\ \A i \in (k + 1)..Depth : IsFrame(i)
    /\ Unwind(k)
    /\ failing' = TRUE

Push_Trap ==
    /\ Running
    /\ stack' = Append(stack, Trap)
    /\ UNCHANGED <<held, failing>>

\* The trapped code ended, or its error arrived.
Leave_Trap ==
    /\ Depth > 1
    /\ Top.kind = "trap"
    /\ stack' = SubSeq(stack, 1, Depth - 1)
    /\ failing' = FALSE
    /\ UNCHANGED held

\* The outermost trap reports the error and goes on.
Top_Level_Error ==
    /\ Depth = 1
    /\ failing
    /\ failing' = FALSE
    /\ UNCHANGED <<held, stack>>

----------------------------------------------------------------------------
(* Loops: FOR-EACH, MAP-EACH and EVERY (Loop_Each); REMOVE-EACH, which     *)
(* insists on an array that is not held, behaves as Loop_Each does then.   *)

Loop_Each(a) ==
    /\ Running
    /\ held' = held \union {a}
    /\ stack' = Append(stack, Loop(a, a \notin held))
    /\ UNCHANGED failing

\* The cleanup, on every way out: an error is raised again after it.
Loop_Each_Cleanup ==
    /\ Depth > 0
    /\ Top.kind = "loop"
    /\ held' = IF Top.took THEN held \ {Top.array} ELSE held
    /\ stack' = SubSeq(stack, 1, Depth - 1)
    /\ UNCHANGED failing

\* An error raised again goes on to the next trap.
Fail_Again(k) ==
    /\ failing
    /\ Top.kind \notin {"trap", "loop"}
    /\ stack[k].kind \in {"trap", "loop"}
    /\ \A i \in (k + 1)..Depth : IsFrame(i)
    /\ Unwind(k)
    /\ UNCHANGED failing

----------------------------------------------------------------------------
(* The collector turns every va_list on the stack that is not at its end   *)
(* into an array of its own, which the feed then holds.                    *)

Valists == {i \in 1..Depth : /\ stack[i].kind = "frame"
                             /\ stack[i].array = NoArray
                             /\ stack[i].left > 0}
InUse == held \union {stack[i].array : i \in 1..Depth}

Reify_Any_C_Valist_Frames ==
    /\ ~failing
    /\ Valists # {}
    /\ \E new \in [Valists -> Arrays \ InUse] :
          /\ \A i, j \in Valists : i # j => new[i] # new[j]
          /\ stack' = [i \in 1..Depth |->
                IF i \in Valists
                THEN Frame(new[i], stack[i].left, TRUE)
                ELSE stack[i]]
          /\ held' = held \union {new[i] : i \in Valists}
    /\ UNCHANGED failing

----------------------------------------------------------------------------
Next ==
    \/ \E a \in Arrays, n \in 0..MaxItems : Push_Frame(a, n)
    \/ \E n \in 0..MaxItems : Push_Valist_Frame(n)
    \/ \E j \in 1..Depth : Push_Subframe(j)
    \/ Fetch_Next
    \/ Drop_Frame
    \/ Abort_Frame
    \/ \E k \in 1..Depth : Fail_Core(k) \/ Fail_Again(k)
    \/ Push_Trap
    \/ Leave_Trap
    \/ Top_Level_Error
    \/ \E a \in Arrays : Loop_Each(a)
    \/ Loop_Each_Cleanup
    \/ Reify_Any_C_Valist_Frames

Spec == Init /\ [][Next]_vars

----------------------------------------------------------------------------
(* Properties.                                                             *)

\* Exactly the level that set an array's HOLD bit believes it has to clear
\* it, and the bit is still set: the assertions before each CLEAR in
\* Fetch_Next, Abort_Frame and Finalize_Remove_Each never fail, however the
\* same array is nested in frames and loops.
OneTaker ==
    \A i \in 1..Depth :
       stack[i].took =>
          /\ stack[i].array \in held
          /\ \A j \in 1..Depth :
                stack[j].took /\ stack[j].array = stack[i].array => j = i

\* Some level on the stack will release the hold of a.
Taken(a) == \E i \in 1..Depth : stack[i].took /\ stack[i].array = a

\* The levels that still read or enumerate the array a.
Readers(a) ==
    {i \in 1..Depth : /\ stack[i].array = a
                      /\ stack[i].left > 0 \/ stack[i].kind = "loop"}

\* Is the feed of frame j read from above some other level, as only a
\* VARARGS! does?
Lent(j) ==
    \E i \in 1..Depth :
       /\ stack[i].kind = "sub"
       /\ stack[i].src = j
       /\ \E m \in (j + 1)..(i - 1) : stack[m].kind # "sub"

\* The level that took a hold keeps it for everybody: when the bit is
\* cleared neither it nor a level above it, which relied on the bit, reads
\* the array any more.  Only a VARARGS!, which uses up a feed or is aborted
\* above other code, takes the hold away from under that code.
HoldOutlivesReaders ==
    [][\A a \in held \ held', j \in 1..Depth :
          stack[j].took /\ stack[j].array = a =>
             (\A i \in Readers(a)' : i < j) \/ Lent(j)]_vars

\* What sys-rebser.h says of SERIES_INFO_HOLD: it is released when the
\* execution is finished.  A THROW breaks it.
HoldsAreReleased == \A a \in held : Taken(a)

\* A hold is left behind by nothing but Drop_Frame before the end of the feed
\* that took it: no error, loop, abort or collection in the middle of a
\* va_list forgets one, at whatever depth and in whatever nesting.
HoldsLeakOnlyByDrop ==
    [][\A a \in held' :
          Taken(a)' \/ (a \in held /\ ~Taken(a))
            \/ /\ Top.kind = "frame" /\ Top.array = a /\ Top.left > 0
               /\ Top.took
               /\ stack' = SubSeq(stack, 1, Depth - 1)]_vars
============================================================================
