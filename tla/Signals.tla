------------------------------ MODULE Signals ------------------------------
(***************************************************************************)
(* Deferred requests to the evaluator: collect garbage, halt.              *)
(*                                                                         *)
(* A request sets a bit of Eval_Signals and forces Eval_Count to 1, so     *)
(* that the next evaluator step (which only looks at the count) calls      *)
(* Do_Signals_Throws.  Allocation asks for a collection when the ballast   *)
(* is used up; Ctrl-C asks for a halt, from a POSIX signal handler or from *)
(* a second thread on Windows, that is, between any two instructions of    *)
(* the evaluator.  The signal mask says which requests may be acted on:    *)
(* API calls mask the halt for the code they run unless the caller asked   *)
(* for an interruptible run, and Do_Signals_Throws masks everything.       *)
(*                                                                         *)
(* SIG_INTERRUPT is never raised and SIG_EVENT_PORT never processed by     *)
(* this version of the code; both are left out.                            *)
(***************************************************************************)
EXTENDS Integers, Sequences

CONSTANTS
    Dose,        \* Eval_Dose: evaluator steps between two unforced checks
    MaxBallast,  \* TG_Max_Ballast, and the value at which GC_Ballast saturates
    MaxDebt,     \* bound: how far allocation may drive the ballast below 0
    MaxRuns,     \* bound on nested API runs
    SplitRMW,    \* is Eval_Signals |= f a load and a store to the handler?
    Clients      \* which of "poll" (rebWasHalting) and "wait" (WAIT) exist

ASSUME SignalsAssumption ==
    /\ Dose \in Nat \ {0, 1}
    /\ MaxBallast \in Nat \ {0}
    /\ MaxDebt \in Nat
    /\ MaxRuns \in Nat
    /\ SplitRMW \in BOOLEAN
    /\ Clients \subseteq {"poll", "wait"}

SIG == {"RECYCLE", "HALT"}

VARIABLES
    sigs,      \* Eval_Signals
    count,     \* Eval_Count
    mask,      \* Eval_Sigmask
    runs,      \* saved_sigmask of each Run_Va_May_Fail_Core on the C stack
    ballast,   \* GC_Ballast
    refill,    \* TG_Ballast
    gc_off,    \* GC_Disabled
    enabled,   \* halting_enabled: is the Ctrl-C handler installed?
    pc,        \* where the evaluator thread is
    local,     \* its C locals, see Locals
    asked      \* history: a press the program has neither acted on nor told of

vars == <<sigs, count, mask, runs, ballast, refill, gc_off, enabled, pc,
          local, asked>>

eval_vars == <<mask, runs, enabled>>
gc_vars == <<ballast, refill, gc_off>>

PC == {"eval", "dec", "reset", "filter", "recycle", "gc", "halt", "throw",
       "was", "rmw"}

(***************************************************************************)
(* The C locals that live across an instruction boundary: the count that   *)
(* --Eval_Count loaded, filtered_sigs and saved_sigmask of                 *)
(* Do_Signals_Throws, `halting` of rebWasHalting, and the unfinished       *)
(* update of Eval_Signals (what it will do, from which old value, and      *)
(* where the code goes on).                                                *)
(***************************************************************************)
Update == [op : {"set", "clr"}, bit : SIG, old : SUBSET SIG,
           told : BOOLEAN, then : PC]

Locals == [loaded : 0..Dose, filtered : SUBSET SIG, saved : SUBSET SIG,
           halting : BOOLEAN, upd : Update]

TypeOK ==
    /\ sigs \in SUBSET SIG
    /\ count \in 0..Dose
    /\ mask \in SUBSET SIG
    /\ runs \in Seq(SUBSET SIG)
    /\ ballast \in Int
    /\ ballast =< MaxBallast
    /\ refill \in {0, MaxBallast}
    /\ gc_off \in BOOLEAN
    /\ enabled \in BOOLEAN
    /\ pc \in PC
    /\ local \in Locals
    /\ asked \in BOOLEAN

NoUpdate == [op |-> "clr", bit |-> "HALT", old |-> {}, told |-> FALSE,
             then |-> "eval"]

\* Startup_Task, and the console native having disabled halting.
Init ==
    /\ sigs = {}
    /\ count = Dose
    /\ mask = SIG
    /\ runs = <<>>
    /\ ballast = MaxBallast
    /\ refill \in {0, MaxBallast}
    /\ gc_off = FALSE
    /\ enabled = FALSE
    /\ pc = "eval"
    /\ local = [loaded |-> 0, filtered |-> {}, saved |-> {},
                halting |-> FALSE, upd |-> NoUpdate]
    /\ asked = FALSE

----------------------------------------------------------------------------
(* SET_SIGNAL and CLR_SIGNAL.                                              *)

\* Faulty: clearing one request clears them all.
Apply_ClearAll(op, bit, old) == IF op = "set" THEN old \union {bit} ELSE {}

Apply(op, bit, old) == IF op = "set" THEN old \union {bit} ELSE old \ {bit}

CountAfter(op) == IF op = "set" THEN 1 ELSE count

(***************************************************************************)
(* One read-modify-write of Eval_Signals by the evaluator, after which the *)
(* code goes on at `then`.  `told` says that clearing HALT here answers    *)
(* the press.  With SplitRMW the store is a step of its own.               *)
(***************************************************************************)
Change(op, bit, told, then) ==
    IF SplitRMW
    THEN /\ pc' = "rmw"
         /\ local' = [local EXCEPT !.upd =
                [op |-> op, bit |-> bit, old |-> sigs, told |-> told,
                 then |-> then]]
         /\ UNCHANGED <<sigs, count, asked>>
    ELSE /\ sigs' = Apply(op, bit, sigs)
         /\ count' = CountAfter(op)
         /\ asked' = (asked /\ ~told)
         /\ pc' = then
         /\ UNCHANGED local

Store ==
    /\ pc = "rmw"
    /\ sigs' = Apply(local.upd.op, local.upd.bit, local.upd.old)
    /\ count' = CountAfter(local.upd.op)
    /\ asked' = (asked /\ ~local.upd.told)
    /\ pc' = local.upd.then
    /\ UNCHANGED <<local, mask, runs, gc_vars, enabled>>

\* Handle_Signal (POSIX), Handle_Break (Windows): rebHalt().
Handle_Signal ==
    /\ enabled
    /\ sigs' = Apply("set", "HALT", sigs)
    /\ count' = CountAfter("set")
    /\ asked' = TRUE
    /\ UNCHANGED <<eval_vars, gc_vars, pc, local>>

----------------------------------------------------------------------------
(* The evaluator's check, once per expression (Eval) and per PARSE rule.   *)

Eval_Step ==
    /\ pc = "eval"
    /\ IF SplitRMW
       THEN /\ local' = [local EXCEPT !.loaded = count]
            /\ pc' = "dec"
            /\ UNCHANGED count
       ELSE /\ count' = count - 1
            /\ pc' = IF count - 1 = 0 THEN "reset" ELSE "eval"
            /\ UNCHANGED local
    /\ UNCHANGED <<sigs, eval_vars, gc_vars, asked>>

Eval_Store ==
    /\ pc = "dec"
    /\ count' = local.loaded - 1
    /\ pc' = IF local.loaded - 1 = 0 THEN "reset" ELSE "eval"
    /\ UNCHANGED <<sigs, eval_vars, gc_vars, local, asked>>

----------------------------------------------------------------------------
(* Do_Signals_Throws, from top to bottom.                                  *)

\* Faulty: the count is left as it is.
Do_Signals_Reset_NoReset ==
    /\ pc = "reset"
    /\ pc' = "filter"
    /\ UNCHANGED <<count, sigs, eval_vars, gc_vars, local, asked>>

Do_Signals_Reset ==
    /\ pc = "reset"
    /\ count' = Dose
    /\ pc' = "filter"
    /\ UNCHANGED <<sigs, eval_vars, gc_vars, local, asked>>

\* Faulty: acts on masked requests.
Do_Signals_Filter_NoMask ==
    /\ pc = "filter"
    /\ local' = [local EXCEPT !.filtered = sigs, !.saved = mask]
    /\ mask' = {}
    /\ pc' = "recycle"
    /\ UNCHANGED <<sigs, count, runs, enabled, gc_vars, asked>>

Do_Signals_Filter ==
    /\ pc = "filter"
    /\ local' = [local EXCEPT !.filtered = sigs \intersect mask,
                              !.saved = mask]
    /\ mask' = {}
    /\ pc' = "recycle"
    /\ UNCHANGED <<sigs, count, runs, enabled, gc_vars, asked>>

Do_Signals_Recycle ==
    /\ pc = "recycle"
    /\ IF "RECYCLE" \in local.filtered
       THEN Change("clr", "RECYCLE", FALSE, "gc")
       ELSE /\ pc' = "halt"
            /\ UNCHANGED <<sigs, count, asked, local>>
    /\ UNCHANGED <<eval_vars, gc_vars>>

\* Faulty: the ballast is not refilled.
Recycle_Core_NoRefill(off, fill, then) ==
    /\ IF off
       THEN Change("set", "RECYCLE", FALSE, then)
       ELSE /\ pc' = then
            /\ UNCHANGED <<sigs, count, asked, local>>
    /\ UNCHANGED ballast

(***************************************************************************)
(* With collection off the request is renewed.  Otherwise the ballast is   *)
(* refilled; on the way, reifying variadic frames allocates (which may     *)
(* request again) and sweeping frees (which may cancel a request).         *)
(***************************************************************************)
Recycle_Core(off, fill, then) ==
    IF off
    THEN /\ Change("set", "RECYCLE", FALSE, then)
         /\ UNCHANGED ballast
    ELSE /\ ballast' = fill
         /\ \/ /\ pc' = then
               /\ UNCHANGED <<sigs, count, asked, local>>
            \/ \E op \in {"set", "clr"} :
                  Change(op, "RECYCLE", FALSE, then)

\* Faulty: returns after collecting, without a look at the halt.
Do_Signals_Collect_Returns ==
    /\ pc = "gc"
    /\ mask' = local.saved
    /\ Recycle_Core(gc_off, refill, "eval")
    /\ UNCHANGED <<runs, enabled, refill, gc_off>>

Do_Signals_Collect ==
    /\ pc = "gc"
    /\ Recycle_Core(gc_off, refill, "halt")
    /\ UNCHANGED <<eval_vars, refill, gc_off>>

Do_Signals_Halt ==
    /\ pc = "halt"
    /\ mask' = local.saved
    /\ IF "HALT" \in local.filtered
       THEN Change("clr", "HALT", TRUE, "throw")
       ELSE /\ pc' = "eval"
            /\ UNCHANGED <<sigs, count, asked, local>>
    /\ UNCHANGED <<runs, enabled, gc_vars>>

----------------------------------------------------------------------------
(* API runs, and leaving them by a throw or a fail().                      *)

Enter_Run(interruptible) ==
    /\ pc = "eval"
    /\ Len(runs) < MaxRuns
    /\ runs' = Append(runs, mask)
    /\ mask' = IF interruptible THEN mask \union {"HALT"}
                                ELSE mask \ {"HALT"}
    /\ UNCHANGED <<sigs, count, gc_vars, enabled, pc, local, asked>>

\* Return normally, or let a throw or error go out to any enclosing trap:
\* either way the mask is what it was when the outermost run left began.
Leave_Runs ==
    /\ pc \in {"eval", "throw"}
    /\ \E d \in 1..Len(runs) :
          /\ runs' = SubSeq(runs, 1, d - 1)
          /\ mask' = runs[d]
    /\ pc' = "eval"
    /\ UNCHANGED <<sigs, count, gc_vars, enabled, local, asked>>

\* The throw is caught by a CATCH inside the current run.
Catch_Throw ==
    /\ pc = "throw"
    /\ pc' = "eval"
    /\ UNCHANGED <<sigs, count, gc_vars, eval_vars, local, asked>>

\* The console native, around the code it runs for the user.
Enable_Halting ==
    /\ pc = "eval"
    /\ ~enabled
    /\ enabled' = TRUE
    /\ UNCHANGED <<sigs, count, mask, runs, gc_vars, pc, local, asked>>

Disable_Halting ==
    /\ pc = "eval"
    /\ enabled
    /\ enabled' = FALSE
    /\ UNCHANGED <<sigs, count, mask, runs, gc_vars, pc, local, asked>>

----------------------------------------------------------------------------
(* Other readers of SIG_HALT: rebWasHalting (the Windows line editor) and  *)
(* the loop of Wait_Ports_Throws.                                          *)

RL_rebWasHalting_Get ==
    /\ "poll" \in Clients
    /\ pc = "eval"
    /\ local' = [local EXCEPT !.halting = ("HALT" \in sigs)]
    /\ pc' = "was"
    /\ UNCHANGED <<sigs, count, eval_vars, gc_vars, asked>>

RL_rebWasHalting_Clr ==
    /\ pc = "was"
    /\ Change("clr", "HALT", local.halting, "eval")
    /\ UNCHANGED <<eval_vars, gc_vars>>

Wait_Ports_Throws ==
    /\ "wait" \in Clients
    /\ pc = "eval"
    /\ "HALT" \in sigs
    /\ Change("clr", "HALT", TRUE, "throw")
    /\ UNCHANGED <<eval_vars, gc_vars>>

----------------------------------------------------------------------------
(* Memory, as far as the ballast goes.                                     *)

\* Faulty: the request is only made when the debt is exactly met.
Did_Series_Data_Alloc_Exact(size) ==
    /\ pc = "eval"
    /\ ballast - size >= -MaxDebt
    /\ ballast' = ballast - size
    /\ IF ballast - size = 0
       THEN Change("set", "RECYCLE", FALSE, "eval")
       ELSE UNCHANGED <<sigs, count, asked, local, pc>>
    /\ UNCHANGED <<eval_vars, refill, gc_off>>

\* Also Alloc_Series_Node, whose size is that of a node.
Did_Series_Data_Alloc(size) ==
    /\ pc = "eval"
    /\ ballast - size >= -MaxDebt
    /\ ballast' = ballast - size
    /\ IF ballast - size =< 0
       THEN Change("set", "RECYCLE", FALSE, "eval")
       ELSE UNCHANGED <<sigs, count, asked, local, pc>>
    /\ UNCHANGED <<eval_vars, refill, gc_off>>

Lesser(a, b) == IF a < b THEN a ELSE b

\* Free_Unmanaged_Series: Decay_Series credits the data (saturating), then
\* GC_Kill_Series cancels the request if the ballast is positive again.
GC_Kill_Series(total) ==
    /\ pc = "eval"
    /\ ballast' = Lesser(ballast + total, MaxBallast)
    /\ IF ballast' > 0
       THEN Change("clr", "RECYCLE", FALSE, "eval")
       ELSE UNCHANGED <<sigs, count, asked, local, pc>>
    /\ UNCHANGED <<eval_vars, refill, gc_off>>

Recycle_Off ==
    /\ pc = "eval"
    /\ gc_off' = TRUE
    /\ UNCHANGED <<sigs, count, eval_vars, ballast, refill, pc, local, asked>>

(***************************************************************************)
(* The RECYCLE native without /OFF: what its refinements leave GC_Disabled *)
(* and TG_Ballast at, then a collection unless that is still disabled.     *)
(* /ON and /TORTURE enable it; /ON and /BALLAST set the refill to an       *)
(* amount, /TORTURE and /BALLAST 0 to nothing.                             *)
(***************************************************************************)
Recycle_Native ==
    /\ pc = "eval"
    /\ \E off \in {gc_off, FALSE}, fill \in {0, MaxBallast} :
          /\ gc_off' = off
          /\ refill' = fill
          /\ IF off
             THEN UNCHANGED <<sigs, count, asked, local, pc, ballast>>
             ELSE Recycle_Core(FALSE, fill, "eval")
    /\ UNCHANGED eval_vars

----------------------------------------------------------------------------
DoSignals ==
    \/ Do_Signals_Reset
    \/ Do_Signals_Filter
    \/ Do_Signals_Recycle
    \/ Do_Signals_Collect
    \/ Do_Signals_Halt

\* What the evaluator thread must do before it can go on evaluating.
Pending ==
    \/ Store
    \/ Eval_Store
    \/ DoSignals
    \/ RL_rebWasHalting_Clr
    \/ Catch_Throw

Next ==
    \/ Handle_Signal
    \/ Eval_Step
    \/ Pending
    \/ \E interruptible \in BOOLEAN : Enter_Run(interruptible)
    \/ Leave_Runs
    \/ Enable_Halting
    \/ Disable_Halting
    \/ RL_rebWasHalting_Get
    \/ Wait_Ports_Throws
    \/ \E size \in {1, 2} :
          Did_Series_Data_Alloc(size) \/ GC_Kill_Series(size)
    \/ Recycle_Off
    \/ Recycle_Native

Spec == Init /\ [][Next]_vars

(***************************************************************************)
(* Fairness: the thread finishes what it is in the middle of, and a        *)
(* program that goes on running goes on evaluating expressions (allocation *)
(* and API calls are made from within expressions, so there cannot be      *)
(* infinitely many of them with finitely many evaluator steps).  Nothing   *)
(* is assumed of the user, of the code that is run, or of RECYCLE.         *)
(***************************************************************************)
FairSpec == Spec /\ WF_vars(Pending) /\ SF_vars(Eval_Step)

----------------------------------------------------------------------------
(* Properties.                                                             *)

\* May the code being run be halted?  (While Do_Signals_Throws runs, the
\* mask of that code is in saved_sigmask.)
Interruptible ==
    "HALT" \in (IF pc \in {"recycle", "gc", "halt"}
                   \/ (pc = "rmw" /\ local.upd.then \in {"gc", "halt"})
                THEN local.saved ELSE mask)

\* A press of Ctrl-C stays recorded in Eval_Signals until the program either
\* throws the halt or has been told of it.  True of a build whose updates of
\* Eval_Signals are one instruction, as long as nobody calls rebWasHalting.
HaltRemembered == asked => "HALT" \in sigs

\* Whenever ordinary code runs with the ballast overdrawn, the request for a
\* collection is pending: neither Do_Signals_Throws, nor the cancellation in
\* GC_Kill_Series, nor RECYCLE/OFF loses it.
DebtIsRequested == pc = "eval" /\ ballast < 0 => "RECYCLE" \in sigs

\* The comment on Run_Va_May_Fail_Core's parameter, taken as a promise: a halt
\* is only thrown in code that was started interruptibly.  WAIT, which throws
\* a halt without looking at Eval_Sigmask, breaks it.
HaltOnlyWhenInterruptible ==
    pc = "throw" \/ (pc = "rmw" /\ local.upd.then = "throw")
        => "HALT" \in mask

\* What is left of that promise: the halt that Do_Signals_Throws throws was
\* allowed by the mask of the code it is thrown in, whatever was pressed,
\* collected or requested since it filtered the requests.
DoSignalsObeysMask ==
    [][pc = "halt" /\ pc' \in {"throw", "rmw"} => "HALT" \in mask']_vars

\* Is rebWasHalting, which found no halt, about to clear it?
ClearingUnseen ==
    /\ pc = "was" \/ (pc = "rmw" /\ local.upd.bit = "HALT"
                                 /\ local.upd.then = "eval")
    /\ ~local.halting

\* An unanswered press only disappears from Eval_Signals in one of two
\* races: a press between the load and the store of the same update, and a
\* press between the look and the clearing of rebWasHalting.
HaltDroppedOnlyByRace ==
    [][asked' /\ "HALT" \in sigs /\ "HALT" \notin sigs'
         => \/ pc = "rmw" /\ "HALT" \notin local.upd.old
            \/ ClearingUnseen]_vars

\* A press is answered (unless it is dropped, as above), provided that from
\* some time on all the code that runs is interruptible: even if a store of
\* --Eval_Count undoes the request for an early check, or the press comes
\* while Do_Signals_Throws is at work.
HaltAnswered ==
    <>[]Interruptible => (asked ~> ~asked \/ "HALT" \notin sigs)

\* An overdrawn ballast is made good, provided that collection does not stay
\* turned off: the request survives RECYCLE/OFF, masks and fails.
CollectionHappens == <>[]~gc_off => (ballast < 0 ~> ballast >= 0)
============================================================================
