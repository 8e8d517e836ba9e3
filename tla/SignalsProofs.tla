--------------------------- MODULE SignalsProofs ---------------------------
(***************************************************************************)
(* Proofs about Signals, for every dose, ballast and bound.  The invariant *)
(* says where a request is while the evaluator thread is between the two   *)
(* halves of an update of Eval_Signals, or between clearing SIG_RECYCLE    *)
(* and collecting.                                                         *)
(***************************************************************************)
EXTENDS Signals, TLAPS

\* The pending requests, as they will be once an unfinished update is done.
Settled ==
    IF pc = "rmw" THEN Apply(local.upd.op, local.upd.bit, local.upd.old)
                  ELSE sigs

\* Is the thread on its way to Recycle_Core, having cleared SIG_RECYCLE?
Collecting == pc = "gc" \/ (pc = "rmw" /\ local.upd.then = "gc")

DebtInv == ballast < 0 => Collecting \/ "RECYCLE" \in Settled

\* Only the evaluator's count can be 0, and only until it is reset.
CountInv ==
    /\ count = 0 => pc = "reset"
    /\ pc = "dec" => local.loaded > 0

\* Do_Signals_Throws acts on nothing that was masked.
MaskInv == local.filtered \subseteq local.saved

\* An unfinished update is one of the evaluator's, in a build that splits it;
\* one that clears a halt nobody has been told of is rebWasHalting's.
UpdInv ==
    pc = "rmw" => /\ SplitRMW
                  /\ local.upd.then \in {"gc", "halt", "throw", "eval"}
                  /\ local.upd.bit = "HALT" /\ ~local.upd.told =>
                        local.upd.then = "eval" /\ ~local.halting

IInv == TypeOK /\ DebtInv /\ CountInv /\ MaskInv /\ UpdInv

\* The initial state: nothing requested, nothing masked.
LEMMA InitIInv == Init => IInv
<1> SUFFICES ASSUME Init PROVE IInv
  OBVIOUS
<1>1. NoUpdate \in Update
  BY DEF NoUpdate, Update, SIG, PC
<1>a. 0 \in 0..Dose /\ {} \in SUBSET SIG
  BY SignalsAssumption
<1>b. local = [loaded |-> 0, filtered |-> {}, saved |-> {},
               halting |-> FALSE, upd |-> NoUpdate]
  BY DEF Init
<1>2. local \in Locals /\ local.filtered = {} /\ local.saved = {}
  <2> HIDE DEF NoUpdate
  <2> QED  BY <1>1, <1>a, <1>b DEF Locals
<1>c. /\ sigs = {} /\ count = Dose /\ mask = SIG /\ runs = <<>>
      /\ ballast = MaxBallast /\ refill \in {0, MaxBallast}
      /\ gc_off = FALSE /\ enabled = FALSE /\ pc = "eval" /\ asked = FALSE
  BY DEF Init
<1>d. runs \in Seq(SUBSET SIG) /\ sigs \in SUBSET SIG /\ mask \in SUBSET SIG
  BY <1>c
<1>e. gc_off \in BOOLEAN /\ enabled \in BOOLEAN /\ asked \in BOOLEAN
      /\ refill \in {0, MaxBallast}
  BY <1>c
<1>f. count \in 0..Dose /\ ballast \in Int /\ ballast =< MaxBallast
  BY <1>c, SignalsAssumption
<1>g. pc \in PC
  BY <1>c DEF PC
<1>3. TypeOK
  BY <1>2, <1>d, <1>e, <1>f, <1>g DEF TypeOK
<1> QED
  BY <1>2, <1>3, <1>c, SignalsAssumption
     DEF IInv, DebtInv, CountInv, MaskInv, UpdInv

\* What an update of Eval_Signals by the evaluator does to the requests, in
\* either build: the new value is either stored or on its way.
LEMMA ChangeEffect ==
    ASSUME TypeOK, CountInv, pc \in PC \ {"rmw", "reset", "dec"},
           NEW op \in {"set", "clr"}, NEW bit \in SIG, NEW told \in BOOLEAN,
           NEW then \in PC \ {"rmw", "reset", "dec"},
           Change(op, bit, told, then)
    PROVE  /\ sigs' \in SUBSET SIG
           /\ count' \in 1..Dose
           /\ pc' \in PC \ {"reset", "dec"}
           /\ pc' \in {"rmw", then}
           /\ pc' = "rmw" => /\ SplitRMW /\ local'.upd.then = then
                             /\ local'.upd.bit = bit
                             /\ local'.upd.told = told
           /\ local' \in Locals
           /\ local'.filtered = local.filtered
           /\ local'.saved = local.saved
           /\ local'.halting = local.halting
           /\ asked' \in BOOLEAN
           /\ Settled' = Apply(op, bit, sigs)
           /\ ~SplitRMW => sigs' = Apply(op, bit, sigs)
                           /\ asked' = (asked /\ ~told)
                           /\ pc' = then
<1>1. CASE SplitRMW
  <2>1. local.upd \in Update /\ local \in Locals /\ sigs \in SUBSET SIG
    BY DEF TypeOK, Locals
  <2> DEFINE u == [op |-> op, bit |-> bit, old |-> sigs, told |-> told,
                   then |-> then]
  <2>2. u \in Update
    BY <2>1 DEF Update
  <2>3. /\ pc' = "rmw" /\ local' = [local EXCEPT !.upd = u]
        /\ sigs' = sigs /\ count' = count /\ asked' = asked
    BY <1>1 DEF Change
  <2> HIDE DEF u
  <2>4. local' \in Locals /\ local'.filtered = local.filtered
        /\ local'.saved = local.saved /\ local'.upd = u
        /\ local'.halting = local.halting
    BY <2>1, <2>2, <2>3 DEF Locals
  <2>5. u.op = op /\ u.bit = bit /\ u.old = sigs /\ u.then = then
        /\ u.told = told
    BY DEF u
  <2>6. count \in 1..Dose
    BY SignalsAssumption DEF TypeOK, CountInv
  <2>7. Settled' = Apply(op, bit, sigs)
    BY <2>3, <2>4, <2>5 DEF Settled, Apply
  <2> QED
    BY <1>1, <2>1, <2>3, <2>4, <2>5, <2>6, <2>7 DEF PC, TypeOK
<1>2. CASE ~SplitRMW
  <2>1. /\ sigs' = Apply(op, bit, sigs) /\ pc' = then /\ local' = local
        /\ count' = CountAfter(op) /\ asked' = (asked /\ ~told)
    BY <1>2 DEF Change
  <2>2. Apply(op, bit, sigs) \in SUBSET SIG
    BY DEF Apply, TypeOK
  <2>3. count' \in 1..Dose
    BY <2>1, SignalsAssumption DEF TypeOK, CountInv, CountAfter
  <2>4. asked' \in BOOLEAN
    BY <2>1
  <2>5. Settled' = Apply(op, bit, sigs)
    BY <2>1 DEF Settled
  <2> QED
    BY <1>2, <2>1, <2>2, <2>3, <2>4, <2>5 DEF PC, TypeOK
<1> QED
  BY <1>1, <1>2

\* The same of the store that finishes an update.
LEMMA StoreStep == IInv /\ Store => IInv'
<1> SUFFICES ASSUME IInv, Store PROVE IInv'
  OBVIOUS
<1>1. local.upd \in Update /\ local \in Locals
  BY DEF IInv, TypeOK, Locals
<1>2. /\ sigs' = Settled /\ count' = CountAfter(local.upd.op)
      /\ asked' = (asked /\ ~local.upd.told) /\ pc' = local.upd.then
      /\ UNCHANGED <<local, mask, runs, ballast, refill, gc_off, enabled>>
      /\ pc = "rmw"
  BY DEF Store, Settled, gc_vars
<1>3. SplitRMW /\ pc' \in {"gc", "halt", "throw", "eval"}
  BY <1>2 DEF IInv, UpdInv
<1>4. sigs' \in SUBSET SIG
  BY <1>1, <1>2 DEF Settled, Apply, Update
<1>5. count' \in 1..Dose
  BY <1>2, SignalsAssumption DEF IInv, TypeOK, CountInv, CountAfter
<1>6. asked' \in BOOLEAN
  BY <1>2
<1>7. TypeOK'
  BY <1>2, <1>3, <1>4, <1>5, <1>6 DEF IInv, TypeOK, PC
<1>8. DebtInv'
  BY <1>2, <1>3 DEF IInv, DebtInv, Collecting, Settled
<1>9. MaskInv'
  BY <1>2, <1>3 DEF IInv, MaskInv
<1> QED
  BY <1>2, <1>3, <1>5, <1>7, <1>8, <1>9 DEF IInv, CountInv, UpdInv

\* An update by an action that leaves the mask and the rest alone keeps the
\* invariant if it does not drop a request that is due.
LEMMA ChangeStep ==
    ASSUME IInv, pc \in PC \ {"rmw", "reset", "dec"},
           NEW op \in {"set", "clr"}, NEW bit \in SIG, NEW told \in BOOLEAN,
           NEW then \in {"gc", "halt", "throw", "eval"},
           Change(op, bit, told, then),
           UNCHANGED <<runs, enabled>>,
           mask' \in SUBSET SIG, ballast' \in Int, ballast' =< MaxBallast,
           refill' \in {0, MaxBallast}, gc_off' \in BOOLEAN,
           ballast' < 0 => then = "gc" \/ "RECYCLE" \in Apply(op, bit, sigs),
           bit = "HALT" /\ ~told => then = "eval" /\ ~local.halting
    PROVE  IInv'
<1>1. TypeOK /\ CountInv
  BY DEF IInv
<1>2. then \in PC \ {"rmw", "reset", "dec"}
  BY DEF PC
<1>3. /\ sigs' \in SUBSET SIG
      /\ count' \in 1..Dose
      /\ pc' \in PC \ {"reset", "dec"}
      /\ pc' \in {"rmw", then}
      /\ pc' = "rmw" => /\ SplitRMW /\ local'.upd.then = then
                        /\ local'.upd.bit = bit /\ local'.upd.told = told
      /\ local' \in Locals
      /\ local'.filtered = local.filtered
      /\ local'.saved = local.saved
      /\ local'.halting = local.halting
      /\ asked' \in BOOLEAN
      /\ Settled' = Apply(op, bit, sigs)
      /\ ~SplitRMW => sigs' = Apply(op, bit, sigs)
                      /\ asked' = (asked /\ ~told)
                      /\ pc' = then
  BY <1>1, <1>2, ChangeEffect
<1>4. TypeOK'
  BY <1>1, <1>3, SignalsAssumption DEF TypeOK
<1>5. DebtInv'
  BY <1>3 DEF DebtInv, Collecting
<1>6. CountInv'
  BY <1>3 DEF CountInv
<1>7. MaskInv'
  BY <1>3 DEF IInv, MaskInv
<1>8. UpdInv'
  BY <1>3 DEF UpdInv
<1> QED
  BY <1>4, <1>5, <1>6, <1>7, <1>8 DEF IInv

\* A step that leaves Eval_Signals alone.
LEMMA QuietStep ==
    ASSUME IInv, TypeOK', UNCHANGED <<sigs, asked>>, CountInv', UpdInv',
           pc # "rmw", pc' # "rmw",
           Collecting => ballast' >= 0 \/ Collecting',
           ballast' < 0 => ballast < 0,
           local'.filtered \subseteq local'.saved
    PROVE  IInv'
<1>1. Settled = sigs /\ Settled' = sigs
  BY DEF Settled
<1>2. DebtInv'
  BY <1>1 DEF IInv, DebtInv, TypeOK
<1>3. MaskInv'
  BY DEF MaskInv
<1> QED
  BY <1>2, <1>3 DEF IInv

\* The handler: it only adds a press.
LEMMA HandlerStep == IInv /\ Handle_Signal => IInv'
<1> SUFFICES ASSUME IInv, Handle_Signal PROVE IInv'
  OBVIOUS
<1>1. /\ sigs' = sigs \union {"HALT"} /\ count' = 1 /\ asked' = TRUE
      /\ UNCHANGED <<mask, runs, enabled, ballast, refill, gc_off, pc, local>>
  BY DEF Handle_Signal, Apply, CountAfter, eval_vars, gc_vars
<1>2. TypeOK'
  BY <1>1, SignalsAssumption DEF IInv, TypeOK, SIG
<1>3. DebtInv'
  BY <1>1 DEF IInv, DebtInv, Collecting, Settled
<1>4. CountInv'
  BY <1>1 DEF IInv, CountInv
<1>5. MaskInv' /\ UpdInv'
  BY <1>1 DEF IInv, MaskInv, UpdInv
<1> QED
  BY <1>2, <1>3, <1>4, <1>5 DEF IInv

\* The count goes down to 0 and no further.
LEMMA EvalStep == IInv /\ (Eval_Step \/ Eval_Store) => IInv'
<1> SUFFICES ASSUME IInv, Eval_Step \/ Eval_Store PROVE IInv'
  OBVIOUS
<1>1. count \in 0..Dose /\ local \in Locals /\ local.loaded \in 0..Dose
  BY DEF IInv, TypeOK, Locals
<1>2. CASE Eval_Step /\ SplitRMW
  <2>1. /\ pc = "eval" /\ pc' = "dec"
        /\ local' = [local EXCEPT !.loaded = count]
        /\ UNCHANGED <<sigs, count, mask, runs, enabled, ballast, refill,
                       gc_off, asked>>
    BY <1>2 DEF Eval_Step, eval_vars, gc_vars
  <2>2. local' \in Locals /\ local'.filtered = local.filtered
        /\ local'.saved = local.saved /\ local'.loaded = count
    BY <1>1, <2>1 DEF Locals
  <2>3. TypeOK'
    BY <2>1, <2>2 DEF IInv, TypeOK, PC
  <2>4. CountInv' /\ UpdInv'
    BY <1>1, <2>1, <2>2 DEF IInv, CountInv, UpdInv
  <2> QED
    BY <2>1, <2>2, <2>3, <2>4, QuietStep DEF IInv, MaskInv, Collecting
<1>3. CASE Eval_Step /\ ~SplitRMW
  <2>1. /\ pc = "eval" /\ count' = count - 1 /\ local' = local
        /\ pc' = IF count - 1 = 0 THEN "reset" ELSE "eval"
        /\ UNCHANGED <<sigs, mask, runs, enabled, ballast, refill,
                       gc_off, asked>>
    BY <1>3 DEF Eval_Step, eval_vars, gc_vars
  <2>2. count > 0
    BY <1>1, <2>1 DEF IInv, CountInv
  <2>3. TypeOK'
    BY <1>1, <2>1, <2>2, SignalsAssumption DEF IInv, TypeOK, PC
  <2>4. CountInv' /\ UpdInv'
    BY <1>1, <2>1, <2>2 DEF CountInv, UpdInv
  <2> QED
    BY <2>1, <2>3, <2>4, QuietStep DEF IInv, MaskInv, Collecting
<1>4. CASE Eval_Store
  <2>1. /\ pc = "dec" /\ count' = local.loaded - 1 /\ local' = local
        /\ pc' = IF local.loaded - 1 = 0 THEN "reset" ELSE "eval"
        /\ UNCHANGED <<sigs, mask, runs, enabled, ballast, refill,
                       gc_off, asked>>
    BY <1>4 DEF Eval_Store, eval_vars, gc_vars
  <2>2. local.loaded > 0
    BY <1>1, <2>1 DEF IInv, CountInv
  <2>3. TypeOK'
    BY <1>1, <2>1, <2>2, SignalsAssumption DEF IInv, TypeOK, PC
  <2>4. CountInv' /\ UpdInv'
    BY <1>1, <2>1, <2>2 DEF CountInv, UpdInv
  <2> QED
    BY <2>1, <2>3, <2>4, QuietStep DEF IInv, MaskInv, Collecting
<1> QED
  BY <1>2, <1>3, <1>4

\* Recycle_Core, called from Do_Signals_Throws or from the native.
LEMMA RecycleStep ==
    ASSUME IInv, pc \in {"gc", "eval"},
           NEW off \in BOOLEAN, NEW fill \in {0, MaxBallast},
           NEW then \in {"halt", "eval"},
           Recycle_Core(off, fill, then), UNCHANGED eval_vars,
           refill' \in {0, MaxBallast}, gc_off' \in BOOLEAN
    PROVE  IInv'
<1>1. TypeOK /\ CountInv /\ fill \in Int /\ fill >= 0 /\ fill =< MaxBallast
  BY SignalsAssumption DEF IInv
<1>2. pc \in PC \ {"rmw", "reset", "dec"} /\ "RECYCLE" \in SIG
      /\ then \in {"gc", "halt", "throw", "eval"} /\ then \in PC
  BY DEF PC, SIG
<1>3. UNCHANGED <<mask, runs, enabled>> /\ mask' \in SUBSET SIG
  BY <1>1 DEF eval_vars, TypeOK
<1>5. ASSUME NEW op \in {"set", "clr"}, Change(op, "RECYCLE", FALSE, then),
             ballast' \in Int, ballast' =< MaxBallast,
             ballast' < 0 => op = "set"
      PROVE  IInv'
  <2>1. ballast' < 0 => "RECYCLE" \in Apply(op, "RECYCLE", sigs)
    BY <1>5 DEF Apply
  <2> QED
    BY <1>2, <1>3, <1>5, <2>1, ChangeStep
<1>6. CASE off
  BY <1>1, <1>5, <1>6 DEF Recycle_Core, TypeOK
<1>7. CASE ~off
  <2>1. ballast' = fill
    BY <1>7 DEF Recycle_Core
  <2>2. CASE \E op \in {"set", "clr"} : Change(op, "RECYCLE", FALSE, then)
    <3>1. PICK op \in {"set", "clr"} : Change(op, "RECYCLE", FALSE, then)
      BY <2>2
    <3>2. ballast' \in Int /\ ballast' =< MaxBallast /\ ~(ballast' < 0)
      BY <1>1, <2>1
    <3> QED
      BY <1>5, <3>1, <3>2
  <2>3. CASE pc' = then /\ UNCHANGED <<sigs, count, asked, local>>
    <3>1. TypeOK'
      BY <1>1, <1>2, <1>3, <2>1, <2>3 DEF TypeOK
    <3>2. CountInv' /\ UpdInv'
      BY <1>1, <2>3 DEF CountInv, UpdInv
    <3>3. local'.filtered \subseteq local'.saved
      BY <2>3 DEF IInv, MaskInv
    <3> QED
      BY <1>1, <2>1, <2>3, <3>1, <3>2, <3>3, QuietStep
  <2> QED
    BY <1>7, <2>2, <2>3 DEF Recycle_Core
<1> QED
  BY <1>6, <1>7

\* The phases of Do_Signals_Throws.
LEMMA DoSignalsStep == IInv /\ DoSignals => IInv'
<1> SUFFICES ASSUME IInv, DoSignals PROVE IInv'
  OBVIOUS
<1>1. TypeOK /\ CountInv /\ local \in Locals
      /\ local.filtered \subseteq local.saved
      /\ local.saved \in SUBSET SIG
  BY DEF IInv, TypeOK, Locals, MaskInv
<1>2. "RECYCLE" \in SIG /\ "HALT" \in SIG
  BY DEF SIG
<1>3. CASE Do_Signals_Reset
  <2>1. /\ pc = "reset" /\ pc' = "filter" /\ count' = Dose
        /\ UNCHANGED <<sigs, mask, runs, enabled, ballast, refill, gc_off,
                       local, asked>>
    BY <1>3 DEF Do_Signals_Reset, eval_vars, gc_vars
  <2>2. TypeOK'
    BY <1>1, <2>1, SignalsAssumption DEF TypeOK, PC
  <2>3. CountInv' /\ UpdInv'
    BY <2>1, SignalsAssumption DEF CountInv, UpdInv
  <2> QED
    BY <1>1, <2>1, <2>2, <2>3, QuietStep DEF Collecting
<1>4. CASE Do_Signals_Filter
  <2>1. /\ pc = "filter" /\ pc' = "recycle" /\ mask' = {}
        /\ local' = [local EXCEPT !.filtered = sigs \intersect mask,
                                  !.saved = mask]
        /\ UNCHANGED <<sigs, count, runs, enabled, ballast, refill, gc_off,
                       asked>>
    BY <1>4 DEF Do_Signals_Filter, gc_vars
  <2>2. sigs \intersect mask \in SUBSET SIG /\ mask \in SUBSET SIG
    BY <1>1 DEF TypeOK
  <2>3. local' \in Locals /\ local'.filtered = sigs \intersect mask
        /\ local'.saved = mask
    BY <1>1, <2>1, <2>2 DEF Locals
  <2>4. TypeOK'
    BY <1>1, <2>1, <2>3 DEF TypeOK, PC
  <2>5. CountInv' /\ UpdInv'
    BY <1>1, <2>1 DEF CountInv, UpdInv
  <2> QED
    BY <2>1, <2>3, <2>4, <2>5, QuietStep DEF Collecting
<1>5. CASE Do_Signals_Recycle
  <2>1. /\ pc = "recycle"
        /\ UNCHANGED <<mask, runs, enabled, ballast, refill, gc_off>>
    BY <1>5 DEF Do_Signals_Recycle, eval_vars, gc_vars
  <2>2. CASE Change("clr", "RECYCLE", FALSE, "gc")
    <3>2. pc \in PC \ {"rmw", "reset", "dec"}
      BY <2>1 DEF PC
    <3>4. /\ mask' \in SUBSET SIG /\ ballast' \in Int
          /\ ballast' =< MaxBallast
          /\ refill' \in {0, MaxBallast} /\ gc_off' \in BOOLEAN
      BY <1>1, <2>1 DEF TypeOK
    <3> QED
      BY <1>2, <2>1, <2>2, <3>2, <3>4, ChangeStep
  <2>3. CASE pc' = "halt" /\ UNCHANGED <<sigs, count, asked, local>>
    <3>1. TypeOK' /\ CountInv' /\ UpdInv'
      BY <1>1, <2>1, <2>3 DEF TypeOK, CountInv, UpdInv, PC
    <3> QED
      BY <1>1, <2>1, <2>3, <3>1, QuietStep DEF Collecting
  <2> QED
    BY <1>5, <2>2, <2>3 DEF Do_Signals_Recycle
<1>6. CASE Do_Signals_Collect
  <2>1. /\ pc = "gc" /\ Recycle_Core(gc_off, refill, "halt")
        /\ UNCHANGED eval_vars /\ UNCHANGED <<refill, gc_off>>
    BY <1>6 DEF Do_Signals_Collect
  <2> QED
    BY <1>1, <2>1, RecycleStep DEF TypeOK
<1>7. CASE Do_Signals_Halt
  <2>1. /\ pc = "halt" /\ mask' = local.saved
        /\ UNCHANGED <<runs, enabled, ballast, refill, gc_off>>
    BY <1>7 DEF Do_Signals_Halt, gc_vars
  <2>2. CASE "HALT" \in local.filtered /\ Change("clr", "HALT", TRUE, "throw")
    <3>1. mask' \in SUBSET SIG
      BY <1>1, <2>1, <2>2
    <3>2. ballast < 0 => "RECYCLE" \in Apply("clr", "HALT", sigs)
      BY <2>1 DEF IInv, DebtInv, Collecting, Settled, Apply
    <3>3. pc \in PC \ {"rmw", "reset", "dec"}
      BY <2>1 DEF PC
    <3>4. /\ ballast' \in Int /\ ballast' =< MaxBallast
          /\ refill' \in {0, MaxBallast} /\ gc_off' \in BOOLEAN
      BY <1>1, <2>1 DEF TypeOK
    <3> QED
      BY <1>2, <2>1, <2>2, <3>1, <3>2, <3>3, <3>4, ChangeStep
  <2>3. CASE pc' = "eval" /\ UNCHANGED <<sigs, count, asked, local>>
    <3>1. TypeOK' /\ CountInv' /\ UpdInv'
      BY <1>1, <2>1, <2>3 DEF TypeOK, CountInv, UpdInv, PC
    <3> QED
      BY <1>1, <2>1, <2>3, <3>1, QuietStep DEF Collecting
  <2> QED
    BY <1>7, <2>2, <2>3 DEF Do_Signals_Halt
<1> QED
  BY <1>3, <1>4, <1>5, <1>6, <1>7 DEF DoSignals

\* API runs, the console's switch, and the throw's end.
LEMMA RunStep ==
    ASSUME IInv,
           \/ \E interruptible \in BOOLEAN : Enter_Run(interruptible)
           \/ Leave_Runs \/ Catch_Throw \/ Enable_Halting \/ Disable_Halting
    PROVE  IInv'
<1>1. /\ pc \in {"eval", "throw"} /\ pc' = "eval"
      /\ UNCHANGED <<sigs, count, ballast, refill, gc_off, local, asked>>
  BY DEF Enter_Run, Leave_Runs, Catch_Throw, Enable_Halting,
         Disable_Halting, eval_vars, gc_vars
<1>2. TypeOK /\ CountInv
  BY DEF IInv
<1>3. runs' \in Seq(SUBSET SIG) /\ mask' \in SUBSET SIG
  <2>1. CASE \E interruptible \in BOOLEAN : Enter_Run(interruptible)
    <3>1. PICK i \in BOOLEAN : Enter_Run(i)
      BY <2>1
    <3>2. runs' = Append(runs, mask) /\ mask \in SUBSET SIG
      BY <1>2, <3>1 DEF Enter_Run, TypeOK
    <3>3. runs' \in Seq(SUBSET SIG)
      BY <1>2, <3>2 DEF TypeOK
    <3>4. mask' \in SUBSET SIG
      BY <1>2, <3>1 DEF Enter_Run, TypeOK, SIG
    <3> QED  BY <3>3, <3>4
  <2>2. CASE Leave_Runs
    <3>1. PICK d \in 1..Len(runs) :
             runs' = SubSeq(runs, 1, d - 1) /\ mask' = runs[d]
      BY <2>2 DEF Leave_Runs
    <3>2. runs \in Seq(SUBSET SIG)
      BY <1>2 DEF TypeOK
    <3>3. mask' \in SUBSET SIG
      BY <3>1, <3>2
    <3>4. runs' \in Seq(SUBSET SIG)
      BY <3>1, <3>2
    <3> QED  BY <3>3, <3>4
  <2>3. CASE Catch_Throw \/ Enable_Halting \/ Disable_Halting
    BY <1>2, <2>3
       DEF Catch_Throw, Enable_Halting, Disable_Halting, eval_vars, TypeOK
  <2> QED
    BY <2>1, <2>2, <2>3
<1>4. enabled' \in BOOLEAN
  BY <1>2 DEF Enter_Run, Leave_Runs, Catch_Throw, Enable_Halting,
              Disable_Halting, eval_vars, TypeOK
<1>5. TypeOK' /\ CountInv' /\ UpdInv'
  BY <1>1, <1>2, <1>3, <1>4 DEF TypeOK, CountInv, UpdInv, PC
<1> QED
  BY <1>1, <1>5, QuietStep DEF IInv, MaskInv, Collecting

\* The polls of SIG_HALT.
LEMMA PollStep ==
    IInv /\ (RL_rebWasHalting_Get \/ RL_rebWasHalting_Clr
             \/ Wait_Ports_Throws) => IInv'
<1> SUFFICES ASSUME IInv, RL_rebWasHalting_Get \/ RL_rebWasHalting_Clr
                          \/ Wait_Ports_Throws
             PROVE  IInv'
  OBVIOUS
<1>1. TypeOK /\ CountInv /\ local \in Locals /\ local.halting \in BOOLEAN
  BY DEF IInv, TypeOK, Locals
<1>2. ASSUME pc \in {"eval", "was"}
      PROVE  ballast < 0 => "RECYCLE" \in Apply("clr", "HALT", sigs)
  BY <1>2 DEF IInv, DebtInv, Collecting, Settled, Apply
<1>3. "HALT" \in SIG
  BY DEF SIG
<1>4. CASE RL_rebWasHalting_Get
  <2>1. /\ pc = "eval" /\ pc' = "was" /\ "poll" \in Clients
        /\ local' = [local EXCEPT !.halting = ("HALT" \in sigs)]
        /\ UNCHANGED <<sigs, count, mask, runs, enabled, ballast, refill,
                       gc_off, asked>>
    BY <1>4 DEF RL_rebWasHalting_Get, eval_vars, gc_vars
  <2>2. ("HALT" \in sigs) \in BOOLEAN
    OBVIOUS
  <2> DEFINE h == ("HALT" \in sigs)
  <2>3. h \in BOOLEAN /\ local' = [local EXCEPT !.halting = h]
    BY <2>1, <2>2
  <2> HIDE DEF h
  <2>4. local' \in Locals /\ local'.filtered = local.filtered
        /\ local'.saved = local.saved
    BY <1>1, <2>3 DEF Locals
  <2>5. TypeOK' /\ CountInv' /\ UpdInv'
    BY <1>1, <2>1, <2>4 DEF TypeOK, CountInv, UpdInv, PC
  <2>6. DebtInv'
    BY <2>1 DEF IInv, DebtInv, Settled, Collecting
  <2>7. MaskInv'
    BY <2>1, <2>4 DEF IInv, MaskInv
  <2> QED
    BY <2>5, <2>6, <2>7 DEF IInv
<1>5. CASE RL_rebWasHalting_Clr
  <2>1. /\ pc = "was" /\ Change("clr", "HALT", local.halting, "eval")
        /\ UNCHANGED <<mask, runs, enabled, ballast, refill, gc_off>>
    BY <1>5 DEF RL_rebWasHalting_Clr, eval_vars, gc_vars
  <2>3. pc \in PC \ {"rmw", "reset", "dec"}
    BY <2>1 DEF PC
  <2>4. /\ mask' \in SUBSET SIG /\ ballast' \in Int /\ ballast' =< MaxBallast
        /\ refill' \in {0, MaxBallast} /\ gc_off' \in BOOLEAN
        /\ ballast' < 0 => "RECYCLE" \in Apply("clr", "HALT", sigs)
    BY <1>1, <1>2, <2>1 DEF TypeOK
  <2> QED
    BY <1>1, <1>3, <2>1, <2>3, <2>4, ChangeStep
<1>6. CASE Wait_Ports_Throws
  <2>1. /\ pc = "eval" /\ Change("clr", "HALT", TRUE, "throw")
        /\ "wait" \in Clients
        /\ UNCHANGED <<mask, runs, enabled, ballast, refill, gc_off>>
    BY <1>6 DEF Wait_Ports_Throws, eval_vars, gc_vars
  <2>2. pc \in PC \ {"rmw", "reset", "dec"}
    BY <2>1 DEF PC
  <2>3. /\ mask' \in SUBSET SIG /\ ballast' \in Int /\ ballast' =< MaxBallast
        /\ refill' \in {0, MaxBallast} /\ gc_off' \in BOOLEAN
        /\ ballast' < 0 => "RECYCLE" \in Apply("clr", "HALT", sigs)
    BY <1>1, <1>2, <2>1 DEF TypeOK
  <2> QED
    BY <1>3, <2>1, <2>2, <2>3, ChangeStep
<1> QED
  BY <1>4, <1>5, <1>6

\* Allocation, release and the RECYCLE native.
LEMMA MemoryStep ==
    ASSUME IInv,
           \/ \E size \in {1, 2} :
                 Did_Series_Data_Alloc(size) \/ GC_Kill_Series(size)
           \/ Recycle_Off \/ Recycle_Native
    PROVE  IInv'
<1>1. TypeOK /\ CountInv
  BY DEF IInv
<1>2. "RECYCLE" \in SIG
  BY DEF SIG
<1>5. pc = "eval" => pc \in PC \ {"rmw", "reset", "dec"}
  BY DEF PC
<1>6. ASSUME pc = "eval", UNCHANGED <<sigs, count, asked, local, pc>>,
             UNCHANGED <<mask, runs, enabled, refill>>,
             ballast' \in Int, ballast' =< MaxBallast, gc_off' \in BOOLEAN,
             ballast' < 0 => ballast < 0
      PROVE  IInv'
  <2>1. TypeOK' /\ CountInv' /\ UpdInv'
    BY <1>1, <1>6 DEF TypeOK, CountInv, UpdInv
  <2> QED
    BY <1>6, <2>1, QuietStep DEF IInv, MaskInv, Collecting
<1>7. ASSUME NEW op \in {"set", "clr"}, pc = "eval",
             Change(op, "RECYCLE", FALSE, "eval"),
             UNCHANGED <<mask, runs, enabled, refill, gc_off>>,
             ballast' \in Int, ballast' =< MaxBallast,
             ballast' < 0 => op = "set"
      PROVE  IInv'
  <2>1. ballast' < 0 => "RECYCLE" \in Apply(op, "RECYCLE", sigs)
    BY <1>7 DEF Apply
  <2>2. mask' \in SUBSET SIG /\ refill' \in {0, MaxBallast}
        /\ gc_off' \in BOOLEAN
    BY <1>1, <1>7 DEF TypeOK
  <2> QED
    BY <1>2, <1>5, <1>7, <2>1, <2>2, ChangeStep
<1>8. CASE \E size \in {1, 2} : Did_Series_Data_Alloc(size)
  <2>1. PICK size \in {1, 2} : Did_Series_Data_Alloc(size)
    BY <1>8
  <2>2. /\ pc = "eval" /\ ballast' = ballast - size
        /\ UNCHANGED <<mask, runs, enabled, refill, gc_off>>
    BY <2>1 DEF Did_Series_Data_Alloc, eval_vars
  <2>3. ballast \in Int /\ ballast' \in Int /\ ballast' =< MaxBallast
        /\ gc_off' \in BOOLEAN
    BY <1>1, <2>2, SignalsAssumption DEF TypeOK
  <2>4. CASE ballast - size =< 0
    BY <1>7, <2>1, <2>2, <2>3, <2>4 DEF Did_Series_Data_Alloc
  <2>5. CASE ~(ballast - size =< 0)
    BY <1>6, <2>1, <2>2, <2>3, <2>5 DEF Did_Series_Data_Alloc
  <2> QED
    BY <2>4, <2>5
<1>9. CASE \E size \in {1, 2} : GC_Kill_Series(size)
  <2>1. PICK size \in {1, 2} : GC_Kill_Series(size)
    BY <1>9
  <2>2. /\ pc = "eval" /\ ballast' = Lesser(ballast + size, MaxBallast)
        /\ UNCHANGED <<mask, runs, enabled, refill, gc_off>>
    BY <2>1 DEF GC_Kill_Series, eval_vars
  <2>3. ballast \in Int /\ ballast' \in Int /\ ballast' =< MaxBallast
        /\ (ballast' < 0 => ballast < 0) /\ gc_off' \in BOOLEAN
    BY <1>1, <2>2, SignalsAssumption DEF TypeOK, Lesser
  <2>4. CASE ballast' > 0
    <3>1. Change("clr", "RECYCLE", FALSE, "eval")
      BY <2>1, <2>4 DEF GC_Kill_Series
    <3>2. ~(ballast' < 0)
      BY <2>3, <2>4
    <3> QED
      BY <1>7, <2>2, <2>3, <3>1, <3>2
  <2>5. CASE ~(ballast' > 0)
    BY <1>6, <2>1, <2>2, <2>3, <2>5 DEF GC_Kill_Series
  <2> QED
    BY <2>4, <2>5
<1>10. CASE Recycle_Off
  <2>1. /\ pc = "eval" /\ gc_off' = TRUE
        /\ UNCHANGED <<sigs, count, mask, runs, enabled, ballast, refill,
                       pc, local, asked>>
    BY <1>10 DEF Recycle_Off, eval_vars
  <2> QED
    BY <1>1, <1>6, <2>1 DEF TypeOK
<1>11. CASE Recycle_Native
  <2>1. PICK off \in {gc_off, FALSE}, fill \in {0, MaxBallast} :
          /\ gc_off' = off
          /\ refill' = fill
          /\ IF off
             THEN UNCHANGED <<sigs, count, asked, local, pc, ballast>>
             ELSE Recycle_Core(FALSE, fill, "eval")
    BY <1>11 DEF Recycle_Native
  <2>2. pc = "eval" /\ UNCHANGED <<mask, runs, enabled>> /\ UNCHANGED eval_vars
    BY <1>11 DEF Recycle_Native, eval_vars
  <2>3. off \in BOOLEAN
    BY <1>1 DEF TypeOK
  <2>4. CASE off
    <3>1. TypeOK' /\ CountInv' /\ UpdInv'
      BY <1>1, <2>1, <2>2, <2>3, <2>4 DEF TypeOK, CountInv, UpdInv
    <3> QED
      BY <2>1, <2>2, <2>4, <3>1, QuietStep DEF IInv, MaskInv, Collecting
  <2>5. CASE ~off
    BY <2>1, <2>2, <2>3, <2>5, RecycleStep
  <2> QED
    BY <2>4, <2>5
<1> QED
  BY <1>8, <1>9, <1>10, <1>11

\* The invariant is inductive.
LEMMA NextIInv == IInv /\ [Next]_vars => IInv'
<1>1. ASSUME IInv, UNCHANGED vars PROVE IInv'
  <2>1. UNCHANGED <<sigs, count, mask, runs, ballast, refill, gc_off,
                    enabled, pc, local, asked>>
    BY <1>1 DEF vars
  <2>2. TypeOK' /\ CountInv' /\ UpdInv'
    BY <1>1, <2>1 DEF IInv, TypeOK, CountInv, UpdInv
  <2>3. DebtInv' /\ MaskInv'
    BY <1>1, <2>1 DEF IInv, DebtInv, MaskInv, Settled, Collecting
  <2> QED  BY <2>2, <2>3 DEF IInv
<1> QED
  BY <1>1, HandlerStep, EvalStep, StoreStep, DoSignalsStep, PollStep,
     RunStep, MemoryStep
     DEF Next, Pending

LEMMA Invariance == Spec => []IInv
BY InitIInv, NextIInv, PTL DEF Spec

\* Type correctness; in particular Eval_Count never goes below 0, which is
\* what the evaluator asserts, however presses and decrements interleave.
THEOREM TypeCorrect == Spec => []TypeOK
<1>1. IInv => TypeOK
  BY DEF IInv
<1> QED
  BY <1>1, Invariance, PTL

\* An overdrawn ballast always has its request pending when ordinary code
\* runs, in either build.
THEOREM DebtAlwaysRequested == Spec => []DebtIsRequested
<1>1. IInv => DebtIsRequested
  BY DEF IInv, DebtInv, DebtIsRequested, Collecting, Settled
<1> QED
  BY <1>1, Invariance, PTL

\* An update on behalf of the collector keeps a recorded halt, whenever it
\* takes place.
LEMMA RecycleKeepsHalt ==
    ASSUME NEW op, NEW told, NEW then, Change(op, "RECYCLE", told, then),
           "HALT" \in sigs
    PROVE  "HALT" \in sigs'
BY DEF Change, Apply

\* So do all the steps of the evaluator but these four.
LEMMA HaltKept ==
    ASSUME [Next]_vars, "HALT" \in sigs, "HALT" \notin sigs'
    PROVE  Store \/ Do_Signals_Halt \/ RL_rebWasHalting_Clr
           \/ Wait_Ports_Throws
<1>1. CASE UNCHANGED vars
  BY <1>1 DEF vars
<1>2. CASE Handle_Signal
  BY <1>2 DEF Handle_Signal, Apply
<1>3. CASE Eval_Step \/ Eval_Store \/ Leave_Runs \/ Catch_Throw
           \/ Enable_Halting \/ Disable_Halting \/ RL_rebWasHalting_Get
           \/ Recycle_Off \/ Do_Signals_Reset \/ Do_Signals_Filter
  BY <1>3
     DEF Eval_Step, Eval_Store, Leave_Runs, Catch_Throw, Enable_Halting,
         Disable_Halting, RL_rebWasHalting_Get, Recycle_Off,
         Do_Signals_Reset, Do_Signals_Filter
<1>4. CASE \E interruptible \in BOOLEAN : Enter_Run(interruptible)
  BY <1>4 DEF Enter_Run
<1>5. CASE Do_Signals_Recycle
  BY <1>5, RecycleKeepsHalt DEF Do_Signals_Recycle
<1>6. CASE Do_Signals_Collect \/ Recycle_Native
  BY <1>6, RecycleKeepsHalt
     DEF Do_Signals_Collect, Recycle_Native, Recycle_Core
<1>7. CASE \E size \in {1, 2} :
              Did_Series_Data_Alloc(size) \/ GC_Kill_Series(size)
  BY <1>7, RecycleKeepsHalt DEF Did_Series_Data_Alloc, GC_Kill_Series
<1> QED
  BY <1>1, <1>2, <1>3, <1>4, <1>5, <1>6, <1>7
     DEF Next, Pending, DoSignals

\* In every build and with every client, a press that the program has not
\* been told of is dropped by nothing but the two races.
THEOREM HaltNeverDropped == Spec => HaltDroppedOnlyByRace
<1>1. ASSUME IInv, [Next]_vars, asked', "HALT" \in sigs, "HALT" \notin sigs'
      PROVE  \/ pc = "rmw" /\ "HALT" \notin local.upd.old
             \/ ClearingUnseen
  <2>1. CASE Store
    <3>1. local.upd \in Update /\ pc = "rmw" /\ ~local.upd.told
          /\ sigs' = Apply(local.upd.op, local.upd.bit, local.upd.old)
      BY <1>1, <2>1 DEF Store, IInv, TypeOK, Locals
    <3>2. CASE local.upd.bit = "HALT"
      BY <1>1, <3>1, <3>2 DEF IInv, UpdInv, ClearingUnseen
    <3>3. CASE local.upd.bit # "HALT"
      <4>1. "HALT" \notin local.upd.old
        BY <1>1, <3>1, <3>3 DEF Apply
      <4> QED
        BY <3>1, <4>1
    <3> QED
      BY <3>2, <3>3
  <2>2. CASE Do_Signals_Halt \/ Wait_Ports_Throws
    <3>1. Change("clr", "HALT", TRUE, "throw")
      BY <1>1, <2>2 DEF Do_Signals_Halt, Wait_Ports_Throws
    <3> QED
      BY <1>1, <3>1 DEF Change
  <2>3. CASE RL_rebWasHalting_Clr
    <3>1. pc = "was" /\ Change("clr", "HALT", local.halting, "eval")
      BY <2>3 DEF RL_rebWasHalting_Clr
    <3>2. ~local.halting
      BY <1>1, <3>1 DEF Change
    <3> QED
      BY <3>1, <3>2 DEF ClearingUnseen
  <2> QED
    BY <1>1, <2>1, <2>2, <2>3, HaltKept
<1>2. IInv /\ [Next]_vars =>
        [asked' /\ "HALT" \in sigs /\ "HALT" \notin sigs'
           => \/ pc = "rmw" /\ "HALT" \notin local.upd.old
              \/ ClearingUnseen]_vars
  BY <1>1
<1> QED
  BY <1>2, Invariance, PTL DEF Spec, HaltDroppedOnlyByRace

\* In every build and with every client, Do_Signals_Throws halts no code that
\* was not started interruptibly.
THEOREM DoSignalsMasked == Spec => DoSignalsObeysMask
<1>1. ASSUME IInv, [Next]_vars, pc = "halt", pc' \in {"throw", "rmw"}
      PROVE  "HALT" \in mask'
  <2>1. Do_Signals_Halt
    BY <1>1
       DEF Next, Pending, DoSignals, Handle_Signal, Eval_Step, Store,
           Eval_Store, Do_Signals_Reset, Do_Signals_Filter,
           Do_Signals_Recycle, Do_Signals_Collect, RL_rebWasHalting_Clr,
           Catch_Throw, Enter_Run, Leave_Runs, Enable_Halting,
           Disable_Halting, RL_rebWasHalting_Get, Wait_Ports_Throws,
           Did_Series_Data_Alloc, GC_Kill_Series, Recycle_Off,
           Recycle_Native, vars
  <2>2. "HALT" \in local.filtered /\ mask' = local.saved
    BY <1>1, <2>1 DEF Do_Signals_Halt
  <2> QED
    BY <1>1, <2>2 DEF IInv, MaskInv
<1>2. IInv /\ [Next]_vars =>
        [pc = "halt" /\ pc' \in {"throw", "rmw"} => "HALT" \in mask']_vars
  BY <1>1
<1> QED
  BY <1>2, Invariance, PTL DEF Spec, DoSignalsObeysMask
============================================================================
