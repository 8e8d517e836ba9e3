------------------------------- MODULE Ports -------------------------------
(***************************************************************************)
(* Network ports, the device that carries out their requests, the event    *)
(* queue of the system port, and WAIT.                                     *)
(*                                                                         *)
(* A port has one request.  A command that cannot be finished at once      *)
(* leaves it on the list of pending requests of its device, and WAIT calls *)
(* the command again on every turn of its loop until it is done.  What     *)
(* happened to a port is told by an event, inserted at the head of the     *)
(* queue; WAIT takes events from there, lets the port's AWAKE function     *)
(* handle each, and ends when one of its ports was woken.                  *)
(*                                                                         *)
(* TCP is modelled.  What the system and the peer do with a connection is  *)
(* `line`, external.  A request that is not pending has command "none":    *)
(* the code leaves the last command there and does not use it again.       *)
(***************************************************************************)
EXTENDS Naturals, Sequences, SequencesExt

CONSTANTS
    Ports,      \* the PORT! objects
    Uses,       \* Uses[p]: what the program does with port p
    NoPort,     \* no port is being woken
    MaxLen,     \* bound on the length of a WRITE or READ/PART
    MaxEvents,  \* bound on the queue, for operations on ports
    AwakeLimit  \* 8: AWAKE stops when it has handled more events than that

ASSUME PortsAssumption ==
    /\ NoPort \notin Ports
    /\ Uses \in [Ports -> SUBSET {"connect", "lookup", "listen", "accepted",
                                  "read", "part", "write"}]
    /\ MaxLen \in Nat
    /\ MaxEvents \in Nat
    /\ AwakeLimit \in Nat

VARIABLES
    dev,    \* the requests, the pending list, the queue and the lines
    waked,  \* the ports that were woken and not reported (system port data)
    pc,     \* where the interpreter is
    wait,   \* what WAIT was called with, and whether its time is over
    cursor, \* events handled by this turn's AWAKE, or position in the poll
    cur     \* the port that is being woken

vars == <<dev, waked, pc, wait, cursor, cur>>

Commands == {"none", "connect", "create", "read", "part", "write"}

Request == [open : BOOLEAN,     \* RRF_OPEN
            flagged : BOOLEAN,  \* RRF_PENDING
            listen : BOOLEAN,   \* RST_LISTEN
            sock : {"none", "open", "attempt", "connect", "listen"},
            command : Commands,
            left : 0..MaxLen,   \* length - actual
            got : BOOLEAN]      \* actual > 0

\* The line of a socket: what came in, and whether nothing can go out.
Lines == [in : {"quiet", "accepted", "refused", "caller", "data", "fin",
                "reset"},
          full : BOOLEAN]

NoWait == [ports |-> {}, timed |-> FALSE, late |-> FALSE]

TypeOK ==
    /\ dev.req \in [Ports -> Request]
    /\ dev.line \in [Ports -> Lines]
    /\ dev.pending \in Seq(Ports)
    /\ dev.queue \in Seq(Ports)
    /\ waked \subseteq Ports
    /\ pc \in {"user", "loop", "awake", "handler", "timer", "poll"}
    /\ wait \in [ports : SUBSET Ports, timed : BOOLEAN, late : BOOLEAN]
    /\ cursor \in Nat
    /\ cur \in Ports \union {NoPort}

Quiet == [in |-> "quiet", full |-> FALSE]
Fresh == [open |-> FALSE, flagged |-> FALSE, listen |-> FALSE,
          sock |-> "none", command |-> "none", left |-> 0, got |-> FALSE]

Init ==
    /\ dev = [req |-> [p \in Ports |-> Fresh], pending |-> << >>,
              queue |-> << >>, line |-> [p \in Ports |-> Quiet]]
    /\ waked = {}
    /\ pc = "user"
    /\ wait = NoWait
    /\ cursor = 0
    /\ cur = NoPort

Pending(d) == ToSet(d.pending)

----------------------------------------------------------------------------
(* The device and its list.                                                *)

\* make event! ... is inserted at the head.
Event(d, p) == [d EXCEPT !.queue = <<p>> \o @]

Idle(r) == [r EXCEPT !.command = "none", !.left = 0, !.got = FALSE]

Attach_Request(d, p) ==
    IF p \in Pending(d) THEN d
    ELSE [d EXCEPT !.pending = Append(@, p), !.req[p].flagged = TRUE]

\* The flag is set, not cleared.
Detach_Request(d, p) ==
    [d EXCEPT !.pending = RemoveFirst(@, p),
              !.req[p] = [Idle(@) EXCEPT
                            !.flagged = d.req[p].flagged \/ p \in Pending(d)]]

\* What Poll_Default does with a request that is done.
Finish(d, p) ==
    [d EXCEPT !.pending = RemoveFirst(@, p),
              !.req[p] = [Idle(@) EXCEPT !.flagged = FALSE]]

\* The system's close() of a socket that is open is taken to succeed.
Close_Socket(d, p) == [d EXCEPT !.req[p].sock = "none", !.line[p] = Quiet]

----------------------------------------------------------------------------
(* The commands of the network device: the outcomes of running the command *)
(* of a request, done, still pending, or a failure that is raised.         *)

Done(d) == [dev |-> d, result |-> "done"]
Pend(d) == [dev |-> d, result |-> "pend"]
Error(d) == [dev |-> d, result |-> "error"]

\* A second listen on a socket fails, as can the first.
Listen_Socket(d, p) ==
    {Error(d)} \union
    (IF d.req[p].sock = "listen" THEN {}
     ELSE {Pend([d EXCEPT !.req[p].sock = "listen",
                          !.req[p].command = "create"])})

Connected(d, p) ==
    Done(Event([d EXCEPT !.req[p].sock = "connect", !.line[p] = Quiet], p))

\* A connection that fails closes the socket and takes the request off the
\* list, so that it is not polled again.
Refused(d, p) == Error(Detach_Request(Close_Socket(d, p), p))

\* connect() is called again on every poll.  The first call, too, may succeed
\* or fail at once.
Connect_Socket(d, p) ==
    IF d.req[p].sock = "connect" THEN {Done(d)}
    ELSE IF d.req[p].listen THEN Listen_Socket(d, p)
    ELSE IF d.line[p].in = "accepted" THEN {Connected(d, p)}
    ELSE IF d.line[p].in = "refused" THEN {Refused(d, p)}
    ELSE {Pend([d EXCEPT !.req[p].sock = "attempt"])} \union
         (IF d.req[p].sock = "open" THEN {Connected(d, p), Refused(d, p)}
                                    ELSE {})

\* A short count means that the system's buffer is full.
Send(d, p) ==
    {IF k = d.req[p].left THEN Done(Event(d, p))
     ELSE Pend([d EXCEPT !.req[p].left = @ - k, !.line[p].full = TRUE])
        : k \in 1..d.req[p].left}

\* A byte, which may complete a READ/PART; any byte completes a READ.
Received_Byte(d, p) ==
    IF d.req[p].command = "part" /\ d.req[p].left > 1
       THEN Pend([d EXCEPT !.req[p].left = @ - 1, !.req[p].got = TRUE,
                           !.line[p].in = "quiet"])
       ELSE Done(Event([d EXCEPT !.line[p].in = "quiet"], p))

\* Faulty: the close is not told if there was nothing to deliver.
Received_Close_Untold(d, p) ==
    Done(Close_Socket(IF d.req[p].got THEN Event(Event(d, p), p) ELSE d, p))

\* Faulty: a clean close is taken for nothing to read yet.
Received_Close_Waiting(d, p) == Pend(d)

\* The end of the connection.  What there is of a READ/PART is told first, so
\* that the program hears of it after the close; the request stays open.
Received_Close(d, p) ==
    LET told == IF d.req[p].got THEN Event(d, p) ELSE d
    IN  Done(Close_Socket(Event(told, p), p))

Transfer_Socket(d, p) ==
    IF d.req[p].sock # "connect" THEN {Error(d)}
    ELSE IF d.line[p].in = "reset"
       THEN {Done(Event([d EXCEPT !.line[p].in = "fin"], p))}
    ELSE IF d.req[p].command = "write"
       THEN IF d.line[p].full THEN {Pend(d)} ELSE Send(d, p)
    ELSE IF d.line[p].in = "quiet" THEN {Pend(d)}
    ELSE IF d.line[p].in = "fin" THEN {Received_Close(d, p)}
    ELSE {Received_Byte(d, p)}

\* A caller becomes a port with a connected socket; the listener stays
\* pending.  accept() can fail, which is raised.
Accept_Socket(d, p) ==
    IF d.line[p].in = "quiet" THEN {Pend(d)}
    ELSE {Error(d)} \union
         {Pend(Event([d EXCEPT !.line[p] = Quiet,
                               !.req[c] = [Fresh EXCEPT !.open = TRUE,
                                                        !.sock = "connect"]],
                     p)) : c \in {c \in Ports : /\ "accepted" \in Uses[c]
                                                /\ d.req[c] = Fresh}}

Command(d, p) ==
    CASE d.req[p].command = "connect" -> Connect_Socket(d, p)
      [] d.req[p].command = "create" -> Accept_Socket(d, p)
      [] OTHER -> Transfer_Socket(d, p)

Settle(o, p) ==
    IF o.result = "pend" THEN Attach_Request(o.dev, p)
                         ELSE Detach_Request(o.dev, p)

\* The command's fields are stored in the request and it is run.  A failure
\* is the caller's: it does not touch the device any more.
OS_Do_Device(d, p, command, len) ==
    LET asked == [d EXCEPT !.req[p].command = command, !.req[p].left = len,
                           !.req[p].got = FALSE]
    IN  {Settle(o, p) : o \in Command(asked, p)}

----------------------------------------------------------------------------
(* What a program does with ports, in its own code or in AWAKE functions.  *)

Acts == pc \in {"user", "handler"} /\ Len(dev.queue) <= MaxEvents

Unmoved == UNCHANGED <<waked, pc, wait, cursor, cur>>

\* OPEN of a closed port makes the socket (if the system refuses, nothing
\* changes); then the host is looked up, which can fail, or the connection is
\* begun, or the port starts to listen.
Open(p, how) ==
    /\ Acts
    /\ how \in Uses[p] \intersect {"connect", "lookup", "listen"}
    /\ ~dev.req[p].open
    /\ LET d == [dev EXCEPT !.req[p].open = TRUE, !.req[p].sock = "open",
                            !.req[p].listen = @ \/ how = "listen",
                            !.line[p] = Quiet]
       IN  IF how = "lookup" THEN dev' \in {d, Event(d, p)}
           ELSE dev' \in OS_Do_Device(d, p, "connect", 0)
    /\ Unmoved

\* OPEN of an open port connects it (after a lookup).
Open_Again(p) ==
    /\ Acts
    /\ dev.req[p].open
    /\ dev.req[p].sock # "none"
    /\ dev' \in OS_Do_Device(dev, p, "connect", 0)
    /\ Unmoved

\* READ with or without /PART, WRITE: whatever is still pending for the port
\* is forgotten.
Read_Write(p, command, len) ==
    /\ Acts
    /\ command \in Uses[p] \intersect {"read", "part", "write"}
    /\ dev.req[p].open
    /\ dev.req[p].sock = "connect"
    /\ dev' \in OS_Do_Device(dev, p, command,
                             IF command = "read" THEN 0 ELSE len)
    /\ Unmoved

\* Faulty: the request is left on the list of pending ones.
Close_Attached(p) ==
    /\ Acts
    /\ dev.req[p].open
    /\ dev' = [Close_Socket(dev, p) EXCEPT !.req[p].open = FALSE]
    /\ Unmoved

Close(p) ==
    /\ Acts
    /\ dev.req[p].open
    /\ dev' = [Detach_Request(Close_Socket(dev, p), p) EXCEPT
                 !.req[p].open = FALSE]
    /\ Unmoved

----------------------------------------------------------------------------
(* WAIT.                                                                   *)

\* Without a timeout WAIT returns at once if no port is flagged as pending.
\* In AWAKE functions WAIT is not called.
Wait(ports, timed) ==
    /\ pc = "user"
    /\ timed \/ \E p \in ports : dev.req[p].flagged
    /\ wait' = [ports |-> ports, timed |-> timed, late |-> FALSE]
    /\ pc' = "loop"
    /\ UNCHANGED <<dev, waked, cursor, cur>>

\* WAIT ends, by its result, a failure or a halt.
Leave ==
    /\ pc' = "user"
    /\ wait' = NoWait
    /\ cursor' = 0
    /\ cur' = NoPort

\* A turn of the loop: a halt is thrown, or events are processed if there
\* are any or some port was woken, or else the devices are polled.
Wait_Turn ==
    /\ pc = "loop"
    /\ pc' = IF dev.queue = << >> /\ waked = {} THEN "timer" ELSE "awake"
    /\ UNCHANGED <<dev, waked, wait, cursor, cur>>

Wait_Halted ==
    /\ pc = "loop"
    /\ Leave
    /\ UNCHANGED <<dev, waked>>

\* Faulty: processes events until there are none.
Awake_More_Unlimited == dev.queue # << >>

Awake_More == dev.queue # << >> /\ cursor <= AwakeLimit

\* The event is taken off the queue before it is handled.
Wake_Up ==
    /\ pc = "awake"
    /\ Awake_More
    /\ cur' = Head(dev.queue)
    /\ dev' = [dev EXCEPT !.queue = Tail(@)]
    /\ pc' = "handler"
    /\ UNCHANGED <<waked, wait, cursor>>

\* The AWAKE function of the port says whether the port is awake.
Woke_Up(awake) ==
    /\ pc = "handler"
    /\ waked' = IF awake THEN waked \union {cur} ELSE waked
    /\ cursor' = IF cursor > AwakeLimit THEN cursor ELSE cursor + 1
    /\ cur' = NoPort
    /\ pc' = "awake"
    /\ UNCHANGED <<dev, wait>>

\* It fails, as the default ones do on an error event.
Wake_Up_Fails ==
    /\ pc = "handler"
    /\ Leave
    /\ UNCHANGED <<dev, waked>>

\* The end of the system port's AWAKE: WAIT returns if one of its ports was
\* woken, and forgets all that were (Sieve_Ports).
Awake_Done ==
    /\ pc = "awake"
    /\ ~Awake_More
    /\ IF wait.ports \intersect waked # {}
          THEN waked' = {} /\ Leave
          ELSE /\ pc' = "timer"
               /\ cursor' = 0
               /\ UNCHANGED <<waked, wait, cur>>
    /\ UNCHANGED dev

\* The time is looked at before the devices are polled.
Wait_Timer ==
    /\ pc = "timer"
    /\ IF wait.timed /\ wait.late
          THEN waked' = {} /\ Leave
          ELSE pc' = "poll" /\ UNCHANGED <<waked, wait, cursor, cur>>
    /\ UNCHANGED dev

\* Poll_Default: the next pending request.
Poll_Request ==
    /\ pc = "poll"
    /\ cursor < Len(dev.pending)
    /\ LET p == dev.pending[cursor + 1]
       IN  \E o \in Command(dev, p) :
             \/ /\ o.result = "done"
                /\ dev' = Finish(o.dev, p)
                /\ UNCHANGED <<pc, wait, cursor, cur>>
             \/ /\ o.result = "pend"
                /\ dev' = o.dev
                /\ cursor' = cursor + 1
                /\ UNCHANGED <<pc, wait, cur>>
             \/ /\ o.result = "error"
                /\ dev' = o.dev
                /\ Leave
    /\ UNCHANGED waked

\* All requests were polled; WAIT sleeps if none changed.
Poll_Done ==
    /\ pc = "poll"
    /\ cursor >= Len(dev.pending)
    /\ pc' = "loop"
    /\ cursor' = 0
    /\ UNCHANGED <<dev, waked, wait, cur>>

----------------------------------------------------------------------------
(* The system and the peers.                                               *)

\* How the line of a port may change: a connection attempt is answered, a
\* caller arrives, bytes arrive, the peer closes or breaks the connection.
Arrivals(r, l) ==
    IF r.sock = "attempt" /\ l.in = "quiet" THEN {"accepted", "refused"}
    ELSE IF r.sock = "listen" /\ l.in = "quiet" THEN {"caller"}
    ELSE IF r.sock = "connect" /\ l.in = "quiet"
       THEN {"data", "fin", "reset"}
    ELSE {}

Arrive(p) ==
    /\ \E in \in Arrivals(dev.req[p], dev.line[p]) :
          /\ in = "caller" => \E c \in Ports : /\ "accepted" \in Uses[c]
                                              /\ dev.req[c] = Fresh
          /\ dev' = [dev EXCEPT !.line[p].in = in]
    /\ Unmoved

\* Room in the system's buffer.
Drain(p) ==
    /\ dev.line[p].full
    /\ dev' = [dev EXCEPT !.line[p].full = FALSE]
    /\ Unmoved

Tick ==
    /\ wait.timed /\ ~wait.late
    /\ wait' = [wait EXCEPT !.late = TRUE]
    /\ UNCHANGED <<dev, waked, pc, cursor, cur>>

----------------------------------------------------------------------------
Waiting ==
    \/ Wait_Turn \/ Wait_Halted \/ Wake_Up \/ Wake_Up_Fails
    \/ (\E awake \in BOOLEAN : Woke_Up(awake))
    \/ Awake_Done \/ Wait_Timer \/ Poll_Request \/ Poll_Done

Next ==
    \/ \E p \in Ports, how \in {"connect", "lookup", "listen"} : Open(p, how)
    \/ \E p \in Ports : Open_Again(p) \/ Close(p)
    \/ \E p \in Ports, command \in {"read", "part", "write"},
          len \in 1..MaxLen : Read_Write(p, command, len)
    \/ \E ports \in SUBSET Ports, timed \in BOOLEAN : Wait(ports, timed)
    \/ Waiting
    \/ \E p \in Ports : Arrive(p) \/ Drain(p)
    \/ Tick

\* WAIT runs on and AWAKE functions end; time passes; the system and the
\* peers answer sooner or later.
Fairness ==
    /\ WF_vars(Waiting)
    /\ WF_vars(Tick)
    /\ \A p \in Ports : WF_vars(Arrive(p)) /\ WF_vars(Drain(p))

Spec == Init /\ [][Next]_vars /\ Fairness

----------------------------------------------------------------------------
(* Properties.                                                             *)

\* Whatever READ, WRITE, OPEN and CLOSE are issued over a pending request,
\* and whatever fails, Poll_Default finds every request once on the list,
\* with a command its socket is ready for: Transfer_Socket never fails for
\* want of a connection, nothing is done with a socket that was closed, there
\* is something left to send, and WAIT does not take the port for one that
\* has nothing pending.
PolledReady ==
    /\ TypeOK
    /\ \A i, j \in DOMAIN dev.pending :
          dev.pending[i] = dev.pending[j] => i = j
    /\ \A p \in Pending(dev) :
          LET r == dev.req[p]
          IN  /\ r.open
              /\ r.flagged
              /\ r.sock = (CASE r.command = "connect" -> "attempt"
                             [] r.command = "create" -> "listen"
                             [] OTHER -> "connect")
              /\ r.command \in {"part", "write"} => r.left > 0

\* RRF_PENDING means that the request is attached to the pending list.
FlagMeansPending == \A p \in Ports : dev.req[p].flagged => p \in Pending(dev)

\* A request that Poll_Default takes off the list has told its port about it
\* by an event, or the failure has ended the WAIT.
CompletionSeen ==
    [][pc = "poll" =>
         \A p \in Pending(dev) \ Pending(dev') :
            \/ pc' = "user"
            \/ p \in ToSet(SubSeq(dev'.queue, 1,
                                  Len(dev'.queue) - Len(dev.queue)))]_vars

\* The program issues a request for a port that has one pending.
Supersede(p) ==
    /\ p \in Pending(dev)
    /\ \/ Open_Again(p)
       \/ \E command \in {"read", "part", "write"}, len \in 1..MaxLen :
             Read_Write(p, command, len)

\* While WAIT runs, no request but a listener's stays pending for ever: a
\* connection attempt, a READ to its end or to the end of the connection, a
\* WRITE in several pieces; unless the program issues new requests in its
\* place for ever.  No flood of events keeps the devices from being polled.
OperationsEnd ==
    \A p \in Ports :
        <>[][~Supersede(p)]_vars =>
            (pc # "user" /\ p \in Pending(dev) /\ ~dev.req[p].listen
                ~> pc = "user" \/ p \notin Pending(dev))

\* WAIT with a timeout returns, even if AWAKE functions issue requests that
\* complete at once and so keep the queue from getting empty.
TimedWaitEnds == wait.timed ~> pc = "user"
============================================================================
