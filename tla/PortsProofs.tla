---------------------------- MODULE PortsProofs ----------------------------
(***************************************************************************)
(* Proofs about Ports: what Poll_Default finds on the list of pending      *)
(* requests, and what it tells when it takes one off, for any ports,       *)
(* programs and limits.                                                    *)
(***************************************************************************)
EXTENDS Ports, TLAPS

Devices == [req : [Ports -> Request], pending : Seq(Ports),
            queue : Seq(Ports), line : [Ports -> Lines]]

Unique(s) == \A i, j \in DOMAIN s : s[i] = s[j] => i = j

\* The socket is ready for the command, and there is something to transfer.
Fit(r) ==
    /\ r.sock = (CASE r.command = "connect" -> "attempt"
                   [] r.command = "create" -> "listen"
                   [] OTHER -> "connect")
    /\ r.command \in {"part", "write"} => r.left > 0

Ready(r) == r.open /\ r.flagged /\ Fit(r)

\* What PolledReady says of the device.
Good(d) ==
    /\ d \in Devices
    /\ Unique(d.pending)
    /\ \A q \in Pending(d) : Ready(d.req[q])

\* The same while a command of port p runs, whose request may be on the list
\* and is whatever the command makes of it.
Almost(d, p) ==
    /\ d \in Devices
    /\ Unique(d.pending)
    /\ d.req[p].open
    /\ p \in Pending(d) => d.req[p].flagged
    /\ \A q \in Pending(d) : q # p => Ready(d.req[q])

\* The command of r can be run: what OS_Do_Device and polling make sure of.
Able(r) ==
    /\ r.command = "create" => r.sock = "listen"
    /\ r.command \in {"part", "write"} => r.left > 0

\* One or two events for p are the news in the queue.
Told(d, e, p) ==
    \/ e.queue = <<p>> \o d.queue
    \/ e.queue = <<p>> \o (<<p>> \o d.queue)

\* What a command may do to the device.
Outcome(d, p, o) ==
    /\ Almost(o.dev, p)
    /\ o.result \in {"done", "pend", "error"}
    /\ o.result # "error" => o.dev.pending = d.pending
    /\ o.result = "pend" => Fit(o.dev.req[p])
    /\ o.result = "error" => o.dev = d \/ p \notin Pending(o.dev)
    /\ /\ o.result = "done"
       /\ ~(d.req[p].command = "connect" /\ d.req[p].sock = "connect")
       => Told(d, o.dev, p)

----------------------------------------------------------------------------
(* Updates of the device.                                                  *)

SetReq(d, p, r) == [d EXCEPT !.req[p] = r]
SetLine(d, p, l) == [d EXCEPT !.line[p] = l]
SetPending(d, s) == [d EXCEPT !.pending = s]

\* What a new request of one port changes.
LEMMA SetReqIs ==
    ASSUME NEW d \in Devices, NEW p \in Ports, NEW r \in Request
    PROVE  /\ SetReq(d, p, r) \in Devices
           /\ SetReq(d, p, r).req[p] = r
           /\ \A q \in Ports \ {p} : SetReq(d, p, r).req[q] = d.req[q]
           /\ SetReq(d, p, r).pending = d.pending
           /\ SetReq(d, p, r).queue = d.queue
           /\ SetReq(d, p, r).line = d.line
BY DEF Devices, SetReq

\* What a new line of one port changes.
LEMMA SetLineIs ==
    ASSUME NEW d \in Devices, NEW p \in Ports, NEW l \in Lines
    PROVE  /\ SetLine(d, p, l) \in Devices
           /\ SetLine(d, p, l).req = d.req
           /\ SetLine(d, p, l).pending = d.pending
           /\ SetLine(d, p, l).queue = d.queue
BY DEF Devices, SetLine

\* What a new list changes.
LEMMA SetPendingIs ==
    ASSUME NEW d \in Devices, NEW s \in Seq(Ports)
    PROVE  /\ SetPending(d, s) \in Devices
           /\ SetPending(d, s).req = d.req
           /\ SetPending(d, s).pending = s
           /\ SetPending(d, s).queue = d.queue
BY DEF Devices, SetPending

\* What an event changes.
LEMMA EventIs ==
    ASSUME NEW d \in Devices, NEW p \in Ports
    PROVE  /\ Event(d, p) \in Devices
           /\ Event(d, p).req = d.req
           /\ Event(d, p).pending = d.pending
           /\ Event(d, p).queue = <<p>> \o d.queue
<1>1. <<p>> \o d.queue \in Seq(Ports)
  BY DEF Devices
<1> QED  BY <1>1 DEF Devices, Event

\* The ports on the list.
LEMMA PendingPorts ==
    ASSUME NEW d \in Devices
    PROVE  Pending(d) \subseteq Ports
BY DEF Pending, ToSet, Devices

\* Taking a port off a list on which it is at most once.
LEMMA Unlinked ==
    ASSUME NEW s \in Seq(Ports), NEW p \in Ports, Unique(s)
    PROVE  /\ RemoveFirst(s, p) \in Seq(Ports)
           /\ ToSet(RemoveFirst(s, p)) = ToSet(s) \ {p}
           /\ Unique(RemoveFirst(s, p))
<1> DEFINE t == RemoveFirst(s, p)
<1>1. CASE p \notin ToSet(s)
  <2>1. t = s
    BY <1>1 DEF RemoveFirst, ToSet
  <2> QED  BY <1>1, <2>1
<1>2. CASE p \in ToSet(s)
  <2>1. PICK i \in 1..Len(s) : s[i] = p
    BY <1>2 DEF ToSet
  <2>2. {k \in 1..Len(s) : s[k] = p} = {i}
    BY <2>1 DEF Unique
  <2>3. Min({i}) = i
    BY DEF Min
  <2>4. SelectInSeq(s, LAMBDA v : v = p) = i
    BY <2>2, <2>3 DEF SelectInSeq
  <2>5. t = SubSeq(s, 1, i - 1) \o SubSeq(s, i + 1, Len(s))
    BY <2>1, <2>4 DEF RemoveFirst, RemoveAt
  <2> HIDE DEF t
  <2>6. /\ t \in Seq(Ports) /\ Len(t) = Len(s) - 1
        /\ \A k \in 1..(Len(s) - 1) : t[k] = IF k < i THEN s[k] ELSE s[k + 1]
    <3>1. PICK n \in Nat : n = Len(s) /\ i \in 1..n
      OBVIOUS
    <3> DEFINE x == SubSeq(s, 1, i - 1)
               y == SubSeq(s, i + 1, n)
    <3>2. /\ x \in Seq(Ports) /\ Len(x) = i - 1
          /\ \A k \in 1..(i - 1) : x[k] = s[k]
      BY <3>1
    <3>3. /\ y \in Seq(Ports) /\ Len(y) = n - i
          /\ \A k \in 1..(n - i) : y[k] = s[i + k]
      BY <3>1
    <3>4. t = x \o y
      BY <2>5, <3>1
    <3> HIDE DEF x, y
    <3>5. t \in Seq(Ports) /\ Len(t) = n - 1
      BY <3>1, <3>2, <3>3, <3>4
    <3>6. ASSUME NEW k \in 1..(n - 1)
          PROVE  t[k] = IF k < i THEN s[k] ELSE s[k + 1]
      <4>1. CASE k < i
        BY <3>1, <3>2, <3>3, <3>4, <4>1
      <4>2. CASE ~(k < i)
        <5>1. k - (i - 1) \in 1..(n - i) /\ i + (k - (i - 1)) = k + 1
          BY <3>1, <4>2
        <5>2. t[k] = y[k - (i - 1)]
          BY <3>1, <3>2, <3>3, <3>4, <4>2
        <5> QED  BY <3>3, <4>2, <5>1, <5>2
      <4> QED  BY <4>1, <4>2
    <3> QED  BY <3>1, <3>5, <3>6
  <2>7. ToSet(t) = ToSet(s) \ {p}
    <3>1. ASSUME NEW x \in ToSet(t)  PROVE x \in ToSet(s) \ {p}
      BY <2>1, <2>6, <3>1 DEF ToSet, Unique
    <3>2. ASSUME NEW x \in ToSet(s), x # p PROVE x \in ToSet(t)
      <4>1. PICK k \in 1..Len(s) : s[k] = x
        BY DEF ToSet
      <4>2. CASE k < i
        BY <2>1, <2>6, <4>1, <4>2 DEF ToSet
      <4>3. CASE k > i
        <5>1. k - 1 \in 1..(Len(s) - 1) /\ ~(k - 1 < i) /\ (k - 1) + 1 = k
          BY <4>3, <2>1
        <5>2. t[k - 1] = x
          BY <5>1, <4>1, <2>6
        <5> QED  BY <5>1, <5>2, <2>6 DEF ToSet
      <4> QED  BY <2>1, <3>2, <4>1, <4>2, <4>3
    <3> QED  BY <3>1, <3>2
  <2>8. Unique(t)
    <3>1. PICK n \in Nat : n = Len(s) /\ i \in 1..n
      OBVIOUS
    <3>2. \A k, l \in 1..n : s[k] = s[l] => k = l
      BY <3>1 DEF Unique
    <3>3. DOMAIN t = 1..(n - 1)
      BY <2>6, <3>1
    <3>4. ASSUME NEW k \in 1..(n - 1), NEW l \in 1..(n - 1), t[k] = t[l]
          PROVE  k = l
      <4>1. PICK x \in 1..n : x = (IF k < i THEN k ELSE k + 1) /\ t[k] = s[x]
        BY <2>6, <3>1
      <4>2. PICK y \in 1..n : y = (IF l < i THEN l ELSE l + 1) /\ t[l] = s[y]
        BY <2>6, <3>1
      <4>3. x = y
        BY <3>2, <3>4, <4>1, <4>2
      <4> QED  BY <3>1, <4>1, <4>2, <4>3
    <3> QED  BY <3>3, <3>4 DEF Unique
  <2> QED  BY <2>6, <2>7, <2>8 DEF t
<1> QED  BY <1>1, <1>2

----------------------------------------------------------------------------
(* Almost and Good under these updates.                                    *)

\* The request of the running command changes.
LEMMA AlmostReq ==
    ASSUME NEW p \in Ports, NEW d, Almost(d, p), NEW r \in Request,
           r.open, p \in Pending(d) => r.flagged
    PROVE  Almost(SetReq(d, p, r), p)
<1>1. d \in Devices
  BY DEF Almost
<1>2. Pending(SetReq(d, p, r)) = Pending(d)
  BY <1>1, SetReqIs DEF Pending
<1> QED  BY <1>1, <1>2, SetReqIs, PendingPorts DEF Almost

\* A device with the same list and the same requests.
LEMMA AlmostSame ==
    ASSUME NEW p \in Ports, NEW d, Almost(d, p), NEW e \in Devices,
           e.req = d.req, e.pending = d.pending
    PROVE  Almost(e, p)
BY DEF Almost, Pending

\* The same for Good.
LEMMA GoodSame ==
    ASSUME NEW d, Good(d), NEW e \in Devices,
           e.req = d.req, e.pending = d.pending
    PROVE  Good(e)
BY DEF Good, Pending

\* A command may start on a port that is open.
LEMMA GoodAlmost ==
    ASSUME NEW d, Good(d), NEW p \in Ports, d.req[p].open
    PROVE  Almost(d, p)
BY DEF Good, Almost, Ready

\* Off the list, whatever becomes of the request.
LEMMA OffTheList ==
    ASSUME NEW p \in Ports, NEW d, Almost(d, p), NEW r \in Request
    PROVE  LET e == SetReq(SetPending(d, RemoveFirst(d.pending, p)), p, r)
           IN  /\ Good(e)
               /\ Pending(e) = Pending(d) \ {p}
               /\ e.req[p] = r
               /\ e.queue = d.queue
<1> DEFINE s == RemoveFirst(d.pending, p)
           f == SetPending(d, s)
           e == SetReq(f, p, r)
<1>1. d \in Devices /\ d.pending \in Seq(Ports) /\ Unique(d.pending)
  BY DEF Almost, Devices
<1>2. s \in Seq(Ports) /\ ToSet(s) = ToSet(d.pending) \ {p} /\ Unique(s)
  BY <1>1, Unlinked
<1> HIDE DEF s
<1>3. f \in Devices /\ f.req = d.req /\ f.pending = s /\ f.queue = d.queue
  BY <1>1, <1>2, SetPendingIs
<1> HIDE DEF f
<1>4. /\ e \in Devices /\ e.req[p] = r /\ e.pending = s /\ e.queue = d.queue
      /\ \A q \in Ports \ {p} : e.req[q] = d.req[q]
  BY <1>3, SetReqIs
<1> HIDE DEF e
<1>5. Pending(e) = Pending(d) \ {p}
  BY <1>2, <1>4 DEF Pending
<1>6. ASSUME NEW q \in Pending(e)  PROVE Ready(e.req[q])
  <2>1. q \in Pending(d) /\ q # p /\ q \in Ports
    BY <1>1, <1>5, PendingPorts
  <2>2. Ready(d.req[q])
    BY <2>1 DEF Almost
  <2>3. e.req[q] = d.req[q]
    BY <1>4, <2>1
  <2> QED  BY <2>2, <2>3
<1>7. Good(e)
  BY <1>2, <1>4, <1>6 DEF Good
<1> QED  BY <1>4, <1>5, <1>7 DEF e, f, s

\* A request whose command is over, with some flag.
LEMMA IdleRequest ==
    ASSUME NEW r \in Request, NEW flagged \in BOOLEAN
    PROVE  /\ [Idle(r) EXCEPT !.flagged = flagged] \in Request
           /\ [Idle(r) EXCEPT !.flagged = flagged].open = r.open
<1>1. 0 \in 0..MaxLen
  BY PortsAssumption
<1> QED  BY <1>1 DEF Idle, Request, Commands

\* Detach_Request leaves a list that can be polled, without the request.
LEMMA DetachGood ==
    ASSUME NEW p \in Ports, NEW d, Almost(d, p)
    PROVE  /\ Good(Detach_Request(d, p))
           /\ Pending(Detach_Request(d, p)) = Pending(d) \ {p}
           /\ Detach_Request(d, p).req[p].open
           /\ Detach_Request(d, p).queue = d.queue
<1>1. d \in Devices /\ d.req[p] \in Request /\ d.req[p].open
  BY DEF Almost, Devices
<1> DEFINE r == [Idle(d.req[p]) EXCEPT
                      !.flagged = d.req[p].flagged \/ p \in Pending(d)]
<1>2. Detach_Request(d, p)
        = SetReq(SetPending(d, RemoveFirst(d.pending, p)), p, r)
  <2> DEFINE s == RemoveFirst(d.pending, p)
  <2>1. Detach_Request(d, p) = [d EXCEPT !.pending = s, !.req[p] = r]
    BY Zenon DEF Detach_Request
  <2> HIDE DEF r, s
  <2>2. [d EXCEPT !.pending = s, !.req[p] = r] = SetReq(SetPending(d, s), p, r)
    BY <1>1 DEF SetReq, SetPending, Devices
  <2> QED  BY <2>1, <2>2 DEF s
<1>3. r \in Request /\ r.open
  <2>1. PICK flagged \in BOOLEAN :
           flagged = (d.req[p].flagged \/ p \in Pending(d))
    OBVIOUS
  <2>2. r = [Idle(d.req[p]) EXCEPT !.flagged = flagged]
    BY <2>1, Zenon
  <2> QED  BY <1>1, <2>2, IdleRequest
<1> HIDE DEF r
<1> QED  BY <1>2, <1>3, OffTheList

\* So does what Poll_Default does with a request that is done.
LEMMA FinishGood ==
    ASSUME NEW p \in Ports, NEW d, Almost(d, p)
    PROVE  /\ Good(Finish(d, p))
           /\ Pending(Finish(d, p)) = Pending(d) \ {p}
           /\ Finish(d, p).queue = d.queue
<1>1. d \in Devices /\ d.req[p] \in Request
  BY DEF Almost, Devices
<1> DEFINE r == [Idle(d.req[p]) EXCEPT !.flagged = FALSE]
<1>2. r \in Request
  BY <1>1, IdleRequest
<1>3. Finish(d, p)
        = SetReq(SetPending(d, RemoveFirst(d.pending, p)), p, r)
  BY <1>1 DEF Finish, SetReq, SetPending, Devices
<1> HIDE DEF r
<1> QED  BY <1>2, <1>3, OffTheList

\* A request that is ready may be put on the list.
LEMMA AttachGood ==
    ASSUME NEW p \in Ports, NEW d, Almost(d, p), Fit(d.req[p])
    PROVE  Good(Attach_Request(d, p))
<1>1. d \in Devices /\ d.req[p] \in Request /\ d.pending \in Seq(Ports)
  BY DEF Almost, Devices
<1>2. CASE p \in Pending(d)
  BY <1>2 DEF Almost, Good, Ready, Attach_Request
<1>3. CASE p \notin Pending(d)
  <2> DEFINE s == Append(d.pending, p)
             r == [d.req[p] EXCEPT !.flagged = TRUE]
             f == SetPending(d, s)
             e == SetReq(f, p, r)
  <2>1. Attach_Request(d, p) = e
    BY <1>1, <1>3 DEF Attach_Request, SetReq, SetPending, Devices
  <2>2. s \in Seq(Ports) /\ ToSet(s) = ToSet(d.pending) \union {p}
    <3>1. PICK n \in Nat : n = Len(d.pending)
      BY <1>1
    <3>2. /\ s \in Seq(Ports) /\ DOMAIN s = 1..(n + 1) /\ s[n + 1] = p
          /\ \A k \in 1..n : s[k] = d.pending[k]
      BY <1>1, <3>1
    <3>3. DOMAIN d.pending = 1..n
      BY <1>1, <3>1
    <3>4. 1..(n + 1) = 1..n \union {n + 1}
      OBVIOUS
    <3> HIDE DEF s
    <3>5. ToSet(s) = {s[k] : k \in 1..n} \union {s[n + 1]}
      BY <3>2, <3>4 DEF ToSet
    <3> QED  BY <3>2, <3>3, <3>5 DEF ToSet
  <2>3. Unique(s)
    BY <1>1, <1>3 DEF Unique, Almost, Pending, ToSet
  <2>4. r \in Request /\ Ready(r)
    BY <1>1 DEF Request, Almost, Ready, Fit
  <2> HIDE DEF s, r
  <2>5. f \in Devices /\ f.req = d.req /\ f.pending = s
    BY <1>1, <2>2, SetPendingIs
  <2> HIDE DEF f
  <2>6. /\ e \in Devices /\ e.req[p] = r /\ e.pending = s
        /\ \A q \in Ports \ {p} : e.req[q] = d.req[q]
    BY <2>4, <2>5, SetReqIs
  <2> HIDE DEF e
  <2>7. ASSUME NEW q \in Pending(e)  PROVE Ready(e.req[q])
    <3>1. CASE q = p
      BY <2>4, <2>6, <3>1
    <3>2. CASE q # p
      <4>1. q \in Pending(d) /\ q \in Ports
        BY <1>1, <2>2, <2>6, <3>2, PendingPorts DEF Pending
      <4>2. e.req[q] = d.req[q] /\ Ready(d.req[q])
        BY <2>6, <3>2, <4>1 DEF Almost
      <4> QED  BY <4>2
    <3> QED  BY <3>1, <3>2
  <2> QED  BY <2>1, <2>3, <2>6, <2>7 DEF Good
<1> QED  BY <1>2, <1>3

----------------------------------------------------------------------------
(* The commands.                                                           *)

\* The results are records.
LEMMA Results ==
    ASSUME NEW d
    PROVE  /\ Done(d).dev = d /\ Done(d).result = "done"
           /\ Pend(d).dev = d /\ Pend(d).result = "pend"
           /\ Error(d).dev = d /\ Error(d).result = "error"
BY DEF Done, Pend, Error

\* An outcome that is done, still pending or a failure.
LEMMA DoneOutcome ==
    ASSUME NEW p \in Ports, NEW d, NEW e, Almost(e, p),
           e.pending = d.pending,
           \/ d.req[p].command = "connect" /\ d.req[p].sock = "connect"
           \/ Told(d, e, p)
    PROVE  Outcome(d, p, Done(e))
BY Results DEF Outcome

\* A request that is still pending must be ready.
LEMMA PendOutcome ==
    ASSUME NEW p \in Ports, NEW d, NEW e, Almost(e, p),
           e.pending = d.pending, Fit(e.req[p])
    PROVE  Outcome(d, p, Pend(e))
BY Results DEF Outcome

\* A failure leaves the device alone or the request off the list.
LEMMA ErrorOutcome ==
    ASSUME NEW p \in Ports, NEW d, NEW e, Almost(e, p),
           e = d \/ p \notin Pending(e)
    PROVE  Outcome(d, p, Error(e))
BY Results DEF Outcome

\* A command changes the request and the line of its port.
LEMMA Updated ==
    ASSUME NEW p \in Ports, NEW d, Almost(d, p), NEW r \in Request,
           r.open = d.req[p].open, r.flagged = d.req[p].flagged,
           NEW l \in Lines
    PROVE  LET e == SetLine(SetReq(d, p, r), p, l)
           IN  /\ e \in Devices
               /\ Almost(e, p)
               /\ e.pending = d.pending /\ e.queue = d.queue
               /\ e.req[p] = r
<1> DEFINE f == SetReq(d, p, r)
           e == SetLine(f, p, l)
<1>1. d \in Devices
  BY DEF Almost
<1>2. /\ f \in Devices /\ f.pending = d.pending /\ f.queue = d.queue
      /\ f.req[p] = r
  BY <1>1, SetReqIs
<1>3. Almost(f, p)
  BY AlmostReq DEF Almost
<1> HIDE DEF f
<1>4. /\ e \in Devices /\ e.req = f.req /\ e.pending = f.pending
      /\ e.queue = f.queue
  BY <1>2, SetLineIs
<1> HIDE DEF e
<1>5. Almost(e, p)
  BY <1>3, <1>4, AlmostSame
<1> QED  BY <1>2, <1>4, <1>5 DEF e, f

\* An event for its port changes nothing else.
LEMMA EventUpdated ==
    ASSUME NEW p \in Ports, NEW d, Almost(d, p)
    PROVE  /\ Almost(Event(d, p), p)
           /\ Event(d, p).pending = d.pending
           /\ Event(d, p).req = d.req
           /\ Event(d, p).queue = <<p>> \o d.queue
<1>1. d \in Devices
  BY DEF Almost
<1> QED  BY <1>1, EventIs, AlmostSame

\* The parts of a device that a command reads.
LEMMA DeviceParts ==
    ASSUME NEW p \in Ports, NEW d, Almost(d, p)
    PROVE  /\ d \in Devices /\ d.req[p] \in Request /\ d.line[p] \in Lines
           /\ d.req[p].left \in 0..MaxLen /\ MaxLen \in Nat
           /\ Quiet \in Lines
BY PortsAssumption DEF Almost, Devices, Request, Lines, Quiet

\* Closing the socket does not touch the list or the queue.
LEMMA CloseSocketIs ==
    ASSUME NEW p \in Ports, NEW d, Almost(d, p)
    PROVE  /\ Almost(Close_Socket(d, p), p)
           /\ Close_Socket(d, p).pending = d.pending
           /\ Close_Socket(d, p).queue = d.queue
<1> DEFINE r == [d.req[p] EXCEPT !.sock = "none"]
<1>1. Close_Socket(d, p) = SetLine(SetReq(d, p, r), p, Quiet)
  BY DeviceParts DEF Close_Socket, SetLine, SetReq, Devices
<1>2. r \in Request /\ r.open = d.req[p].open /\ r.flagged = d.req[p].flagged
  BY DeviceParts DEF Request
<1> HIDE DEF r
<1> QED  BY <1>1, <1>2, Updated, DeviceParts

\* Starting to listen.
LEMMA ListenOutcome ==
    ASSUME NEW p \in Ports, NEW d, Almost(d, p), NEW o \in Listen_Socket(d, p)
    PROVE  Outcome(d, p, o)
<1>1. CASE o = Error(d)
  BY <1>1, ErrorOutcome
<1> DEFINE r == [d.req[p] EXCEPT !.sock = "listen", !.command = "create"]
           e == SetReq(d, p, r)
<1>2. CASE o = Pend([d EXCEPT !.req[p].sock = "listen",
                              !.req[p].command = "create"])
  <2>1. o = Pend(e)
    <3>1. [d EXCEPT !.req[p].sock = "listen", !.req[p].command = "create"] = e
      BY DeviceParts DEF SetReq, Devices
    <3> QED  BY <1>2, <3>1
  <2>2. /\ r \in Request /\ r.open = d.req[p].open
        /\ r.flagged = d.req[p].flagged /\ Fit(r)
    BY DeviceParts DEF Request, Commands, Fit
  <2> HIDE DEF r
  <2>3. Almost(e, p)
    BY <2>2, AlmostReq DEF Almost
  <2>4. e.pending = d.pending /\ e.req[p] = r
    BY <2>2, SetReqIs, DeviceParts
  <2> QED  BY <2>1, <2>2, <2>3, <2>4, PendOutcome
<1> QED  BY <1>1, <1>2 DEF Listen_Socket

\* A connection attempt, begun or polled.
LEMMA ConnectOutcome ==
    ASSUME NEW p \in Ports, NEW d, Almost(d, p), NEW o \in Connect_Socket(d, p),
           d.req[p].command = "connect"
    PROVE  Outcome(d, p, o)
<1>1. CASE d.req[p].sock = "connect" /\ o = Done(d)
  BY <1>1, DoneOutcome
<1>2. CASE o \in Listen_Socket(d, p)
  BY <1>2, ListenOutcome
<1>3. CASE o = Done(Event([d EXCEPT !.req[p].sock = "connect",
                                    !.line[p] = Quiet], p))
  <2> DEFINE r == [d.req[p] EXCEPT !.sock = "connect"]
             e == SetLine(SetReq(d, p, r), p, Quiet)
  <2>1. o = Done(Event(e, p))
    <3>1. [d EXCEPT !.req[p].sock = "connect", !.line[p] = Quiet] = e
      BY DeviceParts DEF SetReq, SetLine, Devices
    <3> QED  BY <1>3, <3>1
  <2>2. r \in Request /\ r.open = d.req[p].open /\ r.flagged = d.req[p].flagged
    BY DeviceParts DEF Request
  <2> HIDE DEF r
  <2>3. Almost(e, p) /\ e.pending = d.pending /\ e.queue = d.queue
    BY <2>2, Updated, DeviceParts
  <2> HIDE DEF e
  <2>4. /\ Almost(Event(e, p), p) /\ Event(e, p).pending = d.pending
        /\ Told(d, Event(e, p), p)
    BY <2>3, EventUpdated DEF Told
  <2> QED  BY <2>1, <2>4, DoneOutcome
<1>4. CASE o = Error(Detach_Request(Close_Socket(d, p), p))
  <2> DEFINE f == Close_Socket(d, p)
             e == Detach_Request(f, p)
  <2>1. Almost(f, p)
    BY CloseSocketIs
  <2>2. Good(e) /\ p \notin Pending(e) /\ e.req[p].open
    BY <2>1, DetachGood
  <2> HIDE DEF e
  <2>3. Almost(e, p)
    BY <2>2, GoodAlmost
  <2> QED  BY <1>4, <2>2, <2>3, ErrorOutcome DEF e
<1>5. CASE o = Pend([d EXCEPT !.req[p].sock = "attempt"])
  <2> DEFINE r == [d.req[p] EXCEPT !.sock = "attempt"]
             e == SetReq(d, p, r)
  <2>1. o = Pend(e)
    <3>1. [d EXCEPT !.req[p].sock = "attempt"] = e
      BY DeviceParts DEF SetReq, Devices
    <3> QED  BY <1>5, <3>1
  <2>2. /\ r \in Request /\ r.open = d.req[p].open
        /\ r.flagged = d.req[p].flagged /\ Fit(r)
    BY DeviceParts DEF Request, Fit
  <2> HIDE DEF r
  <2>3. Almost(e, p)
    BY <2>2, AlmostReq DEF Almost
  <2>4. e.pending = d.pending /\ e.req[p] = r
    BY <2>2, SetReqIs, DeviceParts
  <2> QED  BY <2>1, <2>2, <2>3, <2>4, PendOutcome
<1> QED  BY <1>1, <1>2, <1>3, <1>4, <1>5 DEF Connect_Socket, Connected, Refused

\* Transferring: the socket is connected and there is something to transfer.
Transferring(r) ==
    /\ r.sock = "connect"
    /\ r.command \notin {"connect", "create"}
    /\ r.command \in {"part", "write"} => r.left > 0

\* Sending all that is left, or a part.
LEMMA SendOutcome ==
    ASSUME NEW p \in Ports, NEW d, Almost(d, p), Transferring(d.req[p]),
           NEW o \in Send(d, p)
    PROVE  Outcome(d, p, o)
<1>1. PICK k \in 1..d.req[p].left :
         o = IF k = d.req[p].left THEN Done(Event(d, p))
             ELSE Pend([d EXCEPT !.req[p].left = @ - k, !.line[p].full = TRUE])
  BY DEF Send
<1>2. CASE o = Done(Event(d, p))
  BY <1>2, EventUpdated, DoneOutcome DEF Told
<1>3. CASE /\ k # d.req[p].left
           /\ o = Pend([d EXCEPT !.req[p].left = @ - k, !.line[p].full = TRUE])
  <2>1. PICK n \in Nat : n = d.req[p].left - k /\ n \in 0..MaxLen /\ n > 0
    BY <1>3, DeviceParts
  <2> DEFINE r == [d.req[p] EXCEPT !.left = n]
             l == [d.line[p] EXCEPT !.full = TRUE]
             e == SetLine(SetReq(d, p, r), p, l)
  <2>2. o = Pend(e)
    <3>1. [d EXCEPT !.req[p].left = @ - k, !.line[p].full = TRUE] = e
      BY <2>1, DeviceParts DEF SetReq, SetLine, Devices
    <3> QED  BY <1>3, <3>1
  <2>3. /\ r \in Request /\ r.open = d.req[p].open
        /\ r.flagged = d.req[p].flagged /\ Fit(r)
    BY <2>1, DeviceParts DEF Request, Fit, Transferring
  <2>4. l \in Lines
    BY DeviceParts DEF Lines
  <2> HIDE DEF r, l
  <2>5. Almost(e, p) /\ e.pending = d.pending /\ e.req[p] = r
    BY <2>3, <2>4, Updated
  <2> HIDE DEF e
  <2> QED  BY <2>2, <2>3, <2>5, PendOutcome
<1> QED  BY <1>1, <1>2, <1>3

\* Receiving some of the data.
LEMMA ByteOutcome ==
    ASSUME NEW p \in Ports, NEW d, Almost(d, p), Transferring(d.req[p])
    PROVE  Outcome(d, p, Received_Byte(d, p))
<1> DEFINE o == Received_Byte(d, p)
           l == [d.line[p] EXCEPT !.in = "quiet"]
<1>1. l \in Lines
  BY DeviceParts DEF Lines
<1>2. CASE d.req[p].command = "part" /\ d.req[p].left > 1
  <2>1. PICK n \in Nat : n = d.req[p].left - 1 /\ n \in 0..MaxLen /\ n > 0
    BY <1>2, DeviceParts
  <2> DEFINE r == [d.req[p] EXCEPT !.left = n, !.got = TRUE]
             e == SetLine(SetReq(d, p, r), p, l)
  <2>2. o = Pend(e)
    <3>1. [d EXCEPT !.req[p].left = @ - 1, !.req[p].got = TRUE,
                    !.line[p].in = "quiet"] = e
      BY <2>1, DeviceParts DEF SetReq, SetLine, Devices
    <3> QED  BY <1>2, <3>1 DEF Received_Byte
  <2>3. /\ r \in Request /\ r.open = d.req[p].open
        /\ r.flagged = d.req[p].flagged /\ Fit(r)
    BY <2>1, DeviceParts DEF Request, Fit, Transferring
  <2> HIDE DEF r, l
  <2>5. Almost(e, p) /\ e.pending = d.pending /\ e.req[p] = r
    BY <1>1, <2>3, Updated
  <2> HIDE DEF e, o
  <2> QED  BY <2>2, <2>3, <2>5, PendOutcome DEF o
<1>3. CASE ~(d.req[p].command = "part" /\ d.req[p].left > 1)
  <2> DEFINE e == SetLine(d, p, l)
  <2>1. o = Done(Event(e, p))
    <3>1. [d EXCEPT !.line[p].in = "quiet"] = e
      BY DeviceParts DEF SetLine, Devices
    <3> QED  BY <1>3, <3>1 DEF Received_Byte
  <2> HIDE DEF l
  <2>2. /\ e \in Devices /\ e.req = d.req /\ e.pending = d.pending
        /\ e.queue = d.queue
    BY <1>1, SetLineIs, DeviceParts
  <2> HIDE DEF e
  <2>3. Almost(e, p)
    BY <2>2, AlmostSame
  <2>4. /\ Almost(Event(e, p), p) /\ Event(e, p).pending = d.pending
        /\ Told(d, Event(e, p), p)
    BY <2>2, <2>3, EventUpdated DEF Told
  <2> HIDE DEF o
  <2> QED  BY <2>1, <2>4, DoneOutcome DEF o
<1> QED  BY <1>2, <1>3

\* Receiving the end of the connection.
LEMMA CloseOutcome ==
    ASSUME NEW p \in Ports, NEW d, Almost(d, p)
    PROVE  Outcome(d, p, Received_Close(d, p))
<1> DEFINE told == IF d.req[p].got THEN Event(d, p) ELSE d
           f == Event(told, p)
           e == Close_Socket(f, p)
<1>1. Received_Close(d, p) = Done(e)
  BY DEF Received_Close
<1>2. /\ Almost(told, p) /\ told.pending = d.pending
      /\ told.queue = d.queue \/ told.queue = <<p>> \o d.queue
  BY EventUpdated
<1> HIDE DEF told
<1>3. /\ Almost(f, p) /\ f.pending = d.pending
      /\ f.queue = <<p>> \o d.queue \/ f.queue = <<p>> \o (<<p>> \o d.queue)
  BY <1>2, EventUpdated
<1> HIDE DEF f
<1>4. Almost(e, p) /\ e.pending = d.pending /\ Told(d, e, p)
  BY <1>3, CloseSocketIs DEF Told
<1> HIDE DEF e
<1> QED  BY <1>1, <1>4, DoneOutcome

\* Transfer_Socket, whatever the line has.
LEMMA TransferOutcome ==
    ASSUME NEW p \in Ports, NEW d, Almost(d, p),
           d.req[p].command \notin {"connect", "create"}, Able(d.req[p]),
           NEW o \in Transfer_Socket(d, p)
    PROVE  Outcome(d, p, o)
<1>1. CASE d.req[p].sock # "connect"
  BY <1>1, ErrorOutcome DEF Transfer_Socket
<1>2. CASE d.req[p].sock = "connect"
  <2>1. Transferring(d.req[p]) /\ Fit(d.req[p])
    BY <1>2 DEF Transferring, Able, Fit
  <2>2. CASE o = Done(Event([d EXCEPT !.line[p].in = "fin"], p))
    <3> DEFINE l == [d.line[p] EXCEPT !.in = "fin"]
               e == SetLine(d, p, l)
    <3>1. o = Done(Event(e, p))
      <4>1. [d EXCEPT !.line[p].in = "fin"] = e
        BY DeviceParts DEF SetLine, Devices
      <4> QED  BY <2>2, <4>1
    <3>2. l \in Lines
      BY DeviceParts DEF Lines
    <3> HIDE DEF l
    <3>3. /\ e \in Devices /\ e.req = d.req /\ e.pending = d.pending
          /\ e.queue = d.queue
      BY <3>2, SetLineIs, DeviceParts
    <3> HIDE DEF e
    <3>4. Almost(e, p)
      BY <3>3, AlmostSame
    <3>5. /\ Almost(Event(e, p), p) /\ Event(e, p).pending = d.pending
          /\ Told(d, Event(e, p), p)
      BY <3>3, <3>4, EventUpdated DEF Told
    <3> QED  BY <3>1, <3>5, DoneOutcome
  <2>3. CASE o = Pend(d)
    BY <2>1, <2>3, PendOutcome
  <2>4. CASE o \in Send(d, p)
    BY <2>1, <2>4, SendOutcome
  <2>5. CASE o = Received_Close(d, p)
    BY <2>5, CloseOutcome
  <2>6. CASE o = Received_Byte(d, p)
    BY <2>1, <2>6, ByteOutcome
  <2> QED  BY <1>2, <2>2, <2>3, <2>4, <2>5, <2>6 DEF Transfer_Socket
<1> QED  BY <1>1, <1>2

\* A caller becomes a port of its own: a fresh one, so not one on the list.
LEMMA AcceptOutcome ==
    ASSUME NEW p \in Ports, NEW d, Almost(d, p), NEW o \in Accept_Socket(d, p),
           d.req[p].command = "create", d.req[p].sock = "listen"
    PROVE  Outcome(d, p, o)
<1>0. Fit(d.req[p])
  BY DEF Fit
<1>1. CASE o = Pend(d)
  BY <1>0, <1>1, PendOutcome
<1>2. CASE o = Error(d)
  BY <1>2, ErrorOutcome
<1> DEFINE r == [Fresh EXCEPT !.open = TRUE, !.sock = "connect"]
<1>3. ASSUME NEW c \in Ports, d.req[c] = Fresh,
             o = Pend(Event([d EXCEPT !.line[p] = Quiet, !.req[c] = r], p))
      PROVE  Outcome(d, p, o)
  <2> DEFINE e == SetLine(SetReq(d, c, r), p, Quiet)
  <2>1. o = Pend(Event(e, p))
    <3>1. [d EXCEPT !.line[p] = Quiet, !.req[c] = r] = e
      <4> HIDE DEF r
      <4> QED  BY DeviceParts DEF SetReq, SetLine, Devices
    <3> QED  BY <1>3, <3>1
  <2>2. r \in Request
    <3>1. Fresh \in Request
      BY PortsAssumption DEF Fresh, Request, Commands
    <3> QED  BY <3>1 DEF Request
  <2>3. c # p /\ c \notin Pending(d)
    <3>1. ~d.req[c].open
      BY <1>3 DEF Fresh
    <3> QED  BY <3>1 DEF Almost, Ready
  <2> HIDE DEF r
  <2> DEFINE f == SetReq(d, c, r)
  <2>4. /\ f \in Devices /\ f.pending = d.pending
        /\ \A q \in Ports \ {c} : f.req[q] = d.req[q]
    BY <2>2, SetReqIs, DeviceParts
  <2> HIDE DEF f
  <2>5. Almost(f, p) /\ f.req[p] = d.req[p]
    <3>1. f.req[p] = d.req[p] /\ Pending(f) = Pending(d)
      BY <2>3, <2>4 DEF Pending
    <3>2. ASSUME NEW q \in Pending(f), q # p  PROVE Ready(f.req[q])
      <4>1. q \in Pending(d) /\ q \in Ports /\ q # c
        BY <2>3, <3>1, PendingPorts, DeviceParts
      <4> QED  BY <2>4, <3>2, <4>1 DEF Almost
    <3> QED  BY <2>4, <3>1, <3>2 DEF Almost
  <2>6. e \in Devices /\ e.req = f.req /\ e.pending = d.pending
    BY <2>4, SetLineIs, DeviceParts DEF f
  <2> HIDE DEF e
  <2>7. Almost(e, p) /\ e.req[p] = d.req[p]
    BY <2>4, <2>5, <2>6, AlmostSame
  <2>8. /\ Almost(Event(e, p), p) /\ Event(e, p).pending = d.pending
        /\ Event(e, p).req[p] = d.req[p]
    BY <2>6, <2>7, EventUpdated
  <2> QED  BY <1>0, <2>1, <2>8, PendOutcome
<1> QED  BY <1>1, <1>2, <1>3 DEF Accept_Socket

\* Whatever command is run, its outcome is as described.
LEMMA CommandOutcome ==
    ASSUME NEW p \in Ports, NEW d, Almost(d, p), Able(d.req[p]),
           NEW o \in Command(d, p)
    PROVE  Outcome(d, p, o)
<1>1. CASE d.req[p].command = "connect"
  BY <1>1, ConnectOutcome DEF Command
<1>2. CASE d.req[p].command = "create"
  BY <1>2, AcceptOutcome DEF Command, Able
<1>3. CASE d.req[p].command \notin {"connect", "create"}
  BY <1>3, TransferOutcome DEF Command
<1> QED  BY <1>1, <1>2, <1>3

\* OS_Do_Device leaves the list in order, whatever the command does.
LEMMA DoDeviceGood ==
    ASSUME NEW p \in Ports, NEW d, Almost(d, p),
           NEW command \in Commands \ {"create"}, NEW len \in 0..MaxLen,
           command \in {"part", "write"} => len > 0,
           NEW e \in OS_Do_Device(d, p, command, len)
    PROVE  Good(e)
<1> DEFINE r == [d.req[p] EXCEPT !.command = command, !.left = len,
                                 !.got = FALSE]
           f == SetReq(d, p, r)
<1>1. PICK o \in Command(f, p) : e = Settle(o, p)
  <2>1. [d EXCEPT !.req[p].command = command, !.req[p].left = len,
                  !.req[p].got = FALSE] = f
    BY DeviceParts DEF SetReq, Devices
  <2> QED  BY <2>1 DEF OS_Do_Device
<1>2. /\ r \in Request /\ r.open = d.req[p].open
      /\ r.flagged = d.req[p].flagged /\ Able(r)
  BY DeviceParts DEF Request, Able
<1> HIDE DEF r
<1>3. Almost(f, p) /\ f.req[p] = r
  BY <1>2, AlmostReq, SetReqIs, DeviceParts DEF Almost
<1> HIDE DEF f
<1>4. Outcome(f, p, o)
  BY <1>1, <1>2, <1>3, CommandOutcome
<1>5. CASE o.result = "pend"
  BY <1>1, <1>4, <1>5, AttachGood DEF Settle, Outcome
<1>6. CASE o.result # "pend"
  BY <1>1, <1>4, <1>6, DetachGood DEF Settle, Outcome
<1> QED  BY <1>5, <1>6

----------------------------------------------------------------------------
(* The invariant.                                                          *)

Places == {"user", "loop", "awake", "handler", "timer", "poll"}
Waits == [ports : SUBSET Ports, timed : BOOLEAN, late : BOOLEAN]

\* The rest of the state: while an AWAKE function runs, some port is being
\* woken.
Rest ==
    /\ waked \subseteq Ports
    /\ pc \in Places
    /\ wait \in Waits
    /\ cursor \in Nat
    /\ cur \in Ports \union {NoPort}
    /\ pc = "handler" => cur \in Ports

IInv == Good(dev) /\ Rest

\* No request is pending at first.
LEMMA InitIInv == Init => IInv
<1> SUFFICES ASSUME Init  PROVE IInv
  OBVIOUS
<1>1. Fresh \in Request /\ Quiet \in Lines
  BY PortsAssumption DEF Fresh, Request, Commands, Quiet, Lines
<1>2. dev \in Devices /\ dev.pending = << >>
  BY <1>1 DEF Init, Devices
<1>3. Good(dev)
  BY <1>2 DEF Good, Unique, Pending, ToSet
<1>4. Rest
  BY DEF Init, Rest, Places, Waits, NoWait
<1> QED  BY <1>3, <1>4 DEF IInv

\* OPEN of a closed port, whose request is on no list.
LEMMA OpenGood ==
    ASSUME IInv, NEW p \in Ports, NEW how \in {"connect", "lookup", "listen"},
           Open(p, how)
    PROVE  Good(dev')
<1> DEFINE r == [dev.req[p] EXCEPT !.open = TRUE, !.sock = "open",
                                   !.listen = @ \/ how = "listen"]
           f == SetReq(dev, p, r)
           d == SetLine(f, p, Quiet)
<1>1. Good(dev) /\ dev \in Devices /\ dev.req[p] \in Request /\ Quiet \in Lines
  BY DEF IInv, Good, Devices, Quiet, Lines
<1>2. [dev EXCEPT !.req[p].open = TRUE, !.req[p].sock = "open",
                  !.req[p].listen = @ \/ how = "listen", !.line[p] = Quiet] = d
  <2>1. PICK listen : listen = (dev.req[p].listen \/ how = "listen")
    OBVIOUS
  <2> DEFINE x == [dev.req[p] EXCEPT !.open = TRUE, !.sock = "open",
                                     !.listen = listen]
  <2>2. [dev EXCEPT !.req[p].open = TRUE, !.req[p].sock = "open",
                    !.req[p].listen = listen, !.line[p] = Quiet]
           = SetLine(SetReq(dev, p, x), p, Quiet)
    BY <1>1 DEF SetReq, SetLine, Devices
  <2> QED  BY <2>1, <2>2, Zenon
<1>3. r \in Request /\ r.open
  <2>1. PICK listen \in BOOLEAN : listen = (dev.req[p].listen \/ how = "listen")
    OBVIOUS
  <2> DEFINE x == [dev.req[p] EXCEPT !.open = TRUE, !.sock = "open",
                                     !.listen = listen]
  <2>2. x \in Request /\ x.open
    BY <1>1 DEF Request
  <2> QED  BY <2>1, <2>2, Zenon
<1> HIDE DEF r
<1>4. p \notin Pending(dev)
  BY <1>1 DEF Open, Good, Ready
<1>5. Almost(f, p) /\ Good(f)
  <2>1. /\ f \in Devices /\ f.pending = dev.pending /\ f.req[p] = r
        /\ \A q \in Ports \ {p} : f.req[q] = dev.req[q]
    BY <1>1, <1>3, SetReqIs
  <2> HIDE DEF f
  <2>2. Pending(f) = Pending(dev)
    BY <2>1 DEF Pending
  <2>3. ASSUME NEW q \in Pending(f)  PROVE Ready(f.req[q])
    <3>1. q \in Pending(dev) /\ q # p /\ q \in Ports
      BY <1>1, <1>4, <2>2, PendingPorts
    <3> QED  BY <1>1, <2>1, <3>1 DEF Good
  <2>4. Good(f)
    BY <1>1, <2>1, <2>3 DEF Good
  <2> QED  BY <1>3, <2>1, <2>4, GoodAlmost
<1>6. d \in Devices /\ d.req = f.req /\ d.pending = f.pending
  BY <1>1, <1>5, SetLineIs DEF Good
<1> HIDE DEF f, d
<1>7. Almost(d, p) /\ Good(d)
  BY <1>5, <1>6, AlmostSame, GoodSame
<1>8. CASE how = "lookup"
  <2>1. dev' \in {d, Event(d, p)}
    BY <1>2, <1>8 DEF Open
  <2>2. Good(Event(d, p))
    BY <1>6, <1>7, EventIs, GoodSame
  <2> QED  BY <1>7, <2>1, <2>2
<1>9. CASE how # "lookup"
  <2>1. dev' \in OS_Do_Device(d, p, "connect", 0)
    BY <1>2, <1>9 DEF Open
  <2>2. 0 \in 0..MaxLen /\ "connect" \in Commands \ {"create"}
    BY PortsAssumption DEF Commands
  <2> QED  BY <1>7, <2>1, <2>2, DoDeviceGood
<1> QED  BY <1>8, <1>9

\* OPEN of an open port, over whatever is pending.
LEMMA OpenAgainGood ==
    ASSUME IInv, NEW p \in Ports, Open_Again(p)
    PROVE  Good(dev')
<1>1. Almost(dev, p) /\ dev' \in OS_Do_Device(dev, p, "connect", 0)
  BY GoodAlmost DEF IInv, Open_Again
<1>2. 0 \in 0..MaxLen /\ "connect" \in Commands \ {"create"}
  BY PortsAssumption DEF Commands
<1> QED  BY <1>1, <1>2, DoDeviceGood

\* READ and WRITE, over whatever is pending.
LEMMA ReadWriteGood ==
    ASSUME IInv, NEW p \in Ports, NEW command \in {"read", "part", "write"},
           NEW len \in 1..MaxLen, Read_Write(p, command, len)
    PROVE  Good(dev')
<1> DEFINE n == IF command = "read" THEN 0 ELSE len
<1>1. Almost(dev, p) /\ dev' \in OS_Do_Device(dev, p, command, n)
  BY GoodAlmost DEF IInv, Read_Write
<1>2. /\ n \in 0..MaxLen /\ command \in Commands \ {"create"}
      /\ command \in {"part", "write"} => n > 0
  BY PortsAssumption DEF Commands
<1> HIDE DEF n
<1> QED  BY <1>1, <1>2, DoDeviceGood

\* CLOSE, over whatever is pending.
LEMMA CloseGood ==
    ASSUME IInv, NEW p \in Ports, Close(p)
    PROVE  Good(dev')
<1> DEFINE f == Detach_Request(Close_Socket(dev, p), p)
           r == [f.req[p] EXCEPT !.open = FALSE]
<1>1. Almost(dev, p)
  BY GoodAlmost DEF IInv, Close
<1>2. Good(f) /\ p \notin Pending(f)
  BY <1>1, CloseSocketIs, DetachGood
<1>3. dev' = [f EXCEPT !.req[p].open = FALSE]
  BY DEF Close
<1> HIDE DEF f
<1>4. dev' = SetReq(f, p, r) /\ f \in Devices /\ f.req[p] \in Request
  BY <1>2, <1>3 DEF SetReq, Good, Devices
<1>5. r \in Request
  BY <1>4 DEF Request
<1> HIDE DEF r
<1>6. /\ dev' \in Devices /\ dev'.pending = f.pending
      /\ \A q \in Ports \ {p} : dev'.req[q] = f.req[q]
  BY <1>4, <1>5, SetReqIs
<1>7. Pending(dev') = Pending(f)
  BY <1>6 DEF Pending
<1>8. ASSUME NEW q \in Pending(dev')  PROVE Ready(dev'.req[q])
  <2>1. q \in Pending(f) /\ q # p /\ q \in Ports
    BY <1>2, <1>4, <1>7, PendingPorts
  <2> QED  BY <1>2, <1>6, <2>1 DEF Good
<1> QED  BY <1>2, <1>6, <1>8 DEF Good

\* A request that is polled is on the list and can be run.
LEMMA PolledOutcome ==
    ASSUME IInv, cursor < Len(dev.pending),
           NEW o \in Command(dev, dev.pending[cursor + 1])
    PROVE  LET p == dev.pending[cursor + 1]
           IN  /\ p \in Ports /\ p \in Pending(dev) /\ Ready(dev.req[p])
               /\ Outcome(dev, p, o)
<1>1. PICK p \in Ports : p = dev.pending[cursor + 1] /\ p \in Pending(dev)
  <2>1. dev.pending \in Seq(Ports) /\ cursor \in Nat
    BY DEF IInv, Good, Devices, Rest
  <2>2. cursor + 1 \in 1..Len(dev.pending)
    BY <2>1
  <2> QED  BY <2>1, <2>2 DEF Pending, ToSet
<1>2. Ready(dev.req[p])
  BY <1>1 DEF IInv, Good
<1>3. Almost(dev, p)
  BY <1>2, GoodAlmost DEF IInv, Ready
<1>4. Able(dev.req[p])
  BY <1>2 DEF Able, Ready, Fit
<1> QED  BY <1>1, <1>2, <1>3, <1>4, CommandOutcome

\* Poll_Default leaves the rest of the list in order.
LEMMA PollGood ==
    ASSUME IInv, Poll_Request
    PROVE  Good(dev')
<1> DEFINE p == dev.pending[cursor + 1]
<1>1. PICK o \in Command(dev, p) :
         \/ o.result = "done" /\ dev' = Finish(o.dev, p)
         \/ o.result = "pend" /\ dev' = o.dev
         \/ o.result = "error" /\ dev' = o.dev
  BY DEF Poll_Request
<1>2. /\ p \in Ports /\ p \in Pending(dev) /\ Ready(dev.req[p])
      /\ Outcome(dev, p, o)
  BY PolledOutcome DEF Poll_Request
<1> HIDE DEF p
<1>3. Almost(o.dev, p)
  BY <1>2 DEF Outcome
<1>4. CASE o.result = "done" /\ dev' = Finish(o.dev, p)
  BY <1>2, <1>3, <1>4, FinishGood
<1>5. CASE o.result = "pend" /\ dev' = o.dev
  <2>1. Ready(dev'.req[p])
    <3>1. Fit(dev'.req[p]) /\ dev'.req[p].open
      BY <1>2, <1>3, <1>5 DEF Outcome, Almost
    <3>2. p \in Pending(dev')
      BY <1>2, <1>5 DEF Outcome, Pending
    <3>3. dev'.req[p].flagged
      BY <1>3, <1>5, <3>2 DEF Almost
    <3> QED  BY <3>1, <3>3 DEF Ready
  <2> QED  BY <1>3, <1>5, <2>1 DEF Almost, Good
<1>6. CASE o.result = "error" /\ dev' = o.dev
  <2>1. CASE o.dev = dev
    BY <1>6, <2>1 DEF IInv
  <2>2. CASE p \notin Pending(o.dev)
    BY <1>3, <1>6, <2>2 DEF Almost, Good
  <2> QED  BY <1>2, <1>6, <2>1, <2>2 DEF Outcome
<1> QED  BY <1>1, <1>4, <1>5, <1>6

\* WAIT is over.
LEMMA LeaveRest ==
    ASSUME Leave, waked' \subseteq Ports
    PROVE  Rest'
BY DEF Leave, Rest, Places, Waits, NoWait

\* Every step keeps the list in order.
LEMMA NextGood == IInv /\ [Next]_vars => Good(dev')
<1> SUFFICES ASSUME IInv, [Next]_vars  PROVE Good(dev')
  OBVIOUS
<1>0. Good(dev) /\ dev \in Devices
  BY DEF IInv, Good
<1>1. ASSUME NEW p \in Ports, NEW how \in {"connect", "lookup", "listen"},
             Open(p, how)
      PROVE  Good(dev')
  BY <1>1, OpenGood
<1>2. ASSUME NEW p \in Ports, Open_Again(p) \/ Close(p)  PROVE Good(dev')
  BY <1>2, OpenAgainGood, CloseGood
<1>3. ASSUME NEW p \in Ports, NEW command \in {"read", "part", "write"},
             NEW len \in 1..MaxLen, Read_Write(p, command, len)
      PROVE  Good(dev')
  BY <1>3, ReadWriteGood
<1>4. ASSUME NEW ports \in SUBSET Ports, NEW timed \in BOOLEAN,
             Wait(ports, timed)
      PROVE  Good(dev')
  BY <1>0, <1>4 DEF Wait
<1>5. CASE Waiting
  <2>1. CASE Wake_Up
    <3>1. /\ dev.queue \in Seq(Ports) /\ dev.queue # << >>
          /\ dev' = [dev EXCEPT !.queue = Tail(@)]
      BY <1>0, <2>1 DEF Wake_Up, Awake_More, Devices
    <3>2. Tail(dev.queue) \in Seq(Ports)
      BY <3>1
    <3>3. /\ dev' \in Devices /\ dev'.req = dev.req
          /\ dev'.pending = dev.pending
      BY <1>0, <3>1, <3>2 DEF Devices
    <3> QED  BY <1>0, <3>3, GoodSame
  <2>2. CASE Poll_Request
    BY <2>2, PollGood
  <2>3. CASE \/ Wait_Turn \/ Wait_Halted \/ Wake_Up_Fails
             \/ \E awake \in BOOLEAN : Woke_Up(awake)
             \/ Awake_Done \/ Wait_Timer \/ Poll_Done
    <3>1. dev' = dev
      BY <2>3 DEF Wait_Turn, Wait_Halted, Wake_Up_Fails, Woke_Up, Awake_Done,
                  Wait_Timer, Poll_Done
    <3> QED  BY <1>0, <3>1
  <2> QED  BY <1>5, <2>1, <2>2, <2>3 DEF Waiting
<1>6. ASSUME NEW p \in Ports, Arrive(p) \/ Drain(p)  PROVE Good(dev')
  <2>1. CASE Arrive(p)
    <3>1. PICK in \in Arrivals(dev.req[p], dev.line[p]) :
             dev' = [dev EXCEPT !.line[p].in = in]
      BY <2>1 DEF Arrive
    <3> DEFINE l == [dev.line[p] EXCEPT !.in = in]
    <3>2. dev' = SetLine(dev, p, l) /\ dev.line[p] \in Lines
      BY <1>0, <3>1 DEF SetLine, Devices
    <3>3. l \in Lines
      BY <3>1, <3>2 DEF Arrivals, Lines
    <3> HIDE DEF l
    <3> QED  BY <1>0, <3>2, <3>3, SetLineIs, GoodSame
  <2>2. CASE Drain(p)
    <3> DEFINE l == [dev.line[p] EXCEPT !.full = FALSE]
    <3>1. dev' = SetLine(dev, p, l) /\ dev.line[p] \in Lines
      BY <1>0, <2>2 DEF Drain, SetLine, Devices
    <3>2. l \in Lines
      BY <3>1 DEF Lines
    <3> HIDE DEF l
    <3> QED  BY <1>0, <3>1, <3>2, SetLineIs, GoodSame
  <2> QED  BY <1>6, <2>1, <2>2
<1>7. CASE Tick
  BY <1>0, <1>7 DEF Tick
<1>8. CASE UNCHANGED vars
  BY <1>0, <1>8 DEF vars
<1> QED  BY <1>1, <1>2, <1>3, <1>4, <1>5, <1>6, <1>7, <1>8 DEF Next

\* Every step keeps the rest.
LEMMA NextRest == IInv /\ [Next]_vars => Rest'
<1> SUFFICES ASSUME IInv, [Next]_vars  PROVE Rest'
  OBVIOUS
<1>0. Rest /\ dev.queue \in Seq(Ports)
  BY DEF IInv, Good, Devices
<1>1. CASE Unmoved
  BY <1>0, <1>1 DEF Unmoved, Rest
<1>2. ASSUME NEW ports \in SUBSET Ports, NEW timed \in BOOLEAN,
             Wait(ports, timed)
      PROVE  Rest'
  BY <1>0, <1>2 DEF Wait, Rest, Places, Waits
<1>3. CASE Waiting
  <2>1. CASE Wait_Turn \/ Wait_Halted
    BY <1>0, <2>1, LeaveRest DEF Wait_Turn, Wait_Halted, Rest, Places
  <2>2. CASE Wake_Up
    <3>1. Head(dev.queue) \in Ports
      BY <1>0, <2>2 DEF Wake_Up, Awake_More
    <3> QED  BY <1>0, <2>2, <3>1 DEF Wake_Up, Rest, Places
  <2>3. CASE Wake_Up_Fails
    BY <1>0, <2>3, LeaveRest DEF Wake_Up_Fails, Rest
  <2>4. ASSUME NEW awake \in BOOLEAN, Woke_Up(awake)  PROVE Rest'
    BY <1>0, <2>4 DEF Woke_Up, Rest, Places
  <2>5. CASE Awake_Done
    BY <1>0, <2>5, LeaveRest DEF Awake_Done, Rest, Places
  <2>6. CASE Wait_Timer
    BY <1>0, <2>6, LeaveRest DEF Wait_Timer, Rest, Places
  <2>7. CASE Poll_Request
    <3>1. \/ UNCHANGED <<pc, wait, cursor, cur>>
          \/ cursor' = cursor + 1 /\ UNCHANGED <<pc, wait, cur>>
          \/ Leave
      BY <2>7 DEF Poll_Request
    <3>2. waked' = waked
      BY <2>7 DEF Poll_Request
    <3> QED  BY <1>0, <3>1, <3>2, LeaveRest DEF Rest
  <2>8. CASE Poll_Done
    BY <1>0, <2>8 DEF Poll_Done, Rest, Places
  <2> QED  BY <1>3, <2>1, <2>2, <2>3, <2>4, <2>5, <2>6, <2>7, <2>8
           DEF Waiting
<1>4. CASE Tick
  <2>1. wait' \in Waits
    BY <1>0, <1>4 DEF Tick, Rest, Waits
  <2> QED  BY <1>0, <1>4, <2>1 DEF Tick, Rest
<1>5. CASE UNCHANGED vars
  BY <1>0, <1>5 DEF vars, Rest
<1> QED  BY <1>1, <1>2, <1>3, <1>4, <1>5
         DEF Next, Open, Open_Again, Close, Read_Write, Arrive, Drain

\* The invariant holds in every reachable state.
THEOREM Invariance == Spec => []IInv
<1>1. IInv /\ [Next]_vars => IInv'
  BY NextGood, NextRest DEF IInv
<1> QED  BY <1>1, InitIInv, PTL DEF Spec

\* Poll_Default finds every request once on the list, with a command its
\* socket is ready for, whatever READ, WRITE, OPEN and CLOSE are issued over
\* pending requests and whatever fails.
THEOREM AlwaysPolledReady == Spec => []PolledReady
<1>1. IInv => PolledReady
  BY DEF IInv, Good, Rest, Devices, Unique, Ready, Fit, PolledReady, TypeOK,
         Places, Waits
<1> QED  BY <1>1, Invariance, PTL

\* The first events of a queue with news.
LEMMA NewsFirst ==
    ASSUME NEW s \in Seq(Ports), NEW p \in Ports, NEW t,
           t = <<p>> \o s \/ t = <<p>> \o (<<p>> \o s)
    PROVE  p \in ToSet(SubSeq(t, 1, Len(t) - Len(s)))
<1>1. PICK n \in Nat : n = Len(s)
  OBVIOUS
<1>2. /\ t \in Seq(Ports) /\ t[1] = p
      /\ Len(t) = n + 1 \/ Len(t) = n + 2
  <2> DEFINE y == <<p>> \o s
  <2>1. y \in Seq(Ports) /\ y[1] = p /\ Len(y) = n + 1
    BY <1>1
  <2> HIDE DEF y
  <2>2. /\ <<p>> \o y \in Seq(Ports) /\ (<<p>> \o y)[1] = p
        /\ Len(<<p>> \o y) = n + 2
    BY <1>1, <2>1
  <2>3. t = y \/ t = <<p>> \o y
    BY DEF y
  <2> QED  BY <2>1, <2>2, <2>3
<1>3. PICK m \in {1, 2} : m = Len(t) - Len(s) /\ m <= Len(t)
  BY <1>1, <1>2
<1> DEFINE x == SubSeq(t, 1, m)
<1>4. Len(x) = m /\ x[1] = t[1] /\ x \in Seq(Ports)
  BY <1>2, <1>3
<1> HIDE DEF x
<1>5. 1 \in DOMAIN x
  BY <1>3, <1>4
<1>6. p \in ToSet(x)
  BY <1>2, <1>4, <1>5 DEF ToSet
<1> QED  BY <1>3, <1>6 DEF x

\* The step that takes a request off the list has told its port.
LEMMA PollTells ==
    ASSUME IInv, Poll_Request, NEW p \in Pending(dev) \ Pending(dev')
    PROVE  \/ pc' = "user"
           \/ p \in ToSet(SubSeq(dev'.queue, 1,
                                 Len(dev'.queue) - Len(dev.queue)))
<1> DEFINE c == dev.pending[cursor + 1]
<1>1. PICK o \in Command(dev, c) :
         \/ o.result = "done" /\ dev' = Finish(o.dev, c)
         \/ o.result = "pend" /\ dev' = o.dev
         \/ o.result = "error" /\ dev' = o.dev /\ Leave
  BY DEF Poll_Request
<1>2. /\ c \in Ports /\ c \in Pending(dev) /\ Ready(dev.req[c])
      /\ Outcome(dev, c, o)
  BY PolledOutcome DEF Poll_Request
<1> HIDE DEF c
<1>3. CASE o.result = "done" /\ dev' = Finish(o.dev, c)
  <2>1. Almost(o.dev, c) /\ Pending(o.dev) = Pending(dev)
    BY <1>2, <1>3 DEF Outcome, Pending
  <2>2. Pending(dev') = Pending(dev) \ {c} /\ dev'.queue = o.dev.queue
    BY <1>2, <1>3, <2>1, FinishGood
  <2>3. p = c
    BY <2>2
  <2>4. ~(dev.req[c].command = "connect" /\ dev.req[c].sock = "connect")
    BY <1>2 DEF Ready, Fit
  <2>5. Told(dev, o.dev, c)
    BY <1>2, <1>3, <2>4 DEF Outcome
  <2>6. dev.queue \in Seq(Ports)
    BY DEF IInv, Good, Devices
  <2> QED  BY <1>2, <2>2, <2>3, <2>5, <2>6, NewsFirst DEF Told
<1>4. CASE o.result = "pend" /\ dev' = o.dev
  BY <1>2, <1>4 DEF Outcome, Pending
<1>5. CASE Leave
  BY <1>5 DEF Leave
<1> QED  BY <1>1, <1>3, <1>4, <1>5

\* A request that Poll_Default takes off the list has told its port about it
\* by an event, or the failure has ended the WAIT.
THEOREM CompletionAlwaysSeen == Spec => CompletionSeen
<1> DEFINE Seen ==
        pc = "poll" =>
          \A p \in Pending(dev) \ Pending(dev') :
             \/ pc' = "user"
             \/ p \in ToSet(SubSeq(dev'.queue, 1,
                                   Len(dev'.queue) - Len(dev.queue)))
<1>1. IInv /\ [Next]_vars => [Seen]_vars
  <2> SUFFICES ASSUME IInv, [Next]_vars, pc = "poll",
                      NEW p \in Pending(dev) \ Pending(dev'),
                      vars' # vars
               PROVE  \/ pc' = "user"
                      \/ p \in ToSet(SubSeq(dev'.queue, 1,
                                   Len(dev'.queue) - Len(dev.queue)))
    OBVIOUS
  <2>1. CASE Poll_Request
    BY <2>1, PollTells
  <2>2. CASE Poll_Done \/ Tick
    BY <2>2 DEF Poll_Done, Tick
  <2>3. ASSUME NEW q \in Ports, Arrive(q) \/ Drain(q)  PROVE FALSE
    <3>1. dev'.pending = dev.pending
      BY <2>3 DEF Arrive, Drain, IInv, Good, Devices
    <3> QED  BY <3>1 DEF Pending
  <2>4. CASE UNCHANGED vars
    BY <2>4
  <2> QED  BY <2>1, <2>2, <2>3, <2>4
           DEF Next, Waiting, Open, Open_Again, Close, Read_Write, Acts,
               Wait, Wait_Turn, Wait_Halted, Wake_Up, Wake_Up_Fails, Woke_Up,
               Awake_Done, Wait_Timer
<1> QED  BY <1>1, Invariance, PTL DEF Spec, CompletionSeen
============================================================================
