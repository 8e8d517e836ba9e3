------------------------- MODULE CheckpointsProofs -------------------------
(***************************************************************************)
(* Proofs about Checkpoints, for every set of series and every bound.      *)
(***************************************************************************)
EXTENDS Checkpoints, TLAPS

----------------------------------------------------------------------------
(* Sequences.                                                              *)

\* Chop keeps the first n entries: what a SET_SERIES_LEN to a shorter length
\* leaves.
LEMMA ChopFacts ==
    ASSUME NEW S, NEW q \in Seq(S), NEW n \in 0..Len(q)
    PROVE  /\ Chop(q, n) \in Seq(S)
           /\ Len(Chop(q, n)) = n
           /\ DOMAIN Chop(q, n) = 1..n
           /\ \A i \in 1..n : Chop(q, n)[i] = q[i]
  BY DEF Chop

\* Append keeps the old entries and adds one at the end.
LEMMA AppendFacts ==
    ASSUME NEW S, NEW q \in Seq(S), NEW x \in S
    PROVE  /\ Append(q, x) \in Seq(S)
           /\ Len(Append(q, x)) = Len(q) + 1
           /\ DOMAIN Append(q, x) = 1..(Len(q) + 1)
           /\ \A i \in 1..Len(q) : Append(q, x)[i] = q[i]
           /\ Append(q, x)[Len(q) + 1] = x
  OBVIOUS

\* A sequence lists no value twice.
Injective(q) == \A i, j \in DOMAIN q : q[i] = q[j] => i = j

\* Untrack_Manual_Series removes exactly s, keeps the entries distinct, and
\* moves nothing below the place where s was.
LEMMA UntrackFacts ==
    ASSUME NEW S, NEW m \in Seq(S), Injective(m),
           NEW p \in 1..Len(m)
    PROVE  LET u == Untrack_Manual_Series(m, m[p]) IN
           /\ u \in Seq(S)
           /\ Len(u) = Len(m) - 1
           /\ DOMAIN u = 1..(Len(m) - 1)
           /\ Range1(u) = Range1(m) \ {m[p]}
           /\ Injective(u)
           /\ \A i \in 1..(p - 1) : u[i] = m[i]
<1> DEFINE u == Untrack_Manual_Series(m, m[p])
<1>1. /\ u \in Seq(S) /\ Len(u) = Len(m) - 1 /\ DOMAIN u = 1..(Len(m) - 1)
      /\ \A i \in 1..(Len(m) - 1) : u[i] = IF i = p THEN m[Len(m)] ELSE m[i]
  BY DEF Untrack_Manual_Series, Injective
<1>2. \A i \in 1..(p - 1) : u[i] = m[i]
  BY <1>1
<1>3. Injective(u)
  BY <1>1 DEF Injective
<1>4. ASSUME NEW x \in Range1(u) PROVE x \in Range1(m) \ {m[p]}
  BY <1>1, <1>4 DEF Range1, Injective
<1>5. ASSUME NEW x \in Range1(m), x # m[p] PROVE x \in Range1(u)
  <2>1. PICK k \in 1..Len(m) : x = m[k]
    BY DEF Range1
  <2>2. CASE k = Len(m)
    <3>1. p \in 1..(Len(m) - 1) /\ u[p] = x
      BY <1>1, <1>5, <2>1, <2>2
    <3> QED BY <1>1, <3>1 DEF Range1
  <2>3. CASE k # Len(m)
    <3>1. k \in 1..(Len(m) - 1) /\ u[k] = x
      BY <1>1, <1>5, <2>1, <2>3
    <3> QED BY <1>1, <3>1 DEF Range1
  <2> QED BY <2>2, <2>3
<1> QED BY <1>1, <1>2, <1>3, <1>4, <1>5

----------------------------------------------------------------------------
(* The inductive invariant.                                                *)

\* A guard below a mark is on a series that recovery to that mark keeps.
GuardsBelowMarks ==
    \A i \in 1..Depth : \A n \in 1..scopes[i].guarded_len :
        status[guarded[n]] = "managed" \/ guarded[n] \in scopes[i].live

\* Only a run changes the mask, so the activation above any other one found
\* the mask that one had saved.
SigmaskNested ==
    \A i \in 1..(Depth - 1) :
        scopes[i].kind # "run" =>
            scopes[i + 1].saved_sigmask = scopes[i].saved_sigmask

\* An error is pending only at a trap.
ErrorAtTrap == error => Depth > 0 /\ scopes[Depth].kind = "trap"

IInv ==
    /\ TypeOK
    /\ ManualsTracked
    /\ CheckpointsNested
    /\ MarksKeepTheirSeries
    /\ GuardsLive
    /\ GuardsBelowMarks
    /\ SigmaskRestored
    /\ SigmaskNested
    /\ ErrorAtTrap

----------------------------------------------------------------------------
(* Steps of the innermost activation.  scopes is unchanged, so it is       *)
(* enough that nothing below the marks of the innermost one is disturbed.  *)

\* The fields of a snapshot.
LEMMA ScopeTypes ==
    ASSUME TypeOK
    PROVE  /\ Depth \in Nat
           /\ \A i \in 1..Depth :
                /\ scopes[i] \in Snapshot
                /\ scopes[i].manuals_len \in Nat
                /\ scopes[i].guarded_len \in Nat
                /\ scopes[i].height \in [Stacks -> Nat]
                /\ \A k \in Stacks : scopes[i].height[k] \in Nat
                /\ scopes[i].saved_sigmask \in BOOLEAN
                /\ scopes[i].live \subseteq Series
<1>1. Depth \in Nat /\ \A i \in 1..Depth : scopes[i] \in Snapshot
  BY DEF TypeOK, Depth
<1> QED BY <1>1 DEF Snapshot

\* Every mark lies at or below the innermost activation's floor.
LEMMA FloorBoundsMarks ==
    ASSUME IInv
    PROVE  /\ ManualsFloor \in 0..Len(manuals)
           /\ GuardedFloor \in 0..Len(guarded)
           /\ \A i \in 1..Depth : /\ scopes[i].manuals_len \in 0..ManualsFloor
                                  /\ scopes[i].guarded_len \in 0..GuardedFloor
                                  /\ \A k \in Stacks :
                                       scopes[i].height[k] \in 0..HeightFloor(k)
<1>0. TypeOK /\ CheckpointsNested /\ Len(manuals) \in Nat /\ Len(guarded) \in Nat
  BY DEF IInv, TypeOK
<1>1. CASE Depth = 0
  BY <1>0, <1>1 DEF ManualsFloor, GuardedFloor, HeightFloor
<1>2. CASE Depth > 0
  <2>1. Depth \in 1..Depth
    BY <1>0, <1>2, ScopeTypes
  <2>2. ManualsFloor = scopes[Depth].manuals_len
    BY <1>2 DEF ManualsFloor
  <2>3. GuardedFloor = scopes[Depth].guarded_len
    BY <1>2 DEF GuardedFloor
  <2>4. \A k \in Stacks : HeightFloor(k) = scopes[Depth].height[k]
    BY <1>2 DEF HeightFloor
  <2>5. \A i \in 1..Depth :
           /\ scopes[i].manuals_len <= scopes[Depth].manuals_len
           /\ scopes[i].guarded_len <= scopes[Depth].guarded_len
           /\ \A k \in Stacks : scopes[i].height[k] <= scopes[Depth].height[k]
    BY <1>0, <2>1 DEF CheckpointsNested
  <2>6. /\ scopes[Depth].manuals_len <= Len(manuals)
        /\ scopes[Depth].guarded_len <= Len(guarded)
    BY <1>0, <2>1 DEF CheckpointsNested
  <2> HIDE DEF Depth
  <2> QED BY <1>0, <2>1, <2>2, <2>3, <2>4, <2>5, <2>6, ScopeTypes
<1> QED BY <1>0, <1>1, <1>2, ScopeTypes

\* The guards below the floor.
LEMMA GuardedTypes ==
    ASSUME IInv
    PROVE  \A n \in 1..GuardedFloor :
               n \in DOMAIN guarded /\ guarded[n] \in Series
  BY FloorBoundsMarks DEF IInv, TypeOK

\* The counted stacks are at least as high as the innermost marks.
LEMMA HeightAboveFloor ==
    ASSUME IInv
    PROVE  \A k \in Stacks : height[k] >= HeightFloor(k)
<1>1. TypeOK /\ CheckpointsNested /\ \A k \in Stacks : height[k] \in Nat
  BY DEF IInv, TypeOK
<1>2. CASE Depth = 0
  BY <1>1, <1>2 DEF HeightFloor
<1>3. CASE Depth # 0
  <2>1. Depth \in 1..Depth
    BY <1>1, <1>3, ScopeTypes
  <2> QED BY <1>1, <1>3, <2>1, ScopeTypes DEF HeightFloor, CheckpointsNested
<1> QED BY <1>2, <1>3

\* A step that leaves scopes, and all below the floors, alone keeps the part
\* of the invariant that speaks of the marks.
LEMMA MarksKept ==
    ASSUME IInv, UNCHANGED <<scopes, haltable, error>>, TypeOK',
           Len(manuals') >= ManualsFloor,
           \A n \in 1..ManualsFloor : manuals'[n] = manuals[n],
           Len(guarded') >= GuardedFloor,
           \A n \in 1..GuardedFloor : guarded'[n] = guarded[n],
           \A k \in Stacks : height'[k] >= HeightFloor(k),
           \A n \in 1..GuardedFloor :
               status[guarded[n]] = "managed" =>
                   status'[guarded[n]] = "managed"
    PROVE  /\ CheckpointsNested'
           /\ MarksKeepTheirSeries'
           /\ GuardsBelowMarks'
           /\ SigmaskRestored'
           /\ SigmaskNested'
           /\ ErrorAtTrap'
<1>0. Depth' = Depth /\ TypeOK
  BY DEF Depth, IInv
<1>1. CheckpointsNested'
  <2>1. \A i \in 1..Depth :
           /\ scopes[i].manuals_len <= Len(manuals')
           /\ scopes[i].guarded_len <= Len(guarded')
           /\ \A k \in Stacks : scopes[i].height[k] <= height'[k]
    <3>1. /\ Len(manuals') \in Nat /\ Len(guarded') \in Nat
          /\ \A k \in Stacks : height'[k] \in Nat
      BY DEF TypeOK
    <3>2. /\ ManualsFloor \in Nat /\ GuardedFloor \in Nat
          /\ \A k \in Stacks : HeightFloor(k) \in Nat
      BY <1>0, ScopeTypes DEF ManualsFloor, GuardedFloor, HeightFloor
    <3> QED BY <3>1, <3>2, FloorBoundsMarks
  <2> QED BY <1>0, <2>1 DEF CheckpointsNested, IInv
<1>2. MarksKeepTheirSeries'
  <2> SUFFICES ASSUME NEW i \in 1..Depth
               PROVE  {manuals'[n] : n \in 1..scopes[i].manuals_len}
                        = scopes[i].live
    BY <1>0 DEF MarksKeepTheirSeries
  <2>1. \A n \in 1..scopes[i].manuals_len : manuals'[n] = manuals[n]
    BY <1>0, ScopeTypes, FloorBoundsMarks
  <2>2. {manuals'[n] : n \in 1..scopes[i].manuals_len}
          = {manuals[n] : n \in 1..scopes[i].manuals_len}
    BY <2>1
  <2> QED BY <2>2 DEF IInv, MarksKeepTheirSeries
<1>3. GuardsBelowMarks'
  <2> SUFFICES ASSUME NEW i \in 1..Depth, NEW n \in 1..scopes[i].guarded_len
               PROVE  status'[guarded'[n]] = "managed"
                        \/ guarded'[n] \in scopes[i].live
    BY <1>0 DEF GuardsBelowMarks
  <2>1. n \in 1..GuardedFloor
    BY <1>0, ScopeTypes, FloorBoundsMarks
  <2>2. status[guarded[n]] = "managed" \/ guarded[n] \in scopes[i].live
    BY DEF IInv, GuardsBelowMarks
  <2> QED BY <2>1, <2>2
<1>4. SigmaskRestored' /\ SigmaskNested' /\ ErrorAtTrap'
  BY <1>0 DEF IInv, SigmaskRestored, SigmaskNested, ErrorAtTrap
<1> QED BY <1>1, <1>2, <1>3, <1>4

\* Make_Series appends above every mark.
LEMMA MakeSeriesStep ==
    ASSUME IInv, UNCHANGED error, NEW s \in Series, Make_Series(s)
    PROVE  IInv'
<1>1. TypeOK' /\ status[s] = "free"
  BY AppendFacts DEF IInv, TypeOK, Make_Series
<1>2. /\ Len(manuals') = Len(manuals) + 1
      /\ DOMAIN manuals' = 1..(Len(manuals) + 1)
      /\ \A i \in 1..Len(manuals) : manuals'[i] = manuals[i]
      /\ manuals'[Len(manuals) + 1] = s
  BY AppendFacts DEF IInv, TypeOK, Make_Series
<1>3. manuals \in Seq(Series) /\ DOMAIN manuals = 1..Len(manuals) /\ Len(manuals) \in Nat
  BY DEF IInv, TypeOK
<1>4. ManualsTracked'
  <2>1. Manual' = Manual \cup {s}
    BY DEF IInv, TypeOK, Make_Series, Manual
  <2>2. s \notin Range1(manuals)
    BY <1>1 DEF IInv, ManualsTracked, Manual
  <2>3. Range1(manuals') = Range1(manuals) \cup {s}
    <3>1. \A x : x \in Range1(manuals') <=>
                \E i \in 1..(Len(manuals) + 1) : x = manuals'[i]
      BY <1>2 DEF Range1
    <3>2. \A x : x \in Range1(manuals) <=>
                \E i \in 1..Len(manuals) : x = manuals[i]
      BY <1>3 DEF Range1
    <3> QED BY <1>2, <1>3, <3>1, <3>2
  <2>4. \A i, j \in DOMAIN manuals' : manuals'[i] = manuals'[j] => i = j
    <3>1. \A i \in 1..Len(manuals) : manuals[i] # s
      BY <1>3, <2>2 DEF Range1
    <3>2. \A i, j \in 1..Len(manuals) : manuals[i] = manuals[j] => i = j
      BY <1>3 DEF IInv, ManualsTracked
    <3> QED BY <1>2, <1>3, <3>1, <3>2
  <2> QED BY <2>1, <2>3, <2>4 DEF IInv, ManualsTracked
<1>5. GuardsLive'
  BY DEF IInv, TypeOK, GuardsLive, Make_Series
<1>6. /\ CheckpointsNested' /\ MarksKeepTheirSeries' /\ GuardsBelowMarks'
      /\ SigmaskRestored' /\ SigmaskNested' /\ ErrorAtTrap'
  <2>1. UNCHANGED <<scopes, haltable, error, guarded, height>>
    BY DEF Make_Series
  <2>2. Len(manuals') >= ManualsFloor
        /\ \A n \in 1..ManualsFloor : manuals'[n] = manuals[n]
    BY <1>2, <1>3, FloorBoundsMarks
  <2>3. /\ Len(guarded') >= GuardedFloor
        /\ \A k \in Stacks : height'[k] >= HeightFloor(k)
    BY <2>1, FloorBoundsMarks, HeightAboveFloor DEF IInv, TypeOK
  <2>4. \A n \in 1..GuardedFloor :
           status[guarded[n]] = "managed" => status'[guarded[n]] = "managed"
    BY GuardedTypes DEF IInv, TypeOK, Make_Series
  <2> QED BY <1>1, <2>1, <2>2, <2>3, <2>4, MarksKept
<1> QED BY <1>1, <1>4, <1>5, <1>6 DEF IInv

\* An own series sits above every mark.
LEMMA OwnAboveFloor ==
    ASSUME IInv, NEW s \in Own
    PROVE  /\ s \in Series
           /\ \E p \in (ManualsFloor + 1)..Len(manuals) : manuals[p] = s
  BY FloorBoundsMarks DEF Own, IInv, TypeOK

\* Untracking an own series disturbs nothing below the floor.
LEMMA UntrackOwn ==
    ASSUME IInv, NEW s \in Own,
           NEW m \in Seq(Series), Injective(m),
           Len(m) >= Len(manuals),
           \A i \in 1..Len(manuals) : m[i] = manuals[i]
    PROVE  LET u == Untrack_Manual_Series(m, s) IN
           /\ u \in Seq(Series)
           /\ Range1(u) = Range1(m) \ {s}
           /\ Injective(u)
           /\ Len(u) >= ManualsFloor
           /\ \A n \in 1..ManualsFloor : u[n] = manuals[n]
<1>1. PICK p \in (ManualsFloor + 1)..Len(manuals) : manuals[p] = s
  BY OwnAboveFloor
<1>2. /\ Len(manuals) \in Nat /\ Len(m) \in Nat
      /\ ManualsFloor \in 0..Len(manuals)
  BY FloorBoundsMarks DEF IInv, TypeOK
<1>3. p \in 1..Len(m) /\ m[p] = s
  BY <1>1, <1>2
<1> DEFINE u == Untrack_Manual_Series(m, s)
<1>4. /\ u \in Seq(Series)
      /\ Len(u) = Len(m) - 1
      /\ Range1(u) = Range1(m) \ {s}
      /\ Injective(u)
      /\ \A i \in 1..(p - 1) : u[i] = m[i]
  BY <1>3, UntrackFacts
<1> HIDE DEF u
<1>5. Len(u) >= ManualsFloor
  BY <1>1, <1>2, <1>4
<1>6. \A n \in 1..ManualsFloor : u[n] = manuals[n]
  BY <1>1, <1>2, <1>4
<1> QED BY <1>4, <1>5, <1>6 DEF u

\* A release of an own series: Manage_Series, Free_Unmanaged_Series.
LEMMA ReleaseStep ==
    ASSUME IInv, UNCHANGED error, NEW s \in Own,
           Manage_Series(s) \/ Free_Unmanaged_Series(s)
    PROVE  IInv'
<1> DEFINE u == Untrack_Manual_Series(manuals, s)
<1>1. /\ s \in Series /\ status[s] = "manual"
      /\ manuals' = u
      /\ UNCHANGED <<scopes, haltable, error, guarded, height>>
      /\ \/ status' = [status EXCEPT ![s] = "managed"]
         \/ status' = [status EXCEPT ![s] = "free"] /\ s \notin Range1(guarded)
  BY OwnAboveFloor DEF Manage_Series, Free_Unmanaged_Series
<1>2. /\ u \in Seq(Series)
      /\ Range1(u) = Range1(manuals) \ {s}
      /\ Injective(u)
      /\ Len(u) >= ManualsFloor
      /\ \A n \in 1..ManualsFloor : u[n] = manuals[n]
  BY UntrackOwn DEF IInv, TypeOK, ManualsTracked, Injective
<1>3. TypeOK'
  BY <1>1, <1>2 DEF IInv, TypeOK
<1>4. ManualsTracked'
  <2>1. Manual' = Manual \ {s}
    BY <1>1 DEF IInv, TypeOK, Manual
  <2> QED BY <1>1, <1>2, <2>1 DEF IInv, ManualsTracked, Injective
<1>5. GuardsLive'
  <2>1. \A n \in DOMAIN guarded :
           /\ guarded[n] \in Series /\ status[guarded[n]] # "free"
           /\ s \notin Range1(guarded) => guarded[n] # s
    BY DEF IInv, TypeOK, GuardsLive, Range1
  <2>2. \A n \in DOMAIN guarded : status'[guarded[n]] # "free"
    BY <1>1, <2>1 DEF IInv, TypeOK
  <2> QED BY <1>1, <2>2 DEF GuardsLive
<1>6. \A n \in 1..GuardedFloor :
         status[guarded[n]] = "managed" => status'[guarded[n]] = "managed"
  BY <1>1, GuardedTypes DEF IInv, TypeOK
<1>7. /\ Len(guarded') >= GuardedFloor
      /\ \A k \in Stacks : height'[k] >= HeightFloor(k)
  BY <1>1, FloorBoundsMarks, HeightAboveFloor DEF IInv, TypeOK
<1>8. /\ CheckpointsNested' /\ MarksKeepTheirSeries' /\ GuardsBelowMarks'
      /\ SigmaskRestored' /\ SigmaskNested' /\ ErrorAtTrap'
  BY <1>1, <1>2, <1>3, <1>6, <1>7, MarksKept
<1> QED BY <1>3, <1>4, <1>5, <1>8 DEF IInv

\* rebRealloc of an own series: the new one is appended, the old one untracked.
LEMMA ReallocStep ==
    ASSUME IInv, UNCHANGED error, NEW s \in Own, NEW t \in Series,
           RL_rebRealloc(s, t)
    PROVE  IInv'
<1> DEFINE m == Append(manuals, t)
           u == Untrack_Manual_Series(m, s)
<1>1. /\ s \in Series /\ status[s] = "manual" /\ status[t] = "free"
      /\ manuals' = u
      /\ UNCHANGED <<scopes, haltable, error, guarded, height>>
      /\ status' = [status EXCEPT ![s] = "free", ![t] = "manual"]
      /\ s \notin Range1(guarded)
      /\ s # t
  BY OwnAboveFloor DEF RL_rebRealloc
<1>2. /\ m \in Seq(Series) /\ Len(m) = Len(manuals) + 1
      /\ DOMAIN m = 1..(Len(manuals) + 1)
      /\ \A i \in 1..Len(manuals) : m[i] = manuals[i]
      /\ m[Len(manuals) + 1] = t
      /\ DOMAIN manuals = 1..Len(manuals) /\ Len(manuals) \in Nat
  BY AppendFacts DEF IInv, TypeOK
<1>3. \A i \in 1..Len(manuals) : manuals[i] # t
  BY <1>1, <1>2 DEF IInv, ManualsTracked, Manual, Range1
<1>4. Injective(m)
  <2>1. \A i, j \in 1..Len(manuals) : manuals[i] = manuals[j] => i = j
    BY <1>2 DEF IInv, ManualsTracked
  <2> QED BY <1>2, <1>3, <2>1 DEF Injective
<1>5. Range1(m) = Range1(manuals) \cup {t}
  <2>1. \A x : x \in Range1(m) <=>
              \E i \in 1..(Len(manuals) + 1) : x = m[i]
    BY <1>2 DEF Range1
  <2>2. \A x : x \in Range1(manuals) <=>
              \E i \in 1..Len(manuals) : x = manuals[i]
    BY <1>2 DEF Range1
  <2> HIDE DEF m
  <2> QED BY <1>2, <2>1, <2>2
<1>6. /\ u \in Seq(Series)
      /\ Range1(u) = Range1(m) \ {s}
      /\ Injective(u)
      /\ Len(u) >= ManualsFloor
      /\ \A n \in 1..ManualsFloor : u[n] = manuals[n]
  <2> HIDE DEF m
  <2>1. Len(m) >= Len(manuals)
    BY <1>2
  <2> QED BY <1>2, <1>4, <2>1, UntrackOwn
<1> HIDE DEF m, u
<1>7. TypeOK'
  BY <1>1, <1>6 DEF IInv, TypeOK
<1>8. ManualsTracked'
  <2>1. Manual' = (Manual \ {s}) \cup {t}
    BY <1>1 DEF IInv, TypeOK, Manual
  <2>2. Range1(manuals') = (Range1(manuals) \cup {t}) \ {s}
    BY <1>1, <1>5, <1>6
  <2>3. Range1(manuals') = Manual'
    BY <1>1, <2>1, <2>2 DEF IInv, ManualsTracked
  <2> QED BY <1>1, <1>6, <2>3 DEF ManualsTracked, Injective
<1>9. GuardsLive'
  <2>1. \A n \in DOMAIN guarded :
           /\ guarded[n] \in Series /\ status[guarded[n]] # "free"
           /\ guarded[n] # s
    BY <1>1 DEF IInv, TypeOK, GuardsLive, Range1
  <2>2. \A n \in DOMAIN guarded : status'[guarded[n]] # "free"
    BY <1>1, <2>1 DEF IInv, TypeOK
  <2> QED BY <1>1, <2>2 DEF GuardsLive
<1>10. \A n \in 1..GuardedFloor :
         status[guarded[n]] = "managed" => status'[guarded[n]] = "managed"
  BY <1>1, GuardedTypes DEF IInv, TypeOK
<1>11. /\ Len(guarded') >= GuardedFloor
       /\ \A k \in Stacks : height'[k] >= HeightFloor(k)
  BY <1>1, FloorBoundsMarks, HeightAboveFloor DEF IInv, TypeOK
<1>12. /\ CheckpointsNested' /\ MarksKeepTheirSeries' /\ GuardsBelowMarks'
       /\ SigmaskRestored' /\ SigmaskNested' /\ ErrorAtTrap'
  BY <1>1, <1>6, <1>7, <1>10, <1>11, MarksKept
<1> QED BY <1>7, <1>8, <1>9, <1>12 DEF IInv

\* The collector takes a managed, unguarded series.
LEMMA SweepStep ==
    ASSUME IInv, UNCHANGED error, NEW s \in Series, Sweep_Series(s)
    PROVE  IInv'
<1>1. /\ status[s] = "managed" /\ s \notin Range1(guarded)
      /\ status' = [status EXCEPT ![s] = "free"]
      /\ UNCHANGED <<scopes, haltable, error, manuals, guarded, height>>
  BY DEF Sweep_Series
<1>2. TypeOK'
  BY <1>1 DEF IInv, TypeOK
<1>3. ManualsTracked'
  <2>1. Manual' = Manual
    BY <1>1 DEF IInv, TypeOK, Manual
  <2> QED BY <1>1, <2>1 DEF IInv, ManualsTracked, Range1
<1>4. \A n \in DOMAIN guarded :
         guarded[n] \in Series /\ guarded[n] # s /\ status[guarded[n]] # "free"
  BY <1>1 DEF IInv, TypeOK, GuardsLive, Range1
<1>5. \A n \in DOMAIN guarded : status'[guarded[n]] = status[guarded[n]]
  BY <1>1, <1>4 DEF IInv, TypeOK
<1>6. GuardsLive'
  BY <1>1, <1>4, <1>5 DEF GuardsLive
<1>7. \A n \in 1..GuardedFloor : n \in DOMAIN guarded
  BY GuardedTypes
<1>8. /\ Len(manuals') >= ManualsFloor /\ Len(guarded') >= GuardedFloor
      /\ \A k \in Stacks : height'[k] >= HeightFloor(k)
  BY <1>1, FloorBoundsMarks, HeightAboveFloor DEF IInv, TypeOK
<1>9. /\ CheckpointsNested' /\ MarksKeepTheirSeries' /\ GuardsBelowMarks'
      /\ SigmaskRestored' /\ SigmaskNested' /\ ErrorAtTrap'
  BY <1>1, <1>2, <1>5, <1>7, <1>8, MarksKept
<1> QED BY <1>2, <1>3, <1>6, <1>9 DEF IInv

\* Guards come and go above the innermost mark.
LEMMA GuardStep ==
    ASSUME IInv, UNCHANGED error,
           (\E s \in Series : Push_Guard_Node(s)) \/ DROP_GC_GUARD
    PROVE  IInv'
<1>1. /\ UNCHANGED <<scopes, haltable, error, status, manuals, height>>
      /\ guarded' \in Seq(Series)
      /\ Len(guarded') >= GuardedFloor
      /\ \A n \in 1..GuardedFloor : guarded'[n] = guarded[n]
      /\ \A n \in DOMAIN guarded' : status[guarded'[n]] # "free"
  <2>1. guarded \in Seq(Series) /\ DOMAIN guarded = 1..Len(guarded)
        /\ Len(guarded) \in Nat /\ GuardedFloor \in 0..Len(guarded)
        /\ \A n \in 1..Len(guarded) : status[guarded[n]] # "free"
    BY FloorBoundsMarks DEF IInv, TypeOK, GuardsLive
  <2>2. ASSUME NEW s \in Series, Push_Guard_Node(s) PROVE <1>1!1
                 /\ <1>1!2 /\ <1>1!3 /\ <1>1!4 /\ <1>1!5
    <3>1. guarded' = Append(guarded, s) /\ status[s] # "free"
          /\ UNCHANGED <<scopes, haltable, error, status, manuals, height>>
      BY <2>2 DEF Push_Guard_Node
    <3>2. /\ guarded' \in Seq(Series) /\ Len(guarded') = Len(guarded) + 1
          /\ DOMAIN guarded' = 1..(Len(guarded) + 1)
          /\ \A i \in 1..Len(guarded) : guarded'[i] = guarded[i]
          /\ guarded'[Len(guarded) + 1] = s
      BY <2>1, <3>1, AppendFacts
    <3> QED BY <2>1, <3>1, <3>2
  <2>3. ASSUME DROP_GC_GUARD PROVE <1>1!1
                 /\ <1>1!2 /\ <1>1!3 /\ <1>1!4 /\ <1>1!5
    <3>1. guarded' = Chop(guarded, Len(guarded) - 1)
          /\ Len(guarded) - 1 \in GuardedFloor..Len(guarded)
          /\ UNCHANGED <<scopes, haltable, error, status, manuals, height>>
      BY <2>1, <2>3 DEF DROP_GC_GUARD
    <3>a. Len(guarded) - 1 \in 0..Len(guarded)
      BY <2>1, <3>1
    <3>2. /\ guarded' \in Seq(Series) /\ Len(guarded') = Len(guarded) - 1
          /\ DOMAIN guarded' = 1..(Len(guarded) - 1)
          /\ \A i \in 1..(Len(guarded) - 1) : guarded'[i] = guarded[i]
      BY <2>1, <3>1, <3>a, ChopFacts
    <3> QED BY <2>1, <3>1, <3>2
  <2> QED BY <2>2, <2>3
<1>2. TypeOK'
  BY <1>1 DEF IInv, TypeOK
<1>3. ManualsTracked' /\ GuardsLive'
  BY <1>1 DEF IInv, ManualsTracked, GuardsLive, Manual, Range1
<1>4. /\ Len(manuals') >= ManualsFloor
      /\ \A k \in Stacks : height'[k] >= HeightFloor(k)
  BY <1>1, FloorBoundsMarks, HeightAboveFloor DEF IInv, TypeOK
<1>5. /\ CheckpointsNested' /\ MarksKeepTheirSeries' /\ GuardsBelowMarks'
      /\ SigmaskRestored' /\ SigmaskNested' /\ ErrorAtTrap'
  BY <1>1, <1>2, <1>4, MarksKept
<1> QED BY <1>2, <1>3, <1>5 DEF IInv

\* So do the entries of the stacks that are only counted.
LEMMA HeightStep ==
    ASSUME IInv, UNCHANGED error, NEW k \in Stacks, Push(k) \/ Drop(k)
    PROVE  IInv'
<1>1. UNCHANGED <<scopes, haltable, error, status, manuals, guarded>>
  BY DEF Push, Drop
<1>2. /\ height \in [Stacks -> Nat]
      /\ \A j \in Stacks : height[j] >= HeightFloor(j) /\ HeightFloor(j) \in Nat
  BY HeightAboveFloor, ScopeTypes DEF IInv, TypeOK, HeightFloor
<1>3. \/ height' = [height EXCEPT ![k] = @ + 1]
      \/ height[k] > HeightFloor(k) /\ height' = [height EXCEPT ![k] = @ - 1]
  BY DEF Push, Drop
<1>4. /\ height' \in [Stacks -> Nat]
      /\ \A j \in Stacks : height'[j] >= HeightFloor(j)
  BY <1>2, <1>3
<1>5. TypeOK' /\ ManualsTracked' /\ GuardsLive'
  BY <1>1, <1>4 DEF IInv, TypeOK, ManualsTracked, GuardsLive, Manual, Range1
<1>6. Len(manuals') >= ManualsFloor /\ Len(guarded') >= GuardedFloor
  BY <1>1, FloorBoundsMarks DEF IInv, TypeOK
<1>7. /\ CheckpointsNested' /\ MarksKeepTheirSeries' /\ GuardsBelowMarks'
      /\ SigmaskRestored' /\ SigmaskNested' /\ ErrorAtTrap'
  BY <1>1, <1>4, <1>5, <1>6, MarksKept
<1> QED BY <1>5, <1>7 DEF IInv

----------------------------------------------------------------------------
(* Steps that enter or leave an activation.                                *)

\* A new snapshot: all it records is true of the present state.
LEMMA SnapStep ==
    ASSUME IInv, ~error, UNCHANGED error,
           NEW kind \in {"trap", "frame", "run"},
           scopes' = Append(scopes, Snap_State_Core(kind)),
           UNCHANGED <<status, manuals, guarded, height>>,
           haltable' \in BOOLEAN,
           kind # "run" => haltable' = haltable
    PROVE  IInv'
<1> DEFINE s == Snap_State_Core(kind)
<1>1. /\ s \in Snapshot
      /\ s.kind = kind
      /\ s.manuals_len = Len(manuals) /\ s.guarded_len = Len(guarded)
      /\ s.height = height /\ s.saved_sigmask = haltable /\ s.live = Manual
  BY DEF IInv, TypeOK, Snapshot, Snap_State_Core, Manual
<1>2. /\ scopes' \in Seq(Snapshot)
      /\ Depth' = Depth + 1
      /\ \A i \in 1..Depth : scopes'[i] = scopes[i]
      /\ scopes'[Depth + 1] = s
  BY <1>1, AppendFacts DEF IInv, TypeOK, Depth
<1>3. /\ Depth \in Nat /\ Len(manuals) \in Nat /\ Len(guarded) \in Nat
      /\ height \in [Stacks -> Nat]
      /\ DOMAIN manuals = 1..Len(manuals)
      /\ DOMAIN guarded = 1..Len(guarded)
      /\ \A n \in 1..Len(guarded) : guarded[n] \in Series
  BY ScopeTypes DEF IInv, TypeOK
<1> HIDE DEF s
<1>a. \A i \in 1..(Depth + 1) : i = Depth + 1 \/ i \in 1..Depth
  BY <1>3
<1>4. TypeOK'
  BY <1>2 DEF IInv, TypeOK
<1>5. ManualsTracked' /\ GuardsLive'
  BY DEF IInv, ManualsTracked, GuardsLive, Manual, Range1
<1>6. CheckpointsNested'
  <2>2. ASSUME NEW i \in 1..(Depth + 1)
        PROVE  /\ scopes'[i].manuals_len <= Len(manuals)
               /\ scopes'[i].guarded_len <= Len(guarded)
               /\ \A k \in Stacks : scopes'[i].height[k] <= height[k]
    <3>1. CASE i = Depth + 1
      <4>1. \A k \in Stacks : height[k] \in Nat /\ height[k] <= height[k]
        BY <1>3
      <4>2. scopes'[i] = s
        BY <1>2, <3>1
      <4>3. Len(manuals) <= Len(manuals) /\ Len(guarded) <= Len(guarded)
        BY <1>3
      <4> QED BY <1>1, <4>1, <4>2, <4>3
    <3>2. CASE i \in 1..Depth
      BY <1>2, <3>2 DEF IInv, CheckpointsNested
    <3> QED BY <1>a, <3>1, <3>2
  <2>3. ASSUME NEW i \in 1..(Depth + 1), NEW j \in 1..(Depth + 1), i <= j
        PROVE  /\ scopes'[i].manuals_len <= scopes'[j].manuals_len
               /\ scopes'[i].guarded_len <= scopes'[j].guarded_len
               /\ \A k \in Stacks :
                    scopes'[i].height[k] <= scopes'[j].height[k]
    <3>1. CASE j = Depth + 1
      BY <1>1, <1>2, <2>2, <3>1
    <3>2. CASE j \in 1..Depth
      <4>1. i \in 1..Depth
        BY <1>3, <2>3, <3>2
      <4> QED BY <1>2, <2>3, <3>2, <4>1 DEF IInv, CheckpointsNested
    <3> QED BY <1>a, <3>1, <3>2
  <2> QED BY <1>2, <2>2, <2>3 DEF CheckpointsNested
<1>7. MarksKeepTheirSeries'
  <2> SUFFICES ASSUME NEW i \in 1..(Depth + 1)
               PROVE  {manuals[n] : n \in 1..scopes'[i].manuals_len}
                        = scopes'[i].live
    BY <1>2 DEF MarksKeepTheirSeries
  <2>1. CASE i \in 1..Depth
    BY <1>2, <2>1 DEF IInv, MarksKeepTheirSeries
  <2>2. CASE i = Depth + 1
    BY <1>1, <1>2, <1>3, <2>2 DEF IInv, ManualsTracked, Range1
  <2> QED BY <1>a, <2>1, <2>2
<1>8. GuardsBelowMarks'
  <2> SUFFICES ASSUME NEW i \in 1..(Depth + 1),
                      NEW n \in 1..scopes'[i].guarded_len
               PROVE  status[guarded[n]] = "managed"
                        \/ guarded[n] \in scopes'[i].live
    BY <1>2 DEF GuardsBelowMarks
  <2>1. CASE i \in 1..Depth
    BY <1>2, <2>1 DEF IInv, GuardsBelowMarks
  <2>2. CASE i = Depth + 1
    <3>1. n \in DOMAIN guarded /\ guarded[n] \in Series
      BY <1>1, <1>2, <1>3, <2>2
    <3> QED BY <1>1, <1>2, <2>2, <3>1 DEF IInv, TypeOK, GuardsLive, Manual
  <2> QED BY <1>a, <2>1, <2>2
<1>9. SigmaskRestored' /\ ErrorAtTrap'
  BY <1>1, <1>2, <1>3 DEF IInv, SigmaskRestored, ErrorAtTrap
<1>10. SigmaskNested'
  <2> SUFFICES ASSUME NEW i \in 1..Depth, scopes'[i].kind # "run"
               PROVE  scopes'[i + 1].saved_sigmask = scopes'[i].saved_sigmask
    <3>1. 1..(Depth' - 1) = 1..Depth
      BY <1>2, <1>3
    <3> QED BY <3>1 DEF SigmaskNested
  <2>1. CASE i = Depth
    <3>1. Depth > 0 /\ scopes[Depth].kind # "run"
      <4>1. scopes'[i] = scopes[i]
        BY <1>2
      <4> QED BY <1>3, <2>1, <4>1
    <3>2. haltable = scopes[Depth].saved_sigmask
      BY <3>1 DEF IInv, SigmaskRestored
    <3>3. scopes'[i + 1] = s /\ scopes'[i] = scopes[Depth]
      BY <1>2, <2>1
    <3> QED BY <1>1, <3>2, <3>3
  <2>2. CASE i # Depth
    <3>1. i \in 1..(Depth - 1) /\ i + 1 \in 1..Depth
      BY <1>3, <2>2
    <3> QED BY <1>2, <3>1 DEF IInv, SigmaskNested
  <2> QED BY <2>1, <2>2
<1> QED BY <1>4, <1>5, <1>6, <1>7, <1>8, <1>9, <1>10 DEF IInv

\* Forgetting the innermost snapshots keeps all that is said of the others.
LEMMA CutScopes ==
    ASSUME IInv, NEW n \in 0..Depth, scopes' = Chop(scopes, n),
           UNCHANGED <<status, manuals, guarded, height>>,
           haltable' \in BOOLEAN, error' \in BOOLEAN
    PROVE  /\ TypeOK' /\ ManualsTracked' /\ CheckpointsNested'
           /\ MarksKeepTheirSeries' /\ GuardsLive' /\ GuardsBelowMarks'
           /\ SigmaskNested'
           /\ Depth' = n /\ \A i \in 1..n : scopes'[i] = scopes[i]
<1>1. /\ scopes' \in Seq(Snapshot) /\ Depth' = n
      /\ \A i \in 1..n : scopes'[i] = scopes[i]
  BY ChopFacts DEF IInv, TypeOK, Depth
<1>2. Depth \in Nat /\ \A i \in 1..n : i \in 1..Depth
  BY ScopeTypes DEF IInv
<1>3. TypeOK' /\ ManualsTracked' /\ GuardsLive'
  BY <1>1 DEF IInv, TypeOK, ManualsTracked, GuardsLive, Manual, Range1
<1>4. CheckpointsNested'
  BY <1>1, <1>2 DEF IInv, CheckpointsNested
<1>5. MarksKeepTheirSeries' /\ GuardsBelowMarks'
  BY <1>1, <1>2 DEF IInv, MarksKeepTheirSeries, GuardsBelowMarks
<1>6. SigmaskNested'
  <2>1. \A i \in 1..(n - 1) : i \in 1..(Depth - 1) /\ i \in 1..n /\ i + 1 \in 1..n
    BY <1>2
  <2> QED BY <1>1, <1>2, <2>1 DEF IInv, SigmaskNested
<1> QED BY <1>1, <1>3, <1>4, <1>5, <1>6

\* An activation returns: the mask becomes, or already is, the one it saved.
LEMMA ReturnStep ==
    ASSUME IInv, ~error, UNCHANGED error, Depth > 0,
           scopes' = Chop(scopes, Depth - 1),
           UNCHANGED <<status, manuals, guarded, height>>,
           haltable' = scopes[Depth].saved_sigmask
    PROVE  IInv'
<1>1. Depth \in Nat /\ Depth - 1 \in 0..Depth /\ Depth \in 1..Depth
      /\ haltable' \in BOOLEAN /\ error' \in BOOLEAN
  BY ScopeTypes DEF IInv, TypeOK
<1>2. /\ TypeOK' /\ ManualsTracked' /\ CheckpointsNested'
      /\ MarksKeepTheirSeries' /\ GuardsLive' /\ GuardsBelowMarks'
      /\ SigmaskNested'
      /\ Depth' = Depth - 1 /\ \A i \in 1..(Depth - 1) : scopes'[i] = scopes[i]
  BY <1>1, CutScopes
<1>3. SigmaskRestored'
  <2> SUFFICES ASSUME Depth - 1 > 0, scopes'[Depth - 1].kind # "run"
               PROVE  haltable' = scopes'[Depth - 1].saved_sigmask
    BY <1>2 DEF SigmaskRestored
  <2>1. Depth - 1 \in 1..(Depth - 1) /\ (Depth - 1) + 1 = Depth
    BY <1>1
  <2> QED BY <1>2, <2>1 DEF IInv, SigmaskNested
<1>4. ErrorAtTrap'
  BY DEF ErrorAtTrap
<1> QED BY <1>2, <1>3, <1>4 DEF IInv

\* Fail_Core drops the activations above the trap.
LEMMA FailStep ==
    ASSUME IInv, Fail_Core
    PROVE  IInv'
<1>1. PICK i \in 1..Depth :
         /\ scopes[i].kind = "trap" /\ scopes' = Chop(scopes, i) /\ error'
         /\ UNCHANGED <<status, manuals, guarded, height, haltable>>
         /\ error' = TRUE
  BY DEF Fail_Core, Saved_State, Traps
<1>2. Depth \in Nat /\ i \in 0..Depth /\ i \in 1..i /\ haltable' \in BOOLEAN
      /\ error' \in BOOLEAN
  BY <1>1, ScopeTypes DEF IInv, TypeOK
<1>3. /\ TypeOK' /\ ManualsTracked' /\ CheckpointsNested'
      /\ MarksKeepTheirSeries' /\ GuardsLive' /\ GuardsBelowMarks'
      /\ SigmaskNested'
      /\ Depth' = i /\ \A j \in 1..i : scopes'[j] = scopes[j]
  BY <1>1, <1>2, CutScopes
<1>4. SigmaskRestored' /\ ErrorAtTrap'
  BY <1>1, <1>2, <1>3 DEF SigmaskRestored, ErrorAtTrap
<1> QED BY <1>3, <1>4 DEF IInv

\* Trapped_Helper puts the trap's snapshot back, and what it leaves manual is
\* exactly what was manual when the trap was pushed.
LEMMA TrappedStep ==
    ASSUME IInv, Trapped_Helper
    PROVE  IInv' /\ Manual' = scopes[Depth].live
<1> DEFINE s == scopes[Depth]
           above == (s.manuals_len + 1)..Len(manuals)
<1>1. /\ Depth \in Nat /\ Depth \in 1..Depth /\ Depth - 1 \in 0..Depth
      /\ s \in Snapshot
      /\ s.manuals_len \in Nat /\ s.guarded_len \in Nat
      /\ s.height \in [Stacks -> Nat] /\ s.saved_sigmask \in BOOLEAN
  BY ScopeTypes DEF IInv, ErrorAtTrap, Trapped_Helper, Recovery
<1>2. /\ manuals \in Seq(Series) /\ guarded \in Seq(Series)
      /\ Len(manuals) \in Nat /\ Len(guarded) \in Nat
      /\ DOMAIN manuals = 1..Len(manuals) /\ DOMAIN guarded = 1..Len(guarded)
      /\ status \in [Series -> {"free", "manual", "managed"}]
      /\ scopes \in Seq(Snapshot)
  BY DEF IInv, TypeOK
<1>3. s.manuals_len \in 0..Len(manuals) /\ s.guarded_len \in 0..Len(guarded)
  BY <1>1, <1>2 DEF IInv, CheckpointsNested
<1>4. /\ status' = [x \in Series |->
                     IF \E n \in above : manuals[n] = x
                     THEN "free" ELSE status[x]]
      /\ manuals' = Chop(manuals, s.manuals_len)
      /\ guarded' = Chop(guarded, s.guarded_len)
      /\ height' = s.height
      /\ haltable' = s.saved_sigmask
      /\ scopes' = Chop(scopes, Depth - 1)
      /\ error' = FALSE
  BY DEF Trapped_Helper, Recovery
<1>5. /\ manuals' \in Seq(Series) /\ Len(manuals') = s.manuals_len
      /\ DOMAIN manuals' = 1..s.manuals_len
      /\ \A n \in 1..s.manuals_len : manuals'[n] = manuals[n]
  <2> HIDE DEF s, above
  <2> DEFINE len == s.manuals_len
  <2>1. manuals' = Chop(manuals, len) /\ len \in 0..Len(manuals)
    BY <1>3, <1>4
  <2> HIDE DEF len
  <2>2. /\ Chop(manuals, len) \in Seq(Series) /\ Len(Chop(manuals, len)) = len
        /\ DOMAIN Chop(manuals, len) = 1..len
        /\ \A n \in 1..len : Chop(manuals, len)[n] = manuals[n]
    BY <1>2, <2>1, ChopFacts
  <2> QED BY <2>1, <2>2 DEF len
<1>6. /\ guarded' \in Seq(Series) /\ Len(guarded') = s.guarded_len
      /\ DOMAIN guarded' = 1..s.guarded_len
      /\ \A n \in 1..s.guarded_len : guarded'[n] = guarded[n]
  <2> HIDE DEF s, above
  <2> DEFINE len == s.guarded_len
  <2>1. guarded' = Chop(guarded, len) /\ len \in 0..Len(guarded)
    BY <1>3, <1>4
  <2> HIDE DEF len
  <2>2. /\ Chop(guarded, len) \in Seq(Series) /\ Len(Chop(guarded, len)) = len
        /\ DOMAIN Chop(guarded, len) = 1..len
        /\ \A n \in 1..len : Chop(guarded, len)[n] = guarded[n]
    BY <1>2, <2>1, ChopFacts
  <2> QED BY <2>1, <2>2 DEF len
<1>7. /\ scopes' \in Seq(Snapshot) /\ Depth' = Depth - 1
      /\ \A i \in 1..(Depth - 1) : scopes'[i] = scopes[i]
  BY <1>1, <1>2, <1>4, ChopFacts DEF Depth
<1>8. s.live = {manuals[n] : n \in 1..s.manuals_len}
  BY <1>1 DEF IInv, MarksKeepTheirSeries
<1>9. \A i \in 1..(Depth - 1) :
         /\ i \in 1..Depth
         /\ scopes[i].manuals_len \in 0..s.manuals_len
         /\ scopes[i].guarded_len \in 0..s.guarded_len
         /\ \A k \in Stacks : scopes[i].height[k] <= s.height[k]
  <2>1. \A i \in 1..(Depth - 1) : i \in 1..Depth /\ i <= Depth
    BY <1>1
  <2> HIDE DEF s
  <2>2. \A i \in 1..(Depth - 1) :
           /\ scopes[i].manuals_len <= s.manuals_len
           /\ scopes[i].guarded_len <= s.guarded_len
           /\ \A k \in Stacks : scopes[i].height[k] <= s.height[k]
    BY <1>1, <2>1 DEF IInv, CheckpointsNested, s
  <2>3. \A i \in 1..(Depth - 1) :
           scopes[i].manuals_len \in Nat /\ scopes[i].guarded_len \in Nat
    BY <2>1, ScopeTypes DEF IInv
  <2> QED BY <1>1, <2>1, <2>2, <2>3
<1> HIDE DEF s
<1>10. TypeOK'
  <2>1. status' \in [Series -> {"free", "manual", "managed"}]
    BY <1>2, <1>4
  <2> QED BY <1>1, <1>4, <1>5, <1>6, <1>7, <2>1 DEF TypeOK
<1>11. \A n \in above : n \in 1..Len(manuals) /\ status[manuals[n]] = "manual"
  <2>1. \A n \in above : n \in DOMAIN manuals
    BY <1>1, <1>2, <1>3
  <2> QED BY <1>2, <2>1 DEF IInv, ManualsTracked, Manual, Range1
<1>12. \A x \in Series : x \in s.live <=> status'[x] = "manual"
  <2> TAKE x \in Series
  <2>1. ASSUME x \in s.live PROVE status'[x] = "manual"
    <3>1. PICK n \in 1..s.manuals_len : manuals[n] = x
      BY <1>8, <2>1
    <3>2. n \in DOMAIN manuals /\ n \notin above
      BY <1>1, <1>2, <1>3
    <3>3. status[x] = "manual"
      BY <3>1, <3>2 DEF IInv, ManualsTracked, Manual, Range1
    <3>4. ~ \E k \in above : manuals[k] = x
      BY <1>2, <1>11, <3>1, <3>2 DEF IInv, ManualsTracked
    <3> QED BY <1>4, <3>3, <3>4
  <2>2. ASSUME status'[x] = "manual" PROVE x \in s.live
    <3>1. status[x] = "manual" /\ ~ \E k \in above : manuals[k] = x
      BY <1>4, <2>2
    <3>2. PICK n \in 1..Len(manuals) : manuals[n] = x
      BY <1>2, <3>1 DEF IInv, ManualsTracked, Manual, Range1
    <3>3. n \in 1..s.manuals_len
      BY <1>1, <1>2, <1>3, <3>1, <3>2
    <3> QED BY <1>8, <3>2, <3>3
  <2> QED BY <2>1, <2>2
<1>13. Manual' = s.live
  <2>1. s.live \subseteq Series
    BY <1>1 DEF Snapshot
  <2> QED BY <1>12, <2>1 DEF Manual
<1>14. ManualsTracked'
  <2>1. Range1(manuals') = s.live
    BY <1>5, <1>8 DEF Range1
  <2>2. \A i, j \in 1..s.manuals_len : manuals[i] = manuals[j] => i = j
    BY <1>1, <1>2, <1>3 DEF IInv, ManualsTracked
  <2> QED BY <1>5, <1>13, <2>1, <2>2 DEF ManualsTracked
<1>15. CheckpointsNested'
  <2>1. \A i \in 1..(Depth - 1) :
           /\ scopes[i].manuals_len <= s.manuals_len
           /\ scopes[i].guarded_len <= s.guarded_len
           /\ \A k \in Stacks : scopes[i].height[k] <= s.height[k]
    BY <1>1, <1>9
  <2>2. \A i, j \in 1..(Depth - 1) : i <= j =>
           /\ scopes[i].manuals_len <= scopes[j].manuals_len
           /\ scopes[i].guarded_len <= scopes[j].guarded_len
           /\ \A k \in Stacks : scopes[i].height[k] <= scopes[j].height[k]
    BY <1>9 DEF IInv, CheckpointsNested
  <2> QED BY <1>4, <1>5, <1>6, <1>7, <2>1, <2>2 DEF CheckpointsNested
<1>16. MarksKeepTheirSeries'
  <2> SUFFICES ASSUME NEW i \in 1..(Depth - 1)
               PROVE  {manuals'[n] : n \in 1..scopes[i].manuals_len}
                        = scopes[i].live
    BY <1>7 DEF MarksKeepTheirSeries
  <2>1. \A n \in 1..scopes[i].manuals_len : manuals'[n] = manuals[n]
    <3>1. \A n \in 1..scopes[i].manuals_len : n \in 1..s.manuals_len
      BY <1>1, <1>9
    <3> QED BY <1>5, <3>1
  <2>2. {manuals'[n] : n \in 1..scopes[i].manuals_len}
          = {manuals[n] : n \in 1..scopes[i].manuals_len}
    BY <2>1
  <2> QED BY <1>9, <2>2 DEF IInv, MarksKeepTheirSeries
<1>17. \A x \in Series : status[x] = "managed" => status'[x] = "managed"
  BY <1>4, <1>11
<1>18. GuardsLive'
  <2> SUFFICES ASSUME NEW n \in 1..s.guarded_len
               PROVE  status'[guarded[n]] # "free"
    BY <1>6 DEF GuardsLive
  <2>1. n \in 1..Len(guarded) /\ guarded[n] \in Series
    BY <1>1, <1>2, <1>3
  <2>2. status[guarded[n]] = "managed" \/ guarded[n] \in s.live
    BY <1>1 DEF IInv, GuardsBelowMarks, s
  <2> QED BY <1>12, <1>17, <2>1, <2>2
<1>19. GuardsBelowMarks'
  <2> SUFFICES ASSUME NEW i \in 1..(Depth - 1),
                      NEW n \in 1..scopes[i].guarded_len
               PROVE  status'[guarded'[n]] = "managed"
                        \/ guarded'[n] \in scopes[i].live
    BY <1>7 DEF GuardsBelowMarks
  <2>1. n \in 1..s.guarded_len
    BY <1>1, <1>9
  <2>2. n \in 1..Len(guarded) /\ guarded[n] \in Series /\ guarded'[n] = guarded[n]
    BY <1>1, <1>2, <1>3, <1>6, <2>1
  <2>3. status[guarded[n]] = "managed" \/ guarded[n] \in scopes[i].live
    BY <1>9 DEF IInv, GuardsBelowMarks
  <2> QED BY <1>17, <2>2, <2>3
<1>20. SigmaskRestored'
  <2> SUFFICES ASSUME Depth - 1 > 0, scopes'[Depth - 1].kind # "run"
               PROVE  haltable' = scopes'[Depth - 1].saved_sigmask
    BY <1>7 DEF SigmaskRestored
  <2>1. Depth - 1 \in 1..(Depth - 1) /\ (Depth - 1) + 1 = Depth
    BY <1>1
  <2> QED BY <1>4, <1>7, <2>1 DEF IInv, SigmaskNested, s
<1>21. SigmaskNested'
  <2>1. \A i \in 1..((Depth - 1) - 1) :
           /\ i \in 1..(Depth - 1) /\ i + 1 \in 1..(Depth - 1)
    BY <1>1
  <2> QED BY <1>7, <2>1 DEF IInv, SigmaskNested
<1>22. ErrorAtTrap'
  BY <1>4 DEF ErrorAtTrap
<1> QED
  BY <1>10, <1>13, <1>14, <1>15, <1>16, <1>18, <1>19, <1>20, <1>21, <1>22
     DEF IInv, s

----------------------------------------------------------------------------
(* The theorems.                                                           *)

\* The invariant is inductive.
LEMMA InitIInv == Init => IInv
<1> SUFFICES ASSUME Init PROVE IInv
  OBVIOUS
<1>1. /\ Depth = 0 /\ Len(manuals) = 0 /\ Len(guarded) = 0 /\ ~error
      /\ DOMAIN manuals = {} /\ DOMAIN guarded = {} /\ 1..Depth = {}
      /\ 1..(Depth - 1) = {}
  BY DEF Init, Depth
<1>2. TypeOK
  <2>1. /\ status \in [Series -> {"free", "manual", "managed"}]
        /\ height \in [Stacks -> Nat]
        /\ manuals = <<>> /\ guarded = <<>> /\ scopes = <<>>
        /\ haltable \in BOOLEAN /\ error \in BOOLEAN
    BY DEF Init
  <2>2. \A S : <<>> \in Seq(S)
    OBVIOUS
  <2> QED BY <2>1, <2>2 DEF TypeOK
<1>3. ManualsTracked
  BY <1>1 DEF Init, ManualsTracked, Manual, Range1
<1>4. CheckpointsNested /\ MarksKeepTheirSeries /\ GuardsBelowMarks /\ GuardsLive
  BY <1>1 DEF CheckpointsNested, MarksKeepTheirSeries, GuardsBelowMarks, GuardsLive
<1>5. SigmaskRestored /\ SigmaskNested /\ ErrorAtTrap
  BY <1>1 DEF SigmaskRestored, SigmaskNested, ErrorAtTrap
<1> QED BY <1>2, <1>3, <1>4, <1>5 DEF IInv

LEMMA NextIInv == IInv /\ [Next]_vars => IInv'
<1> SUFFICES ASSUME IInv, [Next]_vars PROVE IInv'
  OBVIOUS
<1>1. CASE ~error /\ UNCHANGED error /\ Running
  <2>1. ASSUME NEW s \in Series, Make_Series(s) PROVE IInv'
    BY <1>1, <2>1, MakeSeriesStep
  <2>2. ASSUME NEW s \in Series, Sweep_Series(s) PROVE IInv'
    BY <1>1, <2>2, SweepStep
  <2>3. ASSUME (\E s \in Series : Push_Guard_Node(s)) \/ DROP_GC_GUARD
        PROVE  IInv'
    BY <1>1, <2>3, GuardStep
  <2>4. ASSUME NEW k \in Stacks, Push(k) \/ Drop(k) PROVE IInv'
    BY <1>1, <2>4, HeightStep
  <2>5. ASSUME PUSH_TRAP \/ Push_Frame PROVE IInv'
    <3>1. PICK kind \in {"trap", "frame"} :
             /\ scopes' = Append(scopes, Snap_State_Core(kind))
             /\ UNCHANGED <<status, manuals, guarded, height, haltable>>
      BY <2>5 DEF PUSH_TRAP, Push_Frame
    <3>2. haltable' \in BOOLEAN /\ kind \in {"trap", "frame", "run"}
      BY <3>1 DEF IInv, TypeOK
    <3> QED BY <1>1, <3>1, <3>2, SnapStep
  <2>6. ASSUME NEW b \in BOOLEAN, Enter_Run(b) PROVE IInv'
    <3>1. /\ scopes' = Append(scopes, Snap_State_Core("run"))
          /\ UNCHANGED <<status, manuals, guarded, height>>
          /\ haltable' \in BOOLEAN
      BY <2>6 DEF Enter_Run
    <3> QED BY <1>1, <3>1, SnapStep
  <2>7. ASSUME DROP_TRAP_SAME_STACKLEVEL_AS_PUSH \/ Drop_Frame PROVE IInv'
    <3>1. /\ Depth > 0 /\ scopes[Depth].kind # "run"
          /\ scopes' = Chop(scopes, Depth - 1)
          /\ UNCHANGED <<status, manuals, guarded, height, haltable>>
      BY <2>7 DEF DROP_TRAP_SAME_STACKLEVEL_AS_PUSH, Drop_Frame
    <3>2. haltable' = scopes[Depth].saved_sigmask
      BY <1>1, <3>1 DEF IInv, SigmaskRestored
    <3> QED BY <1>1, <3>1, <3>2, ReturnStep
  <2>8. ASSUME Leave_Run PROVE IInv'
    <3>1. /\ Depth > 0
          /\ scopes' = Chop(scopes, Depth - 1)
          /\ UNCHANGED <<status, manuals, guarded, height>>
          /\ haltable' = scopes[Depth].saved_sigmask
      BY <2>8 DEF Leave_Run
    <3> QED BY <1>1, <3>1, ReturnStep
  <2> QED BY <1>1, <2>1, <2>2, <2>3, <2>4, <2>5, <2>6, <2>7, <2>8 DEF Running
<1>2. CASE ~error /\ UNCHANGED error /\ Releasing
  <2>1. ASSUME NEW s \in Own, Manage_Series(s) \/ Free_Unmanaged_Series(s)
        PROVE  IInv'
    BY <1>2, <2>1, ReleaseStep
  <2>2. ASSUME NEW s \in Own, NEW t \in Series, RL_rebRealloc(s, t)
        PROVE  IInv'
    BY <1>2, <2>2, ReallocStep
  <2> QED BY <1>2, <2>1, <2>2 DEF Releasing
<1>3. CASE Fail_Core
  BY <1>3, FailStep
<1>4. CASE Trapped_Helper
  BY <1>4, TrappedStep
<1>5. CASE UNCHANGED vars
  BY <1>5 DEF IInv, TypeOK, ManualsTracked, CheckpointsNested,
              MarksKeepTheirSeries, GuardsLive, GuardsBelowMarks,
              SigmaskRestored, SigmaskNested, ErrorAtTrap,
              Manual, Range1, Depth, vars
<1> QED BY <1>1, <1>2, <1>3, <1>4, <1>5 DEF Next

LEMMA Invariance == Spec => []IInv
  BY InitIInv, NextIInv, PTL DEF Spec

\* Every state of the interpreter's checkpoint machinery is well formed.
THEOREM TypeCorrect == Spec => []TypeOK
<1>1. IInv => TypeOK
  BY DEF IInv
<1> QED BY <1>1, Invariance, PTL

\* GC_Manuals lists the manual series, each once, through every release and
\* every failure.
THEOREM ManualsAlwaysTracked == Spec => []ManualsTracked
<1>1. IInv => ManualsTracked
  BY DEF IInv
<1> QED BY <1>1, Invariance, PTL

\* No mark in force is ever above the stack it marks.
THEOREM MarksInOrder == Spec => []CheckpointsNested
<1>1. IInv => CheckpointsNested
  BY DEF IInv
<1> QED BY <1>1, Invariance, PTL

\* The swap in Untrack_Manual_Series never moves a series across a mark.
THEOREM MarksSeparate == Spec => []MarksKeepTheirSeries
<1>1. IInv => MarksKeepTheirSeries
  BY DEF IInv
<1> QED BY <1>1, Invariance, PTL

\* A guard is never left on a freed series.
THEOREM NoDanglingGuard == Spec => []GuardsLive
<1>1. IInv => GuardsLive
  BY DEF IInv
<1> QED BY <1>1, Invariance, PTL

\* The signal mask is back to its value on entry whenever an evaluator frame
\* or trap body is in control: the answer to the question in
\* Assert_State_Balanced_Debug is yes.
THEOREM MaskRestored == Spec => []SigmaskRestored
<1>1. IInv => SigmaskRestored
  BY DEF IInv
<1> QED BY <1>1, Invariance, PTL

\* A failure frees exactly the manual series created under its trap.
THEOREM RecoveryIsExact == Spec => FailFreesExactly
<1>1. IInv /\ [Next]_vars => [error /\ ~error' => Manual' = scopes[Depth].live]_vars
  <2> SUFFICES ASSUME IInv, [Next]_vars, error, ~error'
               PROVE  Manual' = scopes[Depth].live
    OBVIOUS
  <2>1. Trapped_Helper
    BY DEF Next, vars
  <2> QED BY <2>1, TrappedStep
<1> QED BY <1>1, Invariance, PTL DEF Spec, FailFreesExactly

============================================================================
