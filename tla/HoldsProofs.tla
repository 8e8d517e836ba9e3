---------------------------- MODULE HoldsProofs ----------------------------
(***************************************************************************)
(* Proofs about Holds, for any arrays, any depth and any length of code.   *)
(* The invariant says what a taker looks like and that an array has only   *)
(* one: so the level that releases an array is the only one that could.    *)
(***************************************************************************)
EXTENDS Holds, TLAPS

\* The shape of each kind of level; what a taker looks like.
LevelInv ==
    \A i \in 1..Depth :
       /\ stack[i].kind \in {"sub", "trap"} =>
             stack[i].array = NoArray /\ ~stack[i].took
       /\ stack[i].took => (stack[i].kind = "frame" => stack[i].left > 0)

IInv ==
    /\ TypeOK
    /\ LevelInv
    /\ OneTaker

\* The bodies of the two action properties.
Dropped(a) ==
    /\ Top.kind = "frame" /\ Top.array = a /\ Top.left > 0 /\ Top.took
    /\ stack' = SubSeq(stack, 1, Depth - 1)
Owned ==
    \A a \in held' : Taken(a)' \/ (a \in held /\ ~Taken(a)) \/ Dropped(a)
Outlived ==
    \A a \in held \ held', j \in 1..Depth :
       stack[j].took /\ stack[j].array = a =>
          (\A i \in Readers(a)' : i < j) \/ Lent(j)

----------------------------------------------------------------------------
\* Sequences of levels: what pushing, popping and updating leave.
LEMMA PushFacts ==
    ASSUME NEW s \in Seq(Level), NEW e \in Level
    PROVE  /\ Append(s, e) \in Seq(Level)
           /\ Len(Append(s, e)) = Len(s) + 1
           /\ \A i \in 1..Len(s) : Append(s, e)[i] = s[i]
           /\ Append(s, e)[Len(s) + 1] = e
OBVIOUS

LEMMA PopFacts ==
    ASSUME NEW s \in Seq(Level), NEW k \in 0..Len(s)
    PROVE  /\ SubSeq(s, 1, k) \in Seq(Level)
           /\ Len(SubSeq(s, 1, k)) = k
           /\ \A i \in 1..k : SubSeq(s, 1, k)[i] = s[i]
OBVIOUS

LEMMA MapFacts ==
    ASSUME NEW k \in Nat, NEW f \in [1..k -> Level]
    PROVE  f \in Seq(Level) /\ Len(f) = k
<1>1. f \in Seq(Level)
  OBVIOUS
<1> QED
  BY <1>1

\* What a frame looks like, and what aborting one changes.
LEMMA FrameFacts ==
    ASSUME NEW a \in Arrays \union {NoArray}, NEW n \in Nat,
           NEW b \in BOOLEAN
    PROVE  /\ Frame(a, n, b) \in Level /\ Frame(a, n, b).kind = "frame"
           /\ Frame(a, n, b).array = a /\ Frame(a, n, b).left = n
           /\ Frame(a, n, b).took = b
BY DEF Frame, Level

LEMMA AbortedFacts ==
    ASSUME NEW e \in Level
    PROVE  /\ Aborted(e) \in Level
           /\ Aborted(e).kind = e.kind
           /\ Aborted(e).array = e.array
           /\ Aborted(e).src = e.src
           /\ Aborted(e).left > 0 => e.left > 0
<1>1. CASE e.left = 0
  BY <1>1 DEF Aborted
<1>2. CASE e.left # 0 /\ e.array = NoArray
  <2>1. Aborted(e) = [e EXCEPT !.left = 0]
    BY <1>2 DEF Aborted
  <2> QED
    BY <2>1 DEF Level
<1>3. CASE e.left # 0 /\ e.array # NoArray
  <2>1. Aborted(e) = [e EXCEPT !.took = FALSE]
    BY <1>3 DEF Aborted
  <2> QED
    BY <2>1 DEF Level
<1> QED
  BY <1>1, <1>2, <1>3

LEMMA InitIInv == Init => IInv
<1> SUFFICES ASSUME Init PROVE IInv
  OBVIOUS
<1>1. Trap \in Level
  BY DEF Trap, Level
<1>2. /\ stack \in Seq(Level) /\ Len(stack) = 1 /\ stack[1] = Trap
      /\ held = {} /\ failing = FALSE
  BY <1>1 DEF Init
<1>3. \A i \in 1..Depth : stack[i] = Trap
  BY <1>2 DEF Depth
<1>4. /\ Trap.kind = "trap" /\ Trap.array = NoArray /\ Trap.took = FALSE
      /\ Trap.left = 0
  BY DEF Trap
<1> QED
  BY <1>2, <1>3, <1>4
     DEF IInv, TypeOK, LevelInv, OneTaker

----------------------------------------------------------------------------
\* Every taker took an array that is held.
LEMMA TakerFacts ==
    ASSUME IInv, NEW i \in 1..Depth, stack[i].took
    PROVE  /\ stack[i].array \in held
           /\ stack[i].array # NoArray
           /\ stack[i].kind = "frame" => stack[i].left > 0
           /\ stack[i].kind \notin {"sub", "trap"}
           /\ \A j \in 1..Depth :
                 stack[j].took /\ stack[j].array = stack[i].array => j = i
<1>1. held \subseteq Arrays
  BY DEF IInv, TypeOK
<1>2. stack[i].array \in held
  BY DEF IInv, OneTaker
<1>3. stack[i].array # NoArray
  BY <1>1, <1>2, HoldsAssumption
<1>4. stack[i].kind \notin {"sub", "trap"}
  BY DEF IInv, LevelInv
<1>5. \A j \in 1..Depth :
         stack[j].took /\ stack[j].array = stack[i].array => j = i
  BY DEF IInv, OneTaker
<1>6. stack[i].kind = "frame" => stack[i].left > 0
  BY DEF IInv, LevelInv
<1> QED
  BY <1>2, <1>3, <1>4, <1>5, <1>6

\* A new level on top, which takes its array only if nobody holds it.
LEMMA PushStep ==
    ASSUME IInv, NEW e \in Level, e.kind # "sub",
           e.kind = "trap" => e.array = NoArray /\ ~e.took,
           e.took => (e.kind = "frame" => e.left > 0),
           e.took => e.array \in Arrays /\ e.array \notin held,
           held' = held \/ (held' = held \union {e.array} /\ e.array \in Arrays),
           e.array \in held' => e.array \in held \/ e.took,
           e.took => e.array \in held',
           failing' \in BOOLEAN,
           stack' \in Seq(Level), Depth' = Depth + 1,
           \A i \in 1..Depth : stack'[i] = stack[i],
           stack'[Depth + 1] = e
    PROVE  IInv' /\ Owned
<1>1. stack \in Seq(Level) /\ held \subseteq Arrays /\ Depth \in Nat
  BY DEF IInv, TypeOK, Depth
<1>2. /\ stack' \in Seq(Level) /\ Depth' = Depth + 1
      /\ \A i \in 1..Depth : stack'[i] = stack[i]
      /\ stack'[Depth + 1] = e
  OBVIOUS
<1>3. \A i \in 1..Depth' : i \in 1..Depth \/ i = Depth + 1
  BY <1>1, <1>2
<1>4. TypeOK'
  <2>1. ASSUME NEW i \in 1..Depth', stack'[i].kind = "sub"
        PROVE  stack'[i].src \in 1..(i - 1)
               /\ stack'[stack'[i].src].kind = "frame"
    <3>1. i \in 1..Depth /\ stack'[i] = stack[i]
      BY <1>2, <1>3, <2>1
    <3>2. stack[i].src \in 1..(i - 1) /\ stack[stack[i].src].kind = "frame"
      BY <2>1, <3>1 DEF IInv, TypeOK
    <3>3. stack[i].src \in 1..Depth
      BY <1>1, <3>1, <3>2
    <3> QED
      BY <1>2, <3>1, <3>2, <3>3
  <2>2. held' \subseteq Arrays
    BY <1>1
  <2> QED
    BY <1>2, <2>1, <2>2 DEF TypeOK
<1>5. LevelInv'
  BY <1>1, <1>2, <1>3 DEF IInv, LevelInv
<1>6. OneTaker'
  <2>1. \A i \in 1..Depth : stack[i].took => stack[i].array \in held
    BY DEF IInv, OneTaker
  <2>2. held \subseteq held'
    OBVIOUS
  <2>3. ASSUME NEW i \in 1..Depth', stack'[i].took
        PROVE  stack'[i].array \in held'
    BY <1>2, <1>3, <2>1, <2>2, <2>3
  <2>4. ASSUME NEW i \in 1..Depth', stack'[i].took,
               NEW j \in 1..Depth', stack'[j].took,
               stack'[j].array = stack'[i].array
        PROVE  j = i
    <3>1. CASE i \in 1..Depth /\ j \in 1..Depth
      BY <1>2, <2>4, <3>1 DEF IInv, OneTaker
    <3>2. CASE i = Depth + 1 /\ j \in 1..Depth
      BY <1>2, <2>1, <2>4, <3>2
    <3>3. CASE i \in 1..Depth /\ j = Depth + 1
      BY <1>2, <2>1, <2>4, <3>3
    <3> QED
      BY <1>3, <3>1, <3>2, <3>3
  <2> QED
    BY <2>3, <2>4 DEF OneTaker
<1>7. Owned
  <2>1. ASSUME NEW a \in held', Taken(a) \/ a \notin held
        PROVE  \E i \in 1..Depth' : stack'[i].took /\ stack'[i].array = a
    <3>1. CASE Taken(a)
      <4>1. PICK i \in 1..Depth : stack[i].took /\ stack[i].array = a
        BY <3>1 DEF Taken
      <4>2. i \in 1..Depth' /\ stack'[i] = stack[i]
        BY <1>1, <1>2, <4>1
      <4> QED
        BY <4>1, <4>2
    <3>2. CASE a \notin held
      <4>1. a = e.array /\ e.took
        BY <2>1, <3>2
      <4> QED
        BY <1>1, <1>2, <4>1
    <3> QED
      BY <2>1, <3>1, <3>2
  <2> QED
    BY <2>1 DEF Owned, Taken
<1> QED
  BY <1>4, <1>5, <1>6, <1>7 DEF IInv

\* The top level leaves, with its hold if it took one.
LEMMA PopStep ==
    ASSUME IInv, Depth > 0, failing' \in BOOLEAN,
           stack' \in Seq(Level), Depth' = Depth - 1,
           \A i \in 1..Depth' : stack'[i] = stack[i],
           \/ /\ held' = held
              /\ Top.took => /\ Top.kind = "frame"
                             /\ stack' = SubSeq(stack, 1, Depth - 1)
           \/ held' = held \ {Top.array} /\ Top.took
    PROVE  IInv' /\ Owned
<1>1. stack \in Seq(Level) /\ held \subseteq Arrays /\ Depth \in Nat
  BY DEF IInv, TypeOK, Depth
<1>2. /\ stack' \in Seq(Level) /\ Depth' = Depth - 1
      /\ \A i \in 1..Depth' : stack'[i] = stack[i]
  OBVIOUS
<1>3. 1..Depth' \subseteq 1..Depth /\ Depth \in 1..Depth
      /\ Depth \notin 1..Depth'
  BY <1>1, <1>2
<1>4. TypeOK'
  <2>1. ASSUME NEW i \in 1..Depth', stack'[i].kind = "sub"
        PROVE  stack'[i].src \in 1..(i - 1)
               /\ stack'[stack'[i].src].kind = "frame"
    BY <1>1, <1>2, <1>3, <2>1 DEF IInv, TypeOK
  <2> QED
    BY <1>1, <1>2, <2>1 DEF TypeOK
<1>5. LevelInv'
  BY <1>2, <1>3 DEF IInv, LevelInv
<1>6. OneTaker'
  BY <1>2, <1>3 DEF IInv, OneTaker, Top
<1>7. Owned
  <2>1. ASSUME NEW a \in held', Taken(a)
        PROVE  \/ \E i \in 1..Depth' : stack'[i].took /\ stack'[i].array = a
               \/ Dropped(a)
    <3>1. PICK i \in 1..Depth : stack[i].took /\ stack[i].array = a
      BY <2>1 DEF Taken
    <3>2. CASE i = Depth
      <4>1. Top.took /\ Top.array = a
        BY <3>1, <3>2 DEF Top
      <4>2. held' = held /\ Top.kind = "frame"
            /\ stack' = SubSeq(stack, 1, Depth - 1)
        BY <2>1, <4>1
      <4>3. Top.left > 0
        BY <3>1, <3>2, <4>2, TakerFacts DEF Top
      <4> QED
        BY <4>1, <4>2, <4>3 DEF Dropped
    <3>3. CASE i # Depth
      <4>1. i \in 1..Depth'
        BY <1>1, <1>2, <3>1, <3>3
      <4> QED
        BY <1>2, <3>1, <4>1
    <3> QED
      BY <3>2, <3>3
  <2>2. held' \subseteq held
    OBVIOUS
  <2> QED
    BY <2>1, <2>2 DEF Owned, Taken
<1> QED
  BY <1>4, <1>5, <1>6, <1>7 DEF IInv

----------------------------------------------------------------------------
\* The same levels, with other feeds: only `left` and `took` of frames
\* change, and nobody new takes a hold.
LEMMA UpdateStep ==
    ASSUME IInv, failing' \in BOOLEAN, NEW k \in 0..Depth,
           stack' \in Seq(Level), Depth' = k,
           held' \subseteq held,
           \A i \in 1..k : /\ stack'[i].kind = stack[i].kind
                           /\ stack'[i].array = stack[i].array
                           /\ stack'[i].src = stack[i].src
                           /\ stack'[i].left > 0 => stack[i].left > 0,
           \A i \in 1..k : stack'[i].took => stack[i].took,
           \A i \in 1..k : stack'[i].took /\ stack[i].kind = "frame" =>
                              stack'[i].left > 0,
           \A i \in 1..k : stack'[i].took => stack[i].array \in held'
    PROVE  IInv'
<1>1. stack \in Seq(Level) /\ held \subseteq Arrays /\ Depth \in Nat
  BY DEF IInv, TypeOK, Depth
<1>2. k \in Nat /\ \A i \in 1..k : i \in 1..Depth
  BY <1>1
<1>3. TypeOK'
  <2>1. ASSUME NEW i \in 1..Depth', stack'[i].kind = "sub"
        PROVE  stack'[i].src \in 1..(i - 1)
               /\ stack'[stack'[i].src].kind = "frame"
    <3>1. i \in 1..k /\ stack[i].kind = "sub" /\ stack'[i].src = stack[i].src
      BY <2>1
    <3>2. stack[i].src \in 1..(i - 1) /\ stack[stack[i].src].kind = "frame"
      BY <1>2, <3>1 DEF IInv, TypeOK
    <3>3. stack[i].src \in 1..k
      BY <1>2, <3>1, <3>2
    <3> QED
      BY <3>1, <3>2, <3>3
  <2> QED
    BY <1>1, <2>1 DEF TypeOK
<1>4. LevelInv'
  <2>1. ASSUME NEW i \in 1..k, stack'[i].kind \in {"sub", "trap"}
        PROVE  stack'[i].array = NoArray /\ ~stack'[i].took
    BY <1>2, <2>1 DEF IInv, LevelInv
  <2> QED
    BY <2>1 DEF LevelInv
<1>5. OneTaker'
  <2>1. ASSUME NEW i \in 1..k, stack'[i].took,
               NEW j \in 1..k, stack'[j].took,
               stack'[j].array = stack'[i].array
        PROVE  j = i
    <3>1. /\ stack[i].took /\ stack[j].took
          /\ stack[j].array = stack[i].array
          /\ i \in 1..Depth /\ j \in 1..Depth
      BY <1>2, <2>1
    <3> QED
      BY <3>1 DEF IInv, OneTaker
  <2> QED
    BY <2>1 DEF OneTaker
<1> QED
  BY <1>3, <1>4, <1>5 DEF IInv

\* A level that reads a feed finds a frame there.
LEMMA FeedIsFrame ==
    ASSUME IInv, NEW i \in 1..Depth, IsFrame(i)
    PROVE  /\ Feed(i) \in 1..i
           /\ stack[Feed(i)].kind = "frame"
           /\ stack[i].kind = "frame" => Feed(i) = i
           /\ stack[i].kind = "sub" => Feed(i) < i
<1>1. Depth \in Nat
  BY DEF IInv, TypeOK, Depth
<1>2. CASE stack[i].kind = "sub"
  <2>1. stack[i].src \in 1..(i - 1) /\ stack[stack[i].src].kind = "frame"
    BY <1>2 DEF IInv, TypeOK
  <2> QED
    BY <1>1, <1>2, <2>1 DEF Feed
<1>3. CASE stack[i].kind = "frame"
  BY <1>1, <1>3 DEF Feed
<1> QED
  BY <1>2, <1>3 DEF IsFrame

----------------------------------------------------------------------------
LEMMA FetchStep == ASSUME IInv, Fetch_Next PROVE IInv' /\ Owned
<1> DEFINE j == Feed(Depth)
<1>1. stack \in Seq(Level) /\ held \subseteq Arrays /\ Depth \in Nat
  BY DEF IInv, TypeOK, Depth
<1>2. Depth \in 1..Depth /\ IsFrame(Depth)
  BY <1>1 DEF Fetch_Next
<1>3. j \in 1..Depth /\ stack[j].kind = "frame"
  BY <1>2, FeedIsFrame
<1>4. \/ /\ stack[j].left = 1 /\ stack[j].took
         /\ stack' = [stack EXCEPT ![j].left = 0, ![j].took = FALSE]
         /\ held' = held \ {stack[j].array}
      \/ /\ ~(stack[j].left = 1 /\ stack[j].took)
         /\ stack' = [stack EXCEPT ![j].left = @ - 1]
         /\ held' = held
  BY DEF Fetch_Next
<1>5. stack[j].left > 0 /\ failing' = failing /\ failing' \in BOOLEAN
  BY DEF Fetch_Next, IInv, TypeOK
<1> HIDE DEF j
<1>6. stack[j] \in Level /\ Len(stack) = Depth
  BY <1>1, <1>3 DEF Depth
<1>7. stack[j].left \in Nat
  BY <1>6 DEF Level
<1>8. CASE stack[j].left = 1 /\ stack[j].took
  <2> DEFINE e == [stack[j] EXCEPT !.left = 0, !.took = FALSE]
  <2>1. stack' = [stack EXCEPT ![j] = e] /\ held' = held \ {stack[j].array}
    BY <1>4, <1>8
  <2>2. /\ e \in Level /\ e.kind = stack[j].kind /\ e.array = stack[j].array
        /\ e.src = stack[j].src /\ e.left = 0 /\ e.took = FALSE
    BY <1>6 DEF Level
  <2> HIDE DEF e
  <2>3. /\ stack' \in Seq(Level) /\ Len(stack') = Len(stack)
        /\ stack'[j] = e
        /\ \A i \in 1..Depth : i # j => stack'[i] = stack[i]
    BY <1>1, <1>3, <1>6, <2>1, <2>2
  <2>4. Depth' = Depth
    BY <2>3 DEF Depth
  <2>5. ASSUME NEW i \in 1..Depth, stack'[i].took
        PROVE  /\ i # j /\ stack'[i] = stack[i] /\ stack[i].took
               /\ stack[i].array \in held'
    <3>1. i # j
      BY <2>2, <2>3, <2>5
    <3>2. stack'[i] = stack[i] /\ stack[i].took
      BY <2>3, <2>5, <3>1
    <3>3. stack[i].array \in held /\ stack[i].array # stack[j].array
      BY <1>3, <1>8, <3>1, <3>2, TakerFacts
    <3> QED
      BY <2>1, <3>1, <3>2, <3>3
  <2>6. ASSUME NEW a \in held', Taken(a)
        PROVE  \E i \in 1..Depth : stack'[i].took /\ stack'[i].array = a
    <3>1. a \in held /\ a # stack[j].array
      BY <2>1, <2>6
    <3>2. PICK i \in 1..Depth : stack[i].took /\ stack[i].array = a
      BY <2>6 DEF Taken
    <3>3. i # j
      BY <3>1, <3>2
    <3> QED
      BY <2>3, <3>2, <3>3
  <2>7. Owned
    BY <2>1, <2>4, <2>6 DEF Owned, Taken
  <2>8. \A i \in 1..Depth : /\ stack'[i].kind = stack[i].kind
                            /\ stack'[i].array = stack[i].array
                            /\ stack'[i].src = stack[i].src
                            /\ stack'[i].left > 0 => stack[i].left > 0
    BY <1>5, <2>2, <2>3
  <2>9. \A i \in 1..Depth : stack'[i].took /\ stack[i].kind = "frame" =>
                               stack'[i].left > 0
    BY <2>5, TakerFacts
  <2>10. held' \subseteq held /\ Depth \in 0..Depth
    BY <1>1, <2>1
  <2> QED
    BY <1>5, <2>3, <2>4, <2>5, <2>7, <2>8, <2>9, <2>10, UpdateStep
<1>9. CASE ~(stack[j].left = 1 /\ stack[j].took)
  <2> DEFINE e == [stack[j] EXCEPT !.left = @ - 1]
  <2>1. stack' = [stack EXCEPT ![j] = e] /\ held' = held
    BY <1>4, <1>9
  <2>2. /\ e \in Level /\ e.kind = stack[j].kind /\ e.array = stack[j].array
        /\ e.src = stack[j].src /\ e.left = stack[j].left - 1
        /\ e.took = stack[j].took
    BY <1>5, <1>6, <1>7 DEF Level
  <2> HIDE DEF e
  <2>3. /\ stack' \in Seq(Level) /\ Len(stack') = Len(stack)
        /\ stack'[j] = e
        /\ \A i \in 1..Depth : i # j => stack'[i] = stack[i]
    BY <1>1, <1>3, <1>6, <2>1, <2>2
  <2>4. Depth' = Depth
    BY <2>3 DEF Depth
  <2>5. \A i \in 1..Depth : /\ stack'[i].kind = stack[i].kind
                            /\ stack'[i].array = stack[i].array
                            /\ stack'[i].src = stack[i].src
                            /\ stack'[i].left > 0 => stack[i].left > 0
    BY <1>5, <2>2, <2>3
  <2>6. \A i \in 1..Depth : stack'[i].took = stack[i].took
    BY <2>2, <2>3
  <2>7. ASSUME NEW i \in 1..Depth, stack'[i].took, stack[i].kind = "frame"
        PROVE  stack'[i].left > 0
    <3>1. CASE i = j
      BY <1>5, <1>7, <1>9, <2>2, <2>3, <2>7, <3>1
    <3>2. CASE i # j
      BY <2>3, <2>7, <3>2, TakerFacts
    <3> QED
      BY <3>1, <3>2
  <2>8. \A i \in 1..Depth : stack'[i].took => stack[i].array \in held'
    BY <2>1, <2>6, TakerFacts
  <2>9. Owned
    BY <2>1, <2>4, <2>5, <2>6 DEF Owned, Taken
  <2>11. held' \subseteq held /\ Depth \in 0..Depth
    BY <1>1, <2>1
  <2> QED
    BY <1>5, <2>3, <2>4, <2>5, <2>6, <2>7, <2>8, <2>9, <2>11, UpdateStep
<1> QED
  BY <1>8, <1>9

\* The frames above level k are aborted.
LEMMA UnwindStep ==
    ASSUME IInv, NEW k \in 0..Depth, Unwind(k), failing' \in BOOLEAN,
           \A i \in (k + 1)..Depth : IsFrame(i)
    PROVE  IInv' /\ Owned
<1>1. stack \in Seq(Level) /\ held \subseteq Arrays /\ Depth \in Nat
  BY DEF IInv, TypeOK, Depth
<1>2. k \in Nat /\ \A i \in 1..k : i \in 1..Depth
  BY <1>1
<1>3. ASSUME NEW j \in Aborting(k)
      PROVE  j \in 1..Depth /\ stack[j].kind = "frame"
  <2>1. PICK i \in (k + 1)..Depth : IsFrame(i) /\ j = Feed(i)
    BY <1>3 DEF Aborting
  <2>2. i \in 1..Depth
    BY <1>1, <1>2
  <2>3. Feed(i) \in 1..i /\ stack[Feed(i)].kind = "frame"
    BY <2>1, <2>2, FeedIsFrame
  <2> QED
    BY <1>1, <1>2, <2>1, <2>2, <2>3
<1>4. /\ held' = held \ Released(k)
      /\ stack' = [i \in 1..k |-> IF i \in Aborting(k) THEN Aborted(stack[i])
                                  ELSE stack[i]]
  BY DEF Unwind
<1>5. ASSUME NEW i \in 1..k
      PROVE  /\ stack'[i] \in Level
             /\ stack'[i].kind = stack[i].kind
             /\ stack'[i].array = stack[i].array
             /\ stack'[i].src = stack[i].src
             /\ stack'[i].left > 0 => stack[i].left > 0
  <2>1. stack[i] \in Level
    BY <1>1, <1>2 DEF Depth
  <2>2. stack'[i] = stack[i] \/ stack'[i] = Aborted(stack[i])
    BY <1>4
  <2> QED
    BY <2>1, <2>2, AbortedFacts
<1>6. stack' \in Seq(Level) /\ Len(stack') = k
  <2>1. stack' = [i \in 1..k |-> stack'[i]]
    BY <1>4
  <2>2. \A i \in 1..k : stack'[i] \in Level
    BY <1>5
  <2>3. stack' \in [1..k -> Level]
    BY <2>1, <2>2
  <2> QED
    BY <1>2, <2>3, MapFacts
<1>7. Depth' = k
  BY <1>6 DEF Depth
<1>8. ASSUME NEW i \in 1..k, stack'[i].took
      PROVE  i \notin Aborting(k) /\ stack'[i] = stack[i] /\ stack[i].took
  <2>1. stack[i] \in Level /\ i \in 1..Depth
    BY <1>1, <1>2 DEF Depth
  <2>2. ASSUME i \in Aborting(k) PROVE FALSE
    <3>1. stack'[i] = Aborted(stack[i]) /\ stack[i].kind = "frame"
      BY <1>3, <1>4, <2>2
    <3>2. stack[i].took
      BY <1>8, <2>1, <3>1 DEF Aborted, Level
    <3>3. stack[i].left > 0 /\ stack[i].array # NoArray
      BY <2>1, <3>1, <3>2, TakerFacts
    <3>4. stack'[i].took = FALSE
      BY <2>1, <3>1, <3>3 DEF Aborted, Level
    <3> QED
      BY <1>8, <3>4
  <2> QED
    BY <1>4, <1>8, <2>2
<1>9. ASSUME NEW a \in Released(k)
      PROVE  \E j \in Aborting(k) : stack[j].took /\ stack[j].array = a
  BY <1>9 DEF Released
<1>10. ASSUME NEW i \in 1..k, stack'[i].took
       PROVE  stack[i].array \in held'
  <2>1. i \notin Aborting(k) /\ stack[i].took /\ i \in 1..Depth
    BY <1>2, <1>8, <1>10
  <2>2. stack[i].array \in held
    BY <2>1, TakerFacts
  <2>3. ASSUME stack[i].array \in Released(k) PROVE FALSE
    <3>1. PICK j \in Aborting(k) : stack[j].took
                                   /\ stack[j].array = stack[i].array
      BY <1>9, <2>3
    <3>2. j = i
      BY <1>3, <2>1, <3>1, TakerFacts
    <3> QED
      BY <2>1, <3>1, <3>2
  <2> QED
    BY <1>4, <2>2, <2>3
<1>12. ASSUME NEW a \in held', Taken(a)
       PROVE  \E i \in 1..k : stack'[i].took /\ stack'[i].array = a
  <2>1. a \in held /\ a \notin Released(k)
    BY <1>4
  <2>2. PICK i \in 1..Depth : stack[i].took /\ stack[i].array = a
    BY <1>12 DEF Taken
  <2>3. ASSUME i \in Aborting(k) PROVE FALSE
    <3>1. stack[i].kind = "frame"
      BY <1>3, <2>3
    <3>2. stack[i].left > 0
      BY <2>2, <3>1, TakerFacts
    <3> QED
      BY <2>1, <2>2, <2>3, <3>2 DEF Released
  <2>4. ASSUME i \notin 1..k PROVE FALSE
    <3>1. i \in (k + 1)..Depth /\ IsFrame(i)
      BY <1>1, <1>2, <2>2, <2>4
    <3>2. stack[i].kind # "sub"
      BY <2>2, TakerFacts
    <3>3. Feed(i) = i
      BY <3>2 DEF Feed
    <3> QED
      BY <2>3, <3>1, <3>3 DEF Aborting
  <2>5. i \in 1..k /\ stack'[i] = stack[i]
    BY <1>4, <2>3, <2>4
  <2> QED
    BY <2>2, <2>5
<1>13. held' \subseteq held
  BY <1>4
<1>14. \A i \in 1..k : stack'[i].took /\ stack[i].kind = "frame" =>
                          stack'[i].left > 0
  BY <1>2, <1>8, TakerFacts
<1>15. Owned
  BY <1>7, <1>12, <1>13 DEF Owned, Taken
<1> QED
  BY <1>5, <1>6, <1>7, <1>8, <1>10, <1>13, <1>14, <1>15, UpdateStep

\* A subframe on another frame's feed takes the hold in that feed's name.
LEMMA SubframeStep ==
    ASSUME IInv, NEW j \in 1..Depth, Push_Subframe(j)
    PROVE  IInv' /\ Owned
<1>1. stack \in Seq(Level) /\ held \subseteq Arrays /\ Depth \in Nat
      /\ failing \in BOOLEAN
  BY DEF IInv, TypeOK, Depth
<1>2. failing' = failing /\ stack[j].kind = "frame"
      /\ stack[j].left > 0 /\ stack[j] \in Level
  BY <1>1 DEF Push_Subframe, Depth
<1>3. /\ Sub(j) \in Level /\ Sub(j).kind = "sub" /\ Sub(j).src = j
      /\ Sub(j).array = NoArray /\ Sub(j).took = FALSE
  BY <1>1 DEF Sub, Level
<1>4. PICK e \in Level :
         /\ e.kind = "frame" /\ e.array = stack[j].array
         /\ e.left = stack[j].left
         /\ stack' = Append([stack EXCEPT ![j] = e], Sub(j))
         /\ \/ e.took = stack[j].took /\ held' = held
            \/ /\ e.took = TRUE /\ e.array \in Arrays /\ e.array \notin held
               /\ held' = held \union {e.array}
  <2>1. CASE stack[j].array = NoArray \/ stack[j].array \in held
    <3>1. stack' = Append(stack, Sub(j)) /\ held' = held
      BY <2>1 DEF Push_Subframe
    <3>2. [stack EXCEPT ![j] = stack[j]] = stack
      BY <1>1 DEF Depth
    <3>3. stack' = Append([stack EXCEPT ![j] = stack[j]], Sub(j))
      BY <3>1, <3>2
    <3> QED
      BY <1>2, <3>1, <3>3
  <2>2. CASE ~(stack[j].array = NoArray \/ stack[j].array \in held)
    <3> DEFINE f == [stack[j] EXCEPT !.took = TRUE]
    <3>1. /\ held' = held \union {stack[j].array}
          /\ stack' = Append([stack EXCEPT ![j] = f], Sub(j))
      BY <2>2 DEF Push_Subframe
    <3>2. /\ f \in Level /\ f.kind = "frame" /\ f.array = stack[j].array
          /\ f.left = stack[j].left /\ f.took = TRUE
      BY <1>2 DEF Level
    <3>3. stack[j].array \in Arrays
      BY <1>2, <2>2 DEF Level
    <3> QED
      BY <2>2, <3>1, <3>2, <3>3
  <2> QED
    BY <2>1, <2>2
<1> DEFINE t == [stack EXCEPT ![j] = e]
<1>5. /\ t \in Seq(Level) /\ Len(t) = Depth /\ t[j] = e
      /\ \A i \in 1..Depth : i # j => t[i] = stack[i]
  BY <1>1, <1>4 DEF Depth
<1>6. stack' = Append(t, Sub(j))
  BY <1>4
<1> HIDE DEF t
<1>7. /\ stack' \in Seq(Level) /\ Len(stack') = Depth + 1
      /\ \A i \in 1..Depth : stack'[i] = t[i]
      /\ stack'[Depth + 1] = Sub(j)
  BY <1>3, <1>5, <1>6, PushFacts
<1>8. Depth' = Depth + 1
  BY <1>7 DEF Depth
<1>9. /\ \A i \in 1..Depth : i # j => stack'[i] = stack[i]
      /\ stack'[j] = e
      /\ \A i \in 1..Depth' : i \in 1..Depth \/ i = Depth + 1
  BY <1>1, <1>5, <1>7, <1>8
<1>10. held \subseteq held' /\ held' \subseteq Arrays
  BY <1>1, <1>4
<1>11. TypeOK'
  <2>1. ASSUME NEW i \in 1..Depth', stack'[i].kind = "sub"
        PROVE  stack'[i].src \in 1..(i - 1)
               /\ stack'[stack'[i].src].kind = "frame"
    <3>1. CASE i = Depth + 1
      BY <1>1, <1>3, <1>4, <1>7, <1>9, <3>1
    <3>2. CASE i \in 1..Depth
      <4>1. i # j /\ stack'[i] = stack[i]
        BY <1>4, <1>9, <2>1, <3>2
      <4>2. stack[i].src \in 1..(i - 1) /\ stack[stack[i].src].kind = "frame"
        BY <2>1, <3>2, <4>1 DEF IInv, TypeOK
      <4>3. stack[i].src \in 1..Depth
        BY <1>1, <3>2, <4>2
      <4> QED
        BY <1>4, <1>9, <4>1, <4>2, <4>3
    <3> QED
      BY <1>9, <3>1, <3>2
  <2> QED
    BY <1>1, <1>2, <1>7, <1>10, <2>1 DEF TypeOK
<1>12. LevelInv'
  <2>1. ASSUME NEW i \in 1..Depth'
        PROVE  /\ stack'[i].kind \in {"sub", "trap"} =>
                     stack'[i].array = NoArray /\ ~stack'[i].took
               /\ stack'[i].took => (stack'[i].kind = "frame" =>
                     stack'[i].left > 0)
    <3>1. CASE i = Depth + 1
      BY <1>3, <1>7, <3>1
    <3>2. CASE i = j
      BY <1>2, <1>4, <1>9, <3>2
    <3>3. CASE i \in 1..Depth /\ i # j
      BY <1>9, <3>3 DEF IInv, LevelInv
    <3> QED
      BY <1>9, <3>1, <3>2, <3>3
  <2> QED
    BY <2>1 DEF LevelInv
<1>13. OneTaker'
  <2>1. ASSUME NEW i \in 1..Depth', stack'[i].took
        PROVE  /\ i \in 1..Depth /\ stack'[i].array = stack[i].array
               /\ stack[i].array \in held'
               /\ stack[i].took \/ (i = j /\ stack[j].array \notin held)
    <3>1. i \in 1..Depth
      BY <1>3, <1>7, <1>9, <2>1
    <3>2. CASE i # j
      <4>1. stack'[i] = stack[i] /\ stack[i].took
        BY <1>9, <2>1, <3>1, <3>2
      <4> QED
        BY <1>10, <3>1, <4>1, TakerFacts
    <3>3. CASE i = j
      <4>1. e.took /\ stack'[i].array = stack[i].array
        BY <1>4, <1>9, <2>1, <3>3
      <4>2. CASE e.took = stack[j].took /\ held' = held
        BY <3>1, <3>3, <4>1, <4>2, TakerFacts
      <4>3. CASE e.array \notin held /\ held' = held \union {e.array}
        BY <1>4, <3>1, <3>3, <4>1, <4>3
      <4> QED
        BY <1>4, <4>2, <4>3
    <3> QED
      BY <3>2, <3>3
  <2>2. ASSUME NEW i \in 1..Depth', stack'[i].took,
               NEW m \in 1..Depth', stack'[m].took,
               stack'[m].array = stack'[i].array
        PROVE  m = i
    <3>1. /\ i \in 1..Depth /\ m \in 1..Depth
          /\ stack[i].array = stack[m].array
          /\ stack[i].took \/ (i = j /\ stack[j].array \notin held)
          /\ stack[m].took \/ (m = j /\ stack[j].array \notin held)
      BY <2>1, <2>2
    <3>2. CASE stack[i].took /\ stack[m].took
      BY <3>1, <3>2, TakerFacts
    <3>3. CASE stack[i].took /\ m = j /\ stack[j].array \notin held
      BY <3>1, <3>3, TakerFacts
    <3>4. CASE stack[m].took /\ i = j /\ stack[j].array \notin held
      BY <3>1, <3>4, TakerFacts
    <3> QED
      BY <3>1, <3>2, <3>3, <3>4
  <2> QED
    BY <2>1, <2>2 DEF OneTaker
<1>14. Owned
  <2>1. ASSUME NEW a \in held', Taken(a) \/ a \notin held
        PROVE  \E i \in 1..Depth' : stack'[i].took /\ stack'[i].array = a
    <3>0. j \in 1..Depth' /\ \A i \in 1..Depth : i \in 1..Depth'
      BY <1>1, <1>8
    <3>1. CASE Taken(a)
      <4>1. PICK i \in 1..Depth : stack[i].took /\ stack[i].array = a
        BY <3>1 DEF Taken
      <4>2. CASE i = j
        <5>1. e.took
          BY <1>4, <4>1, <4>2
        <5> QED
          BY <1>4, <1>9, <3>0, <4>1, <4>2, <5>1
      <4>3. CASE i # j
        BY <1>9, <3>0, <4>1, <4>3
      <4> QED
        BY <4>2, <4>3
    <3>2. CASE a \notin held
      BY <1>4, <1>9, <2>1, <3>0, <3>2
    <3> QED
      BY <2>1, <3>1, <3>2
  <2> QED
    BY <2>1 DEF Owned, Taken
<1> QED
  BY <1>2, <1>11, <1>12, <1>13, <1>14 DEF IInv

\* The collector's new arrays are nobody else's.
LEMMA ReifyStep ==
    ASSUME IInv, Reify_Any_C_Valist_Frames
    PROVE  IInv' /\ Owned
<1>1. stack \in Seq(Level) /\ held \subseteq Arrays /\ Depth \in Nat
      /\ failing \in BOOLEAN /\ failing' = failing
  BY DEF IInv, TypeOK, Depth, Reify_Any_C_Valist_Frames
<1>2. PICK new \in [Valists -> Arrays \ InUse] :
         /\ \A i, j \in Valists : i # j => new[i] # new[j]
         /\ stack' = [i \in 1..Depth |->
               IF i \in Valists
               THEN Frame(new[i], stack[i].left, TRUE)
               ELSE stack[i]]
         /\ held' = held \union {new[i] : i \in Valists}
  BY DEF Reify_Any_C_Valist_Frames
<1>3. ASSUME NEW i \in Valists
      PROVE  /\ i \in 1..Depth /\ stack[i].kind = "frame"
             /\ stack[i].array = NoArray /\ stack[i].left > 0
             /\ new[i] \in Arrays /\ new[i] \notin held /\ new[i] # NoArray
             /\ \A j \in 1..Depth : stack[j].array # new[i]
             /\ stack'[i] = Frame(new[i], stack[i].left, TRUE)
  <2>1. new[i] \in Arrays /\ new[i] \notin InUse
    BY <1>2
  <2>2. /\ i \in 1..Depth /\ stack[i].kind = "frame"
        /\ stack[i].array = NoArray /\ stack[i].left > 0
    BY DEF Valists
  <2> QED
    BY <1>2, <2>1, <2>2, HoldsAssumption DEF InUse
<1>4. ASSUME NEW i \in 1..Depth, i \notin Valists
      PROVE  stack'[i] = stack[i]
  BY <1>2, <1>4
<1>5. ASSUME NEW i \in Valists
      PROVE  /\ stack'[i] \in Level /\ stack'[i].kind = "frame"
             /\ stack'[i].array = new[i] /\ stack'[i].left = stack[i].left
             /\ stack'[i].took = TRUE
  <2>0. i \in 1..Depth
    BY <1>3
  <2>1. stack[i] \in Level
    BY <1>1, <2>0 DEF Depth
  <2>2. stack[i].left \in Nat
    BY <2>1 DEF Level
  <2>3. new[i] \in Arrays \union {NoArray} /\ TRUE \in BOOLEAN
    BY <1>3
  <2>4. stack'[i] = Frame(new[i], stack[i].left, TRUE)
    BY <1>3
  <2>5. /\ Frame(new[i], stack[i].left, TRUE) \in Level
        /\ Frame(new[i], stack[i].left, TRUE).kind = "frame"
        /\ Frame(new[i], stack[i].left, TRUE).array = new[i]
        /\ Frame(new[i], stack[i].left, TRUE).left = stack[i].left
        /\ Frame(new[i], stack[i].left, TRUE).took = TRUE
    BY <2>2, <2>3 DEF Frame, Level
  <2> QED
    BY <2>4, <2>5
<1>6. stack' \in [1..Depth -> Level]
  <2>1. \A i \in 1..Depth : stack[i] \in Level
    BY <1>1 DEF Depth
  <2>2. \A i \in 1..Depth : stack'[i] \in Level
    BY <1>4, <1>5, <2>1
  <2>3. stack' = [i \in 1..Depth |-> stack'[i]]
    BY <1>2
  <2> QED
    BY <2>2, <2>3
<1>7. stack' \in Seq(Level) /\ Len(stack') = Depth
  BY <1>1, <1>6, MapFacts
<1>8. Depth' = Depth
  BY <1>7 DEF Depth
<1>9. \A i \in 1..Depth : stack'[i].kind = stack[i].kind
  BY <1>3, <1>4, <1>5
<1>10. /\ held \subseteq held' /\ held' \subseteq Arrays
       /\ \A i \in Valists : new[i] \in held'
  BY <1>1, <1>2, <1>3
<1>18. ASSUME NEW i \in Valists, NEW j \in 1..Depth, i # j
       PROVE  stack'[i].array # stack'[j].array
  <2>1. stack'[i].array = new[i] /\ stack[j].array # new[i]
    BY <1>3, <1>5
  <2>2. CASE j \in Valists
    <3>1. stack'[j].array = new[j]
      BY <1>5, <2>2
    <3>2. new[i] # new[j]
      BY <1>2, <1>18, <2>2
    <3> QED
      BY <2>1, <3>1, <3>2
  <2>3. CASE j \notin Valists
    <3>1. stack'[j] = stack[j]
      BY <1>4, <2>3
    <3> QED
      BY <2>1, <3>1
  <2> QED
    BY <2>2, <2>3
<1>11. ASSUME NEW i \in 1..Depth, stack'[i].took
       PROVE  \/ i \notin Valists /\ stack'[i] = stack[i] /\ stack[i].took
              \/ i \in Valists /\ stack'[i].array = new[i]
  BY <1>4, <1>5, <1>11
<1>12. TypeOK'
  <2>1. ASSUME NEW i \in 1..Depth, stack'[i].kind = "sub"
        PROVE  stack'[i].src \in 1..(i - 1)
               /\ stack'[stack'[i].src].kind = "frame"
    <3>1. stack'[i] = stack[i]
      BY <1>4, <1>5, <2>1
    <3>2. stack[i].src \in 1..(i - 1) /\ stack[stack[i].src].kind = "frame"
      BY <2>1, <3>1 DEF IInv, TypeOK
    <3>3. stack[i].src \in 1..Depth
      BY <1>1, <3>2
    <3> QED
      BY <1>9, <3>1, <3>2, <3>3
  <2> QED
    BY <1>1, <1>7, <1>8, <1>10, <2>1 DEF TypeOK
<1>13. LevelInv'
  <2>1. ASSUME NEW i \in 1..Depth
        PROVE  /\ stack'[i].kind \in {"sub", "trap"} =>
                     stack'[i].array = NoArray /\ ~stack'[i].took
               /\ stack'[i].took => (stack'[i].kind = "frame" =>
                     stack'[i].left > 0)
    <3>1. CASE i \in Valists
      BY <1>3, <1>5, <3>1
    <3>2. CASE i \notin Valists
      BY <1>4, <3>2 DEF IInv, LevelInv
    <3> QED
      BY <3>1, <3>2
  <2> QED
    BY <1>8, <2>1 DEF LevelInv
<1>14. OneTaker'
  <2>1. ASSUME NEW i \in 1..Depth, stack'[i].took
        PROVE  stack'[i].array \in held'
    <3>1. CASE i \notin Valists /\ stack'[i] = stack[i] /\ stack[i].took
      BY <1>10, <3>1, TakerFacts
    <3>2. CASE i \in Valists /\ stack'[i].array = new[i]
      BY <1>10, <3>2
    <3> QED
      BY <1>11, <2>1, <3>1, <3>2
  <2>2. ASSUME NEW i \in 1..Depth, stack'[i].took,
               NEW j \in 1..Depth, stack'[j].took,
               stack'[j].array = stack'[i].array
        PROVE  j = i
    <3>1. CASE i \notin Valists /\ j \notin Valists
      <4>1. /\ stack[i].took /\ stack[j].took
            /\ stack[i].array = stack[j].array
        BY <1>4, <2>2, <3>1
      <4> QED
        BY <4>1, TakerFacts
    <3>2. CASE i \in Valists
      BY <1>18, <2>2, <3>2
    <3>3. CASE j \in Valists
      BY <1>18, <2>2, <3>3
    <3> QED
      BY <3>1, <3>2, <3>3
  <2> QED
    BY <1>8, <2>1, <2>2 DEF OneTaker
<1>16. Owned
  <2>1. ASSUME NEW a \in held', Taken(a) \/ a \notin held
        PROVE  \E i \in 1..Depth : stack'[i].took /\ stack'[i].array = a
    <3>1. CASE Taken(a)
      <4>1. PICK i \in 1..Depth : stack[i].took /\ stack[i].array = a
        BY <3>1 DEF Taken
      <4>2. i \notin Valists
        BY <1>3, <4>1, TakerFacts
      <4> QED
        BY <1>4, <4>1, <4>2
    <3>2. CASE a \notin held
      <4>1. PICK i \in Valists : a = new[i]
        BY <1>2, <2>1, <3>2
      <4>2. stack'[i].took /\ stack'[i].array = a /\ i \in 1..Depth
        BY <1>3, <1>5, <4>1
      <4> QED
        BY <4>2
    <3> QED
      BY <2>1, <3>1, <3>2
  <2> QED
    BY <1>8, <2>1 DEF Owned, Taken
<1> QED
  BY <1>1, <1>12, <1>13, <1>14, <1>16 DEF IInv

----------------------------------------------------------------------------
\* Every step keeps the invariant, and every hold keeps its owner.
LEMMA NextIInv == IInv /\ [Next]_vars => IInv' /\ Owned
<1> SUFFICES ASSUME IInv, [Next]_vars PROVE IInv' /\ Owned
  OBVIOUS
<1>0. stack \in Seq(Level) /\ held \subseteq Arrays /\ Depth \in Nat
      /\ failing \in BOOLEAN
  BY DEF IInv, TypeOK, Depth
<1>1. ASSUME NEW e \in Level, stack' = Append(stack, e)
      PROVE  /\ stack' \in Seq(Level) /\ Depth' = Depth + 1
             /\ \A i \in 1..Depth : stack'[i] = stack[i]
             /\ stack'[Depth + 1] = e
  BY <1>0, <1>1, PushFacts DEF Depth
<1>2. ASSUME Depth > 0, stack' = SubSeq(stack, 1, Depth - 1)
      PROVE  /\ stack' \in Seq(Level) /\ Depth' = Depth - 1
             /\ \A i \in 1..Depth' : stack'[i] = stack[i]
             /\ Depth \in 1..Depth
  <2>1. Depth - 1 \in 0..Len(stack)
    BY <1>0, <1>2 DEF Depth
  <2>2. /\ stack' \in Seq(Level) /\ Len(stack') = Depth - 1
        /\ \A i \in 1..(Depth - 1) : stack'[i] = stack[i]
    BY <1>0, <1>2, <2>1, PopFacts
  <2>3. Depth' = Depth - 1
    BY <2>2 DEF Depth
  <2> QED
    BY <1>0, <1>2, <2>2, <2>3
<1>3. ASSUME NEW a \in Arrays, NEW n \in 0..MaxItems, Push_Frame(a, n)
      PROVE  IInv' /\ Owned
  <2> DEFINE b == n > 0 /\ a \notin held
  <2>1. /\ held' = IF n = 0 THEN held ELSE held \union {a}
        /\ stack' = Append(stack, Frame(a, n, b)) /\ failing' = failing
    BY <1>3 DEF Push_Frame
  <2>2. n \in Nat /\ b \in BOOLEAN
    BY HoldsAssumption
  <2>3. b => n > 0 /\ a \notin held
    OBVIOUS
  <2>4. n > 0 => a \in held \/ b
    OBVIOUS
  <2> HIDE DEF b
  <2> DEFINE e == Frame(a, n, b)
  <2>5. /\ e \in Level /\ e.kind = "frame" /\ e.array = a /\ e.left = n
        /\ e.took = b
    BY <2>2, FrameFacts
  <2>6. stack' = Append(stack, e)
    BY <2>1
  <2> HIDE DEF e
  <2>7. /\ stack' \in Seq(Level) /\ Depth' = Depth + 1
        /\ \A i \in 1..Depth : stack'[i] = stack[i]
        /\ stack'[Depth + 1] = e
    BY <1>1, <2>5, <2>6
  <2>8. held' = held \/ (held' = held \union {e.array} /\ e.array \in Arrays)
    BY <2>1, <2>5
  <2>10. e.array \in held' => e.array \in held \/ e.took
    BY <2>1, <2>2, <2>4, <2>5
  <2>11. e.took => e.array \in held' /\ e.left > 0 /\ e.array \notin held
    BY <2>1, <2>2, <2>3, <2>5
  <2>12. e.array \in Arrays /\ e.kind # "sub" /\ e.kind # "trap"
         /\ failing' \in BOOLEAN
    BY <1>0, <2>1, <2>5
  <2> QED
    BY <2>5, <2>7, <2>8, <2>10, <2>11, <2>12, PushStep
<1>4. ASSUME NEW n \in 0..MaxItems, Push_Valist_Frame(n)
      PROVE  IInv' /\ Owned
  <2> DEFINE e == Frame(NoArray, n, FALSE)
  <2>1. held' = held /\ stack' = Append(stack, e) /\ failing' = failing
    BY <1>4 DEF Push_Valist_Frame
  <2>2. n \in Nat
    BY HoldsAssumption
  <2>3. /\ e \in Level /\ e.kind = "frame" /\ e.array = NoArray
        /\ e.took = FALSE
    BY <2>2, FrameFacts
  <2> HIDE DEF e
  <2>4. /\ stack' \in Seq(Level) /\ Depth' = Depth + 1
        /\ \A i \in 1..Depth : stack'[i] = stack[i]
        /\ stack'[Depth + 1] = e
    BY <1>1, <2>1, <2>3
  <2>5. ~e.took /\ e.array \notin held'
    BY <1>0, <2>1, <2>3, HoldsAssumption
  <2>6. failing' \in BOOLEAN /\ held' = held
    BY <1>0, <2>1
  <2> QED
    BY <2>3, <2>4, <2>5, <2>6, PushStep
<1>5. ASSUME NEW j \in 1..Depth, Push_Subframe(j)
      PROVE  IInv' /\ Owned
  BY <1>5, SubframeStep
<1>6. CASE Fetch_Next
  BY <1>6, FetchStep
<1>7. CASE Drop_Frame
  <2>1. /\ Depth > 0 /\ stack' = SubSeq(stack, 1, Depth - 1)
        /\ held' = held /\ failing' \in BOOLEAN /\ IsFrame(Depth)
    BY <1>0, <1>7 DEF Drop_Frame
  <2>2. /\ stack' \in Seq(Level) /\ Depth' = Depth - 1
        /\ \A i \in 1..Depth' : stack'[i] = stack[i]
        /\ Depth \in 1..Depth
    BY <1>2, <2>1
  <2>3. Top.took => Top.kind = "frame"
    BY <2>1, <2>2, TakerFacts DEF Top, IsFrame
  <2> QED
    BY <2>1, <2>2, <2>3, PopStep
<1>8. CASE Abort_Frame
  <2>1. /\ Depth > 0 /\ Top.kind = "frame" /\ Unwind(Depth - 1)
        /\ failing' \in BOOLEAN
    BY <1>0, <1>8 DEF Abort_Frame
  <2>2. Depth - 1 \in 0..Depth
        /\ \A i \in ((Depth - 1) + 1)..Depth : i = Depth
    BY <1>0, <2>1
  <2>3. \A i \in ((Depth - 1) + 1)..Depth : IsFrame(i)
    BY <2>1, <2>2 DEF Top, IsFrame
  <2> QED
    BY <2>1, <2>2, <2>3, UnwindStep
<1>9. ASSUME NEW k \in 1..Depth, Fail_Core(k) \/ Fail_Again(k)
      PROVE  IInv' /\ Owned
  <2>1. /\ Unwind(k) /\ failing' \in BOOLEAN
        /\ \A i \in (k + 1)..Depth : IsFrame(i)
    BY <1>0, <1>9 DEF Fail_Core, Fail_Again
  <2>2. k \in 0..Depth
    BY <1>0
  <2> QED
    BY <2>1, <2>2, UnwindStep
<1>10. CASE Push_Trap
  <2>1. held' = held /\ stack' = Append(stack, Trap) /\ failing' \in BOOLEAN
    BY <1>0, <1>10 DEF Push_Trap
  <2>2. /\ Trap \in Level /\ Trap.kind = "trap" /\ Trap.array = NoArray
        /\ Trap.took = FALSE
    BY DEF Trap, Level
  <2>3. /\ stack' \in Seq(Level) /\ Depth' = Depth + 1
        /\ \A i \in 1..Depth : stack'[i] = stack[i]
        /\ stack'[Depth + 1] = Trap
    BY <1>1, <2>1, <2>2
  <2>4. ~Trap.took /\ Trap.array \notin held'
    BY <1>0, <2>1, <2>2, HoldsAssumption
  <2> QED
    BY <2>1, <2>2, <2>3, <2>4, PushStep
<1>11. CASE Leave_Trap
  <2>0. Depth > 0 /\ failing' \in BOOLEAN
    <3>1. Depth > 1 /\ failing' = FALSE
      BY <1>11 DEF Leave_Trap
    <3>2. Depth > 0
      BY <1>0, <3>1
    <3>3. failing' \in BOOLEAN
      BY <3>1
    <3> QED
      BY <3>2, <3>3
  <2>1. /\ Depth > 0 /\ stack' = SubSeq(stack, 1, Depth - 1)
        /\ held' = held /\ failing' \in BOOLEAN /\ Top.kind = "trap"
    BY <1>11, <2>0 DEF Leave_Trap
  <2>2. /\ stack' \in Seq(Level) /\ Depth' = Depth - 1
        /\ \A i \in 1..Depth' : stack'[i] = stack[i]
        /\ Depth \in 1..Depth
    BY <1>2, <2>1
  <2>3. ~Top.took
    BY <2>1, <2>2, TakerFacts DEF Top
  <2> QED
    BY <2>1, <2>2, <2>3, PopStep
<1>12. ASSUME held' = held, stack' = stack, failing' \in BOOLEAN
       PROVE  IInv' /\ Owned
  <2>1. IInv'
    BY <1>0, <1>12 DEF IInv, TypeOK, LevelInv, OneTaker, Depth
  <2>2. Owned
    BY <1>12 DEF Owned, Taken, Depth
  <2> QED
    BY <2>1, <2>2
<1>13. CASE Top_Level_Error
  BY <1>12, <1>13 DEF Top_Level_Error
<1>14. ASSUME NEW a \in Arrays, Loop_Each(a)
       PROVE  IInv' /\ Owned
  <2> DEFINE e == Loop(a, a \notin held)
  <2>1. held' = held \union {a} /\ stack' = Append(stack, e)
        /\ failing' \in BOOLEAN
    BY <1>0, <1>14 DEF Loop_Each
  <2>2. (a \notin held) \in BOOLEAN
    OBVIOUS
  <2>3. /\ e \in Level /\ e.kind = "loop" /\ e.array = a /\ e.left = 0
        /\ e.took = (a \notin held)
    BY <2>2 DEF Loop, Level
  <2> HIDE DEF e
  <2>4. /\ stack' \in Seq(Level) /\ Depth' = Depth + 1
        /\ \A i \in 1..Depth : stack'[i] = stack[i]
        /\ stack'[Depth + 1] = e
    BY <1>1, <2>1, <2>3
  <2>5. /\ e.array \in Arrays /\ e.array \in held'
        /\ e.took => e.array \notin held
        /\ e.array \in held \/ e.took
        /\ held' = held \union {e.array}
    BY <2>1, <2>3
  <2> QED
    BY <2>1, <2>3, <2>4, <2>5, PushStep
<1>15. CASE Loop_Each_Cleanup
  <2>1. /\ Depth > 0 /\ stack' = SubSeq(stack, 1, Depth - 1)
        /\ held' = (IF Top.took THEN held \ {Top.array} ELSE held)
        /\ failing' \in BOOLEAN
    BY <1>0, <1>15 DEF Loop_Each_Cleanup
  <2>2. /\ stack' \in Seq(Level) /\ Depth' = Depth - 1
        /\ \A i \in 1..Depth' : stack'[i] = stack[i]
    BY <1>2, <2>1
  <2>3. CASE Top.took
    BY <2>1, <2>2, <2>3, PopStep
  <2>4. CASE ~Top.took
    BY <2>1, <2>2, <2>4, PopStep
  <2> QED
    BY <2>3, <2>4
<1>16. CASE Reify_Any_C_Valist_Frames
  BY <1>16, ReifyStep
<1>17. CASE UNCHANGED vars
  BY <1>0, <1>12, <1>17 DEF vars
<1> QED
  BY <1>3, <1>4, <1>5, <1>6, <1>7, <1>8, <1>9, <1>10, <1>11, <1>13, <1>14,
     <1>15, <1>16, <1>17 DEF Next

LEMMA Invariance == Spec => []IInv
<1>1. IInv /\ [Next]_vars => IInv'
  BY NextIInv
<1> QED
  BY InitIInv, <1>1, PTL DEF Spec

\* Fetch_Next: what is above the frame whose feed ended, or over the code
\* that used it up.
LEMMA FetchOutlives == ASSUME IInv, Fetch_Next PROVE Outlived
<1> DEFINE f == Feed(Depth)
<1>1. stack \in Seq(Level) /\ Depth \in Nat
  BY DEF IInv, TypeOK, Depth
<1>2. Depth \in 1..Depth /\ IsFrame(Depth)
  BY <1>1 DEF Fetch_Next
<1>3. /\ f \in 1..Depth /\ stack[f].kind = "frame"
      /\ stack[Depth].kind = "frame" => f = Depth
      /\ stack[Depth].kind = "sub" => stack[Depth].src = f
  BY <1>2, FeedIsFrame DEF Feed
<1>4. \/ /\ stack' = [stack EXCEPT ![f].left = 0, ![f].took = FALSE]
         /\ held' = held \ {stack[f].array}
      \/ held' = held
  BY DEF Fetch_Next
<1> HIDE DEF f
<1>5. ASSUME NEW a \in held \ held', NEW j \in 1..Depth,
             stack[j].took, stack[j].array = a,
             NEW i \in Readers(a)', ~(i < j)
      PROVE  Lent(j)
  <2>1. /\ stack' = [stack EXCEPT ![f].left = 0, ![f].took = FALSE]
        /\ a = stack[f].array /\ stack[f] \in Level
    BY <1>1, <1>3, <1>4, <1>5 DEF Depth
  <2>2. /\ Len(stack') = Len(stack)
        /\ stack'[f].left = 0 /\ stack'[f].kind = "frame"
        /\ \A m \in 1..Depth : m # f => stack'[m] = stack[m]
    BY <1>1, <1>3, <2>1 DEF Depth, Level
  <2>3. Depth' = Depth
    BY <2>2 DEF Depth
  <2>4. /\ i \in 1..Depth /\ stack'[i].array = a
        /\ stack'[i].left > 0 \/ stack'[i].kind = "loop"
    BY <2>3 DEF Readers
  <2>5. CASE stack[f].took
    <3>1. f = j
      BY <1>3, <1>5, <2>1, <2>5, TakerFacts
    <3>2. i # f
      BY <2>2, <2>4
    <3>3. stack[i].array = a /\ a # NoArray
      BY <1>5, <2>2, <2>4, <3>2, TakerFacts
    <3>4. stack[i].kind # "sub"
      BY <2>4, <3>3 DEF IInv, LevelInv
    <3>5. stack[Depth].kind = "sub" /\ stack[Depth].src = j
      <4>1. f # Depth
        BY <1>1, <1>5, <2>4, <3>1, <3>2
      <4> QED
        BY <1>2, <1>3, <3>1, <4>1 DEF IsFrame
    <3>6. i \in (j + 1)..(Depth - 1)
      BY <1>1, <1>5, <2>4, <3>1, <3>2, <3>4, <3>5
    <3> QED
      BY <1>2, <3>4, <3>5, <3>6 DEF Lent
  <2>6. CASE ~stack[f].took
    <3>1. held' = held
      BY <2>6 DEF Fetch_Next, f
    <3> QED
      BY <1>5, <3>1
  <2> QED
    BY <2>5, <2>6
<1> QED
  BY <1>5 DEF Outlived

\* Unwind: a frame below the trap whose feed a VARARGS! above it was using.
LEMMA UnwindOutlives ==
    ASSUME IInv, NEW k \in 0..Depth, Unwind(k),
           \/ /\ k > 0 /\ stack[k].kind \in {"trap", "loop"}
              /\ \A i \in (k + 1)..Depth : IsFrame(i)
           \/ \A i \in (k + 1)..Depth : stack[i].kind = "frame"
    PROVE  Outlived
<1>1. stack \in Seq(Level) /\ Depth \in Nat
  BY DEF IInv, TypeOK, Depth
<1>2. k \in Nat /\ \A i \in 1..k : i \in 1..Depth
  BY <1>1
<1>3. /\ held' = held \ Released(k)
      /\ stack' = [i \in 1..k |-> IF i \in Aborting(k) THEN Aborted(stack[i])
                                  ELSE stack[i]]
  BY DEF Unwind
<1>4. Len(stack') = k
  BY <1>2, <1>3
<1>5. Depth' = k
  BY <1>4 DEF Depth
<1>6. ASSUME NEW a \in held \ held', NEW j \in 1..Depth,
             stack[j].took, stack[j].array = a,
             NEW i \in Readers(a)', ~(i < j)
      PROVE  Lent(j)
  <2>1. i \in 1..k /\ stack'[i].array = a
    BY <1>5 DEF Readers
  <2>2. stack[i].array = a
    <3>1. stack[i] \in Level
      BY <1>1, <1>2, <2>1 DEF Depth
    <3> QED
      BY <1>3, <2>1, <3>1, AbortedFacts
  <2>3. a # NoArray /\ i \in 1..Depth
    BY <1>2, <1>6, <2>1, TakerFacts
  <2>4. stack[i].kind # "sub"
    BY <2>2, <2>3 DEF IInv, LevelInv
  <2>5. PICK m \in Aborting(k) : stack[m].took /\ stack[m].array = a
    BY <1>3, <1>6 DEF Released
  <2>6. PICK p \in (k + 1)..Depth : IsFrame(p) /\ m = Feed(p)
    BY <2>5 DEF Aborting
  <2>7. p \in 1..Depth
    BY <1>1, <1>2, <2>6
  <2>8. m \in 1..p /\ stack[m].kind = "frame"
        /\ (stack[p].kind = "frame" => m = p)
        /\ (stack[p].kind = "sub" => stack[p].src = m)
    BY <2>6, <2>7, FeedIsFrame DEF Feed
  <2>9. m \in 1..Depth
    BY <1>1, <2>7, <2>8
  <2>10. m = j
    BY <1>6, <2>5, <2>9, TakerFacts
  <2>11. j \in 1..k
    BY <1>1, <1>2, <1>6, <2>1
  <2>12. stack[p].kind = "sub" /\ stack[p].src = j
    <3>1. p # m
      BY <1>2, <2>6, <2>10, <2>11
    <3> QED
      BY <2>6, <2>8, <2>10, <3>1 DEF IsFrame
  <2>13. stack[k].kind \in {"trap", "loop"} /\ k \in 1..Depth
    BY <1>2, <2>6, <2>11, <2>12
  <2>14. CASE i = j
    <3>1. k # j
      BY <2>8, <2>10, <2>13
    <3>2. k \in (j + 1)..(p - 1)
      BY <1>1, <1>2, <2>6, <2>11, <3>1
    <3> QED
      BY <2>7, <2>12, <2>13, <3>2 DEF Lent
  <2>15. CASE i # j
    <3>1. i \in (j + 1)..(p - 1)
      BY <1>1, <1>2, <1>6, <2>1, <2>6, <2>15
    <3> QED
      BY <2>4, <2>7, <2>12, <3>1 DEF Lent
  <2> QED
    BY <2>14, <2>15
<1> QED
  BY <1>6 DEF Outlived

\* A hold is cleared by three steps only.
LEMMA NextOutlives == IInv /\ [Next]_vars => Outlived
<1> SUFFICES ASSUME IInv, [Next]_vars PROVE Outlived
  OBVIOUS
<1>0. stack \in Seq(Level) /\ Depth \in Nat
  BY DEF IInv, TypeOK, Depth
<1>1. ASSUME held \subseteq held' PROVE Outlived
  BY <1>1 DEF Outlived
<1>2. ASSUME NEW a \in Arrays, NEW n \in 0..MaxItems, Push_Frame(a, n)
      PROVE  Outlived
  BY <1>1, <1>2 DEF Push_Frame
<1>3. ASSUME NEW n \in 0..MaxItems, Push_Valist_Frame(n)
      PROVE  Outlived
  BY <1>1, <1>3 DEF Push_Valist_Frame
<1>4. ASSUME NEW j \in 1..Depth, Push_Subframe(j)
      PROVE  Outlived
  BY <1>1, <1>4 DEF Push_Subframe
<1>5. CASE Fetch_Next
  BY <1>5, FetchOutlives
<1>6. CASE Drop_Frame
  BY <1>1, <1>6 DEF Drop_Frame
<1>7. CASE Abort_Frame
  <2>1. Depth > 0 /\ Top.kind = "frame" /\ Unwind(Depth - 1)
    BY <1>7 DEF Abort_Frame
  <2>2. Depth - 1 \in 0..Depth
        /\ \A i \in ((Depth - 1) + 1)..Depth : i = Depth
    BY <1>0, <2>1
  <2>3. \A i \in ((Depth - 1) + 1)..Depth : stack[i].kind = "frame"
    BY <2>1, <2>2 DEF Top
  <2> QED
    BY <2>1, <2>2, <2>3, UnwindOutlives
<1>8. ASSUME NEW k \in 1..Depth, Fail_Core(k) \/ Fail_Again(k)
      PROVE  Outlived
  <2>1. /\ Unwind(k) /\ stack[k].kind \in {"trap", "loop"}
        /\ \A i \in (k + 1)..Depth : IsFrame(i)
    BY <1>8 DEF Fail_Core, Fail_Again
  <2>2. k \in 0..Depth /\ k > 0
    BY <1>0
  <2> QED
    BY <2>1, <2>2, UnwindOutlives
<1>9. CASE Push_Trap
  BY <1>1, <1>9 DEF Push_Trap
<1>10. CASE Leave_Trap
  BY <1>1, <1>10 DEF Leave_Trap
<1>11. CASE Top_Level_Error
  BY <1>1, <1>11 DEF Top_Level_Error
<1>12. ASSUME NEW a \in Arrays, Loop_Each(a)
       PROVE  Outlived
  BY <1>1, <1>12 DEF Loop_Each
<1>13. CASE Loop_Each_Cleanup
  <2>1. /\ Depth > 0 /\ stack' = SubSeq(stack, 1, Depth - 1)
        /\ held' = (IF Top.took THEN held \ {Top.array} ELSE held)
    BY <1>13 DEF Loop_Each_Cleanup
  <2>2. Depth - 1 \in 0..Len(stack) /\ Depth \in 1..Depth
    BY <1>0, <2>1 DEF Depth
  <2>3. Len(stack') = Depth - 1
    BY <1>0, <2>1, <2>2, PopFacts
  <2>4. ASSUME NEW a \in held \ held', NEW j \in 1..Depth,
               stack[j].took, stack[j].array = a,
               NEW i \in Readers(a)'
        PROVE  i < j
    <3>1. Top.took /\ a = Top.array
      BY <2>1, <2>4
    <3>2. j = Depth
      BY <2>2, <2>4, <3>1, TakerFacts DEF Top
    <3>3. i \in 1..(Depth - 1)
      BY <2>3 DEF Readers, Depth
    <3> QED
      BY <1>0, <3>2, <3>3
  <2> QED
    BY <2>4 DEF Outlived
<1>14. CASE Reify_Any_C_Valist_Frames
  <2>1. held \subseteq held'
    BY <1>14 DEF Reify_Any_C_Valist_Frames
  <2> QED
    BY <1>1, <2>1
<1>15. CASE UNCHANGED vars
  BY <1>1, <1>15 DEF vars
<1> QED
  BY <1>2, <1>3, <1>4, <1>5, <1>6, <1>7, <1>8, <1>9, <1>10, <1>11, <1>12,
     <1>13, <1>14, <1>15 DEF Next

----------------------------------------------------------------------------
\* Type correctness: the feed a subframe reads is always that of a frame
\* further down which is still there, whoever aborts or drops what.
THEOREM TypeCorrect == Spec => []TypeOK
<1>1. IInv => TypeOK
  BY DEF IInv
<1> QED
  BY <1>1, Invariance, PTL

\* An array's HOLD bit has at most one owner, who finds it still set,
\* whatever shares feeds or is dropped early: no assertion about TOOK_HOLD
\* in Fetch_Next_In_Feed, Abort_Frame or Finalize_Remove_Each can fail.
THEOREM SingleTaker == Spec => []OneTaker
<1>1. IInv => OneTaker
  BY DEF IInv
<1> QED
  BY <1>1, Invariance, PTL

\* When a hold is cleared, neither its owner nor a level above still runs or
\* enumerates the array, but for a VARARGS! that used up or aborted the feed
\* of a frame below the code it runs in.
THEOREM HoldsOutliveReaders == Spec => HoldOutlivesReaders
<1>1. IInv /\ [Next]_vars => Outlived
  BY NextOutlives
<1>2. IInv /\ [Next]_vars =>
         [\A a \in held \ held', j \in 1..Depth :
             stack[j].took /\ stack[j].array = a =>
                (\A i \in Readers(a)' : i < j) \/ Lent(j)]_vars
  BY <1>1 DEF Outlived
<1> QED
  BY <1>2, Invariance, PTL DEF Spec, HoldOutlivesReaders

\* A hold whose owner is gone was left by a frame dropped before the end of
\* its feed, as on a THROW: no error, loop, abort or collection leaves one.
THEOREM OnlyDropsLeak == Spec => HoldsLeakOnlyByDrop
<1>1. IInv /\ [Next]_vars => Owned
  BY NextIInv
<1>2. IInv /\ [Next]_vars =>
         [\A a \in held' :
             Taken(a)' \/ (a \in held /\ ~Taken(a))
               \/ /\ Top.kind = "frame" /\ Top.array = a /\ Top.left > 0
                  /\ Top.took
                  /\ stack' = SubSeq(stack, 1, Depth - 1)]_vars
  BY <1>1 DEF Owned, Dropped
<1> QED
  BY <1>2, Invariance, PTL DEF Spec, HoldsLeakOnlyByDrop
============================================================================
