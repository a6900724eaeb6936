------------------------- MODULE PictureStream_proofs -------------------------
(***************************************************************************)
(* That PictureInvariant holds of every behaviour of the painted picture,  *)
(* for any readbacks, steps and limits of the queue, and what follows from *)
(* it: the picture is of one run, and never goes back once it plays.       *)
(***************************************************************************)
EXTENDS PictureStream, SequenceTheorems, TLAPS

-----------------------------------------------------------------------------
(* Numbers and sequences.                                                   *)

\* Generations and steps are numbers, and no generation is zero but the first.
LEMMA Numbers ==
    /\ \A g \in Generations : g \in Nat
    /\ \A r \in Readbacks : r \in Nat /\ r # 0 /\ r \in Generations
    /\ \A g \in Generations : g # 0 => g \in Readbacks
    /\ \A x \in Pictures : x.generation \in Readbacks /\ x.step \in 0 .. MaxStep /\ x.step \in Nat
    /\ 0 \in 0 .. MaxStep /\ \A x \in 0 .. MaxStep : x \in Nat /\ x # None
    /\ \A x \in Pictures : x # None
BY GenerationsAssumption, NoneAssumption DEF Generations, Pictures

\* A picture is of its generation and its step.
LEMMA PictureIs ==
    ASSUME NEW g \in Readbacks, NEW s \in 0 .. MaxStep
    PROVE  /\ Picture(g, s) \in Pictures
           /\ Picture(g, s).generation = g /\ Picture(g, s).step = s
BY DEF Picture, Pictures

\* A function on 1 .. n is a sequence of length n.
LEMMA FunctionIsSeq ==
    ASSUME NEW S, NEW n \in Nat, NEW f \in [1 .. n -> S]
    PROVE  f \in Seq(S) /\ Len(f) = n
<1>1. f \in Seq(S) BY SeqDef
<1>2. Len(f) \in Nat /\ DOMAIN f = 1 .. Len(f) BY <1>1, LenProperties
<1>3. DOMAIN f = 1 .. n OBVIOUS
<1>4. Len(f) = n BY <1>2, <1>3
<1>. QED BY <1>1, <1>4

\* A queue is a sequence of copies within the limit.
LEMMA QueueIs ==
    ASSUME NEW q
    PROVE  q \in Queues <=> q \in Seq(Pictures) /\ Len(q) <= Limit
<1>1. ASSUME q \in Queues PROVE q \in Seq(Pictures) /\ Len(q) <= Limit
  <2>1. PICK n \in 0 .. Limit : q \in [1 .. n -> Pictures] BY <1>1 DEF Queues
  <2>2. n \in Nat /\ n <= Limit BY PlayoutAssumption
  <2>3. q \in Seq(Pictures) /\ Len(q) = n BY <2>1, <2>2, FunctionIsSeq
  <2>. QED BY <2>2, <2>3
<1>2. ASSUME q \in Seq(Pictures), Len(q) <= Limit PROVE q \in Queues
  <2>1. q \in [1 .. Len(q) -> Pictures] /\ Len(q) \in Nat BY <1>2, LenProperties
  <2>2. Len(q) \in 0 .. Limit BY <1>2, <2>1, PlayoutAssumption
  <2>. QED BY <2>1, <2>2 DEF Queues
<1>. QED BY <1>1, <1>2

\* The parts of a sequence and of its tail.
LEMMA TailIs ==
    ASSUME NEW S, NEW s \in Seq(S), s # <<>>
    PROVE  /\ Len(s) \in Nat /\ Len(s) > 0 /\ DOMAIN s = 1 .. Len(s)
           /\ Head(s) = s[1] /\ Head(s) \in S
           /\ Tail(s) \in Seq(S) /\ Len(Tail(s)) = Len(s) - 1
           /\ DOMAIN Tail(s) = 1 .. Len(s) - 1
           /\ \A i \in 1 .. Len(s) - 1 : Tail(s)[i] = s[i + 1] /\ i + 1 \in 1 .. Len(s)
<1>1. Len(s) \in Nat /\ Len(s) > 0 /\ DOMAIN s = 1 .. Len(s)
  BY EmptySeq, LenProperties
<1>2. Head(s) = s[1] /\ Head(s) \in S
  BY <1>1, ElementOfSeq
<1>3. /\ Tail(s) \in Seq(S) /\ Len(Tail(s)) = Len(s) - 1
      /\ \A i \in 1 .. Len(Tail(s)) : Tail(s)[i] = s[i + 1]
  BY HeadTailProperties
<1>4. DOMAIN Tail(s) = 1 .. Len(s) - 1
  BY <1>3, LenProperties
<1>. QED BY <1>1, <1>2, <1>3, <1>4

\* The parts of a sequence with one more at its end.
LEMMA AppendIs ==
    ASSUME NEW S, NEW s \in Seq(S), NEW x \in S
    PROVE  /\ Len(s) \in Nat /\ DOMAIN s = 1 .. Len(s)
           /\ Append(s, x) \in Seq(S) /\ Len(Append(s, x)) = Len(s) + 1
           /\ DOMAIN Append(s, x) = 1 .. Len(s) + 1
           /\ \A i \in 1 .. Len(s) : Append(s, x)[i] = s[i]
           /\ Append(s, x)[Len(s) + 1] = x
BY AppendProperties, LenProperties

-----------------------------------------------------------------------------
(* The playout.                                                             *)

\* A playout's parts.
LEMMA PlayoutIs ==
    ASSUME NEW p \in Playout
    PROVE  /\ p.queue \in Seq(Pictures) /\ Len(p.queue) \in Nat /\ Len(p.queue) <= Limit
           /\ DOMAIN p.queue = 1 .. Len(p.queue)
           /\ \A i \in 1 .. Len(p.queue) : p.queue[i] \in Pictures
           /\ p.shown # None => p.shown \in Pictures
           /\ \A x \in Holds(p) : x \in Pictures
<1>1. p.queue \in Seq(Pictures) /\ Len(p.queue) <= Limit
  BY QueueIs DEF Playout
<1>2. Len(p.queue) \in Nat /\ DOMAIN p.queue = 1 .. Len(p.queue)
  BY <1>1, LenProperties
<1>3. \A i \in 1 .. Len(p.queue) : p.queue[i] \in Pictures
  BY <1>1, ElementOfSeq
<1>4. p.shown # None => p.shown \in Pictures BY DEF Playout
<1>5. \A x \in Holds(p) : x \in Pictures BY <1>2, <1>3, <1>4 DEF Holds
<1>. QED BY <1>1, <1>2, <1>3, <1>4, <1>5

\* From p the playout may go on to q: no copy is new, and what is shown is the
\* same or a later one.
GoesOn(p, q) ==
    /\ q \in Playout /\ InOrder(q)
    /\ Holds(q) \subseteq Holds(p)
    /\ \/ q.shown = p.shown
       \/ /\ q.shown \in Pictures
          /\ p.shown # None => p.shown.step <= q.shown.step

\* Dropping the head of the queue goes on, whether it is shown or not.
LEMMA TailGoesOn ==
    ASSUME NEW p \in Playout, InOrder(p), p.queue # <<>>, NEW q \in Playout,
           q.queue = Tail(p.queue), q.shown \in {p.shown, Head(p.queue)}
    PROVE  GoesOn(p, q)
<1>1. /\ p.queue \in Seq(Pictures)
      /\ \A i \in 1 .. Len(p.queue) : p.queue[i] \in Pictures
      /\ p.shown # None => p.shown \in Pictures
  BY PlayoutIs
<1>2. /\ Len(p.queue) \in Nat /\ Len(p.queue) > 0 /\ DOMAIN p.queue = 1 .. Len(p.queue)
      /\ Head(p.queue) = p.queue[1] /\ Head(p.queue) \in Pictures
      /\ DOMAIN q.queue = 1 .. Len(p.queue) - 1
      /\ \A i \in 1 .. Len(p.queue) - 1 :
             q.queue[i] = p.queue[i + 1] /\ i + 1 \in 1 .. Len(p.queue)
  BY <1>1, TailIs
<1>3. 1 \in DOMAIN p.queue BY <1>2
<1>4. Head(p.queue) # None BY <1>2, Numbers
<1>5. InOrder(q)
  <2>1. ASSUME NEW i \in DOMAIN q.queue, NEW j \in DOMAIN q.queue, i <= j
        PROVE  q.queue[i].step <= q.queue[j].step
    <3>1. i + 1 \in DOMAIN p.queue /\ j + 1 \in DOMAIN p.queue /\ i + 1 <= j + 1
      BY <1>2, <2>1
    <3>2. p.queue[i + 1].step <= p.queue[j + 1].step BY <3>1 DEF InOrder
    <3>. QED BY <1>2, <3>2
  <2>2. ASSUME q.shown # None, NEW i \in DOMAIN q.queue
        PROVE  q.shown.step <= q.queue[i].step
    <3>1. i + 1 \in DOMAIN p.queue /\ 1 <= i + 1 BY <1>2
    <3>2. q.queue[i] = p.queue[i + 1] BY <1>2
    <3>3. CASE q.shown = p.shown BY <2>2, <3>1, <3>2, <3>3 DEF InOrder
    <3>4. CASE q.shown = p.queue[1] BY <1>3, <3>1, <3>2, <3>4 DEF InOrder
    <3>. QED BY <1>2, <3>3, <3>4
  <2>. QED BY <2>1, <2>2 DEF InOrder
<1>6. Holds(q) \subseteq Holds(p)
  <2>1. \A i \in DOMAIN q.queue : q.queue[i] \in Holds(p) BY <1>2 DEF Holds
  <2>2. q.shown # None => q.shown \in Holds(p) BY <1>2, <1>3 DEF Holds
  <2>. QED BY <2>1, <2>2 DEF Holds
<1>7. \/ q.shown = p.shown
      \/ q.shown \in Pictures /\ (p.shown # None => p.shown.step <= q.shown.step)
  BY <1>2, <1>3 DEF InOrder
<1>. QED BY <1>5, <1>6, <1>7 DEF GoesOn

\* A playout with the same queue and the same shown goes on.
LEMMA SameGoesOn ==
    ASSUME NEW p \in Playout, InOrder(p), NEW q \in Playout,
           q.queue = p.queue, q.shown = p.shown
    PROVE  GoesOn(p, q)
BY DEF GoesOn, InOrder, Holds

\* Showing the next copy goes on.
LEMMA ShownGoesOn ==
    ASSUME NEW p \in Playout, InOrder(p)
    PROVE  GoesOn(p, Shown(p))
<1>1. CASE p.queue = <<>>
  <2>1. [p EXCEPT !.lone = 0] \in Playout BY PlayoutAssumption DEF Playout
  <2>. QED BY <1>1, <2>1, SameGoesOn DEF Shown, Playout
<1>2. CASE p.queue # <<>> /\ Len(p.queue) = 1 /\ p.lone < LoneWait
  <2>1. [p EXCEPT !.lone = @ + 1] \in Playout
    BY <1>2, PlayoutAssumption DEF Playout
  <2>. QED BY <1>2, <2>1, SameGoesOn DEF Shown, Playout
<1>3. CASE p.queue # <<>> /\ ~(Len(p.queue) = 1 /\ p.lone < LoneWait)
  <2>. DEFINE q == [p EXCEPT !.shown = Head(p.queue), !.queue = Tail(@), !.lone = 0]
  <2>1. p.queue \in Seq(Pictures) /\ Len(p.queue) <= Limit BY PlayoutIs
  <2>2. /\ Head(p.queue) \in Pictures /\ Tail(p.queue) \in Seq(Pictures)
        /\ Len(Tail(p.queue)) = Len(p.queue) - 1 /\ Len(p.queue) \in Nat
    BY <1>3, <2>1, TailIs
  <2>3. Tail(p.queue) \in Queues
    <3>1. Len(Tail(p.queue)) <= Limit BY <2>1, <2>2, PlayoutAssumption
    <3>. QED BY <2>2, <3>1, QueueIs
  <2>4. q \in Playout
    <3>1. 0 \in 0 .. LoneWait BY PlayoutAssumption
    <3>. QED BY <2>2, <2>3, <3>1 DEF Playout
  <2>5. q.queue = Tail(p.queue) /\ q.shown = Head(p.queue) BY DEF Playout
  <2>6. GoesOn(p, q) BY <1>3, <2>4, <2>5, TailGoesOn
  <2>. QED BY <1>3, <2>6 DEF Shown
<1>. QED BY <1>1, <1>2, <1>3

\* So does trimming.
LEMMA TrimmedGoesOn ==
    ASSUME NEW p \in Playout, InOrder(p)
    PROVE  GoesOn(p, Trimmed(p)) /\ Trimmed(p).shown = p.shown
<1>1. CASE Len(p.queue) < 2
  <2>1. [p EXCEPT !.surplus = 0] \in Playout BY PlayoutAssumption DEF Playout
  <2>. QED BY <1>1, <2>1, SameGoesOn DEF Trimmed, Playout
<1>2. CASE ~(Len(p.queue) < 2) /\ p.surplus + 1 < SurplusFrames
  <2>1. [p EXCEPT !.surplus = @ + 1] \in Playout
    BY <1>2, PlayoutAssumption DEF Playout
  <2>. QED BY <1>2, <2>1, SameGoesOn DEF Trimmed, Playout
<1>3. CASE ~(Len(p.queue) < 2) /\ ~(p.surplus + 1 < SurplusFrames)
  <2>. DEFINE q == [p EXCEPT !.queue = Tail(@), !.surplus = 0]
  <2>1. p.queue \in Seq(Pictures) /\ Len(p.queue) <= Limit BY PlayoutIs
  <2>2. p.queue # <<>> BY <1>3, <2>1, EmptySeq
  <2>3. /\ Tail(p.queue) \in Seq(Pictures)
        /\ Len(Tail(p.queue)) = Len(p.queue) - 1 /\ Len(p.queue) \in Nat
    BY <2>1, <2>2, TailIs
  <2>4. Tail(p.queue) \in Queues
    <3>1. Len(Tail(p.queue)) <= Limit BY <2>1, <2>3, PlayoutAssumption
    <3>. QED BY <2>3, <3>1, QueueIs
  <2>5. q \in Playout
    <3>1. 0 \in 0 .. SurplusFrames - 1 BY PlayoutAssumption
    <3>. QED BY <2>4, <3>1 DEF Playout
  <2>6. q.queue = Tail(p.queue) /\ q.shown = p.shown BY DEF Playout
  <2>7. GoesOn(p, q) BY <2>2, <2>5, <2>6, TailGoesOn
  <2>. QED BY <1>3, <2>6, <2>7 DEF Trimmed
<1>. QED BY <1>1, <1>2, <1>3

\* So does the release of a frame.
LEMMA ReleaseGoesOn ==
    ASSUME NEW p \in Playout, InOrder(p)
    PROVE  GoesOn(p, Release(p))
<1>. DEFINE q == Shown(p)
<1>1. GoesOn(p, q) BY ShownGoesOn
<1>2. q \in Playout /\ InOrder(q) BY <1>1 DEF GoesOn
<1>3. GoesOn(q, Trimmed(q)) /\ Trimmed(q).shown = q.shown BY <1>2, TrimmedGoesOn
<1>. HIDE DEF q
<1>4. GoesOn(p, Trimmed(q)) BY <1>1, <1>3 DEF GoesOn
<1>. QED BY <1>4 DEF Release, q

\* A copy pushed after all the others is of the queue, which drops its oldest.
LEMMA PushIs ==
    ASSUME NEW p \in Playout, InOrder(p), NEW copy \in Pictures,
           \A x \in Holds(p) : x.step <= copy.step
    PROVE  /\ Push(p, copy) \in Playout /\ InOrder(Push(p, copy))
           /\ Holds(Push(p, copy)) \subseteq Holds(p) \cup {copy}
           /\ Push(p, copy).shown = p.shown
<1>. DEFINE full == Append(p.queue, copy)
            n == Len(p.queue)
            k == IF n + 1 > Limit THEN 1 ELSE 0
            q == Newest(full)
<1>1. /\ p.queue \in Seq(Pictures) /\ n <= Limit
      /\ \A i \in 1 .. n : p.queue[i] \in Pictures
      /\ p.shown # None => p.shown \in Pictures
  BY PlayoutIs
<1>2. /\ n \in Nat /\ DOMAIN p.queue = 1 .. n
      /\ full \in Seq(Pictures) /\ Len(full) = n + 1
      /\ \A i \in 1 .. n : full[i] = p.queue[i]
      /\ full[n + 1] = copy
  BY <1>1, AppendIs
<1>3. k \in {0, 1} /\ n + 1 - k <= Limit /\ n + 1 - k \in Nat
  BY <1>1, <1>2, PlayoutAssumption
<1>4. /\ q \in Seq(Pictures) /\ Len(q) = n + 1 - k
      /\ \A i \in 1 .. n + 1 - k : q[i] = full[i + k]
  <2>1. CASE n + 1 > Limit
    <3>1. n = Limit /\ n >= 1 BY <1>1, <1>2, <2>1, PlayoutAssumption
    <3>2. q = SubSeq(full, 2, n + 1)
      <4>1. Len(full) > Limit /\ Len(full) - Limit + 1 = 2 /\ Len(full) = n + 1
        BY <1>2, <3>1, PlayoutAssumption
      <4>. HIDE DEF full, n
      <4>. QED BY <4>1 DEF Newest
    <3>3. \A i \in 2 .. n + 1 : full[i] \in Pictures BY <1>2, ElementOfSeq
    <3>4. /\ SubSeq(full, 2, n + 1) \in Seq(Pictures)
          /\ Len(SubSeq(full, 2, n + 1)) = n
          /\ \A i \in 1 .. n : SubSeq(full, 2, n + 1)[i] = full[i + 1]
      BY <1>2, <3>1, <3>3
    <3>. HIDE DEF q, full, n
    <3>. QED BY <1>2, <2>1, <3>2, <3>4
  <2>2. CASE ~(n + 1 > Limit)
    <3>1. q = full BY <1>2, <2>2 DEF Newest
    <3>. HIDE DEF q, full, n
    <3>. QED BY <1>2, <2>2, <3>1
  <2>. QED BY <2>1, <2>2
<1>5. DOMAIN q = 1 .. n + 1 - k BY <1>4, LenProperties
<1>6. q \in Queues BY <1>3, <1>4, QueueIs
<1>7. /\ Push(p, copy).queue = q /\ Push(p, copy).shown = p.shown
      /\ Push(p, copy) \in Playout
  BY <1>6 DEF Push, Playout
<1>. HIDE DEF q, full, n, k
<1>8. \A i \in 1 .. n + 1 - k : i + k \in 1 .. n + 1 BY <1>2, <1>3
<1>9. \A i, j \in 1 .. n + 1 : i <= j => full[i].step <= full[j].step
  <2>. SUFFICES ASSUME NEW i \in 1 .. n + 1, NEW j \in 1 .. n + 1, i <= j
                PROVE  full[i].step <= full[j].step
    OBVIOUS
  <2>1. CASE j \in 1 .. n
    <3>1. i \in 1 .. n BY <1>2, <2>1
    <3>. QED BY <1>2, <2>1, <3>1 DEF InOrder
  <2>2. CASE j = n + 1 /\ i \in 1 .. n
    <3>1. p.queue[i] \in Holds(p) BY <1>2, <2>2 DEF Holds
    <3>. QED BY <1>2, <2>2, <3>1
  <2>3. CASE j = n + 1 /\ i = n + 1
    <3>1. copy.step \in Nat BY Numbers
    <3>. QED BY <1>2, <2>3, <3>1
  <2>. QED BY <1>2, <2>1, <2>2, <2>3
<1>10. p.shown # None => \A i \in 1 .. n + 1 : p.shown.step <= full[i].step
  <2>. SUFFICES ASSUME p.shown # None, NEW i \in 1 .. n + 1
                PROVE  p.shown.step <= full[i].step
    OBVIOUS
  <2>1. CASE i \in 1 .. n BY <1>2, <2>1 DEF InOrder
  <2>2. CASE i = n + 1
    <3>1. p.shown \in Holds(p) BY DEF Holds
    <3>. QED BY <1>2, <2>2, <3>1
  <2>. QED BY <1>2, <2>1, <2>2
<1>11. InOrder(Push(p, copy))
  <2>1. \A i, j \in DOMAIN q : i <= j => q[i].step <= q[j].step
    <3>. SUFFICES ASSUME NEW i \in DOMAIN q, NEW j \in DOMAIN q, i <= j
                  PROVE  q[i].step <= q[j].step
      OBVIOUS
    <3>1. i + k \in 1 .. n + 1 /\ j + k \in 1 .. n + 1 /\ i + k <= j + k
      BY <1>2, <1>3, <1>5, <1>8
    <3>2. full[i + k].step <= full[j + k].step BY <1>9, <3>1
    <3>. QED BY <1>4, <1>5, <3>2
  <2>2. p.shown # None => \A i \in DOMAIN q : p.shown.step <= q[i].step
    BY <1>4, <1>5, <1>8, <1>10
  <2>. QED BY <1>7, <2>1, <2>2 DEF InOrder
<1>12. Holds(Push(p, copy)) \subseteq Holds(p) \cup {copy}
  <2>1. \A i \in 1 .. n + 1 : full[i] \in Holds(p) \cup {copy}
    <3>. SUFFICES ASSUME NEW i \in 1 .. n + 1 PROVE full[i] \in Holds(p) \cup {copy}
      OBVIOUS
    <3>1. CASE i \in 1 .. n BY <1>2, <3>1 DEF Holds
    <3>2. CASE i = n + 1 BY <1>2, <3>2
    <3>. QED BY <1>2, <3>1, <3>2
  <2>2. \A i \in DOMAIN q : q[i] \in Holds(p) \cup {copy} BY <1>4, <1>5, <1>8, <2>1
  <2>. QED BY <1>7, <2>2 DEF Holds
<1>. QED BY <1>7, <1>11, <1>12

-----------------------------------------------------------------------------
(* The display.                                                             *)

\* A display plays what is of the run it decodes, in order.
Coherent(d) ==
    /\ d \in Display
    /\ InOrder(d.picture)
    /\ OfRun(d.picture, d.generation)
    /\ Holds(d.picture) # {} => d.decoded # None
    /\ d.decoded # None => d.generation # 0

\* The invariant says so of the display.
LEMMA DisplayIs ==
    ASSUME PictureInvariant
    PROVE  Coherent(display)
BY DEF PictureInvariant, TypeOK, DisplayInOrder, Coherent

\* Nothing is played of an empty playout.
LEMMA EmptyPlayoutIs ==
    /\ EmptyPlayout \in Playout /\ InOrder(EmptyPlayout)
    /\ Holds(EmptyPlayout) = {} /\ EmptyPlayout.shown = None
    /\ EmptyPlayout.queue = <<>>
<1>1. <<>> \in Seq(Pictures) /\ Len(<<>>) = 0 OBVIOUS
<1>2. <<>> \in Queues
  <2>1. Len(<<>>) <= Limit BY <1>1, PlayoutAssumption
  <2>. QED BY <1>1, <2>1, QueueIs
<1>3. EmptyPlayout \in Playout BY <1>2, PlayoutAssumption DEF EmptyPlayout, Playout
<1>4. EmptyPlayout.shown = None /\ EmptyPlayout.queue = <<>> BY DEF EmptyPlayout
<1>5. DOMAIN <<>> = {} OBVIOUS
<1>. QED BY <1>3, <1>4, <1>5 DEF InOrder, Holds

\* What a display decodes a step of the generation g into.
LEMMA DecodedIs ==
    ASSUME NEW d, Coherent(d), NEW g \in Readbacks, NEW step \in 0 .. MaxStep
    PROVE  /\ Coherent(Decoded(d, g, step))
           /\ Decoded(d, g, step).generation = g
           /\ Decoded(d, g, step).decoded = step
           /\ Decoded(d, g, step).picture
                  = IF d.generation = g THEN d.picture ELSE EmptyPlayout
<1>. DEFINE b == BeginGeneration(d, g)
            e == Decoded(d, g, step)
<1>1. /\ b \in Display /\ b.generation = g
      /\ b.picture = IF d.generation = g THEN d.picture ELSE EmptyPlayout
  BY EmptyPlayoutIs, Numbers DEF BeginGeneration, EmptyDisplay, Display, Coherent, Steps
<1>2. step \in Steps BY DEF Steps
<1>3. /\ e \in Display /\ e.generation = b.generation /\ e.decoded = step
      /\ e.picture = b.picture
  BY <1>1, <1>2 DEF Decoded, Display
<1>4. step # None /\ g # 0 BY Numbers
<1>5. InOrder(e.picture) /\ OfRun(e.picture, g)
  BY <1>1, <1>3, EmptyPlayoutIs DEF Coherent, OfRun
<1>. HIDE DEF b, e
<1>6. Coherent(e) BY <1>1, <1>3, <1>4, <1>5 DEF Coherent
<1>. QED BY <1>1, <1>3, <1>6 DEF e

\* A frame's release leaves a display of the same run.
LEMMA ReleasesIs ==
    ASSUME NEW d, Coherent(d)
    PROVE  /\ Coherent(Releases(d))
           /\ Releases(d).generation = d.generation
           /\ Releases(d).decoded = d.decoded
           /\ GoesOn(d.picture, Releases(d).picture)
<1>. DEFINE q == Release(d.picture)
<1>1. d.picture \in Playout /\ InOrder(d.picture) BY DEF Coherent, Display
<1>2. GoesOn(d.picture, q) BY <1>1, ReleaseGoesOn
<1>3. q \in Playout /\ InOrder(q) /\ Holds(q) \subseteq Holds(d.picture)
  BY <1>2 DEF GoesOn
<1>. HIDE DEF q
<1>4. /\ Releases(d) \in Display /\ Releases(d).generation = d.generation
      /\ Releases(d).decoded = d.decoded /\ Releases(d).picture = q
  BY <1>3 DEF Releases, Display, Coherent, q
<1>5. Coherent(Releases(d)) BY <1>3, <1>4 DEF Coherent, OfRun
<1>. QED BY <1>2, <1>4, <1>5

\* A copy received after all that is played leaves a display of its run.
LEMMA LiveCopyIs ==
    ASSUME NEW d, Coherent(d), NEW g \in Readbacks, NEW step \in 0 .. MaxStep,
           d.generation = g => \A x \in Holds(d.picture) : x.step <= step
    PROVE  /\ Coherent(LiveCopy(d, g, step))
           /\ LiveCopy(d, g, step).generation = g
           /\ Holds(LiveCopy(d, g, step).picture)
                  \subseteq (IF d.generation = g THEN Holds(d.picture) ELSE {})
                                \cup {Picture(g, step)}
           /\ LiveCopy(d, g, step).picture.shown
                  = IF d.generation = g THEN d.picture.shown ELSE None
<1>. DEFINE e == Decoded(d, g, step)
            p == e.picture
            copy == Picture(g, step)
            q == Push(p, copy)
            l == LiveCopy(d, g, step)
<1>1. /\ Coherent(e) /\ e.generation = g /\ e.decoded = step
      /\ p = IF d.generation = g THEN d.picture ELSE EmptyPlayout
  BY DecodedIs
<1>2. copy \in Pictures /\ copy.generation = g /\ copy.step = step BY PictureIs
<1>3. p \in Playout /\ InOrder(p) /\ OfRun(p, g) BY <1>1 DEF Coherent, Display
<1>4. \A x \in Holds(p) : x.step <= copy.step BY <1>1, <1>2, EmptyPlayoutIs
<1>. HIDE DEF e, p, copy
<1>5. /\ q \in Playout /\ InOrder(q) /\ Holds(q) \subseteq Holds(p) \cup {copy}
      /\ q.shown = p.shown
  BY <1>2, <1>3, <1>4, PushIs
<1>6. step \in Steps BY DEF Steps
<1>. HIDE DEF q
<1>7. /\ l \in Display /\ l.generation = g /\ l.decoded = step /\ l.picture = q
  <2>1. l = [e EXCEPT !.clock = step, !.picture = Push(@, copy)]
    BY DEF LiveCopy, e, copy
  <2>2. e \in Display BY <1>1 DEF Coherent
  <2>3. Push(e.picture, copy) = q BY DEF q, p
  <2>. HIDE DEF l
  <2>. QED BY <1>1, <1>5, <1>6, <2>1, <2>2, <2>3 DEF Display
<1>. HIDE DEF l
<1>8. OfRun(q, g) BY <1>2, <1>3, <1>5 DEF OfRun
<1>9. step # None /\ g # 0 BY Numbers
<1>10. Coherent(l) BY <1>5, <1>7, <1>8, <1>9 DEF Coherent
<1>11. Holds(l.picture) \subseteq (IF d.generation = g THEN Holds(d.picture) ELSE {})
                                      \cup {copy}
  BY <1>1, <1>5, <1>7, EmptyPlayoutIs
<1>12. l.picture.shown = IF d.generation = g THEN d.picture.shown ELSE None
  BY <1>1, <1>5, <1>7, EmptyPlayoutIs
<1>. QED BY <1>7, <1>10, <1>11, <1>12 DEF l, copy

-----------------------------------------------------------------------------
(* The copies on their way.                                                 *)

\* A readback's copies are a sequence of steps.
LEMMA TransitIs ==
    ASSUME CopyTypeOK, NEW r \in Readbacks
    PROVE  /\ transit[r] \in Seq(0 .. MaxStep) /\ Len(transit[r]) \in Nat
           /\ DOMAIN transit[r] = 1 .. Len(transit[r])
           /\ \A i \in DOMAIN transit[r] : transit[r][i] \in 0 .. MaxStep
           /\ source[r] \in 0 .. MaxStep
<1>1. transit[r] \in Seq(0 .. MaxStep) /\ source[r] \in 0 .. MaxStep
  BY DEF CopyTypeOK
<1>2. Len(transit[r]) \in Nat /\ DOMAIN transit[r] = 1 .. Len(transit[r])
  BY <1>1, LenProperties
<1>. QED BY <1>1, <1>2, ElementOfSeq

\* What preceded a readback's copies precedes them still.
StillPrecedes(r) == \A x \in Nat : Precedes(x, r) => Precedes(x, r)'

\* A step that leaves sources and copies alone leaves their order.
LEMMA SameCopies ==
    ASSUME CopiesInOrder, UNCHANGED <<source, transit>>
    PROVE  CopiesInOrder' /\ \A r \in Readbacks : StillPrecedes(r)
BY DEF CopiesInOrder, StillPrecedes, Precedes

\* A frame's work moves its sources on, and the copies it takes are the last.
LEMMA SubmitKeeps ==
    ASSUME CopyTypeOK, CopiesInOrder, Submit
    PROVE  /\ CopyTypeOK' /\ CopiesInOrder'
           /\ \A r \in Readbacks : StillPrecedes(r)
<1>1. PICK stepped \in SUBSET {r \in known : source[r] < MaxStep} :
          source' = [r \in Readbacks |->
                        IF r \in stepped THEN source[r] + 1 ELSE source[r]]
  BY DEF Submit
<1>2. PICK copied \in SUBSET {r \in known : Len(transit[r]) < Depth} :
          transit' = [r \in Readbacks |->
              IF r \in copied THEN Append(transit[r], source'[r]) ELSE transit[r]]
  BY DEF Submit
<1>3. ASSUME NEW r \in Readbacks
      PROVE  /\ source'[r] \in 0 .. MaxStep /\ source[r] <= source'[r]
             /\ source[r] \in Nat /\ source'[r] \in Nat
  <2>1. source[r] \in 0 .. MaxStep /\ MaxStep \in Nat
    BY TransitIs, NoneAssumption
  <2>2. source'[r] = IF r \in stepped THEN source[r] + 1 ELSE source[r]
    BY <1>1
  <2>3. r \in stepped => source[r] < MaxStep OBVIOUS
  <2>. QED BY <2>1, <2>2, <2>3
<1>4. ASSUME NEW r \in Readbacks
      PROVE  /\ transit'[r] \in Seq(0 .. MaxStep)
             /\ \A i \in DOMAIN transit[r] :
                    i \in DOMAIN transit'[r] /\ transit'[r][i] = transit[r][i]
             /\ \A i \in DOMAIN transit'[r] :
                    \/ i \in DOMAIN transit[r]
                    \/ /\ transit'[r][i] = source'[r]
                       /\ i = Len(transit[r]) + 1
  <2>1. /\ transit[r] \in Seq(0 .. MaxStep) /\ Len(transit[r]) \in Nat
        /\ DOMAIN transit[r] = 1 .. Len(transit[r])
    BY TransitIs
  <2>2. transit'[r] = IF r \in copied THEN Append(transit[r], source'[r]) ELSE transit[r]
    BY <1>2
  <2>3. CASE r \in copied
    <3>1. /\ Append(transit[r], source'[r]) \in Seq(0 .. MaxStep)
          /\ DOMAIN Append(transit[r], source'[r]) = 1 .. Len(transit[r]) + 1
          /\ \A i \in 1 .. Len(transit[r]) :
                 Append(transit[r], source'[r])[i] = transit[r][i]
          /\ Append(transit[r], source'[r])[Len(transit[r]) + 1] = source'[r]
      BY <1>3, <2>1, AppendIs
    <3>. QED BY <2>1, <2>2, <2>3, <3>1
  <2>4. CASE r \notin copied BY <2>1, <2>2, <2>4
  <2>. QED BY <2>3, <2>4
<1>5. CopyTypeOK'
  <2>1. source' \in [Readbacks -> 0 .. MaxStep] BY <1>1, <1>3
  <2>2. transit' \in [Readbacks -> Seq(0 .. MaxStep)] BY <1>2, <1>4
  <2>. QED BY <2>1, <2>2 DEF CopyTypeOK, Submit
<1>6. ASSUME NEW r \in Readbacks
      PROVE  /\ \A i \in DOMAIN transit'[r] : transit'[r][i] <= source'[r]
             /\ \A i, j \in DOMAIN transit'[r] :
                    i <= j => transit'[r][i] <= transit'[r][j]
  <2>1. \A i \in DOMAIN transit[r] : transit[r][i] <= source[r] /\ transit[r][i] \in Nat
    BY TransitIs, Numbers DEF CopiesInOrder
  <2>2. \A i \in DOMAIN transit'[r] : transit'[r][i] <= source'[r]
    BY <1>3, <1>4, <2>1
  <2>3. Len(transit[r]) \in Nat /\ DOMAIN transit[r] = 1 .. Len(transit[r])
    BY TransitIs
  <2>4. ASSUME NEW i \in DOMAIN transit'[r], NEW j \in DOMAIN transit'[r], i <= j
        PROVE  transit'[r][i] <= transit'[r][j]
    <3>1. CASE j \notin DOMAIN transit[r]
      <4>1. transit'[r][j] = source'[r] BY <1>4, <3>1
      <4>. QED BY <2>2, <4>1
    <3>2. CASE j \in DOMAIN transit[r]
      <4>1. i \in DOMAIN transit[r] BY <1>4, <2>3, <2>4, <3>2
      <4>2. transit[r][i] <= transit[r][j] BY <2>4, <3>2, <4>1 DEF CopiesInOrder
      <4>. QED BY <1>4, <3>2, <4>1, <4>2
    <3>. QED BY <3>1, <3>2
  <2>. QED BY <2>2, <2>4
<1>7. ASSUME NEW r \in Readbacks, NEW x \in Nat, Precedes(x, r) PROVE Precedes(x, r)'
  <2>1. x <= source'[r] BY <1>3, <1>7 DEF Precedes
  <2>2. \A i \in DOMAIN transit'[r] : x <= transit'[r][i]
    BY <1>4, <1>7, <2>1 DEF Precedes
  <2>. QED BY <2>1, <2>2 DEF Precedes
<1>. QED BY <1>5, <1>6, <1>7 DEF CopiesInOrder, StillPrecedes

\* A copy that arrives is the earliest on its way.
LEMMA DeliverKeeps ==
    ASSUME CopyTypeOK, CopiesInOrder, NEW g \in Readbacks, Deliver(g)
    PROVE  /\ CopyTypeOK' /\ CopiesInOrder'
           /\ \A r \in Readbacks : StillPrecedes(r)
           /\ Head(transit[g]) \in 0 .. MaxStep
           /\ \A x \in Nat : Precedes(x, g) => x <= Head(transit[g])
           /\ \A x : x = Head(transit[g]) => Precedes(x, g)'
<1>1. /\ transit[g] # <<>> /\ source' = source
      /\ transit' = [transit EXCEPT ![g] = Tail(@)]
  BY DEF Deliver
<1>2. transit \in [Readbacks -> Seq(0 .. MaxStep)] BY DEF CopyTypeOK
<1>3. /\ Len(transit[g]) \in Nat /\ Len(transit[g]) > 0
      /\ DOMAIN transit[g] = 1 .. Len(transit[g])
      /\ Head(transit[g]) = transit[g][1] /\ Head(transit[g]) \in 0 .. MaxStep
      /\ Tail(transit[g]) \in Seq(0 .. MaxStep)
      /\ DOMAIN Tail(transit[g]) = 1 .. Len(transit[g]) - 1
      /\ \A i \in 1 .. Len(transit[g]) - 1 :
             Tail(transit[g])[i] = transit[g][i + 1] /\ i + 1 \in 1 .. Len(transit[g])
  BY <1>1, <1>2, TailIs
<1>4. transit'[g] = Tail(transit[g]) /\ \A r \in Readbacks : r # g => transit'[r] = transit[r]
  BY <1>1, <1>2
<1>5. transit' \in [Readbacks -> Seq(0 .. MaxStep)] BY <1>1, <1>2, <1>3
<1>6. CopyTypeOK' BY <1>1, <1>5 DEF CopyTypeOK, Deliver
<1>7. 1 \in DOMAIN transit[g] BY <1>3
<1>8. CopiesInOrder'
  <2>1. ASSUME NEW i \in DOMAIN Tail(transit[g]), NEW j \in DOMAIN Tail(transit[g]), i <= j
        PROVE  Tail(transit[g])[i] <= Tail(transit[g])[j]
    <3>1. i + 1 \in DOMAIN transit[g] /\ j + 1 \in DOMAIN transit[g] /\ i + 1 <= j + 1
      BY <1>3, <2>1
    <3>2. transit[g][i + 1] <= transit[g][j + 1] BY <3>1 DEF CopiesInOrder
    <3>. QED BY <1>3, <3>2
  <2>2. \A i \in DOMAIN Tail(transit[g]) : Tail(transit[g])[i] <= source[g]
    BY <1>3 DEF CopiesInOrder
  <2>. QED BY <1>1, <1>4, <2>1, <2>2 DEF CopiesInOrder
<1>9. ASSUME NEW r \in Readbacks, NEW x \in Nat, Precedes(x, r) PROVE Precedes(x, r)'
  <2>1. CASE r = g BY <1>1, <1>3, <1>4, <1>9, <2>1 DEF Precedes
  <2>2. CASE r # g BY <1>1, <1>4, <1>9, <2>2 DEF Precedes
  <2>. QED BY <2>1, <2>2
<1>10. \A x \in Nat : Precedes(x, g) => x <= Head(transit[g])
  BY <1>3, <1>7 DEF Precedes
<1>11. Precedes(Head(transit[g]), g)
  <2>1. Head(transit[g]) <= source[g] BY <1>3, <1>7 DEF CopiesInOrder
  <2>2. \A i \in DOMAIN transit[g] : Head(transit[g]) <= transit[g][i]
    BY <1>3, <1>7 DEF CopiesInOrder
  <2>. QED BY <2>1, <2>2 DEF Precedes
<1>12. ASSUME NEW x, x = Head(transit[g]) PROVE Precedes(x, g)'
  <2>1. x <= source'[g] BY <1>1, <1>11, <1>12 DEF Precedes
  <2>2. \A i \in DOMAIN transit'[g] : x <= transit'[g][i]
    BY <1>3, <1>4, <1>11, <1>12 DEF Precedes
  <2>. QED BY <2>1, <2>2 DEF Precedes
<1>. QED BY <1>3, <1>6, <1>8, <1>9, <1>10, <1>12 DEF StillPrecedes

\* A readback that takes the place of another has no copy on its way.
LEMMA ReplacedKeeps ==
    ASSUME CopyTypeOK, CopiesInOrder, NEW g \in Readbacks, NEW step \in 0 .. MaxStep,
           Replaced(g, step)
    PROVE  /\ CopyTypeOK' /\ CopiesInOrder'
           /\ \A r \in Readbacks : r # g => StillPrecedes(r)
<1>1. /\ transit[g] = <<>> /\ transit' = transit
      /\ source' = [source EXCEPT ![g] = step]
  BY DEF Replaced, Fresh
<1>2. source \in [Readbacks -> 0 .. MaxStep] BY DEF CopyTypeOK
<1>3. source' \in [Readbacks -> 0 .. MaxStep] BY <1>1, <1>2
<1>4. CopyTypeOK' BY <1>1, <1>3 DEF CopyTypeOK, Replaced
<1>5. DOMAIN transit[g] = {} BY <1>1
<1>6. \A r \in Readbacks : r # g => source'[r] = source[r] BY <1>1, <1>2
<1>7. CopiesInOrder' BY <1>1, <1>5, <1>6 DEF CopiesInOrder
<1>. QED BY <1>1, <1>4, <1>6, <1>7 DEF StillPrecedes, Precedes

-----------------------------------------------------------------------------
(* The frames.                                                              *)

\* What a frame is left to paint, given the display d it releases from, at the
\* generation g it asks for.
Follows(d, g) ==
    /\ Coherent(d) /\ d.generation <= g
    /\ painted # None => painted.generation <= d.generation
    /\ d.picture.shown # None /\ d.generation = g => painted = d.picture.shown

\* What it paints is a picture, of the display's generation, and the one played
\* out if there is one.
LEMMA PaintedIs ==
    ASSUME NEW d, NEW g \in Generations, Follows(d, g), painted \in Pictures \cup {None}
    PROVE  LET e == Releases(d)
               new == Painted(e, g)
           IN /\ new \in Pictures \cup {None}
              /\ new # None => new.generation <= d.generation
              /\ e.picture.shown # None /\ d.generation = g => new = e.picture.shown
              /\ new # painted => new.generation = g /\ d.generation = g
<1>. DEFINE e == Releases(d)
            new == Painted(e, g)
<1>1. /\ Coherent(e) /\ e.generation = d.generation /\ e.decoded = d.decoded
      /\ GoesOn(d.picture, e.picture)
  BY ReleasesIs DEF Follows
<1>2. /\ e.generation \in Generations /\ e.decoded \in Steps /\ e.picture \in Playout
  BY <1>1 DEF Coherent, Display
<1>3. e.generation \in Nat BY <1>2, Numbers
<1>4. e.picture.shown # None =>
          /\ e.picture.shown \in Pictures /\ e.picture.shown.generation = e.generation
          /\ e.decoded # None
  <2>1. e.picture.shown # None => e.picture.shown \in Holds(e.picture) BY DEF Holds
  <2>. QED BY <1>1, <1>2, <2>1, PlayoutIs DEF Coherent, OfRun
<1>5. e.decoded # None =>
          /\ Picture(e.generation, e.decoded) \in Pictures
          /\ Picture(e.generation, e.decoded).generation = e.generation
  BY <1>1, <1>2, Numbers, PictureIs DEF Coherent, Steps
<1>6. new = IF e.generation # g \/ e.decoded = None THEN painted
            ELSE IF e.picture.shown # None THEN e.picture.shown
            ELSE Picture(e.generation, e.decoded)
  BY DEF Painted
<1>. HIDE DEF e, new
<1>7. /\ new \in Pictures \cup {None}
      /\ new # painted => new.generation = g /\ d.generation = g
  BY <1>1, <1>4, <1>5, <1>6
<1>8. new # None => new.generation <= d.generation
  <2>1. new = painted => (new # None => new.generation <= d.generation)
    BY DEF Follows
  <2>2. new # painted => new.generation = d.generation BY <1>7
  <2>. QED BY <1>1, <1>3, <2>1, <2>2
<1>9. e.picture.shown # None /\ d.generation = g => new = e.picture.shown
  BY <1>1, <1>4, <1>6
<1>. QED BY <1>7, <1>8, <1>9 DEF e, new

\* Once a copy plays, or the display moved on to a later run, what it paints is
\* newer than what it painted.
LEMMA PaintedIsNewer ==
    ASSUME NEW d, NEW g \in Generations, Follows(d, g), painted \in Pictures,
           NEW new, new = Painted(Releases(d), g), new # painted,
           d.picture.shown # None \/ painted.generation < d.generation
    PROVE  IsNewer(new, painted)
<1>. DEFINE e == Releases(d)
<1>1. /\ new \in Pictures \cup {None} /\ new.generation = g /\ d.generation = g
      /\ e.picture.shown # None => new = e.picture.shown
      /\ new # None => new.generation <= d.generation
  BY PaintedIs
<1>2. g \in Nat /\ painted.generation \in Nat /\ painted.step \in Nat
  BY Numbers
<1>3. CASE painted.generation < d.generation
  BY <1>1, <1>2, <1>3 DEF IsNewer
<1>4. CASE d.picture.shown # None
  <2>1. painted = d.picture.shown BY <1>1, <1>4 DEF Follows
  <2>2. GoesOn(d.picture, e.picture) BY ReleasesIs DEF Follows
  <2>. HIDE DEF e
  <2>3. \/ e.picture.shown = painted
        \/ e.picture.shown \in Pictures /\ painted.step <= e.picture.shown.step
    BY <1>4, <2>1, <2>2 DEF GoesOn
  <2>4. e.picture.shown # None BY <2>3, Numbers
  <2>5. new \in Pictures /\ painted.step <= new.step /\ new.step \in Nat
    BY <1>1, <2>3, <2>4, Numbers
  <2>6. painted.generation = g
    <3>1. d.picture.shown \in Holds(d.picture) BY <1>4 DEF Holds
    <3>. QED BY <1>1, <2>1, <3>1 DEF Follows, Coherent, OfRun
  <2>7. new.step # painted.step BY <1>1, <2>5, <2>6 DEF Pictures
  <2>. QED BY <1>1, <1>2, <2>5, <2>6, <2>7 DEF IsNewer
<1>. QED BY <1>3, <1>4

\* A frame that paints from such a display keeps the invariant.
LEMMA FrameKeeps ==
    ASSUME PictureInvariant, CopyTypeOK', CopiesInOrder',
           NEW g \in Generations, NEW d, NEW s \in Snapshots,
           Follows(d, g), Paints(g, Releases(d), s),
           s.phase # "none" => g # 0,
           g # 0 /\ d.generation = g => \A x \in Holds(d.picture) : Precedes(x.step, g)'
    PROVE  /\ PictureInvariant'
           /\ painted # None /\ painted' # painted
                  /\ (d.picture.shown # None \/ painted.generation < d.generation)
              => IsNewer(painted', painted)
<1>1. /\ main' = FALSE /\ generation' = g /\ display' = Releases(d)
      /\ snapshot' \in AskedFor(s, g, spawned') /\ painted' = Painted(Releases(d), g)
  BY DEF Paints
<1>2. painted \in Pictures \cup {None} BY DEF PictureInvariant, TypeOK
<1>3. PICK e : e = Releases(d) OBVIOUS
<1>4. /\ Coherent(e) /\ e.generation = d.generation /\ e.decoded = d.decoded
      /\ GoesOn(d.picture, e.picture)
  BY <1>3, ReleasesIs DEF Follows
<1>5. /\ painted' \in Pictures \cup {None}
      /\ painted' # None => painted'.generation <= d.generation
      /\ e.picture.shown # None /\ d.generation = g => painted' = e.picture.shown
  BY <1>1, <1>2, <1>3, PaintedIs
<1>6. display' = e BY <1>1, <1>3
<1>7. snapshot' \in Snapshots /\ (snapshot'.phase # "none" => g # 0)
  <2>1. snapshot' = s \/ (snapshot' = [NoSnapshot EXCEPT !.phase = "asked"] /\ g \in spawned')
        \/ snapshot' = NoSnapshot
    BY <1>1 DEF AskedFor
  <2>2. g \in spawned' => g # 0 BY Numbers DEF CopyTypeOK
  <2>3. NoSnapshot \in Snapshots /\ [NoSnapshot EXCEPT !.phase = "asked"] \in Snapshots
        /\ NoSnapshot.phase = "none"
    BY Numbers DEF NoSnapshot, Snapshots
  <2>. QED BY <2>1, <2>2, <2>3
<1>8. TypeOK'
  <2>1. e \in Display BY <1>4 DEF Coherent
  <2>. QED BY <1>1, <1>5, <1>6, <1>7, <2>1 DEF TypeOK
<1>9. DisplayInOrder' BY <1>4, <1>6 DEF Coherent, DisplayInOrder
<1>10. CopiesAreLater'
  <2>1. Holds(e.picture) \subseteq Holds(d.picture) BY <1>4 DEF GoesOn
  <2>2. g # 0 /\ e.generation = g => \A x \in Holds(e.picture) : Precedes(x.step, g)'
    BY <1>4, <2>1
  <2>3. ASSUME generation' # 0, display'.generation = generation',
               NEW x \in Holds(display'.picture)
        PROVE  x.step <= source'[generation']
                 /\ \A i \in DOMAIN transit'[generation'] : x.step <= transit'[generation'][i]
    <3>1. g # 0 /\ e.generation = g /\ x \in Holds(e.picture) BY <1>1, <1>6, <2>3
    <3>2. Precedes(x.step, g)' BY <2>2, <3>1
    <3>. QED BY <1>1, <3>2 DEF Precedes
  <2>. QED BY <2>3 DEF CopiesAreLater, Precedes
<1>11. PaintedIsShown' BY <1>1, <1>4, <1>5, <1>6 DEF PaintedIsShown, Follows
<1>12. SnapshotIsAsked' BY <1>1, <1>7 DEF SnapshotIsAsked
<1>13. PictureInvariant' BY <1>8, <1>9, <1>10, <1>11, <1>12 DEF PictureInvariant
<1>14. ASSUME painted # None, painted' # painted,
              d.picture.shown # None \/ painted.generation < d.generation
       PROVE  IsNewer(painted', painted)
  <2>1. PICK new : new = painted' OBVIOUS
  <2>2. IsNewer(new, painted) BY <1>1, <1>2, <1>14, <2>1, PaintedIsNewer
  <2>. QED BY <2>1, <2>2
<1>. QED BY <1>13, <1>14

\* What a step keeps: the invariant, and a picture once it plays.
Keeps ==
    /\ PictureInvariant'
    /\ painted # None /\ display.picture.shown # None /\ painted' # painted
           => IsNewer(painted', painted)

\* A frame that decodes nothing releases from the display.
LEMMA DisplayFollows ==
    ASSUME PictureInvariant, NEW g \in Generations, generation <= g
    PROVE  Follows(display, g)
<1>1. Coherent(display) BY DisplayIs
<1>2. display.generation \in Nat /\ generation \in Nat /\ g \in Nat
  BY Numbers DEF PictureInvariant, TypeOK, Display
<1>3. /\ display.generation <= generation
      /\ painted # None => painted.generation <= display.generation
      /\ display.picture.shown # None /\ display.generation = generation =>
             painted = display.picture.shown
  BY DEF PictureInvariant, PaintedIsShown
<1>4. display.generation <= g BY <1>2, <1>3
<1>5. display.generation = g => display.generation = generation BY <1>2, <1>3
<1>. QED BY <1>1, <1>3, <1>4, <1>5 DEF Follows

\* One that decodes a step releases from what it is decoded into.
LEMMA DecodedFollows ==
    ASSUME PictureInvariant, NEW g \in Readbacks, generation <= g, NEW step \in 0 .. MaxStep
    PROVE  /\ Follows(Decoded(display, g, step), g)
           /\ Holds(Decoded(display, g, step).picture) =
                  IF display.generation = g THEN Holds(display.picture) ELSE {}
           /\ painted # None /\ display.picture.shown # None =>
                  \/ Decoded(display, g, step).picture.shown # None
                  \/ painted.generation < Decoded(display, g, step).generation
<1>1. PICK e : e = Decoded(display, g, step) OBVIOUS
<1>2. /\ Coherent(e) /\ e.generation = g
      /\ e.picture = IF display.generation = g THEN display.picture ELSE EmptyPlayout
  BY <1>1, DisplayIs, DecodedIs
<1>3. Follows(display, g) BY DisplayFollows, Numbers
<1>4. /\ display.generation \in Nat /\ g \in Nat
      /\ painted # None => painted.generation \in Nat
  BY Numbers DEF PictureInvariant, TypeOK, Display
<1>5. Follows(e, g)
  <2>1. painted # None => painted.generation <= g BY <1>3, <1>4 DEF Follows
  <2>2. e.picture.shown # None => painted = e.picture.shown
    BY <1>2, <1>3, EmptyPlayoutIs DEF Follows
  <2>. QED BY <1>2, <1>4, <2>1, <2>2 DEF Follows
<1>6. Holds(e.picture) = IF display.generation = g THEN Holds(display.picture) ELSE {}
  BY <1>2, EmptyPlayoutIs
<1>7. ASSUME painted # None, display.picture.shown # None
      PROVE  e.picture.shown # None \/ painted.generation < e.generation
  <2>1. CASE display.generation = g BY <1>2, <1>7, <2>1
  <2>2. CASE display.generation # g
    BY <1>2, <1>3, <1>4, <1>7, <2>2 DEF Follows
  <2>. QED BY <2>1, <2>2
<1>. QED BY <1>1, <1>5, <1>6, <1>7

\* A frame at the same generation leaves the copies after what it plays.
LEMMA SameGenerationKeeps ==
    ASSUME PictureInvariant, CopyTypeOK', CopiesInOrder', UNCHANGED <<source, transit>>,
           NEW d, NEW s \in Snapshots, s.phase # "none" => generation # 0,
           Follows(d, generation), Paints(generation, Releases(d), s),
           d.generation = generation =>
               Holds(d.picture) \subseteq
                   IF display.generation = generation THEN Holds(display.picture) ELSE {},
           painted # None /\ display.picture.shown # None =>
               d.picture.shown # None \/ painted.generation < d.generation
    PROVE  Keeps
<1>1. generation \in Generations BY DEF PictureInvariant, TypeOK
<1>2. ASSUME generation # 0, d.generation = generation, NEW x \in Holds(d.picture)
      PROVE  Precedes(x.step, generation)
  BY <1>2 DEF PictureInvariant, CopiesAreLater
<1>3. PICK g : g = generation OBVIOUS
<1>4. ASSUME g # 0, d.generation = g, NEW x \in Holds(d.picture)
      PROVE  Precedes(x.step, g)'
  BY <1>2, <1>3, <1>4 DEF Precedes
<1>5. /\ g \in Generations /\ Follows(d, g) /\ Paints(g, Releases(d), s)
      /\ s.phase # "none" => g # 0
  BY <1>1, <1>3
<1>6. /\ PictureInvariant'
      /\ painted # None /\ painted' # painted
                  /\ (d.picture.shown # None \/ painted.generation < d.generation)
              => IsNewer(painted', painted)
  BY <1>4, <1>5, FrameKeeps
<1>. QED BY <1>6 DEF Keeps

\* A snapshot of none, and what is known of the one on its way.
LEMMA SnapshotIs ==
    ASSUME PictureInvariant
    PROVE  /\ NoSnapshot \in Snapshots /\ NoSnapshot.phase = "none"
           /\ snapshot \in Snapshots /\ snapshot.step \in 0 .. MaxStep
           /\ snapshot.phase # "none" => generation # 0
BY Numbers DEF PictureInvariant, TypeOK, SnapshotIsAsked, NoSnapshot, Snapshots

\* A frame that leaves the generation alone, with a snapshot or none.
LEMMA SteadyFrameKeeps ==
    ASSUME PictureInvariant, PlainFrame \/ SnapshotFrame \/ SnapshotFailedFrame
    PROVE  Keeps
<1>1. /\ CopyTypeOK' /\ CopiesInOrder' /\ UNCHANGED <<source, transit>>
  BY DEF PictureInvariant, TypeOK, CopyTypeOK, CopiesInOrder, copyVars,
         PlainFrame, SnapshotFrame, SnapshotFailedFrame
<1>2. generation \in Generations /\ generation <= generation
  BY Numbers DEF PictureInvariant, TypeOK
<1>3. CASE PlainFrame \/ SnapshotFailedFrame
  <2>1. PICK s \in Snapshots : (s.phase # "none" => generation # 0)
                                 /\ Paints(generation, Releases(display), s)
    BY <1>3, SnapshotIs DEF PlainFrame, SnapshotFailedFrame
  <2>. QED BY <1>1, <1>2, <2>1, DisplayFollows, SameGenerationKeeps
<1>4. CASE SnapshotFrame
  <2>1. PICK d : d = Decoded(display, generation, snapshot.step) OBVIOUS
  <2>2. /\ snapshot.step \in 0 .. MaxStep /\ NoSnapshot \in Snapshots
        /\ NoSnapshot.phase = "none" /\ generation # 0
    BY <1>4, SnapshotIs DEF SnapshotFrame
  <2>3. generation \in Readbacks BY <1>2, <2>2, Numbers
  <2>4. Paints(generation, Releases(d), NoSnapshot)
    BY <1>4, <2>1 DEF SnapshotFrame, SnapshotCopy
  <2>5. /\ Follows(d, generation)
        /\ Holds(d.picture) =
               IF display.generation = generation THEN Holds(display.picture) ELSE {}
        /\ painted # None /\ display.picture.shown # None =>
               d.picture.shown # None \/ painted.generation < d.generation
    BY <1>2, <2>1, <2>2, <2>3, DecodedFollows
  <2>. QED BY <1>1, <2>2, <2>4, <2>5, SameGenerationKeeps
<1>. QED BY <1>3, <1>4

\* A scene replaced with nothing prepared.
LEMMA ClearFrameKeeps ==
    ASSUME PictureInvariant, ClearFrame
    PROVE  Keeps
<1>1. /\ CopyTypeOK' /\ CopiesInOrder' /\ UNCHANGED <<source, transit>>
  BY DEF PictureInvariant, TypeOK, CopyTypeOK, CopiesInOrder, ClearFrame, Despawn
<1>2. generation \in Generations /\ generation <= generation
  BY Numbers DEF PictureInvariant, TypeOK
<1>3. Paints(generation, Releases(display), NoSnapshot) BY DEF ClearFrame
<1>. QED BY <1>1, <1>2, <1>3, SnapshotIs, DisplayFollows, SameGenerationKeeps

\* A frame that asks for the next generation decodes of it at most a receipt.
LEMMA NextGenerationKeeps ==
    ASSUME PictureInvariant, NEW g \in Readbacks, g = generation + 1,
           NEW step \in 0 .. MaxStep, Replaced(g, step),
           NEW d, d \in {display, Decoded(display, g, step)},
           Paints(g, Releases(d), NoSnapshot)
    PROVE  Keeps
<1>1. /\ generation \in Nat /\ display.generation \in Nat /\ display.generation <= generation
      /\ g \in Generations /\ generation <= g
  BY Numbers DEF PictureInvariant, TypeOK, PaintedIsShown, Display
<1>2. CopyTypeOK' /\ CopiesInOrder'
  BY ReplacedKeeps DEF PictureInvariant, TypeOK
<1>3. display.generation # g BY <1>1
<1>4. /\ Follows(d, g)
      /\ d.generation = g => Holds(d.picture) = {}
      /\ painted # None /\ display.picture.shown # None =>
             d.picture.shown # None \/ painted.generation < d.generation
  BY <1>1, <1>3, DisplayFollows, DecodedFollows
<1>5. /\ PictureInvariant'
      /\ painted # None /\ painted' # painted
                  /\ (d.picture.shown # None \/ painted.generation < d.generation)
              => IsNewer(painted', painted)
  BY <1>1, <1>2, <1>4, SnapshotIs, FrameKeeps
<1>. QED BY <1>4, <1>5 DEF Keeps

\* The frames of the main world.
LEMMA MainFrameKeeps ==
    ASSUME PictureInvariant, MainFrame
    PROVE  Keeps
<1>1. CASE PlainFrame \/ SnapshotFrame \/ SnapshotFailedFrame BY <1>1, SteadyFrameKeeps
<1>2. CASE ClearFrame BY <1>2, ClearFrameKeeps
<1>3. CASE HandoffFrame
  <2>1. PICK step : step = source[generation] OBVIOUS
  <2>2. PICK g : g = generation + 1 OBVIOUS
  <2>3. /\ g \in Readbacks /\ Replaced(g, step)
        /\ Paints(g, Releases(Decoded(display, g, step)), NoSnapshot)
    BY <1>3, <2>1, <2>2 DEF HandoffFrame
  <2>4. step \in 0 .. MaxStep
    BY <1>3, <2>1, TransitIs DEF HandoffFrame, PictureInvariant, TypeOK, CopyTypeOK
  <2>. QED BY <2>2, <2>3, <2>4, NextGenerationKeeps
<1>4. CASE InstallFrame
  <2>1. PICK g : g = generation + 1 OBVIOUS
  <2>2. /\ g \in Readbacks /\ Replaced(g, 0) /\ Paints(g, Releases(display), NoSnapshot)
    BY <1>4, <2>1 DEF InstallFrame
  <2>3. 0 \in 0 .. MaxStep BY Numbers
  <2>. QED BY <2>1, <2>2, <2>3, NextGenerationKeeps
<1>. QED BY <1>1, <1>2, <1>3, <1>4 DEF MainFrame

-----------------------------------------------------------------------------
(* The steps between the frames.                                            *)

\* A step that neither asks, decodes nor paints keeps what the copies precede.
LEMMA QuietKeeps ==
    ASSUME PictureInvariant, CopyTypeOK', CopiesInOrder',
           \A r \in Readbacks : StillPrecedes(r),
           UNCHANGED <<generation, display, painted>>, main' \in BOOLEAN,
           snapshot' \in Snapshots, snapshot'.phase # "none" => generation # 0
    PROVE  Keeps
<1>1. TypeOK' BY DEF PictureInvariant, TypeOK
<1>2. DisplayInOrder' BY DEF PictureInvariant, DisplayInOrder
<1>3. CopiesAreLater'
  <2>1. PICK g : g = generation OBVIOUS
  <2>2. PICK d : d = display OBVIOUS
  <2>3. g \in Generations /\ d \in Display
    BY <2>1, <2>2 DEF PictureInvariant, TypeOK
  <2>4. ASSUME g # 0, d.generation = g, NEW x \in Holds(d.picture)
        PROVE  Precedes(x.step, g)'
    <3>1. Precedes(x.step, g)
      BY <2>1, <2>2, <2>4 DEF PictureInvariant, CopiesAreLater
    <3>2. g \in Readbacks BY <2>3, <2>4, Numbers
    <3>3. x.step \in Nat BY <2>3, <2>4, PlayoutIs, Numbers DEF Display
    <3>. QED BY <3>1, <3>2, <3>3 DEF StillPrecedes
  <2>5. generation' = g /\ display' = d BY <2>1, <2>2
  <2>. QED BY <2>4, <2>5 DEF CopiesAreLater, Precedes
<1>4. PaintedIsShown' BY DEF PictureInvariant, PaintedIsShown
<1>5. SnapshotIsAsked' BY DEF SnapshotIsAsked
<1>. QED BY <1>1, <1>2, <1>3, <1>4, <1>5 DEF Keeps, PictureInvariant

\* A copy that arrives, for the display or for no one.
LEMMA ReceiveKeeps ==
    ASSUME PictureInvariant, NEW g \in Readbacks, Receive(g)
    PROVE  Keeps
<1>1. Deliver(g) /\ UNCHANGED <<generation, snapshot, painted, main>>
  BY DEF Receive, hostButDisplay
<1>2. PICK step : step = Head(transit[g]) OBVIOUS
<1>3. /\ CopyTypeOK' /\ CopiesInOrder' /\ \A r \in Readbacks : StillPrecedes(r)
      /\ step \in 0 .. MaxStep /\ \A x \in Nat : Precedes(x, g) => x <= step
      /\ Precedes(step, g)'
  BY <1>1, <1>2, DeliverKeeps DEF PictureInvariant, TypeOK
<1>4. snapshot \in Snapshots /\ (snapshot.phase # "none" => generation # 0)
  BY SnapshotIs
<1>5. CASE ~Receives(g)
  <2>1. display' = display BY <1>5 DEF Receive
  <2>2. main' \in BOOLEAN BY <1>1 DEF PictureInvariant, TypeOK
  <2>. QED BY <1>1, <1>3, <1>4, <2>1, <2>2, QuietKeeps
<1>6. CASE Receives(g)
  <2>1. g = generation /\ g # 0 BY <1>6, Numbers DEF Receives
  <2>2. PICK d : d = display OBVIOUS
  <2>3. PICK e : e = LiveCopy(d, g, step) OBVIOUS
  <2>4. display' = e BY <1>2, <1>6, <2>2, <2>3 DEF Receive
  <2>5. Coherent(d) BY <2>2, DisplayIs
  <2>6. d.picture \in Playout BY <2>5 DEF Coherent, Display
  <2>7. \A x \in Holds(d.picture) : x.step \in Nat BY <2>6, PlayoutIs, Numbers
  <2>8. d.generation = g => \A x \in Holds(d.picture) : Precedes(x.step, g)
    BY <2>1, <2>2 DEF PictureInvariant, CopiesAreLater
  <2>9. d.generation = g => \A x \in Holds(d.picture) : x.step <= step
    BY <1>3, <2>7, <2>8
  <2>10. /\ Coherent(e) /\ e.generation = g
         /\ Holds(e.picture) \subseteq (IF d.generation = g THEN Holds(d.picture) ELSE {})
                                           \cup {Picture(g, step)}
         /\ e.picture.shown = IF d.generation = g THEN d.picture.shown ELSE None
    BY <1>3, <2>3, <2>5, <2>9, LiveCopyIs
  <2>11. TypeOK'
    BY <1>1, <1>3, <2>4, <2>10 DEF PictureInvariant, TypeOK, Coherent
  <2>12. DisplayInOrder' BY <2>4, <2>10 DEF Coherent, DisplayInOrder
  <2>13. CopiesAreLater'
    <3>1. ASSUME NEW x \in Holds(e.picture) PROVE Precedes(x.step, g)'
      <4>1. CASE x = Picture(g, step) BY <1>3, <4>1, PictureIs
      <4>2. CASE d.generation = g /\ x \in Holds(d.picture)
        BY <1>3, <2>7, <2>8, <4>2 DEF StillPrecedes
      <4>. QED BY <2>10, <4>1, <4>2
    <3>2. generation' = g BY <1>1, <2>1
    <3>. QED BY <2>4, <3>1, <3>2 DEF CopiesAreLater, Precedes
  <2>14. PaintedIsShown'
    <3>1. /\ d.generation \in Nat /\ g \in Nat
          /\ painted # None => painted.generation \in Nat
      BY <2>5, Numbers DEF Coherent, Display, PictureInvariant, TypeOK
    <3>2. /\ d.generation <= g
          /\ painted # None => painted.generation <= d.generation
          /\ d.picture.shown # None /\ d.generation = g => painted = d.picture.shown
      BY <2>1, <2>2 DEF PictureInvariant, PaintedIsShown
    <3>. QED BY <1>1, <2>1, <2>4, <2>10, <3>1, <3>2 DEF PaintedIsShown
  <2>15. SnapshotIsAsked' BY <1>1, <1>4 DEF SnapshotIsAsked
  <2>. QED BY <1>1, <1>3, <2>11, <2>12, <2>13, <2>14, <2>15 DEF Keeps, PictureInvariant
<1>. QED BY <1>5, <1>6

\* A copy that never arrives.
LEMMA LosesKeeps ==
    ASSUME PictureInvariant, NEW g \in Readbacks, Loses(g)
    PROVE  Keeps
<1>1. Deliver(g) /\ UNCHANGED hostVars BY DEF Loses, Drop
<1>2. CopyTypeOK' /\ CopiesInOrder' /\ \A r \in Readbacks : StillPrecedes(r)
  BY <1>1, DeliverKeeps DEF PictureInvariant, TypeOK
<1>3. UNCHANGED <<generation, display, painted>> /\ snapshot' = snapshot
  BY <1>1 DEF hostVars
<1>4. main' \in BOOLEAN BY <1>1 DEF hostVars, PictureInvariant, TypeOK
<1>. QED BY <1>2, <1>3, <1>4, SnapshotIs, QuietKeeps

\* An extraction begins, or the device is lost.
LEMMA BeginExtractionKeeps ==
    ASSUME PictureInvariant, BeginExtraction \/ (Lose /\ UNCHANGED hostVars)
    PROVE  Keeps
<1>1. UNCHANGED <<source, transit>> /\ UNCHANGED hostVars
  BY DEF BeginExtraction, Begin, Lose
<1>2. CopyTypeOK'
  BY DEF BeginExtraction, Begin, Lose, PictureInvariant, TypeOK, CopyTypeOK
<1>3. CopiesInOrder' /\ \A r \in Readbacks : StillPrecedes(r)
  BY <1>1, SameCopies DEF PictureInvariant
<1>4. UNCHANGED <<generation, display, painted>> /\ snapshot' = snapshot
  BY <1>1 DEF hostVars
<1>5. main' \in BOOLEAN BY <1>1 DEF hostVars, PictureInvariant, TypeOK
<1>. QED BY <1>2, <1>3, <1>4, <1>5, SnapshotIs, QuietKeeps

\* An extraction ends, and the snapshot is carried over.
LEMMA FinishExtractionKeeps ==
    ASSUME PictureInvariant, FinishExtraction
    PROVE  Keeps
<1>1. UNCHANGED <<source, transit>> /\ UNCHANGED <<generation, display, painted>>
  BY DEF FinishExtraction, Finish
<1>2. CopyTypeOK'
  BY DEF FinishExtraction, Finish, PictureInvariant, TypeOK, CopyTypeOK
<1>3. CopiesInOrder' /\ \A r \in Readbacks : StillPrecedes(r)
  BY <1>1, SameCopies DEF PictureInvariant
<1>4. /\ Carried(snapshot) \in Snapshots
      /\ snapshot.phase = "none" => Carried(snapshot).phase = "none"
  BY SnapshotIs DEF Carried, Snapshots
<1>5. snapshot' \in Snapshots /\ (snapshot'.phase # "none" => generation # 0)
  BY <1>4, SnapshotIs DEF FinishExtraction
<1>6. main' \in BOOLEAN BY DEF FinishExtraction
<1>. QED BY <1>1, <1>2, <1>3, <1>5, <1>6, QuietKeeps

\* A frame's work is submitted, and the snapshot may be taken.
LEMMA SubmitFrameKeeps ==
    ASSUME PictureInvariant, SubmitFrame
    PROVE  Keeps
<1>1. CopyTypeOK' /\ CopiesInOrder' /\ \A r \in Readbacks : StillPrecedes(r)
  BY SubmitKeeps DEF SubmitFrame, PictureInvariant, TypeOK
<1>2. UNCHANGED <<generation, display, painted>> /\ main' \in BOOLEAN
  BY DEF SubmitFrame, PictureInvariant, TypeOK
<1>3. CASE snapshot' = snapshot BY <1>1, <1>2, <1>3, SnapshotIs, QuietKeeps
<1>4. CASE snapshot' # snapshot
  <2>1. /\ snapshot.phase = "known" /\ generation \in known
        /\ snapshot' = [phase |-> "taken", step |-> source'[generation]]
    BY <1>4 DEF SubmitFrame
  <2>2. source'[generation] \in 0 .. MaxStep
    <3>1. generation \in Readbacks BY <2>1 DEF PictureInvariant, TypeOK, CopyTypeOK
    <3>. QED BY <1>1, <3>1 DEF CopyTypeOK
  <2>3. snapshot' \in Snapshots BY <2>1, <2>2 DEF Snapshots
  <2>4. generation # 0 BY <2>1, SnapshotIs
  <2>. QED BY <1>1, <1>2, <2>3, <2>4, QuietKeeps
<1>. QED BY <1>3, <1>4

-----------------------------------------------------------------------------
(* The theorems.                                                            *)

\* Every step keeps the invariant, and the picture.
LEMMA StepKeeps ==
    ASSUME PictureInvariant, [Next]_vars
    PROVE  Keeps
<1>1. CASE UNCHANGED vars
  <2>1. UNCHANGED <<source, transit>> /\ UNCHANGED <<generation, display, painted>>
        /\ snapshot' = snapshot /\ main' = main
    BY <1>1 DEF vars, copyVars, hostVars
  <2>2. CopyTypeOK'
    BY <1>1 DEF vars, copyVars, PictureInvariant, TypeOK, CopyTypeOK
  <2>3. CopiesInOrder' /\ \A r \in Readbacks : StillPrecedes(r)
    BY <2>1, SameCopies DEF PictureInvariant
  <2>4. main' \in BOOLEAN BY <2>1 DEF PictureInvariant, TypeOK
  <2>. QED BY <2>1, <2>2, <2>3, <2>4, SnapshotIs, QuietKeeps
<1>2. CASE MainFrame BY <1>2, MainFrameKeeps
<1>3. CASE \E g \in Readbacks : Receive(g) \/ Loses(g)
  BY <1>3, ReceiveKeeps, LosesKeeps
<1>4. CASE BeginExtraction BY <1>4, BeginExtractionKeeps
<1>5. CASE FinishExtraction BY <1>5, FinishExtractionKeeps
<1>6. CASE Device BY <1>6, SubmitFrameKeeps, BeginExtractionKeeps DEF Device
<1>. QED BY <1>1, <1>2, <1>3, <1>4, <1>5, <1>6 DEF Next

\* The invariant holds before the first readback is spawned.
LEMMA InitPicture == Init => PictureInvariant
<1>. SUFFICES ASSUME Init PROVE PictureInvariant OBVIOUS
<1>1. /\ CopyInit /\ generation = 0 /\ snapshot = NoSnapshot
      /\ display = EmptyDisplay(0) /\ painted = None /\ main = FALSE
  BY DEF Init
<1>2. CopyTypeOK
  <2>1. <<>> \in Seq(0 .. MaxStep) OBVIOUS
  <2>. QED BY <1>1, <2>1, Numbers DEF CopyInit, CopyTypeOK
<1>3. /\ display \in Display /\ display.generation = 0 /\ display.decoded = None
      /\ display.picture = EmptyPlayout
  BY <1>1, EmptyPlayoutIs DEF EmptyDisplay, Display, Generations, Steps
<1>4. snapshot \in Snapshots /\ snapshot.phase = "none"
  BY <1>1, Numbers DEF NoSnapshot, Snapshots
<1>5. TypeOK BY <1>1, <1>2, <1>3, <1>4 DEF TypeOK, Generations
<1>6. DisplayInOrder BY <1>3, EmptyPlayoutIs DEF DisplayInOrder, OfRun
<1>7. CopiesInOrder
  <2>1. \A r \in Readbacks : transit[r] = <<>> BY <1>1 DEF CopyInit
  <2>. QED BY <2>1 DEF CopiesInOrder
<1>8. PaintedIsShown BY <1>1, <1>3, EmptyPlayoutIs DEF PaintedIsShown
<1>. QED BY <1>1, <1>4, <1>5, <1>6, <1>7, <1>8
         DEF PictureInvariant, CopiesAreLater, SnapshotIsAsked

\* The invariant holds of every behaviour.
THEOREM PictureIsKept == Spec => []PictureInvariant
<1>1. PictureInvariant /\ [Next]_vars => PictureInvariant' BY StepKeeps DEF Keeps
<1>. QED BY <1>1, InitPicture, PTL DEF Spec

\* The copies and the display stay of their types: the queue within its limit,
\* the wait and the reserve within theirs.
THEOREM PictureIsTyped == Spec => []TypeOK
<1>1. PictureInvariant => TypeOK BY DEF PictureInvariant
<1>. QED BY <1>1, PictureIsKept, PTL

\* What the queue holds or shows is of the generation decoded, in the order of
\* its steps, whatever was lost or replaced on the way.
THEOREM PicturePlaysOneRun == Spec => []PictureIsOfOneRun
<1>1. ASSUME PictureInvariant PROVE PictureIsOfOneRun
  <2>1. PICK p : p = display.picture OBVIOUS
  <2>2. PICK copies : copies = IF p.shown = None THEN p.queue ELSE <<p.shown>> \o p.queue
    OBVIOUS
  <2>3. p \in Playout /\ InOrder(p) /\ OfRun(p, display.generation)
    BY <1>1, <2>1, DisplayIs DEF Coherent, Display
  <2>4. /\ p.queue \in Seq(Pictures) /\ Len(p.queue) \in Nat
        /\ DOMAIN p.queue = 1 .. Len(p.queue)
        /\ p.shown # None => p.shown \in Pictures
    BY <2>3, PlayoutIs
  <2>5. CASE p.shown = None
    <3>1. copies = p.queue BY <2>2, <2>5
    <3>2. \A i \in DOMAIN p.queue :
              /\ p.queue[i].generation = display.generation
              /\ i > 1 => i - 1 \in DOMAIN p.queue /\ i - 1 <= i
      BY <2>3, <2>4 DEF OfRun, Holds
    <3>3. \A i \in DOMAIN p.queue : i > 1 => p.queue[i - 1].step <= p.queue[i].step
      BY <2>3, <3>2 DEF InOrder
    <3>. QED BY <2>1, <2>2, <3>1, <3>2, <3>3 DEF PictureIsOfOneRun
  <2>6. CASE p.shown # None
    <3>1. copies = <<p.shown>> \o p.queue BY <2>2, <2>6
    <3>2. /\ DOMAIN copies = 1 .. Len(p.queue) + 1 /\ copies[1] = p.shown
          /\ \A i \in 2 .. Len(p.queue) + 1 : copies[i] = p.queue[i - 1]
      <4>1. <<p.shown>> \in Seq(Pictures) /\ Len(<<p.shown>>) = 1 BY <2>4, <2>6
      <4>. QED BY <2>4, <3>1, <4>1, ConcatProperties, LenProperties
    <3>3. p.shown \in Holds(p) /\ \A i \in DOMAIN p.queue : p.queue[i] \in Holds(p)
      BY <2>6 DEF Holds
    <3>4. \A i \in DOMAIN copies : copies[i] \in Holds(p)
      BY <2>4, <3>2, <3>3
    <3>5. ASSUME NEW i \in DOMAIN copies, i > 1
          PROVE  copies[i - 1].step <= copies[i].step
      <4>1. i \in Nat /\ i - 1 \in DOMAIN p.queue /\ copies[i] = p.queue[i - 1]
        BY <2>4, <3>2, <3>5
      <4>2. CASE i = 2 BY <2>3, <2>6, <3>2, <4>1, <4>2 DEF InOrder
      <4>3. CASE i # 2
        <5>1. i - 2 \in DOMAIN p.queue /\ copies[i - 1] = p.queue[i - 2] /\ i - 2 <= i - 1
          BY <2>4, <3>2, <3>5, <4>1, <4>3
        <5>. QED BY <2>3, <4>1, <5>1 DEF InOrder
      <4>. QED BY <4>2, <4>3
    <3>. QED BY <2>1, <2>2, <2>3, <3>4, <3>5 DEF PictureIsOfOneRun, OfRun
  <2>. QED BY <2>5, <2>6
<1>. QED BY <1>1, PictureIsKept, PTL

\* Once a copy was played out nothing older is painted, whichever generation,
\* snapshot or copy comes next.
THEOREM NothingOlderIsPlayed == Spec => PlayedOutNeverGoesBack
<1>1. PictureInvariant /\ [Next]_vars =>
          [painted # None /\ display.picture.shown # None /\ painted' # painted
               => IsNewer(painted', painted)]_vars
  BY StepKeeps DEF Keeps
<1>. QED BY <1>1, PictureIsKept, PTL DEF Spec, PlayedOutNeverGoesBack
==============================================================================
