------------------------- MODULE PacedReadback_proofs -------------------------
(***************************************************************************)
(* That ReadbackInvariant holds of every behaviour of the readbacks, for   *)
(* any readbacks, sizes, depth and pool; that the pool stays bounded; and  *)
(* that the readbacks implement the stream of copies they promise.         *)
(***************************************************************************)
EXTENDS PacedReadback, SequenceTheorems, FiniteSetTheorems, TLAPS

-----------------------------------------------------------------------------
(* Sequences.                                                               *)

\* A function on 1 .. n is a sequence of length n.
LEMMA FunctionIsSeq ==
    ASSUME NEW S, NEW n \in Nat, NEW f \in [1 .. n -> S]
    PROVE  f \in Seq(S) /\ Len(f) = n /\ DOMAIN f = 1 .. n
<1>1. f \in Seq(S)
  BY SeqDef
<1>2. Len(f) \in Nat /\ DOMAIN f = 1 .. Len(f)
  BY <1>1, LenProperties
<1>3. DOMAIN f = 1 .. n
  OBVIOUS
<1>4. Len(f) = n
  BY <1>2, <1>3
<1> QED
  BY <1>1, <1>3, <1>4

\* The copies of a readback are a sequence of copies.
LEMMA FlightIsSeq ==
    ASSUME ReadbackTypeOK, NEW r \in Readbacks
    PROVE  /\ flight[r] \in Seq(Copy)
           /\ Len(flight[r]) \in Nat
           /\ DOMAIN flight[r] = 1 .. Len(flight[r])
           /\ flight[r] \in [1 .. Len(flight[r]) -> Copy]
           /\ \A i \in DOMAIN flight[r] :
                  flight[r][i] \in Copy /\ flight[r][i].buffer \in Buffers
<1>1. flight[r] \in Seq(Copy)
  BY DEF ReadbackTypeOK
<1>2. /\ Len(flight[r]) \in Nat
      /\ DOMAIN flight[r] = 1 .. Len(flight[r])
      /\ flight[r] \in [1 .. Len(flight[r]) -> Copy]
  BY <1>1, LenProperties
<1>3. \A i \in DOMAIN flight[r] : flight[r][i] \in Copy
  BY <1>2
<1> QED
  BY <1>1, <1>2, <1>3 DEF Copy

\* Removing one copy leaves the others, one fewer.
LEMMA WithoutOne ==
    ASSUME NEW S, NEW s \in Seq(S), NEW i \in DOMAIN s
    PROVE  /\ Without(s, i) \in Seq(S)
           /\ Len(Without(s, i)) = Len(s) - 1
           /\ DOMAIN Without(s, i) = 1 .. Len(s) - 1
           /\ \A j \in 1 .. Len(s) - 1 :
                  Without(s, i)[j] = IF j < i THEN s[j] ELSE s[j + 1]
<1>1. Len(s) \in Nat /\ DOMAIN s = 1 .. Len(s) /\ s \in [1 .. Len(s) -> S]
  BY LenProperties
<1>2. Len(s) - 1 \in Nat
  BY <1>1
<1>3. Without(s, i) \in [1 .. Len(s) - 1 -> S]
  BY <1>1, <1>2 DEF Without
<1>4. Without(s, i) \in Seq(S) /\ Len(Without(s, i)) = Len(s) - 1
      /\ DOMAIN Without(s, i) = 1 .. Len(s) - 1
  BY <1>2, <1>3, FunctionIsSeq
<1> QED
  BY <1>4 DEF Without

-----------------------------------------------------------------------------
(* Steps that change no place in flight.                                    *)

\* The copies stay where they are, in the same buffers, and those stay taken.
SamePlaces ==
    /\ inFlight' = inFlight
    /\ \A r \in Readbacks :
           /\ Len(flight'[r]) = Len(flight[r])
           /\ DOMAIN flight'[r] = DOMAIN flight[r]
           /\ \A i \in DOMAIN flight[r] : flight'[r][i].buffer = flight[r][i].buffer
    /\ \A b \in Buffers :
           /\ staging'[b].taken = staging[b].taken
           /\ staging[b].taken => staging'[b].size = staging[b].size

LEMMA SamePlacesKeep ==
    ASSUME ReadbackInvariant, SamePlaces
    PROVE  SlotsAreCopies' /\ StagingIsACopys'
<1> USE DEF ReadbackInvariant
<1>1. SlotsAreCopies'
  BY DEF SlotsAreCopies, SamePlaces
<1>2. StagingIsACopys'
  <2>1. ASSUME NEW r \in Readbacks, NEW i \in DOMAIN flight'[r]
        PROVE  /\ staging'[flight'[r][i].buffer].taken
               /\ staging'[flight'[r][i].buffer].size = Size[r]
               /\ \A q \in Readbacks : \A j \in DOMAIN flight'[q] :
                      flight'[q][j].buffer = flight'[r][i].buffer => q = r /\ j = i
    <3>1. i \in DOMAIN flight[r] /\ flight'[r][i].buffer = flight[r][i].buffer
      BY <2>1 DEF SamePlaces
    <3>2. flight[r][i].buffer \in Buffers
      BY <3>1, FlightIsSeq
    <3>3. /\ staging[flight[r][i].buffer].taken
          /\ staging[flight[r][i].buffer].size = Size[r]
          /\ \A q \in Readbacks : \A j \in DOMAIN flight[q] :
                 flight[q][j].buffer = flight[r][i].buffer => q = r /\ j = i
      BY <3>1 DEF StagingIsACopys
    <3> QED
      BY <3>1, <3>2, <3>3 DEF SamePlaces
  <2>2. ASSUME NEW b \in Buffers, staging'[b].taken
        PROVE  \E r \in Readbacks : \E i \in DOMAIN flight'[r] : flight'[r][i].buffer = b
    <3>1. staging[b].taken
      BY <2>2 DEF SamePlaces
    <3>2. PICK r \in Readbacks : \E i \in DOMAIN flight[r] : flight[r][i].buffer = b
      BY <3>1 DEF StagingIsACopys
    <3>3. PICK i \in DOMAIN flight[r] : flight[r][i].buffer = b
      BY <3>2
    <3>4. i \in DOMAIN flight'[r] /\ flight'[r][i].buffer = b
      BY <3>3 DEF SamePlaces
    <3> QED
      BY <3>4
  <2> QED
    BY <2>1, <2>2 DEF StagingIsACopys
<1> QED
  BY <1>1, <1>2

\* What a step that leaves the render world's frame where it is may change.
LEMMA MapAnswerKeeps ==
    ASSUME ReadbackInvariant,
           NEW r \in Readbacks, NEW i \in DOMAIN flight[r],
           NEW p, NEW m,
           \/ p = "mapped" /\ m = "idle"
           \/ p = "failed" /\ m = "failed",
           flight' = [flight EXCEPT ![r][i].phase = p],
           staging' = [staging EXCEPT ![flight[r][i].buffer].map = m],
           UNCHANGED <<spawned, extracted, prepared, source, inFlight, render, asking, lost>>
    PROVE  ReadbackInvariant'
<1> DEFINE c == flight[r][i]
           d == [c EXCEPT !.phase = p]
<1> USE DEF ReadbackInvariant
<1>1. c \in Copy /\ c.buffer \in Buffers /\ flight[r] \in Seq(Copy) /\ i \in 1 .. Len(flight[r])
  BY FlightIsSeq
<1>2. d \in Copy /\ d.buffer = c.buffer /\ d.phase = p
  BY <1>1 DEF Copy
<1>3. flight \in [Readbacks -> Seq(Copy)] /\ staging \in [Buffers -> StagingBuffer]
  BY DEF ReadbackTypeOK
<1>4. /\ flight'[r] = [flight[r] EXCEPT ![i] = d]
      /\ \A q \in Readbacks \ {r} : flight'[q] = flight[q]
  BY <1>3
<1>5. /\ flight'[r] \in Seq(Copy)
      /\ Len(flight'[r]) = Len(flight[r])
      /\ flight'[r][i] = d
      /\ \A j \in 1 .. Len(flight[r]) : j # i => flight'[r][j] = flight[r][j]
  <2> DEFINE e == [flight[r] EXCEPT ![i] = d]
  <2>1. d \in Copy
    BY <1>2
  <2>2. flight[r] \in [1 .. Len(flight[r]) -> Copy] /\ Len(flight[r]) \in Nat
    BY FlightIsSeq
  <2> HIDE DEF d
  <2>3. /\ e \in [1 .. Len(flight[r]) -> Copy]
        /\ e[i] = d
        /\ \A j \in 1 .. Len(flight[r]) : j # i => e[j] = flight[r][j]
    BY <1>1, <2>1, <2>2
  <2>4. flight'[r] = e
    BY <1>4
  <2> HIDE DEF e
  <2> QED
    BY <2>2, <2>3, <2>4, FunctionIsSeq
<1>6. flight' \in [Readbacks -> Seq(Copy)]
  <2>1. \A q \in Readbacks : flight'[q] \in Seq(Copy)
    BY <1>3, <1>4, <1>5
  <2> QED
    BY <2>1, <1>3
<1>7. /\ staging' \in [Buffers -> StagingBuffer]
      /\ staging'[c.buffer] = [staging[c.buffer] EXCEPT !.map = m]
      /\ \A b \in Buffers : b # c.buffer => staging'[b] = staging[b]
  <2>1. staging[c.buffer] \in StagingBuffer
    BY <1>1, <1>3
  <2>2. [staging[c.buffer] EXCEPT !.map = m] \in StagingBuffer
    BY <2>1 DEF StagingBuffer
  <2> QED
    BY <1>1, <1>3, <2>2
<1>8. ReadbackTypeOK'
  BY <1>6, <1>7 DEF ReadbackTypeOK
<1>9. SamePlaces
  <2>1. \A q \in Readbacks :
            /\ Len(flight'[q]) = Len(flight[q])
            /\ DOMAIN flight'[q] = DOMAIN flight[q]
            /\ \A j \in DOMAIN flight[q] : flight'[q][j].buffer = flight[q][j].buffer
    <3> TAKE q \in Readbacks
    <3>1. CASE q # r
      BY <1>4, <3>1
    <3>2. CASE q = r
      <4>1. DOMAIN flight'[r] = 1 .. Len(flight[r]) /\ DOMAIN flight[r] = 1 .. Len(flight[r])
        BY <1>1, <1>5, LenProperties
      <4> QED
        BY <1>2, <1>5, <3>2, <4>1
    <3> QED
      BY <3>1, <3>2
  <2>2. \A b \in Buffers : staging'[b].taken = staging[b].taken /\ staging'[b].size = staging[b].size
    BY <1>1, <1>3, <1>7 DEF StagingBuffer
  <2> QED
    BY <2>1, <2>2 DEF SamePlaces
<1>10. MapsAreSound'
  <2>1. staging[c.buffer].taken
    BY <1>1 DEF StagingIsACopys
  <2>2. \A b \in Buffers : ~staging'[b].taken => staging'[b].map = "idle"
    BY <1>9, <1>7, <2>1 DEF SamePlaces, MapsAreSound
  <2>3. staging'[c.buffer].map = m
    BY <1>1, <1>3, <1>7 DEF StagingBuffer
  <2>4. ASSUME NEW q \in Readbacks, NEW j \in DOMAIN flight'[q]
        PROVE  staging'[flight'[q][j].buffer].map =
                   CASE flight'[q][j].phase = "mapping" -> "pending"
                     [] flight'[q][j].phase = "failed" -> "failed"
                     [] OTHER -> "idle"
    <3>1. j \in DOMAIN flight[q] /\ flight'[q][j].buffer = flight[q][j].buffer
      BY <1>9 DEF SamePlaces
    <3>2. CASE q = r /\ j = i
      BY <1>2, <1>5, <2>3, <3>2
    <3>3. CASE ~(q = r /\ j = i)
      <4>1. flight'[q][j] = flight[q][j]
        BY <1>1, <1>4, <1>5, <3>1, <3>3, FlightIsSeq
      <4>2. flight[q][j].buffer # c.buffer /\ flight[q][j].buffer \in Buffers
        BY <3>1, <3>3, FlightIsSeq DEF StagingIsACopys
      <4>3. staging'[flight'[q][j].buffer] = staging[flight[q][j].buffer]
        BY <1>7, <4>1, <4>2
      <4> QED
        BY <3>1, <4>1, <4>3 DEF MapsAreSound
    <3> QED
      BY <3>2, <3>3
  <2> QED
    BY <2>2, <2>4 DEF MapsAreSound
<1> QED
  BY <1>8, <1>9, <1>10, SamePlacesKeep

LEMMA MapDoneKeeps ==
    ASSUME ReadbackInvariant, NEW r \in Readbacks, NEW i \in DOMAIN flight[r], MapDone(r, i)
    PROVE  ReadbackInvariant'
BY MapAnswerKeeps DEF MapDone

LEMMA MapFailedKeeps ==
    ASSUME ReadbackInvariant, NEW r \in Readbacks, NEW i \in DOMAIN flight[r], MapFailed(r, i)
    PROVE  ReadbackInvariant'
BY MapAnswerKeeps DEF MapFailed

-----------------------------------------------------------------------------
(* A frame of the render world.                                             *)

\* The copies may pass to another phase, where they are and in their buffers.
LEMMA PhasesPass ==
    ASSUME ReadbackTypeOK,
           flight' = [r \in Readbacks |-> flight'[r]],
           \A r \in Readbacks :
               /\ flight'[r] = [i \in DOMAIN flight[r] |-> flight'[r][i]]
               /\ \A i \in DOMAIN flight[r] :
                      flight'[r][i] \in Copy /\ flight'[r][i].buffer = flight[r][i].buffer
    PROVE  /\ flight' \in [Readbacks -> Seq(Copy)]
           /\ \A r \in Readbacks :
                  /\ Len(flight'[r]) = Len(flight[r])
                  /\ DOMAIN flight'[r] = DOMAIN flight[r]
                  /\ \A i \in DOMAIN flight[r] : flight'[r][i].buffer = flight[r][i].buffer
<1>1. ASSUME NEW r \in Readbacks
      PROVE  /\ flight'[r] \in Seq(Copy)
             /\ Len(flight'[r]) = Len(flight[r])
             /\ DOMAIN flight'[r] = DOMAIN flight[r]
  <2>1. Len(flight[r]) \in Nat /\ DOMAIN flight[r] = 1 .. Len(flight[r])
    BY FlightIsSeq
  <2>2. flight'[r] \in [1 .. Len(flight[r]) -> Copy]
    BY <2>1
  <2> QED
    BY <2>1, <2>2, FunctionIsSeq
<1> QED
  BY <1>1

\* The frame's work and its copies: no buffer's map changes.
LEMMA EncodeCopiesKeeps ==
    ASSUME ReadbackInvariant, EncodeCopies
    PROVE  ReadbackInvariant'
<1> USE DEF ReadbackInvariant
<1>1. source' \in [Readbacks -> 0 .. MaxStep]
  <2>1. PICK stepped \in SUBSET {r \in prepared : source[r] < MaxStep} :
            source' = [r \in Readbacks |-> IF r \in stepped THEN source[r] + 1 ELSE source[r]]
    BY DEF EncodeCopies
  <2>2. source \in [Readbacks -> 0 .. MaxStep]
    BY DEF ReadbackTypeOK
  <2>3. \A r \in Readbacks : (IF r \in stepped THEN source[r] + 1 ELSE source[r]) \in 0 .. MaxStep
    BY <2>2, StepAssumption
  <2> QED
    BY <2>1, <2>3
<1>2. flight' = [r \in Readbacks |-> [i \in DOMAIN flight[r] |->
          IF flight[r][i].phase = "requested"
          THEN [flight[r][i] EXCEPT !.phase = "encoded", !.step = source'[r]]
          ELSE flight[r][i]]]
  BY DEF EncodeCopies
<1>3. ASSUME NEW r \in Readbacks, NEW i \in DOMAIN flight[r]
      PROVE  /\ flight'[r][i] \in Copy
             /\ flight'[r][i].buffer = flight[r][i].buffer
             /\ flight'[r][i].phase =
                    IF flight[r][i].phase = "requested" THEN "encoded" ELSE flight[r][i].phase
  <2>1. flight[r][i] \in Copy /\ source'[r] \in 0 .. MaxStep
    BY <1>1, FlightIsSeq
  <2>2. flight'[r][i] = IF flight[r][i].phase = "requested"
                        THEN [flight[r][i] EXCEPT !.phase = "encoded", !.step = source'[r]]
                        ELSE flight[r][i]
    BY <1>2
  <2> QED
    BY <2>1, <2>2 DEF Copy
<1>4. /\ flight' = [r \in Readbacks |-> flight'[r]]
      /\ \A r \in Readbacks : flight'[r] = [i \in DOMAIN flight[r] |-> flight'[r][i]]
  BY <1>2
<1>5. UNCHANGED <<spawned, extracted, prepared, inFlight, staging, asking, lost>> /\ render' = "map"
  BY DEF EncodeCopies
<1>6. flight' \in [Readbacks -> Seq(Copy)] /\ SamePlaces
  BY <1>3, <1>4, <1>5, PhasesPass DEF SamePlaces
<1>7. ReadbackTypeOK'
  BY <1>1, <1>5, <1>6 DEF ReadbackTypeOK
<1>8. MapsAreSound'
  BY <1>3, <1>5, <1>6 DEF MapsAreSound, SamePlaces
<1> QED
  BY <1>6, <1>7, <1>8, SamePlacesKeep

\* The maps asked for are of the buffers just encoded into, each one copy's.
LEMMA MapCopiesKeeps ==
    ASSUME ReadbackInvariant, MapCopies
    PROVE  ReadbackInvariant'
<1> USE DEF ReadbackInvariant
<1>1. flight' = [r \in Readbacks |-> [i \in DOMAIN flight[r] |->
          IF flight[r][i].phase = "encoded"
          THEN [flight[r][i] EXCEPT !.phase = "mapping"]
          ELSE flight[r][i]]]
  BY DEF MapCopies
<1>2. ASSUME NEW r \in Readbacks, NEW i \in DOMAIN flight[r]
      PROVE  /\ flight'[r][i] \in Copy
             /\ flight'[r][i].buffer = flight[r][i].buffer
             /\ flight'[r][i].phase =
                    IF flight[r][i].phase = "encoded" THEN "mapping" ELSE flight[r][i].phase
  <2>1. flight[r][i] \in Copy
    BY FlightIsSeq
  <2>2. flight'[r][i] = IF flight[r][i].phase = "encoded"
                        THEN [flight[r][i] EXCEPT !.phase = "mapping"]
                        ELSE flight[r][i]
    BY <1>1
  <2> QED
    BY <2>1, <2>2 DEF Copy
<1>3. /\ flight' = [r \in Readbacks |-> flight'[r]]
      /\ \A r \in Readbacks : flight'[r] = [i \in DOMAIN flight[r] |-> flight'[r][i]]
  BY <1>1
<1>4. UNCHANGED <<spawned, extracted, prepared, source, inFlight, asking, lost>> /\ render' = "idle"
  BY DEF MapCopies
<1>5. /\ staging' \in [Buffers -> StagingBuffer]
      /\ \A b \in Buffers :
             /\ staging'[b].taken = staging[b].taken
             /\ staging'[b].size = staging[b].size
             /\ staging'[b].map = IF Encoded(b) THEN "pending" ELSE staging[b].map
  <2>1. staging' = [b \in Buffers |->
            IF Encoded(b) THEN [staging[b] EXCEPT !.map = "pending"] ELSE staging[b]]
    BY DEF MapCopies
  <2>2. \A b \in Buffers : staging[b] \in StagingBuffer
    BY DEF ReadbackTypeOK
  <2> QED
    BY <2>1, <2>2 DEF StagingBuffer
<1>6. flight' \in [Readbacks -> Seq(Copy)] /\ SamePlaces
  BY <1>2, <1>3, <1>4, <1>5, PhasesPass DEF SamePlaces
<1>7. ReadbackTypeOK'
  BY <1>4, <1>5, <1>6 DEF ReadbackTypeOK
<1>8. MapsAreSound'
  <2>1. ASSUME NEW b \in Buffers, ~staging'[b].taken
        PROVE  staging'[b].map = "idle"
    <3>1. ~Encoded(b)
      BY <1>5, <2>1 DEF Encoded, StagingIsACopys
    <3> QED
      BY <1>5, <2>1, <3>1 DEF MapsAreSound
  <2>2. ASSUME NEW r \in Readbacks, NEW i \in DOMAIN flight[r]
        PROVE  staging'[flight[r][i].buffer].map =
                   CASE flight'[r][i].phase = "mapping" -> "pending"
                     [] flight'[r][i].phase = "failed" -> "failed"
                     [] OTHER -> "idle"
    <3>1. Encoded(flight[r][i].buffer) <=> flight[r][i].phase = "encoded"
      BY DEF Encoded, StagingIsACopys
    <3>2. flight[r][i].buffer \in Buffers
      BY FlightIsSeq
    <3>3. staging'[flight[r][i].buffer].map =
              IF flight[r][i].phase = "encoded" THEN "pending" ELSE staging[flight[r][i].buffer].map
      BY <1>5, <3>1, <3>2
    <3> QED
      BY <1>2, <3>3 DEF MapsAreSound
  <2> QED
    BY <1>6, <2>1, <2>2 DEF MapsAreSound, SamePlaces
<1> QED
  BY <1>6, <1>7, <1>8, SamePlacesKeep

\* A buffer of no size is no copy's.
LEMMA AbsentIsFree ==
    ASSUME ReadbackInvariant, NEW b \in Buffers, staging[b].size = 0
    PROVE  ~staging[b].taken
<1> USE DEF ReadbackInvariant
<1> SUFFICES ASSUME staging[b].taken PROVE FALSE
  OBVIOUS
<1>1. PICK r \in Readbacks : \E i \in DOMAIN flight[r] : flight[r][i].buffer = b
  BY DEF StagingIsACopys
<1>2. staging[b].size = Size[r]
  BY <1>1 DEF StagingIsACopys
<1> QED
  BY <1>2, SizeAssumption

\* A claim adds one copy at the end, in a buffer that was no copy's.
LEMMA RequestCopyKeeps ==
    ASSUME ReadbackInvariant, NEW r \in Readbacks, RequestCopy(r)
    PROVE  ReadbackInvariant'
<1> USE DEF ReadbackInvariant
<1>1. PICK b \in Offered(Size[r]) :
          /\ staging' = [staging EXCEPT
                 ![b] = IF @.size = 0 THEN Taken(Size[r])
                        ELSE [@ EXCEPT !.taken = TRUE, !.unused = 0]]
          /\ flight' = [flight EXCEPT ![r] =
                 Append(@, [buffer |-> b, phase |-> "requested", step |-> 0])]
  BY DEF RequestCopy
<1>2. /\ UNCHANGED <<spawned, extracted, prepared, source, render, lost>>
      /\ asking' = asking \ {r}
      /\ inFlight' = [inFlight EXCEPT ![r] = @ + 1]
      /\ inFlight[r] < Depth
  BY DEF RequestCopy, MaySubmit
<1> DEFINE n == Len(flight[r])
           new == [buffer |-> b, phase |-> "requested", step |-> 0]
<1>3. b \in Buffers /\ ~staging[b].taken /\ staging[b].size \in {0, Size[r]}
  <2>1. CASE Free(Size[r]) # {}
    BY <1>1, <2>1 DEF Offered, Free
  <2>2. CASE Free(Size[r]) = {}
    <3>1. \E a \in Buffers : staging[a].size = 0
      BY <2>2 DEF RequestCopy
    <3>2. Created \in Buffers /\ staging[Created].size = 0
      BY <3>1 DEF Created
    <3>3. b = Created
      BY <1>1, <2>2 DEF Offered
    <3> QED
      BY <3>2, <3>3, AbsentIsFree
  <2> QED
    BY <2>1, <2>2
<1>4. staging[b] \in StagingBuffer /\ staging[b].map = "idle" /\ Size[r] \in Nat
  BY <1>3, SizeAssumption DEF ReadbackTypeOK, MapsAreSound
<1>5. /\ staging' \in [Buffers -> StagingBuffer]
      /\ staging'[b].taken
      /\ staging'[b].size = Size[r]
      /\ staging'[b].map = "idle"
      /\ \A a \in Buffers \ {b} : staging'[a] = staging[a]
  <2>1. staging \in [Buffers -> StagingBuffer]
    BY DEF ReadbackTypeOK
  <2>2. CASE staging[b].size = 0
    BY <1>1, <1>3, <1>4, <2>1, <2>2 DEF StagingBuffer, Taken
  <2>3. CASE staging[b].size # 0
    BY <1>1, <1>3, <1>4, <2>1, <2>3 DEF StagingBuffer
  <2> QED
    BY <2>2, <2>3
<1>6. new \in Copy
  BY <1>3, StepAssumption DEF Copy
<1>7. flight \in [Readbacks -> Seq(Copy)] /\ flight[r] \in Seq(Copy) /\ n \in Nat
  BY FlightIsSeq DEF ReadbackTypeOK
<1>8. /\ flight'[r] = Append(flight[r], new)
      /\ \A q \in Readbacks \ {r} : flight'[q] = flight[q]
  BY <1>1, <1>7
<1>9. /\ flight'[r] \in Seq(Copy)
      /\ Len(flight'[r]) = n + 1
      /\ DOMAIN flight'[r] = 1 .. n + 1
      /\ flight'[r][n + 1] = new
      /\ \A i \in 1 .. n : flight'[r][i] = flight[r][i]
  <2> HIDE DEF new
  <2> QED
    BY <1>6, <1>7, <1>8
<1>10. flight' \in [Readbacks -> Seq(Copy)]
  <2>1. \A q \in Readbacks : flight'[q] \in Seq(Copy)
    BY <1>7, <1>8, <1>9
  <2>2. flight' = [q \in Readbacks |-> flight'[q]]
    BY <1>1, <1>7
  <2> QED
    BY <2>1, <2>2
<1>11. inFlight \in [Readbacks -> Nat] /\ inFlight' \in [Readbacks -> Nat]
  BY <1>2 DEF ReadbackTypeOK
<1>12. ReadbackTypeOK'
  BY <1>2, <1>5, <1>10, <1>11 DEF ReadbackTypeOK
<1>13. SlotsAreCopies'
  <2>1. ASSUME NEW q \in Readbacks
        PROVE  inFlight'[q] = Len(flight'[q]) /\ inFlight'[q] <= Depth
    <3>1. CASE q = r
      BY <1>2, <1>9, <1>11, <3>1, DepthAssumption DEF SlotsAreCopies
    <3>2. CASE q # r
      BY <1>2, <1>8, <1>11, <3>2 DEF SlotsAreCopies
    <3> QED
      BY <3>1, <3>2
  <2> QED
    BY <2>1 DEF SlotsAreCopies
\* A copy of the new state is the new one or was there, in another buffer.
<1>14. ASSUME NEW q \in Readbacks, NEW i \in DOMAIN flight'[q]
       PROVE  \/ q = r /\ i = n + 1 /\ flight'[q][i] = new
              \/ /\ i \in DOMAIN flight[q]
                 /\ flight'[q][i] = flight[q][i]
                 /\ flight[q][i].buffer \in Buffers \ {b}
                 /\ q = r => i # n + 1
  <2>1. CASE q = r /\ i = n + 1
    BY <1>9, <2>1
  <2>2. CASE ~(q = r /\ i = n + 1)
    <3>1. i \in DOMAIN flight[q] /\ flight'[q][i] = flight[q][i]
      <4>1. CASE q = r
        <5>1. i \in 1 .. n
          BY <1>7, <1>9, <2>2, <4>1
        <5> QED
          BY <1>9, <4>1, <5>1, FlightIsSeq
      <4>2. CASE q # r
        BY <1>8, <4>2
      <4> QED
        BY <4>1, <4>2
    <3>2. flight[q][i].buffer \in Buffers /\ staging[flight[q][i].buffer].taken
      BY <3>1, FlightIsSeq DEF StagingIsACopys
    <3> QED
      BY <1>3, <2>2, <3>1, <3>2
  <2> QED
    BY <2>1, <2>2
<1>15. StagingIsACopys'
  <2>1. ASSUME NEW q \in Readbacks, NEW i \in DOMAIN flight'[q]
        PROVE  /\ staging'[flight'[q][i].buffer].taken
               /\ staging'[flight'[q][i].buffer].size = Size[q]
               /\ \A p \in Readbacks : \A j \in DOMAIN flight'[p] :
                      flight'[p][j].buffer = flight'[q][i].buffer => p = q /\ j = i
    <3>1. CASE q = r /\ i = n + 1 /\ flight'[q][i] = new
      <4>1. \A p \in Readbacks : \A j \in DOMAIN flight'[p] :
                flight'[p][j].buffer = b => p = r /\ j = n + 1
        BY <1>14
      <4> QED
        BY <1>5, <3>1, <4>1
    <3>2. CASE /\ i \in DOMAIN flight[q]
               /\ flight'[q][i] = flight[q][i]
               /\ flight[q][i].buffer \in Buffers \ {b}
      <4>1. ASSUME NEW p \in Readbacks, NEW j \in DOMAIN flight'[p],
                   flight'[p][j].buffer = flight'[q][i].buffer
            PROVE  p = q /\ j = i
        <5>1. j \in DOMAIN flight[p] /\ flight'[p][j] = flight[p][j]
          <6>1. flight'[p][j].buffer # b
            BY <3>2, <4>1
          <6>2. flight'[p][j] # new
            BY <6>1
          <6> QED
            BY <1>14, <6>2
        <5> QED
          BY <3>2, <4>1, <5>1 DEF StagingIsACopys
      <4> QED
        BY <1>5, <3>2, <4>1 DEF StagingIsACopys
    <3> QED
      BY <1>14, <3>1, <3>2
  <2>2. ASSUME NEW a \in Buffers, staging'[a].taken
        PROVE  \E q \in Readbacks : \E i \in DOMAIN flight'[q] : flight'[q][i].buffer = a
    <3>1. CASE a = b
      <4>1. n + 1 \in DOMAIN flight'[r] /\ flight'[r][n + 1].buffer = b
        BY <1>7, <1>9
      <4> QED
        BY <3>1, <4>1
    <3>2. CASE a # b
      <4>1. staging[a].taken
        BY <1>5, <2>2, <3>2
      <4>2. PICK q \in Readbacks : \E i \in DOMAIN flight[q] : flight[q][i].buffer = a
        BY <4>1 DEF StagingIsACopys
      <4>3. PICK i \in DOMAIN flight[q] : flight[q][i].buffer = a
        BY <4>2
      <4>4. i \in DOMAIN flight'[q] /\ flight'[q][i] = flight[q][i]
        <5>1. CASE q = r
          <6>1. i \in 1 .. n
            BY <4>3, <5>1, FlightIsSeq
          <6> QED
            BY <1>7, <1>9, <5>1, <6>1
        <5>2. CASE q # r
          BY <1>8, <4>3, <5>2
        <5> QED
          BY <5>1, <5>2
      <4> QED
        BY <4>3, <4>4
    <3> QED
      BY <3>1, <3>2
  <2> QED
    BY <2>1, <2>2 DEF StagingIsACopys
<1>16. MapsAreSound'
  <2>1. \A a \in Buffers : ~staging'[a].taken => staging'[a].map = "idle"
    BY <1>5 DEF MapsAreSound
  <2>2. ASSUME NEW q \in Readbacks, NEW i \in DOMAIN flight'[q]
        PROVE  staging'[flight'[q][i].buffer].map =
                   CASE flight'[q][i].phase = "mapping" -> "pending"
                     [] flight'[q][i].phase = "failed" -> "failed"
                     [] OTHER -> "idle"
    <3>1. CASE q = r /\ i = n + 1 /\ flight'[q][i] = new
      BY <1>5, <3>1
    <3>2. CASE /\ i \in DOMAIN flight[q]
               /\ flight'[q][i] = flight[q][i]
               /\ flight[q][i].buffer \in Buffers \ {b}
      BY <1>5, <3>2 DEF MapsAreSound
    <3> QED
      BY <1>14, <3>1, <3>2
  <2> QED
    BY <2>1, <2>2 DEF MapsAreSound
<1> QED
  BY <1>12, <1>13, <1>15, <1>16

-----------------------------------------------------------------------------
(* The extraction.                                                          *)

\* A delivery takes one copy out, and its buffer is no copy's any more.
LEMMA DeliverCopyKeeps ==
    ASSUME ReadbackInvariant, NEW r \in Readbacks, NEW i \in DOMAIN flight[r],
           DeliverCopy(r, i)
    PROVE  ReadbackInvariant'
<1> USE DEF ReadbackInvariant
<1> DEFINE c == flight[r][i]
           b == c.buffer
           n == Len(flight[r])
           was(q, j) == IF q = r /\ j >= i THEN j + 1 ELSE j
<1>1. /\ staging' = [staging EXCEPT ![b] = Returned(c)]
      /\ flight' = [flight EXCEPT ![r] = Without(@, i)]
      /\ inFlight' = [inFlight EXCEPT ![r] = Completed(@)]
      /\ UNCHANGED <<spawned, extracted, prepared, source, render, asking, lost>>
      /\ c.phase \in {"mapped", "failed"}
  BY DEF DeliverCopy, NextAnswered, Answered
<1>2. /\ c \in Copy /\ b \in Buffers
      /\ flight[r] \in Seq(Copy) /\ n \in Nat /\ i \in 1 .. n
      /\ flight \in [Readbacks -> Seq(Copy)]
  BY FlightIsSeq DEF ReadbackTypeOK
<1>3. /\ flight'[r] = Without(flight[r], i)
      /\ \A q \in Readbacks \ {r} : flight'[q] = flight[q]
  BY <1>1, <1>2
<1>4. /\ flight'[r] \in Seq(Copy)
      /\ Len(flight'[r]) = n - 1
      /\ DOMAIN flight'[r] = 1 .. n - 1
      /\ \A j \in 1 .. n - 1 : flight'[r][j] = IF j < i THEN flight[r][j] ELSE flight[r][j + 1]
  BY <1>2, <1>3, WithoutOne
<1>5. flight' \in [Readbacks -> Seq(Copy)]
  <2>1. \A q \in Readbacks : flight'[q] \in Seq(Copy)
    BY <1>2, <1>3, <1>4
  <2>2. flight' = [q \in Readbacks |-> flight'[q]]
    BY <1>1, <1>2
  <2> QED
    BY <2>1, <2>2
<1>6. /\ staging[b] \in StagingBuffer
      /\ staging[b].taken
      /\ c.phase = "mapped" => staging[b].map = "idle"
  <2>1. staging[b] \in StagingBuffer
    BY <1>2 DEF ReadbackTypeOK
  <2>2. staging[b].taken
    BY DEF StagingIsACopys
  <2>3. staging[b].map = CASE c.phase = "mapping" -> "pending"
                           [] c.phase = "failed" -> "failed"
                           [] OTHER -> "idle"
    BY DEF MapsAreSound
  <2> QED
    BY <2>1, <2>2, <2>3
<1>7. /\ staging' \in [Buffers -> StagingBuffer]
      /\ ~staging'[b].taken
      /\ staging'[b].map = "idle"
      /\ \A a \in Buffers \ {b} : staging'[a] = staging[a]
  <2>1. staging \in [Buffers -> StagingBuffer]
    BY DEF ReadbackTypeOK
  <2>2. Returned(c) \in StagingBuffer /\ ~Returned(c).taken /\ Returned(c).map = "idle"
    <3>1. CASE c.phase = "failed"
      BY <3>1 DEF Returned, NoBuffer, StagingBuffer
    <3>2. CASE c.phase = "mapped"
      BY <1>6, <3>2 DEF Returned, StagingBuffer
    <3> QED
      BY <1>1, <3>1, <3>2
  <2> QED
    BY <1>1, <1>2, <2>1, <2>2
<1>8. /\ inFlight \in [Readbacks -> Nat]
      /\ inFlight[r] = n
      /\ inFlight' \in [Readbacks -> Nat]
      /\ inFlight'[r] = n - 1
      /\ \A q \in Readbacks \ {r} : inFlight'[q] = inFlight[q]
  <2>1. inFlight \in [Readbacks -> Nat] /\ inFlight[r] = n
    BY DEF ReadbackTypeOK, SlotsAreCopies
  <2>2. Completed(inFlight[r]) = n - 1 /\ n - 1 \in Nat
    BY <1>2, <2>1 DEF Completed
  <2> QED
    BY <1>1, <2>1, <2>2
<1>9. ReadbackTypeOK'
  BY <1>1, <1>5, <1>7, <1>8 DEF ReadbackTypeOK
<1>10. SlotsAreCopies'
  <2>1. ASSUME NEW q \in Readbacks
        PROVE  inFlight'[q] = Len(flight'[q]) /\ inFlight'[q] <= Depth
    <3>1. CASE q = r
      <4>1. n <= Depth
        BY <1>8 DEF SlotsAreCopies
      <4> QED
        BY <1>2, <1>4, <1>8, <3>1, <4>1, DepthAssumption
    <3>2. CASE q # r
      BY <1>3, <1>8, <3>2 DEF SlotsAreCopies
    <3> QED
      BY <3>1, <3>2
  <2> QED
    BY <2>1 DEF SlotsAreCopies
\* A copy of the new state was there, at its place or the next, and not the one.
<1>11. ASSUME NEW q \in Readbacks, NEW j \in DOMAIN flight'[q]
       PROVE  /\ j \in Nat
              /\ was(q, j) \in DOMAIN flight[q]
              /\ flight'[q][j] = flight[q][was(q, j)]
              /\ flight[q][was(q, j)].buffer \in Buffers \ {b}
  <2>1. CASE q = r
    <3>1. j \in 1 .. n - 1
      BY <1>4, <2>1
    <3>2. was(q, j) \in 1 .. n /\ was(q, j) # i /\ flight'[q][j] = flight[q][was(q, j)]
      BY <1>2, <1>4, <2>1, <3>1
    <3>3. was(q, j) \in DOMAIN flight[q]
      BY <2>1, <3>2, FlightIsSeq
    <3>4. flight[q][was(q, j)].buffer \in Buffers /\ flight[q][was(q, j)].buffer # b
      BY <2>1, <3>2, <3>3, FlightIsSeq DEF StagingIsACopys
    <3> QED
      BY <3>1, <3>2, <3>3, <3>4
  <2>2. CASE q # r
    <3>1. was(q, j) = j /\ flight'[q] = flight[q]
      BY <1>3, <2>2
    <3>2. j \in Nat
      BY <3>1, FlightIsSeq
    <3>3. flight[q][j].buffer \in Buffers /\ flight[q][j].buffer # b
      BY <2>2, <3>1, FlightIsSeq DEF StagingIsACopys
    <3> QED
      BY <3>1, <3>2, <3>3
  <2> QED
    BY <2>1, <2>2
<1>12. ASSUME NEW q \in Readbacks, NEW k \in DOMAIN flight[q], ~(q = r /\ k = i)
       PROVE  \E j \in DOMAIN flight'[q] : flight'[q][j] = flight[q][k]
  <2>1. CASE q # r
    BY <1>3, <2>1
  <2>2. CASE q = r
    <3>1. k \in 1 .. n /\ k # i
      BY <1>12, <2>2, FlightIsSeq
    <3>2. CASE k < i
      <4>1. k \in 1 .. n - 1
        BY <1>2, <3>1, <3>2
      <4>2. flight'[r][k] = flight[r][k]
        BY <1>4, <3>2, <4>1
      <4> QED
        BY <1>4, <2>2, <4>1, <4>2
    <3>3. CASE k > i
      <4>1. k - 1 \in 1 .. n - 1 /\ ~(k - 1 < i) /\ (k - 1) + 1 = k
        BY <1>2, <3>1, <3>3
      <4>2. flight'[r][k - 1] = flight[r][k]
        BY <1>4, <4>1
      <4> QED
        BY <1>4, <2>2, <4>1, <4>2
    <3> QED
      BY <1>2, <3>1, <3>2, <3>3
  <2> QED
    BY <2>1, <2>2
<1>13. StagingIsACopys'
  <2>1. ASSUME NEW q \in Readbacks, NEW j \in DOMAIN flight'[q]
        PROVE  /\ staging'[flight'[q][j].buffer].taken
               /\ staging'[flight'[q][j].buffer].size = Size[q]
               /\ \A p \in Readbacks : \A k \in DOMAIN flight'[p] :
                      flight'[p][k].buffer = flight'[q][j].buffer => p = q /\ k = j
    <3>1. staging'[flight'[q][j].buffer] = staging[flight[q][was(q, j)].buffer]
      BY <1>7, <1>11
    <3>2. /\ staging[flight[q][was(q, j)].buffer].taken
          /\ staging[flight[q][was(q, j)].buffer].size = Size[q]
      BY <1>11 DEF StagingIsACopys
    <3>3. ASSUME NEW p \in Readbacks, NEW k \in DOMAIN flight'[p],
                 flight'[p][k].buffer = flight'[q][j].buffer
          PROVE  p = q /\ k = j
      <4>1. flight[p][was(p, k)].buffer = flight[q][was(q, j)].buffer
        BY <1>11, <3>3
      <4>2. was(p, k) \in DOMAIN flight[p] /\ was(q, j) \in DOMAIN flight[q]
        BY <1>11
      <4> HIDE DEF was
      <4>3. p = q /\ was(p, k) = was(q, j)
        BY <4>1, <4>2 DEF StagingIsACopys
      <4>4. k \in Nat /\ j \in Nat /\ i \in Nat
        BY <1>2, <1>11
      <4> QED
        BY <4>3, <4>4 DEF was
    <3> QED
      BY <3>1, <3>2, <3>3
  <2>2. ASSUME NEW a \in Buffers, staging'[a].taken
        PROVE  \E q \in Readbacks : \E j \in DOMAIN flight'[q] : flight'[q][j].buffer = a
    <3>1. a # b /\ staging[a].taken
      BY <1>7, <2>2
    <3>2. PICK q \in Readbacks : \E k \in DOMAIN flight[q] : flight[q][k].buffer = a
      BY <3>1 DEF StagingIsACopys
    <3>3. PICK k \in DOMAIN flight[q] : flight[q][k].buffer = a
      BY <3>2
    <3>4. ~(q = r /\ k = i)
      BY <3>1, <3>3
    <3> QED
      BY <1>12, <3>3, <3>4
  <2> QED
    BY <2>1, <2>2 DEF StagingIsACopys
<1>14. MapsAreSound'
  <2>1. \A a \in Buffers : ~staging'[a].taken => staging'[a].map = "idle"
    BY <1>7 DEF MapsAreSound
  <2>2. ASSUME NEW q \in Readbacks, NEW j \in DOMAIN flight'[q]
        PROVE  staging'[flight'[q][j].buffer].map =
                   CASE flight'[q][j].phase = "mapping" -> "pending"
                     [] flight'[q][j].phase = "failed" -> "failed"
                     [] OTHER -> "idle"
    BY <1>7, <1>11 DEF MapsAreSound
  <2> QED
    BY <2>1, <2>2 DEF MapsAreSound
<1> QED
  BY <1>9, <1>10, <1>13, <1>14

\* The pool ages the buffers no copy has, and the frame begins.
LEMMA FinishExtractionKeeps ==
    ASSUME ReadbackInvariant, FinishExtraction
    PROVE  ReadbackInvariant'
<1> USE DEF ReadbackInvariant
<1>1. /\ staging' = [b \in Buffers |-> Aged(b)]
      /\ extracted' = spawned
      /\ prepared' = prepared \cap spawned
      /\ asking' = spawned
      /\ render' = "request"
      /\ UNCHANGED <<spawned, source, inFlight, flight, lost>>
  BY DEF FinishExtraction
<1>2. ASSUME NEW b \in Buffers
      PROVE  /\ staging'[b] \in StagingBuffer
             /\ staging'[b].taken = staging[b].taken
             /\ staging[b].taken => staging'[b] = staging[b]
             /\ staging'[b].map \in {"idle", staging[b].map}
  <2>1. staging'[b] = Aged(b) /\ staging[b] \in StagingBuffer
    BY <1>1 DEF ReadbackTypeOK
  <2>2. CASE staging[b].size = 0 \/ staging[b].taken
    BY <2>1, <2>2 DEF Aged
  <2>3. CASE ~(staging[b].size = 0 \/ staging[b].taken) /\ staging[b].unused + 1 < UnusedKept
    BY <2>1, <2>3 DEF Aged, StagingBuffer
  <2>4. CASE ~(staging[b].size = 0 \/ staging[b].taken) /\ ~(staging[b].unused + 1 < UnusedKept)
    <3>1. staging'[b] = NoBuffer
      BY <2>1, <2>4 DEF Aged
    <3>2. NoBuffer \in StagingBuffer /\ NoBuffer.taken = FALSE /\ NoBuffer.map = "idle"
      BY DEF NoBuffer, StagingBuffer
    <3>3. staging[b].taken = FALSE
      BY <2>1, <2>4 DEF StagingBuffer
    <3> QED
      BY <3>1, <3>2, <3>3
  <2> QED
    BY <2>2, <2>3, <2>4
<1>3. ReadbackTypeOK'
  BY <1>1, <1>2 DEF ReadbackTypeOK
<1>4. SamePlaces
  BY <1>1, <1>2 DEF SamePlaces
<1>5. MapsAreSound'
  <2>1. \A b \in Buffers : ~staging'[b].taken => staging'[b].map = "idle"
    BY <1>2 DEF MapsAreSound
  <2>2. ASSUME NEW r \in Readbacks, NEW i \in DOMAIN flight'[r]
        PROVE  staging'[flight'[r][i].buffer] = staging[flight[r][i].buffer]
    BY <1>1, <1>2, FlightIsSeq DEF StagingIsACopys
  <2> QED
    BY <1>1, <2>1, <2>2 DEF MapsAreSound
<1> QED
  BY <1>3, <1>4, <1>5, SamePlacesKeep

-----------------------------------------------------------------------------
(* The theorem.                                                             *)

LEMMA ReadbackStarts ==
    ReadbackInit => ReadbackInvariant
<1> SUFFICES ASSUME ReadbackInit PROVE ReadbackInvariant
  OBVIOUS
<1>1. \A r \in Readbacks : flight[r] = <<>> /\ Len(flight[r]) = 0 /\ DOMAIN flight[r] = {}
  BY DEF ReadbackInit
<1>2. \A b \in Buffers : staging[b] = NoBuffer /\ ~NoBuffer.taken /\ NoBuffer.map = "idle"
  BY DEF ReadbackInit, NoBuffer
<1>3. ReadbackTypeOK
  <2>1. NoBuffer \in StagingBuffer
    BY DEF NoBuffer, StagingBuffer
  <2>2. staging \in [Buffers -> StagingBuffer]
    BY <2>1 DEF ReadbackInit
  <2>3. flight \in [Readbacks -> Seq(Copy)]
    <3>1. <<>> \in Seq(Copy)
      BY EmptySeq
    <3> QED
      BY <3>1 DEF ReadbackInit
  <2>4. source \in [Readbacks -> 0 .. MaxStep] /\ inFlight \in [Readbacks -> Nat]
    BY StepAssumption DEF ReadbackInit
  <2> QED
    BY <2>2, <2>3, <2>4 DEF ReadbackInit, ReadbackTypeOK
<1>4. SlotsAreCopies
  BY <1>1, DepthAssumption DEF ReadbackInit, SlotsAreCopies
<1>5. StagingIsACopys /\ MapsAreSound
  BY <1>1, <1>2 DEF StagingIsACopys, MapsAreSound
<1> QED
  BY <1>3, <1>4, <1>5 DEF ReadbackInvariant

\* Steps that touch neither the copies nor the pool.
LEMMA PipelineUntouchedKeeps ==
    ASSUME ReadbackInvariant, ReadbackTypeOK', UNCHANGED <<inFlight, flight, staging>>
    PROVE  ReadbackInvariant'
BY DEF ReadbackInvariant, SlotsAreCopies, StagingIsACopys, MapsAreSound

LEMMA ReadbackNext ==
    ReadbackInvariant /\ [Next]_readbackVars => ReadbackInvariant'
<1> SUFFICES ASSUME ReadbackInvariant, [Next]_readbackVars PROVE ReadbackInvariant'
  OBVIOUS
<1>0. ReadbackTypeOK
  BY DEF ReadbackInvariant
<1>1. ASSUME NEW r \in Readbacks, RequestCopy(r) PROVE ReadbackInvariant'
  BY <1>1, RequestCopyKeeps
<1>2. ASSUME NEW r \in Readbacks, PassOver(r) PROVE ReadbackInvariant'
  BY <1>0, <1>2, PipelineUntouchedKeeps DEF PassOver, ReadbackTypeOK
<1>3. CASE EncodeCopies
  BY <1>3, EncodeCopiesKeeps
<1>4. CASE MapCopies
  BY <1>4, MapCopiesKeeps
<1>5. CASE BeginExtraction
  BY <1>0, <1>5, PipelineUntouchedKeeps DEF BeginExtraction, ReadbackTypeOK
<1>6. ASSUME NEW r \in Readbacks, NEW i \in DOMAIN flight[r], DeliverCopy(r, i)
      PROVE  ReadbackInvariant'
  BY <1>6, DeliverCopyKeeps
<1>7. CASE FinishExtraction
  BY <1>7, FinishExtractionKeeps
<1>8. ASSUME NEW r \in Readbacks, Despawn(r) PROVE ReadbackInvariant'
  BY <1>0, <1>8, PipelineUntouchedKeeps DEF Despawn, renderVars, ReadbackTypeOK
<1>9. ASSUME NEW r \in Readbacks, Prepare(r) PROVE ReadbackInvariant'
  BY <1>0, <1>9, PipelineUntouchedKeeps DEF Prepare, ReadbackTypeOK
<1>10. ASSUME NEW r \in Readbacks, MapAnswered(r) PROVE ReadbackInvariant'
  BY <1>10, MapDoneKeeps, MapFailedKeeps DEF MapAnswered
<1>11. ASSUME NEW r \in Readbacks, NEW step \in 0 .. MaxStep, Spawn(r, step)
       PROVE  ReadbackInvariant'
  BY <1>0, <1>11, PipelineUntouchedKeeps DEF Spawn, renderVars, ReadbackTypeOK
<1>12. CASE Lose
  BY <1>0, <1>12, PipelineUntouchedKeeps DEF Lose, ReadbackTypeOK
<1>13. CASE UNCHANGED readbackVars
  BY <1>0, <1>13, PipelineUntouchedKeeps DEF readbackVars, renderVars, ReadbackTypeOK
<1> QED
  BY <1>1, <1>2, <1>3, <1>4, <1>5, <1>6, <1>7, <1>8, <1>9, <1>10, <1>11, <1>12, <1>13
     DEF Next, Frame

\* The pool, the slots and the copies agree in every state of the readbacks:
\* what the counts say is in flight is, each copy has a buffer of its own, and
\* no buffer is offered with a map pending or failed (paced_readback.rs:110-247).
THEOREM ReadbacksAgree == Spec => []ReadbackInvariant
<1>1. ReadbackInit => ReadbackInvariant
  BY ReadbackStarts
<1>2. ReadbackInvariant /\ [Next]_readbackVars => ReadbackInvariant'
  BY ReadbackNext
<1> QED
  BY <1>1, <1>2, PTL DEF Spec

\* No readback ever has more copies in flight than the depth
\* (try_submit, paced_readback.rs:110-117).
COROLLARY FlightIsBounded ==
    Spec => [](\A r \in Readbacks : Len(flight[r]) <= Depth)
<1>1. ReadbackInvariant => \A r \in Readbacks : Len(flight[r]) <= Depth
  BY DEF ReadbackInvariant, SlotsAreCopies
<1> QED
  BY <1>1, ReadbacksAgree, PTL

-----------------------------------------------------------------------------
(* The pool.                                                                *)

\* The staging buffers of a size, free or taken.
Pool(size) == {b \in Buffers : staging[b].size = size}

\* The readbacks that read as much.
Readers(size) == {r \in Readbacks : Size[r] = size}

ReadSizes == {Size[r] : r \in Readbacks}

\* PoolIsBounded, with what a count of a part needs: that the pool is finite.
PoolFits ==
    \A size \in ReadSizes :
        /\ IsFiniteSet(Pool(size))
        /\ Cardinality(Pool(size)) <= Depth * Cardinality(Readers(size))

LEMMA ReadersAreFinite ==
    ASSUME NEW size
    PROVE  IsFiniteSet(Readers(size)) /\ Cardinality(Readers(size)) \in Nat
<1>1. IsFiniteSet(Readers(size))
  BY FiniteAssumption, FS_Subset DEF Readers
<1> QED
  BY <1>1, FS_CardinalityType

\* Buffers that are each some copy's are no more than the places of the copies.
LEMMA AsManyAsCopies ==
    ASSUME NEW readers, IsFiniteSet(readers), NEW pool, NEW copies,
           \A r \in readers : DOMAIN copies[r] \subseteq 1 .. Depth,
           \A b \in pool : \E r \in readers : \E i \in DOMAIN copies[r] :
               copies[r][i].buffer = b
    PROVE  IsFiniteSet(pool) /\ Cardinality(pool) <= Depth * Cardinality(readers)
<1> DEFINE places == readers \X (1 .. Depth)
           Holds(b, x) == copies[x[1]][x[2]].buffer = b
           place == [b \in pool |-> CHOOSE x \in places : Holds(b, x)]
<1>1. \A b \in pool : \E x \in places : Holds(b, x)
  <2> TAKE b \in pool
  <2>1. PICK r \in readers : \E i \in DOMAIN copies[r] : copies[r][i].buffer = b
    OBVIOUS
  <2>2. PICK i \in DOMAIN copies[r] : copies[r][i].buffer = b
    BY <2>1
  <2>3. <<r, i>> \in places
    BY <2>1, <2>2
  <2>4. Holds(b, <<r, i>>)
    BY <2>2
  <2> QED
    BY <2>3, <2>4
<1>2. \A b \in pool : place[b] \in places /\ Holds(b, place[b])
  <2> TAKE b \in pool
  <2>1. \E x \in places : Holds(b, x)
    BY <1>1
  <2> HIDE DEF places, Holds
  <2> QED
    BY <2>1
<1>3. place \in Injection(pool, places)
  <2>1. place \in [pool -> places]
    BY <1>2
  <2>2. \A a, b \in pool : place[a] = place[b] => a = b
    BY <1>2
  <2> QED
    BY <2>1, <2>2 DEF Injection, IsInjective
<1>4. IsFiniteSet(1 .. Depth) /\ Cardinality(1 .. Depth) = Depth
  BY DepthAssumption, FS_Interval
<1>5. IsFiniteSet(places) /\ Cardinality(places) = Cardinality(readers) * Depth
  BY <1>4, FS_Product
<1>6. IsFiniteSet(pool) /\ Cardinality(pool) <= Cardinality(places)
  BY <1>3, <1>5, FS_Injection
<1>7. Cardinality(readers) \in Nat
  BY FS_CardinalityType
<1>8. Cardinality(readers) * Depth = Depth * Cardinality(readers)
  BY <1>7, DepthAssumption
<1> QED
  BY <1>5, <1>6, <1>8

\* A size's pool fits when it has only lost buffers.
LEMMA FewerStillFit ==
    ASSUME PoolFits, NEW size \in ReadSizes, Pool(size)' \subseteq Pool(size)
    PROVE  /\ IsFiniteSet(Pool(size)')
           /\ Cardinality(Pool(size)') <= Depth * Cardinality(Readers(size))
<1> DEFINE before == Pool(size)
           after == Pool(size)'
           bound == Depth * Cardinality(Readers(size))
<1>1. IsFiniteSet(before) /\ Cardinality(before) <= bound
  BY DEF PoolFits
<1>2. after \in SUBSET before
  OBVIOUS
<1>3. bound \in Nat
  BY ReadersAreFinite, DepthAssumption
<1> HIDE DEF before, after, bound
<1>4. IsFiniteSet(after) /\ Cardinality(after) <= Cardinality(before)
  BY <1>1, <1>2, FS_Subset
<1>5. Cardinality(after) \in Nat /\ Cardinality(before) \in Nat
  BY <1>1, <1>4, FS_CardinalityType
<1>6. Cardinality(after) <= bound
  BY <1>1, <1>3, <1>4, <1>5
<1> QED
  BY <1>4, <1>6 DEF after, bound

\* Steps that give no buffer a size leave every pool as it was or smaller.
LEMMA PoolOnlyShrinks ==
    ASSUME PoolFits, \A b \in Buffers : staging'[b].size \in {staging[b].size, 0}
    PROVE  PoolFits'
<1>1. ASSUME NEW size \in ReadSizes PROVE Pool(size)' \subseteq Pool(size)
  <2>1. size # 0
    BY SizeAssumption DEF ReadSizes
  <2> QED
    BY <2>1 DEF Pool
<1>2. ReadSizes' = ReadSizes /\ \A size : Readers(size)' = Readers(size)
  BY DEF ReadSizes, Readers
<1> QED
  BY <1>1, <1>2, FewerStillFit DEF PoolFits

\* A buffer is created only with every buffer of its size taken: each of them
\* is then some copy's, of a readback of that size, within its depth.
LEMMA RequestCopyFits ==
    ASSUME ReadbackInvariant, ReadbackInvariant', PoolFits,
           NEW r \in Readbacks, RequestCopy(r)
    PROVE  PoolFits'
<1>1. PICK b \in Offered(Size[r]) :
          staging' = [staging EXCEPT
              ![b] = IF @.size = 0 THEN Taken(Size[r])
                     ELSE [@ EXCEPT !.taken = TRUE, !.unused = 0]]
  BY DEF RequestCopy
<1>2. staging \in [Buffers -> StagingBuffer]
  BY DEF ReadbackInvariant, ReadbackTypeOK
<1>3. Size[r] # 0
  BY SizeAssumption
<1>4. CASE Free(Size[r]) # {}
  <2>1. b \in Buffers /\ staging[b].size = Size[r]
    BY <1>1, <1>4 DEF Offered, Free
  <2>2. \A a \in Buffers : staging'[a].size = staging[a].size
    BY <1>1, <1>2, <1>3, <2>1 DEF StagingBuffer
  <2> QED
    BY <2>2, PoolOnlyShrinks
<1>5. CASE Free(Size[r]) = {}
  <2>1. b \in Buffers /\ staging[b].size = 0
    <3>1. \E a \in Buffers : staging[a].size = 0
      BY <1>5 DEF RequestCopy
    <3>2. Created \in Buffers /\ staging[Created].size = 0
      BY <3>1 DEF Created
    <3> QED
      BY <1>1, <1>5, <3>2 DEF Offered
  <2>2. staging'[b] = Taken(Size[r]) /\ \A a \in Buffers \ {b} : staging'[a] = staging[a]
    BY <1>1, <1>2, <2>1
  <2>3. \A a \in Pool(Size[r])' : staging'[a].taken
    <3> TAKE a \in Pool(Size[r])'
    <3>1. CASE a = b
      BY <2>2, <3>1 DEF Taken
    <3>2. CASE a # b
      BY <1>5, <2>2, <3>2 DEF Pool, Free
    <3> QED
      BY <3>1, <3>2
  <2>4. \A a \in Pool(Size[r])' : \E q \in Readers(Size[r]) : \E i \in DOMAIN flight'[q] :
            flight'[q][i].buffer = a
    <3> TAKE a \in Pool(Size[r])'
    <3>1. a \in Buffers /\ staging'[a].size = Size[r]
      BY DEF Pool
    <3>2. staging'[a].taken
      BY <2>3
    <3>3. PICK q \in Readbacks : \E i \in DOMAIN flight'[q] : flight'[q][i].buffer = a
      BY <3>1, <3>2 DEF ReadbackInvariant, StagingIsACopys
    <3>4. Size[q] = Size[r]
      BY <3>1, <3>3 DEF ReadbackInvariant, StagingIsACopys
    <3> QED
      BY <3>3, <3>4 DEF Readers
  <2>5. \A q \in Readbacks : DOMAIN flight'[q] \subseteq 1 .. Depth
    <3> TAKE q \in Readbacks
    <3>1. flight'[q] \in Seq(Copy) /\ Len(flight'[q]) <= Depth
      BY DEF ReadbackInvariant, ReadbackTypeOK, SlotsAreCopies
    <3>2. DOMAIN flight'[q] = 1 .. Len(flight'[q]) /\ Len(flight'[q]) \in Nat
      BY <3>1, LenProperties
    <3> QED
      BY <3>1, <3>2, DepthAssumption
  <2>6. /\ IsFiniteSet(Pool(Size[r])')
        /\ Cardinality(Pool(Size[r])') <= Depth * Cardinality(Readers(Size[r]))
    <3> DEFINE readers == Readers(Size[r])
               pool == Pool(Size[r])'
               copies == flight'
    <3>1. IsFiniteSet(readers)
      BY ReadersAreFinite
    <3>2. \A q \in readers : DOMAIN copies[q] \subseteq 1 .. Depth
      BY <2>5 DEF Readers
    <3>3. \A a \in pool : \E q \in readers : \E i \in DOMAIN copies[q] :
              copies[q][i].buffer = a
      BY <2>4
    <3> HIDE DEF readers, pool, copies
    <3>4. IsFiniteSet(pool) /\ Cardinality(pool) <= Depth * Cardinality(readers)
      BY <3>1, <3>2, <3>3, AsManyAsCopies
    <3> QED
      BY <3>4 DEF readers, pool
  <2>7. ASSUME NEW size \in ReadSizes, size # Size[r]
        PROVE  Pool(size)' \subseteq Pool(size)
    BY <2>2, <2>7 DEF Pool, Taken
  <2>8. ReadSizes' = ReadSizes /\ \A size : Readers(size)' = Readers(size)
    BY DEF ReadSizes, Readers
  <2> QED
    BY <2>6, <2>7, <2>8, FewerStillFit DEF PoolFits
<1> QED
  BY <1>4, <1>5

LEMMA PoolNext ==
    ASSUME ReadbackInvariant, ReadbackInvariant', PoolFits, [Next]_readbackVars
    PROVE  PoolFits'
<1>0. staging \in [Buffers -> StagingBuffer] /\ flight \in [Readbacks -> Seq(Copy)]
  BY DEF ReadbackInvariant, ReadbackTypeOK
<1>1. ASSUME NEW r \in Readbacks, RequestCopy(r) PROVE PoolFits'
  BY <1>1, RequestCopyFits
<1>2. CASE UNCHANGED staging
  BY <1>2, PoolOnlyShrinks
<1>3. CASE MapCopies
  <2>1. \A b \in Buffers : staging'[b].size = staging[b].size
    BY <1>0, <1>3 DEF MapCopies, StagingBuffer
  <2> QED
    BY <2>1, PoolOnlyShrinks
<1>4. ASSUME NEW r \in Readbacks, NEW i \in DOMAIN flight[r], DeliverCopy(r, i)
      PROVE  PoolFits'
  <2>1. flight[r][i].buffer \in Buffers
    BY FlightIsSeq DEF ReadbackInvariant
  <2>2. Returned(flight[r][i]).size \in {staging[flight[r][i].buffer].size, 0}
    BY <1>0, <2>1 DEF Returned, NoBuffer, StagingBuffer
  <2>3. \A b \in Buffers : staging'[b].size \in {staging[b].size, 0}
    BY <1>0, <1>4, <2>1, <2>2 DEF DeliverCopy
  <2> QED
    BY <2>3, PoolOnlyShrinks
<1>5. CASE FinishExtraction
  <2>1. \A b \in Buffers : staging'[b] = Aged(b)
    BY <1>5 DEF FinishExtraction
  <2>2. \A b \in Buffers : Aged(b).size \in {staging[b].size, 0}
    BY <1>0 DEF Aged, NoBuffer, StagingBuffer
  <2> QED
    BY <2>1, <2>2, PoolOnlyShrinks
<1>6. ASSUME NEW r \in Readbacks, MapAnswered(r) PROVE PoolFits'
  <2>1. PICK i \in DOMAIN flight[r] : MapDone(r, i) \/ MapFailed(r, i)
    BY <1>6 DEF MapAnswered
  <2>2. flight[r][i].buffer \in Buffers
    BY FlightIsSeq DEF ReadbackInvariant
  <2>3. \E m : staging' = [staging EXCEPT ![flight[r][i].buffer].map = m]
    BY <2>1 DEF MapDone, MapFailed
  <2>4. \A b \in Buffers : staging'[b].size = staging[b].size
    BY <1>0, <2>2, <2>3 DEF StagingBuffer
  <2> QED
    BY <2>4, PoolOnlyShrinks
<1>7. \/ \E r \in Readbacks : RequestCopy(r) \/ MapAnswered(r)
      \/ \E r \in Readbacks : \E i \in DOMAIN flight[r] : DeliverCopy(r, i)
      \/ MapCopies
      \/ FinishExtraction
      \/ UNCHANGED staging
  BY DEF Next, Frame, PassOver, EncodeCopies, BeginExtraction, Despawn, Prepare, Spawn, Lose,
         readbackVars, renderVars
<1> QED
  BY <1>1, <1>2, <1>3, <1>4, <1>5, <1>6, <1>7

LEMMA PoolStarts == ReadbackInit => PoolFits
<1> SUFFICES ASSUME ReadbackInit, NEW size \in ReadSizes
             PROVE  /\ IsFiniteSet(Pool(size))
                    /\ Cardinality(Pool(size)) <= Depth * Cardinality(Readers(size))
  BY DEF PoolFits
<1>1. size # 0
  BY SizeAssumption DEF ReadSizes
<1>2. Pool(size) = {}
  BY <1>1 DEF Pool, ReadbackInit, NoBuffer
<1>3. IsFiniteSet({}) /\ Cardinality({}) = 0
  BY FS_EmptySet
<1>4. Depth * Cardinality(Readers(size)) \in Nat
  BY ReadersAreFinite, DepthAssumption
<1> QED
  BY <1>2, <1>3, <1>4

\* However often readbacks of a size are replaced, the pool never holds more
\* buffers of it than copies of them may be in flight at once: claim creates
\* one only when every one there is is taken (paced_readback.rs:180-200).
THEOREM PoolStaysBounded == Spec => []PoolIsBounded
<1>1. ReadbackInit => PoolFits
  BY PoolStarts
<1>2. /\ ReadbackInvariant /\ ReadbackInvariant'
      /\ PoolFits /\ [Next]_readbackVars
      => PoolFits'
  BY PoolNext
<1>3. PoolFits => PoolIsBounded
  BY DEF PoolFits, PoolIsBounded, Pool, Readers, ReadSizes
<1> QED
  BY <1>1, <1>2, <1>3, ReadbacksAgree, PTL DEF Spec

-----------------------------------------------------------------------------
(* The order of the copies in flight, which the promise needs beside the    *)
(* invariant.                                                               *)

\* What is answered comes first, and what is not mapped yet is the last.
Ordered(copies) ==
    \A i \in DOMAIN copies :
        /\ Answered(copies[i]) => \A j \in 1 .. i - 1 : Answered(copies[j])
        /\ copies[i].phase \in {"requested", "encoded"} => i = Len(copies)

\* A copy is asked for once a frame, by a readback that is known, and is
\* encoded and submitted before the frame is over.
OnTime(r) ==
    \A i \in DOMAIN flight[r] :
        /\ flight[r][i].phase = "encoded" => render = "map"
        /\ flight[r][i].phase = "requested" => render = "request" /\ r \in extracted \ asking

FlightInOrder == \A r \in Readbacks : Ordered(flight[r]) /\ OnTime(r)

\* Steps that leave the copies alone.
LEMMA SameFlightInOrder ==
    ASSUME FlightInOrder, UNCHANGED flight,
           \/ render \in {"idle", "deliver"}
           \/ render' = render /\ extracted' = extracted /\ asking' \subseteq asking
    PROVE  FlightInOrder'
<1>1. ASSUME NEW r \in Readbacks PROVE Ordered(flight'[r])
  BY DEF FlightInOrder, Ordered
<1>2. ASSUME NEW r \in Readbacks PROVE OnTime(r)'
  BY DEF FlightInOrder, OnTime
<1> QED
  BY <1>1, <1>2 DEF FlightInOrder, Ordered, Answered

\* An answer is given to the first copy that has none.
LEMMA AnswerInOrder ==
    ASSUME ReadbackInvariant, FlightInOrder,
           NEW r \in Readbacks, NEW i \in DOMAIN flight[r], NEW p \in {"mapped", "failed"},
           Pending(flight[r][i]), Oldest(r, i),
           flight' = [flight EXCEPT ![r][i].phase = p],
           UNCHANGED <<extracted, render, asking>>
    PROVE  /\ FlightInOrder'
           /\ \A q \in Readbacks :
                  /\ Len(flight'[q]) = Len(flight[q])
                  /\ DOMAIN flight'[q] = DOMAIN flight[q]
                  /\ \A j \in DOMAIN flight[q] :
                         /\ flight'[q][j].step = flight[q][j].step
                         /\ flight'[q][j].phase = "requested" <=> flight[q][j].phase = "requested"
<1>1. /\ flight \in [Readbacks -> Seq(Copy)]
      /\ \A q \in Readbacks : /\ Len(flight[q]) \in Nat
                              /\ DOMAIN flight[q] = 1 .. Len(flight[q])
                              /\ flight[q] \in [1 .. Len(flight[q]) -> Copy]
  BY FlightIsSeq DEF ReadbackInvariant, ReadbackTypeOK
<1>2. /\ flight'[r] = [flight[r] EXCEPT ![i].phase = p]
      /\ \A q \in Readbacks \ {r} : flight'[q] = flight[q]
  BY <1>1
<1>3. /\ flight'[r] \in [1 .. Len(flight[r]) -> Copy]
      /\ DOMAIN flight'[r] = DOMAIN flight[r]
      /\ flight'[r][i].phase = p
      /\ flight'[r][i].step = flight[r][i].step
      /\ \A j \in DOMAIN flight[r] : j # i => flight'[r][j] = flight[r][j]
  <2>1. flight[r][i] \in Copy
    BY <1>1
  <2>2. [flight[r][i] EXCEPT !.phase = p] \in Copy
    BY <2>1 DEF Copy
  <2> QED
    BY <1>1, <1>2, <2>1, <2>2 DEF Copy
<1>4. Len(flight'[r]) = Len(flight[r])
  BY <1>1, <1>3, FunctionIsSeq
<1>5. flight[r][i].phase = "mapping"
  BY DEF Pending
<1>6. \A j \in 1 .. i - 1 : Answered(flight[r][j])
  <2> TAKE j \in 1 .. i - 1
  <2>1. j \in DOMAIN flight[r] /\ j # Len(flight[r]) /\ ~(i <= j)
    BY <1>1
  <2>2. ~Pending(flight[r][j])
    BY <2>1 DEF Oldest
  <2>3. flight[r][j].phase \notin {"requested", "encoded"}
    BY <2>1 DEF FlightInOrder, Ordered
  <2>4. flight[r][j] \in Copy
    BY <1>1, <2>1
  <2> QED
    BY <2>2, <2>3, <2>4 DEF Answered, Pending, Copy
<1>7. Ordered(flight'[r])
  <2> SUFFICES ASSUME NEW k \in DOMAIN flight'[r]
               PROVE  /\ Answered(flight'[r][k]) => \A j \in 1 .. k - 1 : Answered(flight'[r][j])
                      /\ flight'[r][k].phase \in {"requested", "encoded"} => k = Len(flight'[r])
    BY DEF Ordered
  <2>1. CASE k = i
    BY <1>1, <1>3, <1>6, <2>1
  <2>2. CASE k # i
    <3>1. flight'[r][k] = flight[r][k] /\ k \in DOMAIN flight[r]
      BY <1>3, <2>2
    <3>2. /\ Answered(flight[r][k]) => \A j \in 1 .. k - 1 : Answered(flight[r][j])
          /\ flight[r][k].phase \in {"requested", "encoded"} => k = Len(flight[r])
      BY <3>1 DEF FlightInOrder, Ordered
    <3>3. \A j \in 1 .. k - 1 : Answered(flight[r][j]) => Answered(flight'[r][j])
      BY <1>1, <1>3, <3>1 DEF Answered
    <3> QED
      BY <1>4, <3>1, <3>2, <3>3
  <2> QED
    BY <2>1, <2>2
<1>8. OnTime(r)'
  BY <1>3 DEF FlightInOrder, OnTime
<1>9. ASSUME NEW q \in Readbacks PROVE Ordered(flight'[q]) /\ OnTime(q)'
  <2>1. CASE q = r
    BY <1>7, <1>8, <2>1
  <2>2. CASE q # r
    BY <1>2, <2>2 DEF FlightInOrder, OnTime
  <2> QED
    BY <2>1, <2>2
<1>10. FlightInOrder'
  BY <1>9 DEF FlightInOrder, Ordered, Answered
<1>11. ASSUME NEW q \in Readbacks
       PROVE  /\ Len(flight'[q]) = Len(flight[q])
              /\ DOMAIN flight'[q] = DOMAIN flight[q]
              /\ \A j \in DOMAIN flight[q] :
                     /\ flight'[q][j].step = flight[q][j].step
                     /\ flight'[q][j].phase = "requested" <=> flight[q][j].phase = "requested"
  <2>1. CASE q = r
    BY <1>3, <1>4, <1>5, <2>1
  <2>2. CASE q # r
    BY <1>2, <2>2
  <2> QED
    BY <2>1, <2>2
<1> QED
  BY <1>10, <1>11

\* Copies that pass from one phase to the next, each at its place.
LEMMA PassInOrder ==
    ASSUME NEW old \in Seq(Copy), NEW new \in Seq(Copy), Ordered(old),
           Len(new) = Len(old),
           \A i \in DOMAIN old :
               /\ Answered(new[i]) <=> Answered(old[i])
               /\ new[i].phase \in {"requested", "encoded"}
                  => old[i].phase \in {"requested", "encoded"}
    PROVE  Ordered(new)
<1>1. /\ Len(old) \in Nat /\ DOMAIN old = 1 .. Len(old)
      /\ DOMAIN new = 1 .. Len(old)
  BY LenProperties
<1>2. ASSUME NEW i \in DOMAIN new, Answered(new[i]) PROVE \A j \in 1 .. i - 1 : Answered(new[j])
  BY <1>1, <1>2 DEF Ordered
<1>3. ASSUME NEW i \in DOMAIN new, new[i].phase \in {"requested", "encoded"}
      PROVE  i = Len(new)
  BY <1>1, <1>3 DEF Ordered
<1> QED
  BY <1>2, <1>3 DEF Ordered

\* One more copy, asked for by a readback that still had to be visited.
LEMMA RequestInOrder ==
    ASSUME ReadbackInvariant, FlightInOrder, NEW r \in Readbacks, RequestCopy(r)
    PROVE  /\ FlightInOrder'
           /\ \A i \in DOMAIN flight[r] : flight[r][i].phase # "requested"
           /\ \E new \in Copy : new.phase = "requested" /\ flight'[r] = Append(flight[r], new)
           /\ \A q \in Readbacks \ {r} : flight'[q] = flight[q]
<1>1. PICK b \in Offered(Size[r]) :
          flight' = [flight EXCEPT ![r] =
              Append(@, [buffer |-> b, phase |-> "requested", step |-> 0])]
  BY DEF RequestCopy
<1> DEFINE n == Len(flight[r])
           new == [buffer |-> b, phase |-> "requested", step |-> 0]
<1>2. /\ render = "request" /\ r \in asking /\ r \in extracted
      /\ render' = render /\ extracted' = extracted /\ asking' = asking \ {r}
  BY DEF RequestCopy, ReadbackInvariant, ReadbackTypeOK
<1>3. flight \in [Readbacks -> Seq(Copy)] /\ flight[r] \in Seq(Copy)
      /\ n \in Nat /\ DOMAIN flight[r] = 1 .. n
  BY FlightIsSeq DEF ReadbackInvariant, ReadbackTypeOK
<1>4. /\ flight'[r] = Append(flight[r], new)
      /\ \A q \in Readbacks \ {r} : flight'[q] = flight[q]
  BY <1>1, <1>3
<1>5. new \in Copy
  <2>1. Created \in Buffers \/ Free(Size[r]) # {}
    BY DEF RequestCopy, Created
  <2>2. b \in Buffers
    BY <1>1, <2>1 DEF Offered, Free
  <2> QED
    BY <2>2, StepAssumption DEF Copy
<1>6. /\ Len(flight'[r]) = n + 1
      /\ DOMAIN flight'[r] = 1 .. n + 1
      /\ flight'[r][n + 1] = new
      /\ \A i \in 1 .. n : flight'[r][i] = flight[r][i]
  <2> HIDE DEF new
  <2> QED
    BY <1>3, <1>4, <1>5
<1>7. \A i \in 1 .. n : flight[r][i].phase \notin {"requested", "encoded"}
  BY <1>2, <1>3 DEF FlightInOrder, OnTime
<1>8. new.phase = "requested"
  OBVIOUS
<1>9. Ordered(flight'[r])
  <2> SUFFICES ASSUME NEW k \in DOMAIN flight'[r]
               PROVE  /\ Answered(flight'[r][k]) => \A j \in 1 .. k - 1 : Answered(flight'[r][j])
                      /\ flight'[r][k].phase \in {"requested", "encoded"} => k = Len(flight'[r])
    BY DEF Ordered
  <2> HIDE DEF new
  <2>1. CASE k = n + 1
    BY <1>6, <1>8, <2>1 DEF Answered
  <2>2. CASE k # n + 1
    <3>1. k \in 1 .. n /\ flight'[r][k] = flight[r][k]
      BY <1>3, <1>6, <2>2
    <3>2. Answered(flight[r][k]) => \A j \in 1 .. k - 1 : Answered(flight[r][j])
      BY <1>3, <3>1 DEF FlightInOrder, Ordered
    <3>3. \A j \in 1 .. k - 1 : flight'[r][j] = flight[r][j]
      BY <1>3, <1>6, <3>1
    <3> QED
      BY <1>7, <3>1, <3>2, <3>3
  <2> QED
    BY <2>1, <2>2
<1>10. OnTime(r)'
  <2> HIDE DEF new
  <2>1. \A i \in DOMAIN flight'[r] :
            flight'[r][i].phase \notin {"requested", "encoded"} \/ flight'[r][i] = new
    BY <1>3, <1>6, <1>7
  <2> QED
    BY <1>2, <1>8, <2>1 DEF OnTime
<1>11. ASSUME NEW q \in Readbacks \ {r} PROVE Ordered(flight'[q]) /\ OnTime(q)'
  BY <1>2, <1>4 DEF FlightInOrder, OnTime
<1>12. FlightInOrder'
  BY <1>9, <1>10, <1>11 DEF FlightInOrder, Ordered, Answered
<1>13. \E c \in Copy : c.phase = "requested" /\ flight'[r] = Append(flight[r], c)
  BY <1>4, <1>5, <1>8
<1> QED
  BY <1>3, <1>4, <1>7, <1>12, <1>13

LEMMA EncodeInOrder ==
    ASSUME ReadbackInvariant, ReadbackInvariant', FlightInOrder, EncodeCopies
    PROVE  /\ FlightInOrder'
           /\ \A r \in Readbacks :
                  /\ Len(flight'[r]) = Len(flight[r])
                  /\ DOMAIN flight'[r] = DOMAIN flight[r]
                  /\ \A i \in DOMAIN flight[r] :
                         /\ flight'[r][i].phase # "requested"
                         /\ flight'[r][i].step = IF flight[r][i].phase = "requested"
                                                 THEN source'[r] ELSE flight[r][i].step
<1>1. render = "request" /\ render' = "map"
  BY DEF EncodeCopies
<1>2. ASSUME NEW r \in Readbacks, NEW i \in DOMAIN flight[r]
      PROVE  /\ flight'[r][i].phase = IF flight[r][i].phase = "requested" THEN "encoded"
                                      ELSE flight[r][i].phase
             /\ flight'[r][i].step = IF flight[r][i].phase = "requested" THEN source'[r]
                                     ELSE flight[r][i].step
  <2>1. flight[r][i] \in Copy
    BY FlightIsSeq DEF ReadbackInvariant
  <2>2. flight'[r][i] = IF flight[r][i].phase = "requested"
                        THEN [flight[r][i] EXCEPT !.phase = "encoded", !.step = source'[r]]
                        ELSE flight[r][i]
    BY DEF EncodeCopies
  <2> QED
    BY <2>1, <2>2 DEF Copy
<1>3. ASSUME NEW r \in Readbacks
      PROVE  /\ flight[r] \in Seq(Copy) /\ flight'[r] \in Seq(Copy)
             /\ Len(flight'[r]) = Len(flight[r])
             /\ DOMAIN flight'[r] = DOMAIN flight[r]
  <2>1. flight'[r] \in Seq(Copy) /\ flight[r] \in Seq(Copy)
    BY DEF ReadbackInvariant, ReadbackTypeOK
  <2>2. DOMAIN flight'[r] = DOMAIN flight[r]
    BY DEF EncodeCopies
  <2> QED
    BY <2>1, <2>2, LenProperties
<1>4. ASSUME NEW r \in Readbacks PROVE Ordered(flight'[r])
  <2>1. Ordered(flight[r])
    BY DEF FlightInOrder
  <2>2. \A i \in DOMAIN flight[r] :
            /\ Answered(flight'[r][i]) <=> Answered(flight[r][i])
            /\ flight'[r][i].phase \in {"requested", "encoded"}
               => flight[r][i].phase \in {"requested", "encoded"}
    BY <1>2 DEF Answered
  <2> QED
    BY <1>3, <2>1, <2>2, PassInOrder
<1>5. ASSUME NEW r \in Readbacks PROVE OnTime(r)'
  BY <1>1, <1>2, <1>3 DEF OnTime
<1>6. FlightInOrder'
  BY <1>4, <1>5 DEF FlightInOrder, Ordered, Answered
<1> QED
  BY <1>2, <1>3, <1>6

LEMMA MapInOrder ==
    ASSUME ReadbackInvariant, ReadbackInvariant', FlightInOrder, MapCopies
    PROVE  /\ FlightInOrder'
           /\ \A r \in Readbacks :
                  /\ Len(flight'[r]) = Len(flight[r])
                  /\ DOMAIN flight'[r] = DOMAIN flight[r]
                  /\ \A i \in DOMAIN flight[r] :
                         /\ flight'[r][i].step = flight[r][i].step
                         /\ flight'[r][i].phase = "requested" <=> flight[r][i].phase = "requested"
<1>1. render = "map" /\ render' = "idle"
  BY DEF MapCopies
<1>2. ASSUME NEW r \in Readbacks, NEW i \in DOMAIN flight[r]
      PROVE  /\ flight'[r][i].phase = IF flight[r][i].phase = "encoded" THEN "mapping"
                                      ELSE flight[r][i].phase
             /\ flight'[r][i].step = flight[r][i].step
  <2>1. flight[r][i] \in Copy
    BY FlightIsSeq DEF ReadbackInvariant
  <2>2. flight'[r][i] = IF flight[r][i].phase = "encoded"
                        THEN [flight[r][i] EXCEPT !.phase = "mapping"]
                        ELSE flight[r][i]
    BY DEF MapCopies
  <2> QED
    BY <2>1, <2>2 DEF Copy
<1>3. ASSUME NEW r \in Readbacks
      PROVE  /\ flight[r] \in Seq(Copy) /\ flight'[r] \in Seq(Copy)
             /\ Len(flight'[r]) = Len(flight[r])
             /\ DOMAIN flight'[r] = DOMAIN flight[r]
  <2>1. flight'[r] \in Seq(Copy) /\ flight[r] \in Seq(Copy)
    BY DEF ReadbackInvariant, ReadbackTypeOK
  <2>2. DOMAIN flight'[r] = DOMAIN flight[r]
    BY DEF MapCopies
  <2> QED
    BY <2>1, <2>2, LenProperties
<1>4. ASSUME NEW r \in Readbacks PROVE Ordered(flight'[r])
  <2>1. Ordered(flight[r])
    BY DEF FlightInOrder
  <2>2. \A i \in DOMAIN flight[r] :
            /\ Answered(flight'[r][i]) <=> Answered(flight[r][i])
            /\ flight'[r][i].phase \in {"requested", "encoded"}
               => flight[r][i].phase \in {"requested", "encoded"}
    BY <1>2 DEF Answered
  <2> QED
    BY <1>3, <2>1, <2>2, PassInOrder
<1>5. ASSUME NEW r \in Readbacks PROVE OnTime(r)'
  BY <1>1, <1>2, <1>3 DEF FlightInOrder, OnTime
<1>6. FlightInOrder'
  BY <1>4, <1>5 DEF FlightInOrder, Ordered, Answered
<1>7. \A r \in Readbacks : \A i \in DOMAIN flight[r] :
          flight'[r][i].phase = "requested" <=> flight[r][i].phase = "requested"
  BY <1>2
<1> QED
  BY <1>2, <1>3, <1>6, <1>7

\* The copy delivered is the oldest.
LEMMA DeliverInOrder ==
    ASSUME ReadbackInvariant, ReadbackInvariant', FlightInOrder,
           NEW r \in Readbacks, NEW i \in DOMAIN flight[r], DeliverCopy(r, i)
    PROVE  /\ FlightInOrder'
           /\ \A j \in DOMAIN flight[r] : flight[r][j].phase # "requested"
           /\ \A q \in Readbacks \ {r} : flight'[q] = flight[q]
           /\ Len(flight[r]) \in Nat \ {0}
           /\ Len(flight'[r]) = Len(flight[r]) - 1
           /\ DOMAIN flight'[r] = 1 .. Len(flight[r]) - 1
           /\ \A j \in 1 .. Len(flight[r]) - 1 : flight'[r][j] = flight[r][j + 1]
<1> DEFINE n == Len(flight[r])
<1>1. /\ flight \in [Readbacks -> Seq(Copy)] /\ flight[r] \in Seq(Copy)
      /\ n \in Nat /\ DOMAIN flight[r] = 1 .. n
  BY FlightIsSeq DEF ReadbackInvariant, ReadbackTypeOK
<1>2. /\ render = "deliver" /\ render' = render
      /\ extracted' = extracted /\ asking' = asking
      /\ flight' = [flight EXCEPT ![r] = Without(@, i)]
      /\ NextAnswered(r, i)
  BY DEF DeliverCopy
<1>3. i = 1
  <2>1. \A j \in 1 .. i - 1 : Answered(flight[r][j])
    BY <1>2 DEF NextAnswered, FlightInOrder, Ordered
  <2>2. 1 \in 1 .. i - 1 => i <= 1
    BY <1>1, <1>2, <2>1 DEF NextAnswered
  <2> QED
    BY <1>1, <2>2
<1>4. flight'[r] = Without(flight[r], i) /\ \A q \in Readbacks \ {r} : flight'[q] = flight[q]
  BY <1>1, <1>2
<1>5. /\ Len(flight'[r]) = n - 1
      /\ DOMAIN flight'[r] = 1 .. n - 1
      /\ \A j \in 1 .. n - 1 : flight'[r][j] = IF j < i THEN flight[r][j] ELSE flight[r][j + 1]
  BY <1>1, <1>4, WithoutOne
<1>6. n \in Nat \ {0} /\ \A j \in 1 .. n - 1 : flight'[r][j] = flight[r][j + 1]
  <2>1. n \in Nat \ {0}
    BY <1>1
  <2>2. ASSUME NEW j \in 1 .. n - 1 PROVE flight'[r][j] = flight[r][j + 1]
    <3>1. ~(j < i)
      BY <1>3
    <3> QED
      BY <1>5, <3>1
  <2> QED
    BY <2>1, <2>2
<1>7. Ordered(flight'[r])
  <2> SUFFICES ASSUME NEW k \in DOMAIN flight'[r]
               PROVE  /\ Answered(flight'[r][k]) => \A j \in 1 .. k - 1 : Answered(flight'[r][j])
                      /\ flight'[r][k].phase \in {"requested", "encoded"} => k = Len(flight'[r])
    BY DEF Ordered
  <2>1. k \in 1 .. n - 1 /\ flight'[r][k] = flight[r][k + 1] /\ k + 1 \in DOMAIN flight[r]
    <3>1. k \in 1 .. n - 1
      BY <1>5
    <3>2. k + 1 \in 1 .. n
      BY <1>1, <3>1
    <3> QED
      BY <1>1, <1>6, <3>1, <3>2
  <2>2. /\ Answered(flight[r][k + 1]) => \A j \in 1 .. (k + 1) - 1 : Answered(flight[r][j])
        /\ flight[r][k + 1].phase \in {"requested", "encoded"} => k + 1 = n
    BY <2>1 DEF FlightInOrder, Ordered
  <2>3. \A j \in 1 .. k - 1 : flight'[r][j] = flight[r][j + 1] /\ j + 1 \in 1 .. (k + 1) - 1
    BY <1>1, <1>6, <2>1
  <2>4. Answered(flight'[r][k]) => \A j \in 1 .. k - 1 : Answered(flight'[r][j])
    BY <2>1, <2>2, <2>3
  <2>5. flight'[r][k].phase \in {"requested", "encoded"} => k = Len(flight'[r])
    <3>1. k + 1 = n => k = n - 1
      BY <1>1, <2>1
    <3> QED
      BY <1>5, <2>1, <2>2, <3>1
  <2> QED
    BY <2>4, <2>5
<1>8. \A j \in DOMAIN flight[r] : flight[r][j].phase \notin {"requested", "encoded"}
  BY <1>2 DEF FlightInOrder, OnTime
<1>9. OnTime(r)'
  <2>1. ASSUME NEW j \in DOMAIN flight'[r]
        PROVE  flight'[r][j].phase \notin {"requested", "encoded"}
    <3>1. j \in 1 .. n - 1
      BY <1>5
    <3>2. j + 1 \in 1 .. n
      BY <1>1, <3>1
    <3> QED
      BY <1>1, <1>6, <1>8, <3>1, <3>2
  <2> QED
    BY <2>1 DEF OnTime
<1>10. ASSUME NEW q \in Readbacks \ {r} PROVE Ordered(flight'[q]) /\ OnTime(q)'
  BY <1>2, <1>4 DEF FlightInOrder, OnTime
<1>11. FlightInOrder'
  BY <1>7, <1>9, <1>10 DEF FlightInOrder, Ordered, Answered
<1> QED
  BY <1>4, <1>5, <1>6, <1>8, <1>11

-----------------------------------------------------------------------------
(* What the main world sees of the copies.                                  *)

\* The copies on their way: all but one only just asked for.
Sent(copies) ==
    IF \E i \in DOMAIN copies : copies[i].phase = "requested" THEN Len(copies) - 1 ELSE Len(copies)

LEMMA StepsAre ==
    ASSUME NEW s \in Seq(Copy), Ordered(s)
    PROVE  /\ Sent(s) \in Nat
           /\ Sent(s) <= Len(s)
           /\ Steps(s) = [i \in 1 .. Sent(s) |-> s[i].step]
           /\ Steps(s) \in Seq(0 .. MaxStep)
           /\ Len(Steps(s)) = Sent(s)
<1> DEFINE sent == {i \in DOMAIN s : s[i].phase # "requested"}
<1>1. /\ Len(s) \in Nat /\ DOMAIN s = 1 .. Len(s)
      /\ \A i \in DOMAIN s : s[i] \in Copy
  BY LenProperties
<1>2. \A i \in DOMAIN s : s[i].phase = "requested" => i = Len(s)
  BY DEF Ordered
<1>3. Sent(s) \in Nat /\ Sent(s) <= Len(s) /\ sent = 1 .. Sent(s)
  <2>1. CASE \E i \in DOMAIN s : s[i].phase = "requested"
    <3>1. PICK i \in DOMAIN s : s[i].phase = "requested"
      BY <2>1
    <3>2. i = Len(s) /\ Len(s) \in Nat \ {0}
      BY <1>1, <1>2, <3>1
    <3>3. Sent(s) = Len(s) - 1
      BY <2>1 DEF Sent
    <3>4. \A j \in 1 .. Len(s) : s[j].phase # "requested" <=> j # Len(s)
      BY <1>1, <1>2, <3>1, <3>2
    <3>5. sent = {j \in 1 .. Len(s) : j # Len(s)}
      BY <1>1, <3>4
    <3>6. sent = 1 .. Len(s) - 1
      BY <1>1, <3>5
    <3> QED
      BY <3>2, <3>3, <3>6
  <2>2. CASE ~\E i \in DOMAIN s : s[i].phase = "requested"
    BY <1>1, <2>2 DEF Sent
  <2> QED
    BY <2>1, <2>2
<1>4. Cardinality(1 .. Sent(s)) = Sent(s)
  BY <1>3, FS_Interval
<1>5. Steps(s) = [i \in 1 .. Sent(s) |-> s[i].step]
  BY <1>3, <1>4 DEF Steps
<1>6. \A i \in 1 .. Sent(s) : s[i].step \in 0 .. MaxStep
  <2>1. \A i \in 1 .. Sent(s) : i \in DOMAIN s
    BY <1>1, <1>3
  <2> QED
    BY <1>1, <2>1 DEF Copy
<1>7. Steps(s) \in [1 .. Sent(s) -> 0 .. MaxStep]
  BY <1>5, <1>6
<1> QED
  BY <1>3, <1>5, <1>7, FunctionIsSeq

\* Copies that changed in no way the main world sees.
LEMMA SameSteps ==
    ASSUME NEW s \in Seq(Copy), NEW t \in Seq(Copy), Ordered(s), Ordered(t),
           Len(t) = Len(s), DOMAIN t = DOMAIN s,
           \A i \in DOMAIN s :
               /\ t[i].step = s[i].step
               /\ t[i].phase = "requested" <=> s[i].phase = "requested"
    PROVE  Steps(t) = Steps(s)
<1>1. Sent(t) = Sent(s)
  BY DEF Sent
<1>2. \A i \in 1 .. Sent(s) : i \in DOMAIN s
  <2>1. DOMAIN s = 1 .. Len(s) /\ Len(s) \in Nat
    BY LenProperties
  <2> QED
    BY <2>1, StepsAre
<1>3. /\ Steps(t) = [i \in 1 .. Sent(t) |-> t[i].step]
      /\ Steps(s) = [i \in 1 .. Sent(s) |-> s[i].step]
  BY StepsAre
<1> QED
  BY <1>1, <1>2, <1>3

\* A copy only just asked for is not on its way.
LEMMA StepsOfRequested ==
    ASSUME NEW s \in Seq(Copy), Ordered(s), NEW c \in Copy, c.phase = "requested",
           \A i \in DOMAIN s : s[i].phase # "requested", Ordered(Append(s, c))
    PROVE  Steps(Append(s, c)) = Steps(s)
<1> DEFINE t == Append(s, c)
<1>1. /\ t \in Seq(Copy) /\ Len(t) = Len(s) + 1 /\ DOMAIN t = 1 .. Len(s) + 1
      /\ t[Len(s) + 1] = c
      /\ \A i \in 1 .. Len(s) : t[i] = s[i]
      /\ Len(s) \in Nat /\ DOMAIN s = 1 .. Len(s)
  BY AppendProperties, LenProperties
<1> HIDE DEF t
<1>2. Sent(t) = Len(s)
  <2>1. Len(s) + 1 \in DOMAIN t /\ t[Len(s) + 1].phase = "requested"
    BY <1>1
  <2>2. Sent(t) = Len(t) - 1
    BY <2>1 DEF Sent
  <2> QED
    BY <1>1, <2>2
<1>3. Sent(s) = Len(s)
  BY DEF Sent
<1>4. Ordered(t)
  BY DEF t
<1>5. /\ Steps(t) = [i \in 1 .. Len(s) |-> t[i].step]
      /\ Steps(s) = [i \in 1 .. Len(s) |-> s[i].step]
  BY <1>1, <1>2, <1>3, <1>4, StepsAre
<1>6. Steps(t) = Steps(s)
  BY <1>1, <1>5
<1> QED
  BY <1>6 DEF t

\* Two sequences of one length, equal at each place.
LEMMA SameSequence ==
    ASSUME NEW S, NEW a \in Seq(S), NEW b \in Seq(S), NEW n \in Nat,
           Len(a) = n, Len(b) = n, \A j \in 1 .. n : a[j] = b[j]
    PROVE  a = b
BY SeqEqual

\* The last copy is encoded: it is on its way, with what its source holds now.
LEMMA StepsOfEncoded ==
    ASSUME NEW s \in Seq(Copy), NEW t \in Seq(Copy), Ordered(s), Ordered(t),
           NEW step \in 0 .. MaxStep,
           Len(t) = Len(s), DOMAIN t = DOMAIN s,
           \A i \in DOMAIN s :
               /\ t[i].phase # "requested"
               /\ t[i].step = IF s[i].phase = "requested" THEN step ELSE s[i].step
    PROVE  IF \E i \in DOMAIN s : s[i].phase = "requested"
           THEN Steps(t) = Append(Steps(s), step) /\ Len(Steps(s)) < Len(s)
           ELSE Steps(t) = Steps(s)
<1>1. Len(s) \in Nat /\ DOMAIN s = 1 .. Len(s)
  BY LenProperties
<1>2. Sent(t) = Len(s)
  BY DEF Sent
<1>3. /\ Steps(t) = [i \in 1 .. Len(s) |-> t[i].step]
      /\ Steps(t) \in Seq(0 .. MaxStep)
      /\ Len(Steps(t)) = Len(s)
  BY <1>2, StepsAre
<1>4. CASE \A i \in DOMAIN s : s[i].phase # "requested"
  <2>1. Sent(s) = Len(s)
    BY <1>4 DEF Sent
  <2>2. Steps(s) = [i \in 1 .. Len(s) |-> s[i].step]
    BY <2>1, StepsAre
  <2>3. \A i \in 1 .. Len(s) : t[i].step = s[i].step
    BY <1>1, <1>4
  <2>4. Steps(t) = Steps(s)
    BY <1>3, <2>2, <2>3
  <2> QED
    BY <1>4, <2>4
<1>5. CASE \E i \in DOMAIN s : s[i].phase = "requested"
  <2>1. PICK i \in DOMAIN s : s[i].phase = "requested"
    BY <1>5
  <2>2. i = Len(s) /\ \A j \in DOMAIN s : j # Len(s) => s[j].phase # "requested"
    BY <2>1 DEF Ordered
  <2>3. PICK n \in Nat : Len(s) = n + 1
    <3>1. Len(s) - 1 \in Nat /\ Len(s) = (Len(s) - 1) + 1
      BY <1>1, <2>1, <2>2
    <3> QED
      BY <3>1
  <2>4. Sent(s) = n
    <3>1. Sent(s) = Len(s) - 1
      BY <1>5 DEF Sent
    <3> QED
      BY <2>3, <3>1
  <2>5. /\ Steps(s) = [j \in 1 .. n |-> s[j].step]
        /\ Steps(s) \in Seq(0 .. MaxStep) /\ Len(Steps(s)) = n
    BY <2>4, StepsAre
  <2> DEFINE u == Append(Steps(s), step)
  <2>6. /\ u \in Seq(0 .. MaxStep)
        /\ Len(u) = n + 1
        /\ u[n + 1] = step
        /\ \A j \in 1 .. n : u[j] = Steps(s)[j]
    <3> DEFINE v == Steps(s)
    <3>1. v \in Seq(0 .. MaxStep) /\ Len(v) = n
      BY <2>5
    <3> HIDE DEF v
    <3>2. /\ Append(v, step) \in Seq(0 .. MaxStep)
          /\ Len(Append(v, step)) = n + 1
          /\ Append(v, step)[n + 1] = step
          /\ \A j \in 1 .. n : Append(v, step)[j] = v[j]
      BY <3>1, AppendProperties
    <3> QED
      BY <3>2 DEF v
  <2> HIDE DEF u
  <2>7. ASSUME NEW j \in 1 .. n + 1 PROVE Steps(t)[j] = u[j]
    <3>1. j \in 1 .. Len(s) /\ Steps(t)[j] = t[j].step
      BY <1>3, <2>3
    <3>2. CASE j = n + 1
      <4>1. t[j].step = step
        BY <1>1, <2>1, <2>2, <2>3, <3>1, <3>2
      <4> QED
        BY <2>6, <3>1, <3>2, <4>1
    <3>3. CASE j # n + 1
      <4>1. j \in 1 .. n
        BY <3>3
      <4>2. t[j].step = s[j].step
        BY <1>1, <2>2, <2>3, <3>1, <3>3
      <4> QED
        BY <2>5, <2>6, <3>1, <4>1, <4>2
    <3> QED
      BY <3>2, <3>3
  <2>8. Len(Steps(t)) = n + 1 /\ n + 1 \in Nat
    BY <1>3, <2>3
  <2>9. Steps(t) = u
    BY <1>3, <2>6, <2>7, <2>8, SameSequence
  <2>10. Len(Steps(s)) < Len(s)
    BY <2>3, <2>5
  <2> QED
    BY <1>5, <2>9, <2>10 DEF u
<1> QED
  BY <1>4, <1>5

\* The oldest copy is delivered: it is no longer on its way.
LEMMA StepsOfDelivered ==
    ASSUME NEW s \in Seq(Copy), NEW t \in Seq(Copy), Ordered(s), Ordered(t),
           \A j \in DOMAIN s : s[j].phase # "requested",
           Len(s) \in Nat \ {0},
           Len(t) = Len(s) - 1, DOMAIN t = 1 .. Len(s) - 1,
           \A j \in 1 .. Len(s) - 1 : t[j] = s[j + 1]
    PROVE  Steps(s) # <<>> /\ Steps(t) = Tail(Steps(s))
<1>1. PICK n \in Nat : Len(s) = n + 1
  <2>1. Len(s) - 1 \in Nat /\ Len(s) = (Len(s) - 1) + 1
    OBVIOUS
  <2> QED
    BY <2>1
<1>2. /\ DOMAIN s = 1 .. n + 1
      /\ Len(t) = n
      /\ DOMAIN t = 1 .. n
      /\ \A j \in 1 .. n : t[j] = s[j + 1] /\ j + 1 \in 1 .. n + 1
  BY <1>1, LenProperties
<1>3. Sent(s) = n + 1
  BY <1>1 DEF Sent
<1>4. Sent(t) = n
  <2>1. \A j \in DOMAIN t : t[j].phase # "requested"
    BY <1>2
  <2> QED
    BY <1>2, <2>1 DEF Sent
<1>5. /\ Steps(s) = [j \in 1 .. n + 1 |-> s[j].step]
      /\ Steps(s) \in Seq(0 .. MaxStep) /\ Len(Steps(s)) = n + 1
  BY <1>3, StepsAre
<1>6. /\ Steps(t) = [j \in 1 .. n |-> t[j].step]
      /\ Steps(t) \in Seq(0 .. MaxStep) /\ Len(Steps(t)) = n
  BY <1>4, StepsAre
<1>7. Steps(s) # <<>>
  <2>1. Len(<<>>) = 0
    BY EmptySeq
  <2>2. n + 1 # 0
    OBVIOUS
  <2> QED
    BY <1>5, <2>1, <2>2
<1>8. /\ Tail(Steps(s)) \in Seq(0 .. MaxStep)
      /\ Len(Tail(Steps(s))) = n
      /\ \A j \in 1 .. n : Tail(Steps(s))[j] = Steps(s)[j + 1]
  <2> DEFINE v == Steps(s)
  <2>1. v \in Seq(0 .. MaxStep) /\ Len(v) = n + 1 /\ v # <<>>
    BY <1>5, <1>7
  <2> HIDE DEF v
  <2>2. /\ Tail(v) \in Seq(0 .. MaxStep)
        /\ Len(Tail(v)) = n
        /\ \A j \in 1 .. n : Tail(v)[j] = v[j + 1]
    BY <2>1, HeadTailProperties
  <2> QED
    BY <2>2 DEF v
<1>9. \A j \in 1 .. n : Steps(t)[j] = Tail(Steps(s))[j]
  BY <1>2, <1>5, <1>6, <1>8
<1>10. Steps(t) = Tail(Steps(s))
  <2> DEFINE v == Steps(t)
             w == Tail(Steps(s))
  <2>1. v \in Seq(0 .. MaxStep) /\ Len(v) = n
    BY <1>6
  <2>2. w \in Seq(0 .. MaxStep) /\ Len(w) = n
    BY <1>8
  <2>3. \A j \in 1 .. n : v[j] = w[j]
    BY <1>9
  <2> HIDE DEF v, w
  <2>4. v = w
    BY <2>1, <2>2, <2>3, SameSequence
  <2> QED
    BY <2>4 DEF v, w
<1> QED
  BY <1>7, <1>10

-----------------------------------------------------------------------------
(* Each step is a step of the stream, or none.                              *)

\* A step that changes nothing the main world sees.
LEMMA StreamRests ==
    ASSUME UNCHANGED <<spawned, extracted, source, lost>>,
           \/ render' = render
           \/ render = "map" /\ render' = "idle",
           \A r \in Readbacks : Steps(flight'[r]) = Steps(flight[r])
    PROVE  UNCHANGED Stream!copyVars
<1>1. [r \in Readbacks |-> Steps(flight[r])]' = [r \in Readbacks |-> Steps(flight'[r])]
  BY DEF Steps
<1>2. [r \in Readbacks |-> Steps(flight'[r])] = [r \in Readbacks |-> Steps(flight[r])]
  OBVIOUS
<1>3. CASE render' = render
  BY <1>1, <1>2, <1>3 DEF Stream!copyVars
<1>4. CASE render = "map" /\ render' = "idle"
  BY <1>1, <1>2, <1>4 DEF Stream!copyVars
<1> QED
  BY <1>3, <1>4

\* Copies that change in no way the main world sees.
LEMMA CopiesRest ==
    ASSUME ReadbackInvariant, ReadbackInvariant', FlightInOrder, FlightInOrder',
           NEW r \in Readbacks,
           Len(flight'[r]) = Len(flight[r]), DOMAIN flight'[r] = DOMAIN flight[r],
           \A i \in DOMAIN flight[r] :
               /\ flight'[r][i].step = flight[r][i].step
               /\ flight'[r][i].phase = "requested" <=> flight[r][i].phase = "requested"
    PROVE  Steps(flight'[r]) = Steps(flight[r])
<1>1. flight[r] \in Seq(Copy) /\ flight'[r] \in Seq(Copy)
  BY DEF ReadbackInvariant, ReadbackTypeOK
<1>2. Ordered(flight[r]) /\ Ordered(flight'[r])
  BY DEF FlightInOrder, Ordered, Answered
<1> QED
  BY <1>1, <1>2, SameSteps

LEMMA RequestRests ==
    ASSUME ReadbackInvariant, ReadbackInvariant', FlightInOrder,
           NEW r \in Readbacks, RequestCopy(r)
    PROVE  UNCHANGED Stream!copyVars
<1>1. /\ FlightInOrder'
      /\ \A i \in DOMAIN flight[r] : flight[r][i].phase # "requested"
      /\ \E new \in Copy : new.phase = "requested" /\ flight'[r] = Append(flight[r], new)
      /\ \A q \in Readbacks \ {r} : flight'[q] = flight[q]
  BY RequestInOrder
<1>2. PICK new \in Copy : new.phase = "requested" /\ flight'[r] = Append(flight[r], new)
  BY <1>1
<1>3. flight[r] \in Seq(Copy)
  BY DEF ReadbackInvariant, ReadbackTypeOK
<1>4. Ordered(flight[r]) /\ Ordered(flight'[r])
  BY <1>1 DEF FlightInOrder, Ordered, Answered
<1>5. Steps(flight'[r]) = Steps(flight[r])
  BY <1>1, <1>2, <1>3, <1>4, StepsOfRequested
<1>6. \A q \in Readbacks : Steps(flight'[q]) = Steps(flight[q])
  BY <1>1, <1>5
<1>7. UNCHANGED <<spawned, extracted, source, lost>> /\ render' = render
  BY DEF RequestCopy
<1> QED
  BY <1>6, <1>7, StreamRests

LEMMA EncodeSubmits ==
    ASSUME ReadbackInvariant, ReadbackInvariant', FlightInOrder, EncodeCopies
    PROVE  Stream!Submit
<1>1. /\ FlightInOrder'
      /\ \A r \in Readbacks :
             /\ Len(flight'[r]) = Len(flight[r])
             /\ DOMAIN flight'[r] = DOMAIN flight[r]
             /\ \A i \in DOMAIN flight[r] :
                    /\ flight'[r][i].phase # "requested"
                    /\ flight'[r][i].step = IF flight[r][i].phase = "requested"
                                            THEN source'[r] ELSE flight[r][i].step
  BY EncodeInOrder
<1> DEFINE copied == {r \in Readbacks : \E i \in DOMAIN flight[r] : flight[r][i].phase = "requested"}
           transit == [r \in Readbacks |-> Steps(flight[r])]
           after == [r \in Readbacks |-> Steps(flight'[r])]
<1>2. ASSUME NEW r \in Readbacks
      PROVE  IF r \in copied
             THEN Steps(flight'[r]) = Append(Steps(flight[r]), source'[r])
                  /\ Len(Steps(flight[r])) < Len(flight[r])
             ELSE Steps(flight'[r]) = Steps(flight[r])
  <2>1. flight[r] \in Seq(Copy) /\ flight'[r] \in Seq(Copy) /\ source'[r] \in 0 .. MaxStep
    BY DEF ReadbackInvariant, ReadbackTypeOK
  <2>2. Ordered(flight[r]) /\ Ordered(flight'[r])
    BY <1>1 DEF FlightInOrder, Ordered, Answered
  <2> DEFINE s == flight[r]
             t == flight'[r]
             step == source'[r]
  <2>3. Len(t) = Len(s) /\ DOMAIN t = DOMAIN s
        /\ \A i \in DOMAIN s :
               /\ t[i].phase # "requested"
               /\ t[i].step = IF s[i].phase = "requested" THEN step ELSE s[i].step
    BY <1>1
  <2>4. r \in copied <=> \E i \in DOMAIN s : s[i].phase = "requested"
    OBVIOUS
  <2> HIDE DEF s, t, step, copied
  <2>5. IF r \in copied
        THEN Steps(t) = Append(Steps(s), step) /\ Len(Steps(s)) < Len(s)
        ELSE Steps(t) = Steps(s)
    BY <2>1, <2>2, <2>3, <2>4, StepsOfEncoded DEF s, t, step
  <2> QED
    BY <2>5 DEF s, t, step
<1>3. copied \subseteq {r \in extracted : Len(transit[r]) < Depth}
  <2> SUFFICES ASSUME NEW r \in copied PROVE r \in extracted /\ Len(transit[r]) < Depth
    OBVIOUS
  <2>1. r \in Readbacks /\ r \in extracted
    BY DEF FlightInOrder, OnTime
  <2>2. Len(Steps(flight[r])) < Len(flight[r])
    BY <1>2
  <2>3. Len(flight[r]) <= Depth /\ flight[r] \in Seq(Copy) /\ Ordered(flight[r])
    BY <2>1 DEF ReadbackInvariant, ReadbackTypeOK, SlotsAreCopies, FlightInOrder
  <2>4. Len(flight[r]) \in Nat /\ Len(Steps(flight[r])) \in Nat
    BY <2>3, StepsAre, LenProperties
  <2>5. Len(Steps(flight[r])) < Depth
    BY <2>2, <2>3, <2>4, DepthAssumption
  <2> QED
    BY <2>1, <2>5
<1>4. after = [r \in Readbacks |->
          IF r \in copied THEN Append(transit[r], source'[r]) ELSE transit[r]]
  <2>1. \A r \in Readbacks : Steps(flight'[r])
            = IF r \in copied THEN Append(Steps(flight[r]), source'[r]) ELSE Steps(flight[r])
    BY <1>2
  <2> HIDE DEF copied
  <2> QED
    BY <2>1
<1>5. [r \in Readbacks |-> Steps(flight[r])]' = after
  BY DEF Steps
<1>6. \E stepped \in SUBSET {r \in extracted : source[r] < MaxStep} :
          source' = [r \in Readbacks |-> IF r \in stepped THEN source[r] + 1 ELSE source[r]]
  <2>1. prepared \subseteq extracted
    BY DEF ReadbackInvariant, ReadbackTypeOK
  <2> QED
    BY <2>1 DEF EncodeCopies
<1>7. render = "request" /\ render' = "map" /\ UNCHANGED <<spawned, extracted, lost>>
  BY DEF EncodeCopies
<1> HIDE DEF copied, after
<1>8. \E set \in SUBSET {r \in extracted : Len(transit[r]) < Depth} :
          [r \in Readbacks |-> Steps(flight[r])]' = [r \in Readbacks |->
              IF r \in set THEN Append(transit[r], source'[r]) ELSE transit[r]]
  BY <1>3, <1>4, <1>5
<1> QED
  BY <1>6, <1>7, <1>8 DEF Stream!Submit

LEMMA DeliveryDelivers ==
    ASSUME ReadbackInvariant, ReadbackInvariant', FlightInOrder,
           NEW r \in Readbacks, NEW i \in DOMAIN flight[r], DeliverCopy(r, i)
    PROVE  Stream!Deliver(r)
<1>1. /\ FlightInOrder'
      /\ \A j \in DOMAIN flight[r] : flight[r][j].phase # "requested"
      /\ \A q \in Readbacks \ {r} : flight'[q] = flight[q]
      /\ Len(flight[r]) \in Nat \ {0}
      /\ Len(flight'[r]) = Len(flight[r]) - 1
      /\ DOMAIN flight'[r] = 1 .. Len(flight[r]) - 1
      /\ \A j \in 1 .. Len(flight[r]) - 1 : flight'[r][j] = flight[r][j + 1]
  BY DeliverInOrder
<1>2. Steps(flight[r]) # <<>> /\ Steps(flight'[r]) = Tail(Steps(flight[r]))
  <2>1. flight[r] \in Seq(Copy) /\ flight'[r] \in Seq(Copy)
    BY DEF ReadbackInvariant, ReadbackTypeOK
  <2>2. Ordered(flight[r]) /\ Ordered(flight'[r])
    BY <1>1 DEF FlightInOrder, Ordered, Answered
  <2> DEFINE s == flight[r]
             t == flight'[r]
  <2>3. /\ s \in Seq(Copy) /\ t \in Seq(Copy) /\ Ordered(s) /\ Ordered(t)
        /\ \A j \in DOMAIN s : s[j].phase # "requested"
        /\ Len(s) \in Nat \ {0}
        /\ Len(t) = Len(s) - 1 /\ DOMAIN t = 1 .. Len(s) - 1
        /\ \A j \in 1 .. Len(s) - 1 : t[j] = s[j + 1]
    BY <1>1, <2>1, <2>2
  <2> HIDE DEF s, t
  <2>4. Steps(s) # <<>> /\ Steps(t) = Tail(Steps(s))
    BY <2>3, StepsOfDelivered
  <2> QED
    BY <2>4 DEF s, t
<1> DEFINE transit == [q \in Readbacks |-> Steps(flight[q])]
<1>3. [q \in Readbacks |-> Steps(flight[q])]' = [q \in Readbacks |-> Steps(flight'[q])]
  BY DEF Steps
<1>4. [q \in Readbacks |-> Steps(flight'[q])] = [transit EXCEPT ![r] = Tail(@)]
  BY <1>1, <1>2
<1>5. render = "deliver" /\ UNCHANGED <<spawned, extracted, source, render, lost>>
  BY DEF DeliverCopy
<1>6. transit[r] # <<>>
  BY <1>2
<1> QED
  BY <1>3, <1>4, <1>5, <1>6 DEF Stream!Deliver

\* Steps of the main world, of the frame and of the device that leave the
\* copies alone.
LEMMA OthersAre ==
    ASSUME ReadbackInvariant, FlightInOrder, UNCHANGED flight
    PROVE  /\ BeginExtraction => Stream!Begin
           /\ FinishExtraction => Stream!Finish
           /\ Lose => Stream!Lose
           /\ \A r \in Readbacks : Despawn(r) => Stream!Despawn(r)
           /\ \A r \in Readbacks : \A step \in 0 .. MaxStep :
                  Spawn(r, step) => Stream!Spawn(r, step)
<1>1. [r \in Readbacks |-> Steps(flight[r])]' = [r \in Readbacks |-> Steps(flight[r])]
  BY DEF Steps
<1>2. BeginExtraction => Stream!Begin
  BY <1>1 DEF BeginExtraction, Stream!Begin
<1>3. FinishExtraction => Stream!Finish
  BY <1>1 DEF FinishExtraction, Stream!Finish
<1>4. Lose => Stream!Lose
  BY <1>1 DEF Lose, Stream!Lose
<1>5. ASSUME NEW r \in Readbacks, Despawn(r) PROVE Stream!Despawn(r)
  BY <1>1, <1>5 DEF Despawn, MainRuns, renderVars, Stream!Despawn
<1>6. ASSUME NEW r \in Readbacks, NEW step \in 0 .. MaxStep, Spawn(r, step)
      PROVE  Stream!Spawn(r, step)
  <2>1. flight[r] = <<>>
    BY <1>6 DEF Spawn, Fresh
  <2>2. flight[r] \in Seq(Copy) /\ Ordered(flight[r])
    BY DEF ReadbackInvariant, ReadbackTypeOK, FlightInOrder
  <2>3. Steps(flight[r]) \in Seq(0 .. MaxStep) /\ Len(Steps(flight[r])) <= Len(flight[r])
        /\ Len(Steps(flight[r])) \in Nat
    BY <2>2, StepsAre
  <2>4. Len(Steps(flight[r])) = 0
    <3>1. Len(flight[r]) = 0
      BY <2>1, EmptySeq
    <3> QED
      BY <2>3, <3>1
  <2>5. Steps(flight[r]) = <<>>
    <3>1. \A seq \in Seq(0 .. MaxStep) : seq # <<>> => Len(seq) \in Nat \ {0}
      BY EmptySeq
    <3> QED
      BY <2>3, <2>4, <3>1
  <2> QED
    BY <1>1, <1>6, <2>5 DEF Spawn, Fresh, MainRuns, renderVars, Stream!Spawn, Stream!Fresh
<1> QED
  BY <1>2, <1>3, <1>4, <1>5, <1>6

LEMMA StreamStarts == ReadbackInit => Stream!CopyInit /\ FlightInOrder
<1> SUFFICES ASSUME ReadbackInit PROVE Stream!CopyInit /\ FlightInOrder
  OBVIOUS
<1>1. \A r \in Readbacks : flight[r] = <<>>
  BY DEF ReadbackInit
<1>2. FlightInOrder
  BY <1>1 DEF FlightInOrder, Ordered, OnTime
<1>3. ASSUME NEW r \in Readbacks PROVE Steps(flight[r]) = <<>>
  <2>1. DOMAIN flight[r] = {}
    BY <1>1
  <2>2. Cardinality({}) = 0
    BY FS_EmptySet
  <2>3. {i \in DOMAIN flight[r] : flight[r][i].phase # "requested"} = {}
    BY <2>1
  <2>4. Steps(flight[r]) = [i \in 1 .. 0 |-> flight[r][i].step]
    BY <2>2, <2>3 DEF Steps
  <2>5. [i \in 1 .. 0 |-> flight[r][i].step] = <<>>
    OBVIOUS
  <2> QED
    BY <2>4, <2>5
<1>4. Stream!CopyInit
  BY <1>3 DEF ReadbackInit, Stream!CopyInit
<1> QED
  BY <1>2, <1>4

LEMMA StreamNext ==
    ASSUME ReadbackInvariant, ReadbackInvariant', FlightInOrder, [Next]_readbackVars
    PROVE  FlightInOrder' /\ [Stream!CopyNext]_(Stream!copyVars)
<1>1. ASSUME NEW r \in Readbacks, RequestCopy(r)
      PROVE  FlightInOrder' /\ UNCHANGED Stream!copyVars
  BY <1>1, RequestInOrder, RequestRests
<1>2. ASSUME NEW r \in Readbacks, PassOver(r) \/ Prepare(r)
      PROVE  FlightInOrder' /\ UNCHANGED Stream!copyVars
  <2>1. /\ UNCHANGED <<spawned, extracted, source, lost, render, flight>>
        /\ asking' \subseteq asking
    BY <1>2 DEF PassOver, Prepare
  <2>2. FlightInOrder'
    BY <2>1, SameFlightInOrder
  <2>3. \A q \in Readbacks : Steps(flight'[q]) = Steps(flight[q])
    BY <2>1
  <2>4. UNCHANGED Stream!copyVars
    BY <2>1, <2>3, StreamRests
  <2> QED
    BY <2>2, <2>4
<1>3. CASE EncodeCopies
  BY <1>3, EncodeInOrder, EncodeSubmits DEF Stream!CopyNext
<1>4. ASSUME MapCopies
      PROVE  FlightInOrder' /\ UNCHANGED Stream!copyVars
  <2>1. /\ FlightInOrder'
        /\ \A r \in Readbacks :
               /\ Len(flight'[r]) = Len(flight[r])
               /\ DOMAIN flight'[r] = DOMAIN flight[r]
               /\ \A i \in DOMAIN flight[r] :
                      /\ flight'[r][i].step = flight[r][i].step
                      /\ flight'[r][i].phase = "requested" <=> flight[r][i].phase = "requested"
    BY <1>4, MapInOrder
  <2>2. \A r \in Readbacks : Steps(flight'[r]) = Steps(flight[r])
    BY <2>1, CopiesRest
  <2> QED
    BY <1>4, <2>1, <2>2, StreamRests DEF MapCopies
<1>5. CASE BeginExtraction
  <2>1. UNCHANGED flight /\ render = "idle"
    BY <1>5 DEF BeginExtraction
  <2> QED
    BY <1>5, <2>1, SameFlightInOrder, OthersAre DEF Stream!CopyNext
<1>6. ASSUME NEW r \in Readbacks, NEW i \in DOMAIN flight[r], DeliverCopy(r, i)
      PROVE  FlightInOrder' /\ Stream!CopyNext
  BY <1>6, DeliverInOrder, DeliveryDelivers DEF Stream!CopyNext
<1>7. CASE FinishExtraction
  <2>1. UNCHANGED flight /\ render = "deliver"
    BY <1>7 DEF FinishExtraction
  <2> QED
    BY <1>7, <2>1, SameFlightInOrder, OthersAre DEF Stream!CopyNext
<1>8. ASSUME NEW r \in Readbacks, Despawn(r) PROVE FlightInOrder' /\ Stream!CopyNext
  <2>1. UNCHANGED <<flight, render, extracted, asking>>
    BY <1>8 DEF Despawn, renderVars
  <2> QED
    BY <1>8, <2>1, SameFlightInOrder, OthersAre DEF Stream!CopyNext
<1>9. ASSUME NEW r \in Readbacks, MapAnswered(r)
      PROVE  FlightInOrder' /\ UNCHANGED Stream!copyVars
  <2>1. PICK i \in DOMAIN flight[r] : MapDone(r, i) \/ MapFailed(r, i)
    BY <1>9 DEF MapAnswered
  <2>2. PICK p \in {"mapped", "failed"} : flight' = [flight EXCEPT ![r][i].phase = p]
    BY <2>1 DEF MapDone, MapFailed
  <2>3. /\ Pending(flight[r][i]) /\ Oldest(r, i)
        /\ UNCHANGED <<spawned, extracted, source, render, asking, lost>>
    BY <2>1 DEF MapDone, MapFailed
  <2>4. /\ FlightInOrder'
        /\ \A q \in Readbacks :
               /\ Len(flight'[q]) = Len(flight[q])
               /\ DOMAIN flight'[q] = DOMAIN flight[q]
               /\ \A j \in DOMAIN flight[q] :
                      /\ flight'[q][j].step = flight[q][j].step
                      /\ flight'[q][j].phase = "requested" <=> flight[q][j].phase = "requested"
    BY <2>2, <2>3, AnswerInOrder
  <2>5. \A q \in Readbacks : Steps(flight'[q]) = Steps(flight[q])
    BY <2>4, CopiesRest
  <2>6. UNCHANGED Stream!copyVars
    BY <2>3, <2>5, StreamRests
  <2> QED
    BY <2>4, <2>6
<1>10. ASSUME NEW r \in Readbacks, NEW step \in 0 .. MaxStep, Spawn(r, step)
       PROVE  FlightInOrder' /\ Stream!CopyNext
  <2>1. UNCHANGED <<flight, render, extracted, asking>>
    BY <1>10 DEF Spawn, renderVars
  <2> QED
    BY <1>10, <2>1, SameFlightInOrder, OthersAre DEF Stream!CopyNext
<1>11. CASE Lose
  <2>1. UNCHANGED <<flight, render, extracted, asking>>
    BY <1>11 DEF Lose
  <2> QED
    BY <1>11, <2>1, SameFlightInOrder, OthersAre DEF Stream!CopyNext
<1>12. ASSUME UNCHANGED readbackVars PROVE FlightInOrder' /\ UNCHANGED Stream!copyVars
  <2>1. UNCHANGED <<spawned, extracted, source, lost, render, flight, asking>>
    BY <1>12 DEF readbackVars, renderVars
  <2>2. FlightInOrder'
    BY <2>1, SameFlightInOrder
  <2>3. \A q \in Readbacks : Steps(flight'[q]) = Steps(flight[q])
    BY <2>1
  <2>4. UNCHANGED Stream!copyVars
    BY <2>1, <2>3, StreamRests
  <2> QED
    BY <2>2, <2>4
<1> QED
  BY <1>1, <1>2, <1>3, <1>4, <1>5, <1>6, <1>7, <1>8, <1>9, <1>10, <1>11, <1>12
     DEF Next, Frame

\* The pipeline is the stream of copies the main world is promised, for any
\* readbacks, depth and pool: they arrive at extractions, oldest first, each
\* with what its source held when its frame was submitted, and no more of them
\* on their way than the depth (paced_readback.rs:20-26, 248-372).
THEOREM CopiesArriveInOrder == Spec => KeepsThePromise
<1>1. ReadbackInit => Stream!CopyInit /\ FlightInOrder
  BY StreamStarts
<1>2. /\ ReadbackInvariant /\ ReadbackInvariant'
      /\ FlightInOrder /\ [Next]_readbackVars
      => FlightInOrder' /\ [Stream!CopyNext]_(Stream!copyVars)
  BY StreamNext
<1> QED
  BY <1>1, <1>2, ReadbacksAgree, PTL DEF Spec, KeepsThePromise, Stream!CopySpec
=============================================================================
