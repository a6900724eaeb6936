----------------------------- MODULE PacedReadback -----------------------------
(***************************************************************************)
(* The application's GPU readbacks:                                        *)
(* crates/funfern-app/src/paced_readback.rs.                               *)
(*                                                                         *)
(* A readback is an entity of the main world that names a buffer on the    *)
(* device.  Each frame of the render world claims one of its slots and a   *)
(* staging buffer for another copy, encodes the copy after the frame's     *)
(* work, asks for the map once the frame is submitted, and at an           *)
(* extraction delivers what has been mapped since.  The main world spawns  *)
(* and despawns readbacks beside it and is seen at the next extraction.    *)
(* The maps are answered by the device, between extractions.               *)
(***************************************************************************)
EXTENDS Naturals, Sequences, FiniteSets

CONSTANTS
    Readbacks,   \* the readbacks spawned, by entity
    Size,        \* the bytes each one reads
    Buffers,     \* staging buffers
    Depth,       \* IN_FLIGHT_DEPTH: copies of one readback in flight at once
    UnusedKept,  \* UNUSED_FRAMES_KEPT: frames a free staging buffer is kept
    MaxStep      \* bound: the steps a source takes

ASSUME FiniteAssumption == IsFiniteSet(Readbacks)
ASSUME DepthAssumption == Depth \in Nat \ {0}
ASSUME UnusedAssumption == UnusedKept \in Nat \ {0}
ASSUME SizeAssumption == Size \in [Readbacks -> Nat \ {0}]
ASSUME StepAssumption == MaxStep \in Nat

VARIABLES
    spawned,   \* the readbacks of the main world
    extracted, \* the readbacks the render world knows of
    prepared,  \* those whose source is a buffer on the device already
    source,    \* what each readback's source holds: the step it was written at
    inFlight,  \* each readback's count, shared by the two worlds
    flight,    \* its copies requested or mapped, oldest first
    staging,   \* the pool of staging buffers
    render,    \* where the render world is in its frame
    asking,    \* the readbacks request_copies has still to visit
    lost       \* the device is lost

renderVars == <<extracted, prepared, inFlight, flight, staging, render, asking, lost>>

readbackVars == <<spawned, source, renderVars>>

\* A copy under way.  Once encoded it holds what its source held then.
Copy == [buffer : Buffers,
         phase : {"requested", "encoded", "mapping", "mapped", "failed"},
         step : 0 .. MaxStep]

\* Of no size: not in the pool.  The map is the device's state of the buffer.
StagingBuffer == [size : Nat, taken : BOOLEAN, unused : Nat,
                  map : {"idle", "pending", "failed"}]

NoBuffer == [size |-> 0, taken |-> FALSE, unused |-> 0, map |-> "idle"]

ReadbackTypeOK ==
    /\ spawned \subseteq Readbacks
    /\ extracted \subseteq Readbacks
    /\ prepared \subseteq extracted
    /\ source \in [Readbacks -> 0 .. MaxStep]
    /\ inFlight \in [Readbacks -> Nat]
    /\ flight \in [Readbacks -> Seq(Copy)]
    /\ staging \in [Buffers -> StagingBuffer]
    /\ render \in {"request", "map", "idle", "deliver"}
    /\ asking \subseteq extracted
    /\ lost \in BOOLEAN

ReadbackInit ==
    /\ spawned = {}
    /\ extracted = {}
    /\ prepared = {}
    /\ source = [r \in Readbacks |-> 0]
    /\ inFlight = [r \in Readbacks |-> 0]
    /\ flight = [r \in Readbacks |-> <<>>]
    /\ staging = [b \in Buffers |-> NoBuffer]
    /\ render = "idle"
    /\ asking = {}
    /\ lost = FALSE

-----------------------------------------------------------------------------
(* The main world.                                                          *)

\* An entity nothing is left of: a new one.
Fresh(r) == r \notin spawned \cup extracted /\ flight[r] = <<>> /\ inFlight[r] = 0

\* The main world runs beside the render world, except at an extraction.
MainRuns == render # "deliver"

\* A readback is spawned on a buffer that holds what it is made with.
Spawn(r, step) ==
    /\ MainRuns
    /\ Fresh(r)
    /\ spawned' = spawned \cup {r}
    /\ source' = [source EXCEPT ![r] = step]
    /\ UNCHANGED renderVars

Despawn(r) ==
    /\ MainRuns
    /\ r \in spawned
    /\ spawned' = spawned \ {r}
    /\ UNCHANGED <<source, renderVars>>

-----------------------------------------------------------------------------
(* The device.                                                              *)

Pending(c) == c.phase = "mapping"

\* Maps of one buffer's copies are answered in the order of their submissions.
Oldest(r, i) == \A j \in DOMAIN flight[r] : Pending(flight[r][j]) => i <= j

\* The bytes are taken out and the buffer unmapped in the callback.
MapDone(r, i) ==
    /\ render # "deliver"
    /\ i \in DOMAIN flight[r]
    /\ Pending(flight[r][i])
    /\ Oldest(r, i)
    /\ flight' = [flight EXCEPT ![r][i].phase = "mapped"]
    /\ staging' = [staging EXCEPT ![flight[r][i].buffer].map = "idle"]
    /\ UNCHANGED <<spawned, extracted, prepared, source, inFlight, render, asking, lost>>

MapFailed(r, i) ==
    /\ lost
    /\ render # "deliver"
    /\ i \in DOMAIN flight[r]
    /\ Pending(flight[r][i])
    /\ Oldest(r, i)
    /\ flight' = [flight EXCEPT ![r][i].phase = "failed"]
    /\ staging' = [staging EXCEPT ![flight[r][i].buffer].map = "failed"]
    /\ UNCHANGED <<spawned, extracted, prepared, source, inFlight, render, asking, lost>>

Lose ==
    /\ ~lost
    /\ lost' = TRUE
    /\ UNCHANGED <<spawned, extracted, prepared, source, inFlight, flight, staging, render, asking>>

-----------------------------------------------------------------------------
(* A frame of the render world.                                             *)

\* Assets are prepared ahead of the requests, in this frame or a later one.
Prepare(r) ==
    /\ render = "request"
    /\ r \in asking \ prepared
    /\ prepared' = prepared \cup {r}
    /\ UNCHANGED <<spawned, extracted, source, inFlight, flight, staging, render, asking, lost>>

MaySubmit(r) == inFlight[r] < Depth

Free(size) == {b \in Buffers : staging[b].size = size /\ ~staging[b].taken}

Created == CHOOSE b \in Buffers : staging[b].size = 0

\* A free buffer of the size if there is one, else a new one.
Offered(size) == IF Free(size) # {} THEN Free(size) ELSE {Created}

Taken(size) == [size |-> size, taken |-> TRUE, unused |-> 0, map |-> "idle"]

\* One round of request_copies, for a readback it can claim a slot of.
RequestCopy(r) ==
    /\ render = "request"
    /\ r \in asking \cap prepared
    /\ MaySubmit(r)
    /\ Free(Size[r]) # {} \/ \E b \in Buffers : staging[b].size = 0
    /\ \E b \in Offered(Size[r]) :
           /\ staging' = [staging EXCEPT
                  ![b] = IF @.size = 0 THEN Taken(Size[r])
                         ELSE [@ EXCEPT !.taken = TRUE, !.unused = 0]]
           /\ flight' = [flight EXCEPT ![r] =
                  Append(@, [buffer |-> b, phase |-> "requested", step |-> 0])]
    /\ inFlight' = [inFlight EXCEPT ![r] = @ + 1]
    /\ asking' = asking \ {r}
    /\ UNCHANGED <<spawned, extracted, prepared, source, render, lost>>

\* One with no source yet, or as many copies in flight as its depth.
PassOver(r) ==
    /\ render = "request"
    /\ r \in asking
    /\ r \in prepared => ~MaySubmit(r)
    /\ asking' = asking \ {r}
    /\ UNCHANGED <<spawned, extracted, prepared, source, inFlight, flight, staging, render, lost>>

\* The frame's work is done and its copies follow it in the same submission.
EncodeCopies ==
    /\ render = "request"
    /\ asking = {}
    /\ \E stepped \in SUBSET {r \in prepared : source[r] < MaxStep} :
           source' = [r \in Readbacks |-> IF r \in stepped THEN source[r] + 1 ELSE source[r]]
    /\ flight' = [r \in Readbacks |-> [i \in DOMAIN flight[r] |->
           IF flight[r][i].phase = "requested"
           THEN [flight[r][i] EXCEPT !.phase = "encoded", !.step = source'[r]]
           ELSE flight[r][i]]]
    /\ render' = "map"
    /\ UNCHANGED <<spawned, extracted, prepared, inFlight, staging, asking, lost>>

Encoded(b) ==
    \E r \in Readbacks : \E i \in DOMAIN flight[r] :
        flight[r][i].buffer = b /\ flight[r][i].phase = "encoded"

MapCopies ==
    /\ render = "map"
    /\ flight' = [r \in Readbacks |-> [i \in DOMAIN flight[r] |->
           IF flight[r][i].phase = "encoded"
           THEN [flight[r][i] EXCEPT !.phase = "mapping"]
           ELSE flight[r][i]]]
    /\ staging' = [b \in Buffers |->
           IF Encoded(b) THEN [staging[b] EXCEPT !.map = "pending"] ELSE staging[b]]
    /\ render' = "idle"
    /\ UNCHANGED <<spawned, extracted, prepared, source, inFlight, asking, lost>>

-----------------------------------------------------------------------------
(* The extraction.                                                          *)

BeginExtraction ==
    /\ render = "idle"
    /\ render' = "deliver"
    /\ UNCHANGED <<spawned, extracted, prepared, source, inFlight, flight, staging, asking, lost>>

Answered(c) == c.phase \in {"mapped", "failed"}

\* Mutant: the newest is visited first.
NextAnsweredNewest(r, i) ==
    /\ i \in DOMAIN flight[r]
    /\ Answered(flight[r][i])
    /\ \A j \in DOMAIN flight[r] : Answered(flight[r][j]) => i >= j

\* The copies are visited in the order they were requested.
NextAnswered(r, i) ==
    /\ i \in DOMAIN flight[r]
    /\ Answered(flight[r][i])
    /\ \A j \in DOMAIN flight[r] : Answered(flight[r][j]) => i <= j

Without(copies, i) ==
    [j \in 1 .. Len(copies) - 1 |-> IF j < i THEN copies[j] ELSE copies[j + 1]]

\* Mutant: a delivery frees no slot.
CompletedNever(count) == count

\* Never below none in flight.
Completed(count) == IF count = 0 THEN 0 ELSE count - 1

\* Mutant: a buffer whose map failed goes back to the pool too.
ReturnedFailed(c) == [staging[c.buffer] EXCEPT !.taken = FALSE]

\* Mutant: a delivered buffer is never given back.
ReturnedNever(c) == IF c.phase = "failed" THEN NoBuffer ELSE staging[c.buffer]

\* A buffer whose map failed is dropped, any other goes back to the pool.
Returned(c) ==
    IF c.phase = "failed" THEN NoBuffer ELSE [staging[c.buffer] EXCEPT !.taken = FALSE]

\* One round of deliver_copies, for a copy whose map was answered.
DeliverCopy(r, i) ==
    /\ render = "deliver"
    /\ NextAnswered(r, i)
    /\ staging' = [staging EXCEPT ![flight[r][i].buffer] = Returned(flight[r][i])]
    /\ flight' = [flight EXCEPT ![r] = Without(@, i)]
    /\ inFlight' = [inFlight EXCEPT ![r] = Completed(@)]
    /\ UNCHANGED <<spawned, extracted, prepared, source, render, asking, lost>>

\* Mutant: the frames it was free for are not counted.
AgedUncounted(b) ==
    IF staging[b].size = 0 \/ staging[b].taken \/ staging[b].unused + 1 < UnusedKept
    THEN staging[b]
    ELSE NoBuffer

\* A free buffer grows older, and is destroyed once it was free for too long.
Aged(b) ==
    IF staging[b].size = 0 \/ staging[b].taken THEN staging[b]
    ELSE IF staging[b].unused + 1 < UnusedKept
         THEN [staging[b] EXCEPT !.unused = @ + 1]
         ELSE NoBuffer

\* The rest of deliver_copies, and of the extraction: what the main world
\* spawned and despawned is known to the frame that begins.
FinishExtraction ==
    /\ render = "deliver"
    /\ \A r \in Readbacks : \A i \in DOMAIN flight[r] : ~Answered(flight[r][i])
    /\ staging' = [b \in Buffers |-> Aged(b)]
    /\ extracted' = spawned
    /\ prepared' = prepared \cap spawned
    /\ asking' = spawned
    /\ render' = "request"
    /\ UNCHANGED <<spawned, source, inFlight, flight, lost>>

-----------------------------------------------------------------------------

Frame ==
    \/ \E r \in Readbacks : RequestCopy(r) \/ PassOver(r)
    \/ EncodeCopies
    \/ MapCopies
    \/ BeginExtraction
    \/ \E r \in Readbacks : \E i \in DOMAIN flight[r] : DeliverCopy(r, i)
    \/ FinishExtraction

MapAnswered(r) == \E i \in DOMAIN flight[r] : MapDone(r, i) \/ MapFailed(r, i)

Next ==
    \/ Frame
    \/ \E r \in Readbacks : Despawn(r) \/ Prepare(r) \/ MapAnswered(r)
    \/ \E r \in Readbacks : \E step \in 0 .. MaxStep : Spawn(r, step)
    \/ Lose

Spec == ReadbackInit /\ [][Next]_readbackVars

\* Frames keep being drawn, and a source is prepared and a map answered after
\* finitely many of them: each is asked about once a frame, hence strong.
Fairness ==
    /\ WF_readbackVars(Frame)
    /\ \A r \in Readbacks :
           /\ SF_readbackVars(Prepare(r))
           /\ SF_readbackVars(MapAnswered(r))

FairSpec == Spec /\ Fairness

-----------------------------------------------------------------------------
(* Safety.                                                                  *)

\* The count the two worlds share is the copies in flight, and within the
\* depth: no slot is lost to a failed map or a despawned readback, and none is
\* freed twice (paced_readback.rs:110-130, 349-372).
SlotsAreCopies ==
    \A r \in Readbacks : inFlight[r] = Len(flight[r]) /\ inFlight[r] <= Depth

\* A copy's staging buffer is in the pool, taken, of the copy's size, and no
\* other copy's; and a buffer is taken only for a copy.  So nothing in flight
\* is destroyed, and none leaks (paced_readback.rs:174-246).
StagingIsACopys ==
    /\ \A r \in Readbacks : \A i \in DOMAIN flight[r] :
           LET b == flight[r][i].buffer IN
           /\ staging[b].taken
           /\ staging[b].size = Size[r]
           /\ \A q \in Readbacks : \A j \in DOMAIN flight[q] :
                  flight[q][j].buffer = b => q = r /\ j = i
    /\ \A b \in Buffers : staging[b].taken =>
           \E r \in Readbacks : \E i \in DOMAIN flight[r] : flight[r][i].buffer = b

\* A copy is encoded into, and a map asked of, a buffer with no map pending and
\* none that failed: wgpu would assert (paced_readback.rs:202-210).
MapsAreSound ==
    /\ \A b \in Buffers : ~staging[b].taken => staging[b].map = "idle"
    /\ \A r \in Readbacks : \A i \in DOMAIN flight[r] :
           LET c == flight[r][i] IN
           staging[c.buffer].map =
               CASE c.phase = "mapping" -> "pending"
                 [] c.phase = "failed" -> "failed"
                 [] OTHER -> "idle"

ReadbackInvariant ==
    /\ ReadbackTypeOK
    /\ SlotsAreCopies
    /\ StagingIsACopys
    /\ MapsAreSound

\* The pool of a size never outgrows the copies its readbacks may have in
\* flight, however often they are replaced (paced_readback.rs:180-200).
PoolIsBounded ==
    \A size \in {Size[r] : r \in Readbacks} :
        Cardinality({b \in Buffers : staging[b].size = size})
            <= Depth * Cardinality({r \in Readbacks : Size[r] = size})

-----------------------------------------------------------------------------
(* The promise to the main world.                                           *)

\* A copy is on its way once it was encoded, the last one of a readback.
Steps(copies) ==
    LET sent == {i \in DOMAIN copies : copies[i].phase # "requested"}
    IN [i \in 1 .. Cardinality(sent) |-> copies[i].step]

Stream == INSTANCE CopyStream WITH
    known <- extracted,
    transit <- [r \in Readbacks |-> Steps(flight[r])],
    phase <- CASE render = "request" -> "begun"
               [] render = "deliver" -> "extracting"
               [] OTHER -> "submitted"

\* To the main world the pipeline is a stream of copies that arrive at
\* extractions, in the order their sources were written, no more of them on
\* their way than the depth (paced_readback.rs:20-26).
KeepsThePromise == Stream!CopySpec

-----------------------------------------------------------------------------
(* Liveness.                                                                *)

Delivers(r) ==
    \E i \in DOMAIN flight[r] : flight[r][i].phase = "mapped" /\ DeliverCopy(r, i)

\* A readback that stays spawned on a device that answers keeps delivering,
\* whatever came and went before (paced_readback.rs:68-71).
KeepsDelivering ==
    \A r \in Readbacks :
        <>[](r \in spawned /\ ~lost) => []<><<Delivers(r)>>_readbackVars

\* A staging buffer no copy takes leaves the pool: those of sizes no longer
\* read do not stay (GPU-13; paced_readback.rs:222-245).
UnusedIsRetired ==
    \A b \in Buffers :
        staging[b].size # 0 /\ ~staging[b].taken ~> staging[b].taken \/ staging[b].size = 0

=============================================================================
