----------------------------- MODULE PictureStream -----------------------------
(***************************************************************************)
(* The painted field, from the device to the painter: the state readback   *)
(* of each generation (paced_readback.rs), the display its copies are      *)
(* decoded into and the generation the host asks for (canonical_gpu.rs),   *)
(* the short queue copies are played out from (picture_playout.rs), and    *)
(* what the frame paints (ui.rs).                                          *)
(*                                                                         *)
(* A readback is a generation's, and its entity is spawned and despawned   *)
(* with it.  Fields are left out of the copies: a copy is the generation   *)
(* and the step it was taken at.                                           *)
(***************************************************************************)
EXTENDS CopyStream

CONSTANTS
    Limit,          \* LIMIT: copies the queue holds
    LoneWait,       \* LONE_WAIT: frames a lone copy waits for a second
    SurplusFrames,  \* SURPLUS_FRAMES: frames of a standing reserve
    None            \* no copy, no snapshot

ASSUME PlayoutAssumption == Limit \in Nat \ {0} /\ LoneWait \in Nat /\ SurplusFrames \in Nat \ {0}
ASSUME GenerationsAssumption ==
    Cardinality(Readbacks) \in Nat /\ Readbacks = 1 .. Cardinality(Readbacks)

VARIABLES
    generation, \* the host's request: the generation it asked for last
    snapshot,   \* the diagnostic snapshot of it: asked for, known to the render
                \* world, taken of a step, and its map answered
    display,    \* the generation decoded, its last step, its clock, its picture
    painted,    \* what the last frame painted
    main        \* whether the main world's frame is still to run

hostButDisplay == <<generation, snapshot, painted, main>>

hostVars == <<generation, snapshot, display, painted, main>>

vars == <<copyVars, hostVars>>

Picture(g, s) == [generation |-> g, step |-> s]

Pictures == [generation : Readbacks, step : 0 .. MaxStep]

ASSUME NoneAssumption ==
    /\ MaxStep \in Nat
    /\ None \notin Pictures \cup 0 .. MaxStep

Queues == UNION {[1 .. n -> Pictures] : n \in 0 .. Limit}

Playout == [queue : Queues, shown : Pictures \cup {None},
            lone : 0 .. LoneWait, surplus : 0 .. SurplusFrames - 1]

EmptyPlayout == [queue |-> <<>>, shown |-> None, lone |-> 0, surplus |-> 0]

Generations == {0} \cup Readbacks

Steps == (0 .. MaxStep) \cup {None}

Snapshots == [phase : {"none", "asked", "known", "taken", "answered"}, step : 0 .. MaxStep]

NoSnapshot == [phase |-> "none", step |-> 0]

Display == [generation : Generations, decoded : Steps, clock : Steps, picture : Playout]

EmptyDisplay(g) ==
    [generation |-> g, decoded |-> None, clock |-> None, picture |-> EmptyPlayout]

TypeOK ==
    /\ CopyTypeOK
    /\ generation \in Generations
    /\ snapshot \in Snapshots
    /\ display \in Display
    /\ painted \in Pictures \cup {None}
    /\ main \in BOOLEAN

Init ==
    /\ CopyInit
    /\ generation = 0
    /\ snapshot = NoSnapshot
    /\ display = EmptyDisplay(0)
    /\ painted = None
    /\ main = FALSE

-----------------------------------------------------------------------------
(* The playout.                                                             *)

\* The newest copies within the limit.
Newest(queue) ==
    IF Len(queue) > Limit THEN SubSeq(queue, Len(queue) - Limit + 1, Len(queue)) ELSE queue

Push(p, copy) == [p EXCEPT !.queue = Newest(Append(@, copy))]

\* Mutant: a lone copy waits for as long as it is alone.
ShownFromTwo(p) ==
    IF Len(p.queue) < 2 THEN p
    ELSE [p EXCEPT !.shown = Head(p.queue), !.queue = Tail(@), !.lone = 0]

\* The next copy is shown; a lone one only after it waited.
Shown(p) ==
    IF p.queue = <<>> THEN [p EXCEPT !.lone = 0]
    ELSE IF Len(p.queue) = 1 /\ p.lone < LoneWait THEN [p EXCEPT !.lone = @ + 1]
    ELSE [p EXCEPT !.shown = Head(p.queue), !.queue = Tail(@), !.lone = 0]

\* A reserve of two or more that lasts is trimmed by one.
Trimmed(p) ==
    IF Len(p.queue) < 2 THEN [p EXCEPT !.surplus = 0]
    ELSE IF p.surplus + 1 < SurplusFrames THEN [p EXCEPT !.surplus = @ + 1]
    ELSE [p EXCEPT !.queue = Tail(@), !.surplus = 0]

Release(p) == Trimmed(Shown(p))

-----------------------------------------------------------------------------
(* The display.                                                             *)

\* Mutant: the copies of the generation before stay queued.
BeginGenerationQueued(d, g) == [d EXCEPT !.generation = g]

BeginGeneration(d, g) ==
    IF d.generation = g THEN d
    ELSE EmptyDisplay(g)

Decoded(d, g, step) == [BeginGeneration(d, g) EXCEPT !.decoded = step]

\* A copy of the continuous readback is decoded and queued for the painter.
\* The control readback's of the same step, the clock, is delivered beside it.
LiveCopy(d, g, step) ==
    [Decoded(d, g, step) EXCEPT !.clock = step, !.picture = Push(@, Picture(g, step))]

\* Mutant: a snapshot is queued like any copy.
SnapshotQueued(d, g, step) ==
    [Decoded(d, g, step) EXCEPT !.picture = Push(@, Picture(g, step))]

\* A diagnostic snapshot is decoded only.
SnapshotCopy(d, g, step) == Decoded(d, g, step)

\* Mutant: whichever readback's copy it is.
ReceivesAny(g) == TRUE

\* The copy of an entity despawned since, or of a generation that is no longer
\* asked for, is no one's.
Receives(g) == g \in spawned /\ g = generation

Receive(g) ==
    /\ Deliver(g)
    /\ display' = IF Receives(g) THEN LiveCopy(display, g, Head(transit[g])) ELSE display
    /\ UNCHANGED hostButDisplay

Loses(g) == Drop(g) /\ UNCHANGED hostVars

-----------------------------------------------------------------------------
(* A frame of the main world: it settles what the device answered, releases *)
(* the next copy, runs the runtime, and paints.                             *)

\* What a frame paints: the copy played out, and the latest one until the
\* first is.  The display of a generation not asked for any more, or with no
\* copy decoded, leaves what was painted before.
Painted(d, g) ==
    IF d.generation # g \/ d.decoded = None THEN painted
    ELSE IF d.picture.shown # None THEN d.picture.shown
    ELSE Picture(d.generation, d.decoded)

Releases(d) == [d EXCEPT !.picture = Release(@)]

\* A frame asks for a snapshot, if none is on its way, every so often.
AskedFor(s, g, alive) ==
    IF s = NoSnapshot /\ g \in alive THEN {NoSnapshot, [NoSnapshot EXCEPT !.phase = "asked"]}
    ELSE {s}

\* The frame ends with the host at generation g, the display at d and no
\* snapshot but s on its way.  It runs beside the render world's, up to the
\* extraction that waits for both.
Paints(g, d, s) ==
    /\ main
    /\ phase # "extracting"
    /\ main' = FALSE
    /\ generation' = g
    /\ display' = d
    /\ snapshot' \in AskedFor(s, g, spawned')
    /\ painted' = Painted(d, g)

\* A frame in which the runtime leaves the generation alone.
PlainFrame ==
    /\ UNCHANGED copyVars
    /\ Paints(generation, Releases(display), snapshot)

\* The snapshot's copy has arrived, and the clock has reached its step: the
\* display's clock, which is an earlier generation's until a copy of this one.
SnapshotFrame ==
    /\ snapshot.phase = "answered"
    /\ display.clock # None
    /\ snapshot.step <= display.clock
    /\ UNCHANGED copyVars
    /\ Paints(generation, Releases(SnapshotCopy(display, generation, snapshot.step)), NoSnapshot)

\* Its map failed.
SnapshotFailedFrame ==
    /\ lost
    /\ snapshot.phase = "answered"
    /\ UNCHANGED copyVars
    /\ Paints(generation, Releases(display), NoSnapshot)

Replaced(g, step) ==
    /\ Fresh(g)
    /\ spawned' = (spawned \ {generation}) \cup {g}
    /\ source' = [source EXCEPT ![g] = step]
    /\ UNCHANGED <<known, transit, phase, lost>>

\* A handoff the device admitted is settled ahead of the release: the target
\* continues from the source's step, and its receipt is the first state
\* decoded of it.
HandoffFrame ==
    /\ generation \in spawned
    /\ generation + 1 \in Readbacks
    /\ LET step == source[generation] IN
       /\ Replaced(generation + 1, step)
       /\ Paints(generation + 1, Releases(Decoded(display, generation + 1, step)), NoSnapshot)

\* An install, and the clear it begins with, come after the release.
InstallFrame ==
    /\ generation + 1 \in Readbacks
    /\ Replaced(generation + 1, 0)
    /\ Paints(generation + 1, Releases(display), NoSnapshot)

\* A scene replaced with nothing prepared yet.
ClearFrame ==
    /\ generation \in spawned
    /\ Despawn(generation)
    /\ Paints(generation, Releases(display), NoSnapshot)

MainFrame ==
    \/ PlainFrame
    \/ SnapshotFrame
    \/ SnapshotFailedFrame
    \/ HandoffFrame
    \/ InstallFrame
    \/ ClearFrame

-----------------------------------------------------------------------------
(* The extraction, once a frame of each world, and the device.              *)

BeginExtraction == ~main /\ Begin /\ UNCHANGED hostVars

\* A request made is known to the next frame, and one taken is answered, with
\* success or not, in some frame after the one it was taken in.
Carried(s) ==
    CASE s.phase = "asked" -> [s EXCEPT !.phase = "known"]
      [] s.phase = "taken" -> [s EXCEPT !.phase = "answered"]
      [] OTHER -> s

FinishExtraction ==
    /\ Finish
    /\ main' = TRUE
    /\ snapshot' = Carried(snapshot)
    /\ UNCHANGED <<generation, display, painted>>

\* The snapshot is copied after the frame's work too, unless the buffer of the
\* one before is still being mapped.
SubmitFrame ==
    /\ Submit
    /\ snapshot' \in {snapshot} \cup
           (IF snapshot.phase = "known" /\ generation \in known
            THEN {[phase |-> "taken", step |-> source'[generation]]}
            ELSE {})
    /\ UNCHANGED <<generation, display, painted, main>>

Device == SubmitFrame \/ (Lose /\ UNCHANGED hostVars)

Next ==
    \/ MainFrame
    \/ \E g \in Readbacks : Receive(g) \/ Loses(g)
    \/ BeginExtraction
    \/ FinishExtraction
    \/ Device

Spec == Init /\ [][Next]_vars

\* Frames keep being drawn, and each ends in an extraction.
Fairness ==
    /\ WF_vars(MainFrame)
    /\ WF_vars(SubmitFrame)
    /\ WF_vars(BeginExtraction)
    /\ WF_vars(FinishExtraction)

FairSpec == Spec /\ Fairness

-----------------------------------------------------------------------------
(* Properties.                                                              *)

\* Whatever the queue holds or shows is of the generation the display decodes,
\* and in the order of its steps (canonical_gpu.rs:6413-6504).
PictureIsOfOneRun ==
    LET p == display.picture
        copies == IF p.shown = None THEN p.queue ELSE <<p.shown>> \o p.queue
    IN \A i \in DOMAIN copies :
           /\ copies[i].generation = display.generation
           /\ i > 1 => copies[i - 1].step <= copies[i].step

IsNewer(picture, old) ==
    \/ picture.generation > old.generation
    \/ picture.generation = old.generation /\ picture.step > old.step

\* Once a copy of a generation was played out, nothing older is painted: not an
\* older copy, not a snapshot, not a copy of a generation before
\* (canonical_gpu.rs:6402-6475, ui.rs:2448-2474).
PlayedOutNeverGoesBack ==
    [][painted # None /\ display.picture.shown # None /\ painted' # painted
            => IsNewer(painted', painted)]_vars

\* No field painted is followed by an older one: "the picture went back to an
\* older step" (canonical_gpu.rs:9464), which a snapshot is kept from by the wait
\* for the clock: "it is never newer than the live copies already queued"
\* (canonical_gpu.rs:6407).  It does not hold: see the README.
PaintedNeverGoesBack ==
    [][painted # None /\ painted' # painted => IsNewer(painted', painted)]_vars

\* The last copy of a stream is painted, though none follows it
\* (picture_playout.rs:24-27).
LastCopyIsShown ==
    \A g \in Readbacks :
        LET last == Picture(g, MaxStep)
            queue == display.picture.queue
        IN queue # <<>> /\ queue[Len(queue)] = last
               ~> display.generation # g \/ display.picture.shown = last

-----------------------------------------------------------------------------
(* The invariant.                                                           *)

\* The copies a playout shows or will.
Holds(p) ==
    {p.queue[i] : i \in DOMAIN p.queue} \cup (IF p.shown = None THEN {} ELSE {p.shown})

\* They are in the order of their steps.
InOrder(p) ==
    /\ \A i, j \in DOMAIN p.queue : i <= j => p.queue[i].step <= p.queue[j].step
    /\ p.shown # None => \A i \in DOMAIN p.queue : p.shown.step <= p.queue[i].step

\* They are of the generation g.
OfRun(p, g) == \A x \in Holds(p) : x.generation = g

\* What the display plays is of the generation it decodes, in order.
DisplayInOrder ==
    /\ InOrder(display.picture)
    /\ OfRun(display.picture, display.generation)
    /\ Holds(display.picture) # {} => display.decoded # None
    /\ display.decoded # None => display.generation # 0

\* Copies on their way are in order, and none is ahead of its source.
CopiesInOrder ==
    \A r \in Readbacks :
        /\ \A i, j \in DOMAIN transit[r] : i <= j => transit[r][i] <= transit[r][j]
        /\ \A i \in DOMAIN transit[r] : transit[r][i] <= source[r]

\* No step x is past the source of r or a copy of it on its way.
Precedes(x, r) ==
    /\ x <= source[r]
    /\ \A i \in DOMAIN transit[r] : x <= transit[r][i]

\* The copies on their way to the display follow the ones it plays.
CopiesAreLater ==
    generation # 0 /\ display.generation = generation =>
        \A x \in Holds(display.picture) : Precedes(x.step, generation)

\* What was painted is of no generation after the display's, and is what it
\* plays.
PaintedIsShown ==
    /\ display.generation <= generation
    /\ painted # None => painted.generation <= display.generation
    /\ display.picture.shown # None /\ display.generation = generation =>
           painted = display.picture.shown

\* A snapshot is of a generation.
SnapshotIsAsked == snapshot.phase # "none" => generation # 0

\* What the display plays, the copies that follow it and what was painted agree
\* in every state (canonical_gpu.rs:6402-6504, ui.rs:2448-2474): it is what keeps
\* a picture from going back, and is proved to hold.
PictureInvariant ==
    /\ TypeOK
    /\ DisplayInOrder
    /\ CopiesInOrder
    /\ CopiesAreLater
    /\ PaintedIsShown
    /\ SnapshotIsAsked

=============================================================================
