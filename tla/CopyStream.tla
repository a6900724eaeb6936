------------------------------- MODULE CopyStream -------------------------------
(***************************************************************************)
(* What the readbacks promise the main world, with the render world's      *)
(* frames, slots and staging buffers left out: copies of each source       *)
(* arrive at extractions, in the order they were taken, no more of them on *)
(* their way than the depth; and a device that is lost drops some.         *)
(***************************************************************************)
EXTENDS Naturals, Sequences, FiniteSets

CONSTANTS
    Readbacks, \* the readbacks spawned, by entity
    Depth,     \* copies of one readback on their way at once
    MaxStep    \* bound: the steps a source takes

VARIABLES
    spawned,    \* the readbacks of the main world
    known,      \* those of the last extraction, which copies are taken for
    source,     \* the step each readback's source was written at
    transit,    \* the copies on their way, oldest first: the steps they hold
    phase,      \* of a frame: "begun", "submitted", or "extracting" for the next
    lost        \* the device is lost

copyVars == <<spawned, known, source, transit, phase, lost>>

CopyTypeOK ==
    /\ spawned \subseteq Readbacks
    /\ known \subseteq Readbacks
    /\ source \in [Readbacks -> 0 .. MaxStep]
    /\ transit \in [Readbacks -> Seq(0 .. MaxStep)]
    /\ phase \in {"begun", "submitted", "extracting"}
    /\ lost \in BOOLEAN

CopyInit ==
    /\ spawned = {}
    /\ known = {}
    /\ source = [r \in Readbacks |-> 0]
    /\ transit = [r \in Readbacks |-> <<>>]
    /\ phase = "submitted"
    /\ lost = FALSE

\* An entity nothing is left of: a new one.
Fresh(r) == r \notin spawned \cup known /\ transit[r] = <<>>

Spawn(r, step) ==
    /\ phase # "extracting"
    /\ Fresh(r)
    /\ spawned' = spawned \cup {r}
    /\ source' = [source EXCEPT ![r] = step]
    /\ UNCHANGED <<known, transit, phase, lost>>

Despawn(r) ==
    /\ phase # "extracting"
    /\ r \in spawned
    /\ spawned' = spawned \ {r}
    /\ UNCHANGED <<known, source, transit, phase, lost>>

\* A frame's work, and the copies that follow it.
Submit ==
    /\ phase = "begun"
    /\ \E stepped \in SUBSET {r \in known : source[r] < MaxStep} :
           source' = [r \in Readbacks |-> IF r \in stepped THEN source[r] + 1 ELSE source[r]]
    /\ \E copied \in SUBSET {r \in known : Len(transit[r]) < Depth} :
           transit' = [r \in Readbacks |->
               IF r \in copied THEN Append(transit[r], source'[r]) ELSE transit[r]]
    /\ phase' = "submitted"
    /\ UNCHANGED <<spawned, known, lost>>

Lose ==
    /\ ~lost
    /\ lost' = TRUE
    /\ UNCHANGED <<spawned, known, source, transit, phase>>

Begin ==
    /\ phase = "submitted"
    /\ phase' = "extracting"
    /\ UNCHANGED <<spawned, known, source, transit, lost>>

\* The oldest copy arrives.
Deliver(r) ==
    /\ phase = "extracting"
    /\ transit[r] # <<>>
    /\ transit' = [transit EXCEPT ![r] = Tail(@)]
    /\ UNCHANGED <<spawned, known, source, phase, lost>>

\* It never will.
Drop(r) == lost /\ Deliver(r)

Finish ==
    /\ phase = "extracting"
    /\ phase' = "begun"
    /\ known' = spawned
    /\ UNCHANGED <<spawned, source, transit, lost>>

CopyNext ==
    \/ \E r \in Readbacks : \E step \in 0 .. MaxStep : Spawn(r, step)
    \/ \E r \in Readbacks : Despawn(r) \/ Deliver(r)
    \/ Submit
    \/ Lose
    \/ Begin
    \/ Finish

CopySpec == CopyInit /\ [][CopyNext]_copyVars
=============================================================================
