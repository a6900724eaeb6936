------------------------- MODULE GenerationProtocol -------------------------
(***************************************************************************)
(* The generation protocol of crates/funfern-protocol/src/lib.rs.  A       *)
(* candidate topology is requested for the document as it stands,          *)
(* prepared, packed, uploaded by an install or a handoff, and published    *)
(* once the device runs it, while the user edits, remeshes, resets,        *)
(* replaces the scene, fires pulses and throws Switches, and the device    *)
(* answers in an order of its own.                                         *)
(*                                                                         *)
(* A host frame runs the blocks of refresh_runtime in their order and is   *)
(* one step.  Each block is an operator on the whole state, of the states  *)
(* it may leave, and the action Frame chains them.                         *)
(***************************************************************************)
EXTENDS Integers, Decisions

CONSTANTS
  Inputs,          \* What a preparation can read, named by content.
  Edges,           \* The mesh edges, named by value.
  Tokens,          \* TOKENS: the most requests one run names.
  Generations,     \* The values of the generation counter, which wraps.
  MaxPulses,       \* Where the count of waiting pulses saturates.
  MaxSwitches,     \* Where the count of waiting presses saturates.
  MaxRevision,     \* Bound: no edit once the revision has reached it.
  MaxGeneration    \* Bound: no Reset once the generation has reached it.

Token == 0..(Tokens - 1)
Generation == 0..(Generations - 1)
Pulses == 0..MaxPulses
Switches == 0..MaxSwitches

\* A request carries what it was made at: the arrays requests and
\* fresh_tokens, read at its token.
Candidate == [token : Token, revision : Nat, inputs : Inputs, fresh : BOOLEAN]

Event == [kind : {"Pulse", "Switch"}, candidate : {None}]
           \cup [kind : {"Patch"}, candidate : Candidate]

Running == [candidate : Candidate, step : Token,
            ready : BOOLEAN, failed : BOOLEAN, caught_up : BOOLEAN]

Upload == [candidate : Candidate, generation : Generation]

ASSUME BoundsAssumption ==
  /\ Tokens \in Nat \ {0}
  /\ Generations \in Nat /\ Generations > 2
  /\ MaxPulses \in Nat
  /\ MaxSwitches \in Nat
  /\ MaxRevision \in Nat
  /\ MaxGeneration \in Nat

ASSUME NoneAssumption ==
  /\ None \notin Nat \cup Inputs \cup Edges
  /\ None \notin Candidate \cup Event \cup Running \cup Upload
  /\ None \notin {"Taken", "Refused"}

VARIABLES
  editor,      \* The document: its revision, what it reads and whether valid.
  host,        \* What the runtime keeps.
  device       \* The running generation and what it is asked.

vars == <<editor, host, device>>

State == [editor |-> editor, host |-> host, device |-> device]

Become(s) == /\ editor' = s.editor
             /\ host' = s.host
             /\ device' = s.device

Option(S) == S \cup {None}

Editor == [revision : Nat, inputs : Inputs, acceptance : Acceptances,
           validates : BOOLEAN, edge : Edges]

Host == [next : 0..Tokens,
         requested : Option(Token),
         requested_revision : Option(Nat),
         requested_inputs : Option(Inputs),
         requested_edge : Option(Edges),
         preparing : Option(Candidate),
         ready : Option(Candidate),
         packed : Option(Candidate),
         uploading : Option(Upload),
         source_commit : Option(Candidate),
         active : Option(Candidate),
         last_error : Option(Candidate),
         uploaded : Option(Token),
         retimed : Option(Token),
         reset : BOOLEAN, remesh : BOOLEAN, drop : BOOLEAN, fresh : BOOLEAN,
         pulses : Pulses, switches : Switches,
         fault : BOOLEAN, running : BOOLEAN, stepping : BOOLEAN]

Device == [generation : Generation,
           running : Option(Running),
           handoff : Option(Candidate),
           refused : BOOLEAN,
           event : Option(Event),
           stranded : BOOLEAN,
           patched : Option({"Taken", "Refused"}),
           display : Generation]

TypeOK ==
  /\ editor \in Editor
  /\ host \in Host
  /\ device \in Device

(***************************************************************************)
(* A scene just opened: nothing runs, nothing is asked for, and the draft  *)
(* is being validated.                                                     *)
(***************************************************************************)
Init ==
  /\ editor \in [revision : {1}, inputs : Inputs, acceptance : {"Pending"},
                 validates : BOOLEAN, edge : Edges]
  /\ host = [next |-> 0, requested |-> None, requested_revision |-> None,
             requested_inputs |-> None, requested_edge |-> None,
             preparing |-> None, ready |-> None, packed |-> None,
             uploading |-> None, source_commit |-> None, active |-> None,
             last_error |-> None, uploaded |-> None, retimed |-> None,
             reset |-> FALSE, remesh |-> FALSE, drop |-> TRUE, fresh |-> TRUE,
             pulses |-> 0, switches |-> 0,
             fault |-> FALSE, running |-> TRUE, stepping |-> FALSE]
  /\ device = [generation |-> 0, running |-> None, handoff |-> None,
               refused |-> FALSE, event |-> None, stranded |-> FALSE,
               patched |-> None, display |-> 0]

-----------------------------------------------------------------------------
(* What the blocks share. *)

\* wrapping_add(1).max(1): zero names no generation.
NextGeneration(g) == IF g + 1 = Generations THEN 1 ELSE g + 1

Failed(d) == d.running # None /\ d.running.failed

Behind(d) == /\ d.running # None
             /\ ~d.running.caught_up
             /\ ~d.running.failed

\* A state with another host, or with another device.
OnHost(s, h) == [s EXCEPT !.host = h]

OnDevice(s, d) == [s EXCEPT !.device = d]

RevisionOf(candidate) == IF candidate = None THEN None ELSE candidate.revision

\* The revision standing for the document as it is.
StandingRevision(h, e) ==
  Standing(e.acceptance, e.revision, h.requested_revision,
           h.requested_inputs = e.inputs)

\* Mutated: an upload in flight is forgotten.
NothingPacked(h) == h.source_commit = None /\ h.packed = None

\* Nothing is being carried, uploaded or patched in.
Unoccupied(h) == /\ h.uploading = None
                 /\ h.source_commit = None
                 /\ h.packed = None

\* The device without anything it was asked.
Emptied(d) == [d EXCEPT !.handoff = None, !.refused = FALSE, !.event = None,
                        !.stranded = FALSE, !.patched = None]

\* A whole generation installed in place of whatever runs.
Installed(d, candidate) ==
  [Emptied(d) EXCEPT
     !.generation = NextGeneration(@),
     !.running = [candidate |-> candidate, step |-> candidate.token,
                  ready |-> FALSE, failed |-> FALSE, caught_up |-> TRUE]]

\* Mutated: the event the failure stranded is not sent again.
RunningCleared(d) ==
  [d EXCEPT !.running = [@ EXCEPT !.failed = FALSE, !.ready = FALSE,
                                  !.caught_up = TRUE]]

\* A failure cleared on the device, which sends again the event it stranded.
Cleared(d) ==
  [d EXCEPT !.running = [@ EXCEPT !.failed = FALSE, !.ready = FALSE,
                                  !.caught_up = TRUE],
            !.stranded = FALSE]

FailureCleared(s) ==
  OnDevice(OnHost(s, [s.host EXCEPT !.fault = FALSE]), Cleared(s.device))

\* Mutated: the device is not told what it now runs.
NamedAsBefore(d, candidate) == d

\* What runs goes by the candidate's name.
Named(d, candidate) ==
  IF d.running = None THEN d
  ELSE [d EXCEPT !.running = [@ EXCEPT !.candidate = candidate]]

\* The candidate becomes active on the generation that runs.
CommitInPlace(s, candidate) ==
  IF s.host.requested # candidate.token \/ s.host.ready # candidate THEN s
  ELSE OnDevice(OnHost(s, [s.host EXCEPT !.ready = None, !.active = candidate]),
                Named(s.device, candidate))

Rejected(h, candidate) ==
  IF h.ready # candidate THEN h
  ELSE [h EXCEPT !.ready = None, !.last_error = candidate]

\* What queue_live_event answers to an event that was built, or was not.
Offer(d, built) ==
  IF ~built \/ d.running = None THEN "Refused"
  ELSE IF d.event # None \/ d.handoff # None THEN "Busy"
  ELSE IF d.running.failed THEN "Refused"
  ELSE "Taken"

-----------------------------------------------------------------------------
(* The blocks of refresh_runtime.  What the app computes for a frame is     *)
(* chosen by the block that reads it, among every outcome or, in a frame   *)
(* of the fair suffix that settle runs, among the good ones.               *)

Outcomes(fair, good, others) == IF fair THEN good ELSE good \cup others

\* The end of the draft's validation, after which a preparation reads inputs.
Validated(e, inputs) ==
  IF e.acceptance # "Pending" THEN e
  ELSE IF e.validates THEN [e EXCEPT !.acceptance = "Valid", !.inputs = inputs]
  ELSE [e EXCEPT !.acceptance = "Invalid"]

ValidationShare(s, fair) ==
  Outcomes(fair,
    {[s EXCEPT !.editor = Validated(@, s.editor.inputs)]},
    {s} \cup {[s EXCEPT !.editor = Validated(@, inputs)] : inputs \in Inputs})

\* Mutated: the worker goes on preparing for the scene that went.
AbandonedButPreparing(h) ==
  [h EXCEPT !.ready = None, !.packed = None, !.uploading = None,
            !.source_commit = None]

\* Every candidate on its way to the device is let go.
Abandoned(h) ==
  [h EXCEPT !.preparing = None, !.ready = None, !.packed = None,
            !.uploading = None, !.source_commit = None]

Dropped(h) ==
  [Abandoned(h) EXCEPT
     !.drop = FALSE, !.fault = FALSE, !.requested = None, !.active = None,
     !.last_error = None, !.uploaded = None, !.retimed = None,
     !.pulses = 0, !.switches = 0]

\* A replaced scene's generation goes, and all that was for it.
DropReplaced(s) ==
  IF ~s.host.drop THEN s
  ELSE OnDevice(OnHost(s, Dropped(s.host)),
                [Emptied(s.device) EXCEPT !.running = None])

\* A source patch the device has settled commits, or is refused.
FinishSourceCommit(s) ==
  IF s.host.source_commit = None \/ s.device.patched = None THEN s
  ELSE LET candidate == s.host.source_commit
           h == [s.host EXCEPT !.source_commit = None]
           d == [s.device EXCEPT !.patched = None]
       IN  IF s.device.patched = "Taken"
           THEN CommitInPlace(OnDevice(OnHost(s, h), d), candidate)
           ELSE OnDevice(OnHost(s, Rejected(h, candidate)), d)

Paused(h) == [h EXCEPT !.fault = TRUE, !.running = FALSE, !.stepping = FALSE]

Supervise(s) ==
  LET act == SuperviseFault([failed |-> Failed(s.device),
                             uploading |-> s.host.uploading # None,
                             latched |-> s.host.fault,
                             resuming |-> s.host.running \/ s.host.stepping])
  IN  CASE act = "Clear"  -> OnHost(s, [s.host EXCEPT !.fault = FALSE])
        [] act = "Pause"  -> OnHost(s, Paused(s.host))
        [] act = "Resume" -> FailureCleared(s)
        [] act = "Hold"   -> s

\* A request for the document as it stands, unless one stands already.
Due(h, e) ==
  RequestDue([acceptance |-> e.acceptance,
              standing |-> StandingRevision(h, e),
              requested |-> h.requested_revision,
              sameEdge |-> h.requested_edge = e.edge,
              remesh |-> h.remesh,
              inFlight |-> h.preparing # None \/ h.ready # None,
              active |-> RevisionOf(h.active),
              failed |-> RevisionOf(h.last_error)])

CandidateFor(h, e) ==
  [token |-> h.next, revision |-> e.revision, inputs |-> e.inputs,
   fresh |-> StartsFromZero(h.active # None, h.reset, h.fresh)]

Requested(h, e) ==
  IF ~Due(h, e) \/ h.next >= Tokens THEN h
  ELSE [h EXCEPT !.next = @ + 1,
                 !.requested = h.next,
                 !.preparing = CandidateFor(h, e),
                 !.ready = None,
                 !.last_error = None,
                 !.requested_revision = e.revision,
                 !.requested_inputs = e.inputs,
                 !.requested_edge = e.edge,
                 !.reset = FALSE, !.remesh = FALSE, !.fresh = FALSE]

\* The speed asks for another step than the one the device runs: once from it.
RetimeMayBeAsked(h) ==
  /\ h.uploaded # None /\ h.active # None
  /\ h.preparing = None /\ h.ready = None
  /\ h.retimed # h.uploaded

Retimed(h) == [h EXCEPT !.retimed = h.uploaded, !.requested_revision = None]

RequestShare(s, fair) ==
  IF ~Unoccupied(s.host) THEN {s}
  ELSE Outcomes(fair,
         {OnHost(s, Requested(s.host, s.editor))},
         IF RetimeMayBeAsked(s.host)
         THEN {OnHost(s, Requested(Retimed(s.host), s.editor))}
         ELSE {})

Prepared(h) == [h EXCEPT !.preparing = None, !.ready = h.preparing]

Unprepared(h) == [h EXCEPT !.preparing = None, !.last_error = h.preparing]

\* The preparation in flight is done this frame, fails, or goes on.
PreparationShare(s, fair) ==
  IF s.host.preparing = None THEN {s}
  ELSE Outcomes(fair, {OnHost(s, Prepared(s.host))},
                      {s, OnHost(s, Unprepared(s.host))})

Unpacked(h) == [h EXCEPT !.packed = None]

DropStalePack(s) ==
  IF s.host.packed # s.host.ready
  THEN OnHost(s, Unpacked(s.host))
  ELSE s

\* What the app finds of a ready candidate.
Carriages == [update : Updates, sameStep : BOOLEAN,
              built : BOOLEAN, packable : BOOLEAN]

Packed(h) == [h EXCEPT !.packed = h.ready]

\* The patch is offered to the device, and the host waits for its answer.
PatchSent(s) ==
  OnDevice(OnHost(s, [s.host EXCEPT !.source_commit = s.host.ready]),
           [s.device EXCEPT
              !.event = [kind |-> "Patch", candidate |-> s.host.ready],
              !.patched = None])

\* A source patch goes to a device free for it; one that cannot take it at
\* all has the candidate packed, or rejected if it cannot be packed.
PatchSources(s, carriage) ==
  LET answer == Offer(s.device, carriage.built)
      fallback == LiveEventFallback(answer = "Busy", carriage.packable)
  IN  IF s.device.event # None THEN s
      ELSE IF answer = "Taken" THEN PatchSent(s)
      ELSE CASE fallback = "Retry"  -> s
             [] fallback = "Pack"   -> OnHost(s, Packed(s.host))
             [] fallback = "Refuse" -> OnHost(s, Rejected(s.host, s.host.ready))

CarriedAs(s, carriage) ==
  LET route == Carry(s.host.uploaded # None, carriage.sameStep, carriage.update)
  IN  CASE route = "InPlace" -> CommitInPlace(s, s.host.ready)
        [] route = "Patch"   -> PatchSources(s, carriage)
        [] route = "Pack"    -> OnHost(s, Packed(s.host))

CarryReady(s) ==
  IF ~Unoccupied(s.host) \/ s.host.ready = None THEN {s}
  ELSE {CarriedAs(s, carriage) : carriage \in Carriages}

\* The upload of a packed candidate can be looked at this frame.
PackedAtDevice(s) == /\ s.host.uploading = None
                     /\ s.host.packed # None
                     /\ ~Behind(s.device)

\* A packed candidate that is no longer the ready one ends the frame.
PackAbandoned(s) == PackedAtDevice(s) /\ s.host.ready # s.host.packed

UploadOf(candidate, generation) ==
  [candidate |-> candidate, generation |-> generation]

InstallUpload(s, candidate) ==
  OnDevice(OnHost(s, [s.host EXCEPT
                        !.packed = None,
                        !.uploaded = candidate.token,
                        !.uploading = UploadOf(candidate,
                                        NextGeneration(s.device.generation))]),
           Installed(s.device, candidate))

HandOff(s, candidate) ==
  OnDevice(OnHost(s, [s.host EXCEPT
                        !.packed = None,
                        !.uploading = UploadOf(candidate,
                                        NextGeneration(s.device.generation))]),
           [s.device EXCEPT !.handoff = candidate, !.refused = FALSE])

\* A failed device is cleared before an upload begins.
ReadyForUpload(s) == IF Failed(s.device) THEN FailureCleared(s) ELSE s

\* With no live event in flight, an upload is refused at once, installs, or
\* hands off.
UploadPacked(s, fair) ==
  LET candidate == s.host.packed
      mustInstall == candidate.fresh \/ s.host.active = None
  IN  IF ~UploadMayBegin(TRUE, s.device.event # None) THEN {s}
      ELSE Outcomes(fair,
             {IF mustInstall THEN InstallUpload(s, candidate)
              ELSE HandOff(s, candidate)},
             {OnHost(s, Rejected(Unpacked(s.host), candidate)),
              InstallUpload(s, candidate)})

BeginUpload(s, fair) ==
  IF ~PackedAtDevice(s) THEN {s} ELSE UploadPacked(ReadyForUpload(s), fair)

\* Mutated: the host goes on pacing the step that ran before.
PublishedUnpaced(h, candidate) ==
  LET over == [h EXCEPT !.uploading = None]
  IN  IF h.requested # candidate.token \/ h.ready # candidate THEN over
      ELSE [over EXCEPT !.ready = None, !.active = candidate]

\* The upload is over: published, unless another request was made since.
Published(h, candidate) ==
  LET paced == [h EXCEPT !.uploading = None, !.uploaded = candidate.token]
  IN  IF h.requested # candidate.token \/ h.ready # candidate THEN paced
      ELSE [paced EXCEPT !.ready = None, !.active = candidate]

\* Mutated: the device goes on with a handoff the host has given up.
NotWithdrawn(d) == d

\* A handoff the device has not settled is taken back.
Withdrawn(d) ==
  IF d.handoff = None THEN d ELSE [d EXCEPT !.handoff = None, !.refused = FALSE]

UploadOver(h) == [h EXCEPT !.uploading = None]

Settled(s) ==
  LET upload == s.host.uploading
      refused == OnHost(s, Rejected(UploadOver(s.host), upload.candidate))
      act == SettleUpload(
               [runsCandidate |-> s.device.generation = upload.generation,
                failed |-> Failed(s.device),
                refused |-> s.device.refused,
                ready |-> s.device.running # None /\ s.device.running.ready,
                shown |-> s.device.display = upload.generation,
                handoffPending |-> s.device.handoff # None])
  IN  CASE act = "Withdraw" -> OnDevice(refused, Withdrawn(s.device))
        [] act = "Refused"  -> refused
        [] act = "Publish"  -> OnHost(s, Published(s.host, upload.candidate))
        [] act = "Wait"     -> s

SettleInFlight(s) == IF s.host.uploading = None THEN s ELSE Settled(s)

\* Mutated: not held by a source patch in flight.
ResetDuringPatch(h) ==
  h.reset /\ h.active # None /\ h.uploading = None

ResetMayApply(h) ==
  /\ h.reset /\ h.active # None
  /\ h.uploading = None /\ h.source_commit = None

\* Reset installs the active topology from zero; a pack waiting for the device
\* was made against the run it clears.
ApplyReset(s) ==
  IF ~ResetMayApply(s.host) THEN s
  ELSE OnDevice(OnHost(s, [s.host EXCEPT
                             !.packed = None, !.reset = FALSE,
                             !.uploaded = s.host.active.token,
                             !.pulses = 0, !.switches = 0]),
                Installed(s.device, s.host.active))

\* A waiting pulse or press may go to the device: it runs a topology and takes
\* no upload and no patch.
MaySend(h) == /\ h.active # None
              /\ h.uploading = None
              /\ h.source_commit = None

EventSent(d, kind) == [d EXCEPT !.event = [kind |-> kind, candidate |-> None]]

\* A waiting event leaves the queue, which dequeued is without it, when the
\* device takes it, or cannot take it at all.
Sent(s, kind, dequeued, built) ==
  LET answer == Offer(s.device, built)
  IN  IF answer = "Taken"
      THEN OnDevice(OnHost(s, dequeued), EventSent(s.device, kind))
      ELSE IF LiveEventFallback(answer = "Busy", FALSE) = "Retry" THEN s
      ELSE OnHost(s, dequeued)

SendPulse(s, fair) ==
  LET dequeued == [s.host EXCEPT !.pulses = @ - 1]
  IN  IF ~MaySend(s.host) \/ s.host.pulses = 0 THEN {s}
      ELSE Outcomes(fair, {Sent(s, "Pulse", dequeued, TRUE)},
                          {Sent(s, "Pulse", dequeued, FALSE)})

SendSwitch(s, fair) ==
  LET dequeued == [s.host EXCEPT !.switches = @ - 1]
  IN  IF ~MaySend(s.host) \/ s.host.switches = 0 THEN {s}
      ELSE Outcomes(fair, {Sent(s, "Switch", dequeued, TRUE)},
                          {Sent(s, "Switch", dequeued, FALSE)})

Stepped(h) == [h EXCEPT !.stepping = @ /\ h.running]

LeftBehind(d) == [d EXCEPT !.running = [@ EXCEPT !.caught_up = FALSE]]

\* Steps, unless a packed candidate or a fresh upload holds them; they may
\* leave the device behind.
TakeSteps(s, fair) ==
  LET withheld == StepsWithheld(s.host.uploading = None /\ s.host.packed # None,
                                /\ s.host.uploading # None
                                /\ s.host.uploading.candidate.fresh)
      asked == s.host.running \/ s.host.stepping
      stepped == OnHost(s, Stepped(s.host))
  IN  IF s.host.active = None \/ withheld THEN {s}
      ELSE Outcomes(fair, {stepped},
             IF asked /\ s.device.running # None /\ ~Failed(s.device)
             THEN {OnDevice(stepped, LeftBehind(s.device))}
             ELSE {})

\* Adaptation asks for the active topology on a mesh of its own, at the
\* revision it was requested at and on what it read.
MayAdapt(h) == /\ h.active # None
               /\ h.running
               /\ h.uploading = None /\ h.preparing = None /\ h.ready = None
               /\ h.next < Tokens

AdaptationOf(h) == [h.active EXCEPT !.token = h.next, !.fresh = FALSE]

Adapted(h) ==
  [h EXCEPT
     !.next = @ + 1,
     !.requested = h.next,
     !.preparing = AdaptationOf(h),
     !.last_error = IF RevisionOf(@) = h.active.revision THEN None ELSE @]

AdaptShare(s, fair) ==
  Outcomes(fair, {s},
    IF MayAdapt(s.host) THEN {OnHost(s, Adapted(s.host))} ELSE {})

-----------------------------------------------------------------------------
(* The steps of the interleaving. *)

\* The blocks down to the carrying of a ready candidate.
Carried(s, fair) ==
  UNION {CarryReady(DropStalePack(prepared)) : prepared \in
    UNION {PreparationShare(requested, fair) : requested \in
      UNION {RequestShare(Supervise(FinishSourceCommit(DropReplaced(validated))), fair) :
        validated \in ValidationShare(s, fair)}}}

\* The blocks from the upload of a packed candidate; one that is no longer the
\* ready one ends them.
Uploaded(s, fair) ==
  IF PackAbandoned(s) THEN {OnHost(s, Unpacked(s.host))}
  ELSE UNION {TakeSteps(switched, fair) : switched \in
         UNION {SendSwitch(pulsed, fair) : pulsed \in
           UNION {SendPulse(ApplyReset(SettleInFlight(begun)), fair) : begun \in
             BeginUpload(s, fair)}}}

Frame(fair) ==
  \E carried \in Carried(State, fair) :
  \E uploaded \in Uploaded(carried, fair) :
  \E end \in AdaptShare(uploaded, fair) : Become(end)

\* The device's readbacks for a frame: a generation that has not failed is
\* ready, and what it runs is shown.
ReadBack(d, caughtUp) ==
  [d EXCEPT
     !.running = IF @.failed THEN @
                 ELSE [@ EXCEPT !.ready = TRUE, !.caught_up = caughtUp],
     !.display = d.generation]

Readbacks(caughtUp) ==
  /\ device.running # None
  /\ device' = ReadBack(device, caughtUp)
  /\ UNCHANGED <<editor, host>>

\* The target of a handoff runs, over the source's count of steps asked for and
\* done and with a clean status.
Admitted(d) ==
  [d EXCEPT
     !.handoff = None,
     !.refused = FALSE,
     !.generation = NextGeneration(@),
     !.display = NextGeneration(d.generation),
     !.running = [candidate |-> d.handoff, step |-> d.handoff.token,
                  ready |-> TRUE, failed |-> FALSE,
                  caught_up |-> @ # None => @.caught_up]]

\* The device settles a pending handoff.
AdmitHandoff ==
  /\ device.handoff # None
  /\ device' = Admitted(device)
  /\ UNCHANGED <<editor, host>>

RefuseHandoff ==
  /\ device.handoff # None
  /\ device' = [device EXCEPT !.handoff = None, !.refused = TRUE]
  /\ UNCHANGED <<editor, host>>

EventSettled(d, verdict) ==
  [d EXCEPT !.patched = IF d.event.kind = "Patch" THEN verdict ELSE @,
            !.event = None]

\* The device settles the live event in flight, unless it stopped before it.
Settle(verdict) ==
  /\ device.event # None
  /\ ~device.stranded
  /\ device' = EventSettled(device, verdict)
  /\ UNCHANGED <<editor, host>>

Faulted(d) ==
  [d EXCEPT !.running = [@ EXCEPT !.failed = TRUE, !.ready = FALSE],
            !.stranded = d.event # None]

\* The running generation fails, and strands the event in flight.
Fault ==
  /\ device.running # None
  /\ device' = Faulted(device)
  /\ UNCHANGED <<editor, host>>

Validate ==
  /\ \E inputs \in Inputs : editor' = Validated(editor, inputs)
  /\ UNCHANGED <<host, device>>

Edit(inputs, valid) ==
  /\ editor.revision < MaxRevision
  /\ editor' = [editor EXCEPT !.revision = @ + 1, !.acceptance = "Pending",
                              !.validates = valid, !.inputs = inputs]
  /\ UNCHANGED <<host, device>>

Edge(edge) ==
  /\ editor' = [editor EXCEPT !.edge = edge]
  /\ UNCHANGED <<host, device>>

Remesh ==
  /\ host' = [host EXCEPT !.remesh = TRUE]
  /\ UNCHANGED <<editor, device>>

\* Another scene opened in this one's place.
Replace(inputs, edge, valid) ==
  /\ editor.revision < MaxRevision
  /\ editor' = [revision |-> editor.revision + 1, inputs |-> inputs,
                edge |-> edge, acceptance |-> "Pending", validates |-> valid]
  /\ host' = [host EXCEPT !.requested_revision = None,
                          !.fresh = TRUE, !.drop = TRUE]
  /\ UNCHANGED device

Reset ==
  /\ device.generation < MaxGeneration
  /\ host' = [host EXCEPT !.reset = TRUE]
  /\ UNCHANGED <<editor, device>>

Speed ==
  /\ host' = [host EXCEPT !.retimed = None]
  /\ UNCHANGED <<editor, device>>

Run(on) ==
  /\ host' = [host EXCEPT !.running = on]
  /\ UNCHANGED <<editor, device>>

StepOnce ==
  /\ host' = [host EXCEPT !.stepping = TRUE]
  /\ UNCHANGED <<editor, device>>

\* Counts that saturate.
More(count, most) == IF count = most THEN count ELSE count + 1

Pulse ==
  /\ host.active # None
  /\ host' = [host EXCEPT !.pulses = More(@, MaxPulses)]
  /\ UNCHANGED <<editor, device>>

\* A press queued, one per material.
Switch ==
  /\ host' = [host EXCEPT !.switches = More(@, MaxSwitches)]
  /\ UNCHANGED <<editor, device>>

DeviceStep ==
  \/ \E caughtUp \in BOOLEAN : Readbacks(caughtUp)
  \/ AdmitHandoff
  \/ RefuseHandoff
  \/ \E verdict \in {"Taken", "Refused"} : Settle(verdict)
  \/ Fault

DocumentStep ==
  \/ Validate
  \/ \E inputs \in Inputs, valid \in BOOLEAN : Edit(inputs, valid)
  \/ \E edge \in Edges : Edge(edge)
  \/ \E inputs \in Inputs, edge \in Edges, valid \in BOOLEAN :
       Replace(inputs, edge, valid)

UserStep ==
  \/ Remesh \/ Reset \/ Speed \/ StepOnce \/ Pulse \/ Switch
  \/ \E on \in BOOLEAN : Run(on)

Next == Frame(FALSE) \/ DeviceStep \/ DocumentStep \/ UserStep

Spec == Init /\ [][Next]_vars

-----------------------------------------------------------------------------
(* Properties: what Protocol::check asserts, and what it rests on. *)

\* The host's active topology is the one the device runs, and the host paces
\* the step the device was packed for: between uploads, and once a replaced
\* scene's generation has been dropped.
HostRunsWhatTheDeviceRuns ==
  (/\ ~host.drop
   /\ host.uploading = None
   /\ device.running # None
   /\ host.active # None)
  => /\ device.running.candidate = host.active
     /\ host.uploaded = device.running.step

\* A handoff the device still has to settle is the upload the host waits for,
\* and publishes as the generation the host waits for.
HandoffIsTheUpload ==
  device.handoff # None =>
    /\ host.uploading # None
    /\ host.uploading.candidate = device.handoff
    /\ host.uploading.generation = NextGeneration(device.generation)

\* A live event and a handoff, which share the target's bind groups and its
\* clock, are never in flight together (RT-2).
NoEventAcrossAHandoff == device.handoff = None \/ device.event = None

\* A source edit the host waits for on the running generation is the patch the
\* device has in flight, or has answered, and nothing uploads meanwhile.
SourceCommitIsThePatch ==
  host.source_commit # None =>
    /\ host.uploading = None
    /\ host.packed = None
    /\ \/ device.patched # None
       \/ device.event = [kind |-> "Patch", candidate |-> host.source_commit]

\* What is prepared, ready, packed, uploaded or patched in is one request's
\* and, unless a scene replaced it, the latest: so what the device takes over
\* the host can publish, and is never left running unannounced.
CarriedIsTheLatestRequest ==
  /\ host.preparing = None \/ host.ready = None
  /\ \A candidate \in {host.preparing, host.ready} :
       candidate # None => host.requested = candidate.token
  /\ \A candidate \in {host.packed, host.source_commit} \cup
                      (IF host.uploading = None THEN {} ELSE {host.uploading.candidate}) :
       candidate # None => host.ready = candidate

-----------------------------------------------------------------------------
(* Rest, and what a step may never do. *)

\* The revision the document stands at failed last, or the device runs the
\* request for the document as it stands.
Answered(s) ==
  LET standing == StandingRevision(s.host, s.editor)
      active == s.host.active
  IN  \/ standing # None /\ RevisionOf(s.host.last_error) = standing
      \/ /\ active # None
         /\ IF s.editor.acceptance = "Valid" THEN active.revision = standing
            ELSE active.inputs = s.editor.inputs
         /\ s.host.requested_edge = s.editor.edge
         /\ s.device.running # None
         /\ s.device.running.candidate = active
         /\ s.device.running.ready
         /\ s.device.running.step = s.host.uploaded

\* A Reset or a press made while nothing runs waits harmlessly.
AtRest(s) ==
  /\ ~s.host.drop /\ ~s.host.remesh
  /\ s.host.active = None \/ (~s.host.reset /\ s.host.switches = 0)
  /\ Unoccupied(s.host)
  /\ s.host.preparing = None /\ s.host.ready = None
  /\ s.host.pulses = 0
  /\ s.device.event = None /\ s.device.handoff = None
  /\ s.editor.acceptance # "Pending"
  /\ Answered(s)

\* Every candidate the host or the device holds.
Held(h, d) ==
  ({h.preparing, h.ready, h.packed, h.source_commit, h.active, h.last_error,
    d.handoff}
   \cup (IF h.uploading = None THEN {} ELSE {h.uploading.candidate})
   \cup (IF d.running = None THEN {} ELSE {d.running.candidate})
   \cup (IF d.event = None THEN {} ELSE {d.event.candidate})) \ {None}

\* The frame after another scene opens leaves nothing of the one before: every
\* candidate held, on the host or the device, was requested in that frame and
\* starts from zero, and no pulse or press made for the old scene waits.
ReplacedSceneLeavesNothing ==
  [][host.drop /\ ~host'.drop =>
       /\ \A candidate \in Held(host', device') :
            candidate.token >= host.next /\ candidate.fresh
       /\ host'.pulses = 0 /\ host'.switches = 0
       /\ host'.uploaded = None \/ host'.uploaded >= host.next]_vars

\* What is published, and what the device runs, never goes back: a later
\* request, of the same revision of the document or a later one.
NothingOlderIsPublished ==
  [][/\ host.active # None /\ host'.active # None =>
          /\ host'.active.token >= host.active.token
          /\ host'.active.revision >= host.active.revision
     /\ device.running # None /\ device'.running # None =>
          /\ device'.running.candidate.token >= device.running.candidate.token
          /\ device'.running.candidate.revision >= device.running.candidate.revision]_vars

\* The request that stands for the document was made for its edge and, if the
\* draft is invalid, what it asked for runs or is what failed last.
RequestStands(h, e) ==
  LET standing == StandingRevision(h, e)
  IN  /\ standing # None
      /\ h.requested_edge = e.edge
      /\ e.acceptance = "Invalid" =>
           standing \in {RevisionOf(h.active), RevisionOf(h.last_error)}

\* At rest and paused, on a document a request stands for, a frame asks for
\* nothing of its own accord, but for one retime of the step that runs (RT-11).
RestAsksForNothing ==
  [][(/\ AtRest(State)
      /\ ~host.running
      /\ host.retimed = host.uploaded
      /\ RequestStands(host, editor))
     => host'.next = host.next]_vars

\* An edit that could not be prepared is not prepared again of itself: while
\* the failure accounts for the document as it stands, it goes on doing so
\* (AMR-04).
AccountedByItsFailure(s) ==
  /\ ~s.host.drop /\ ~s.host.remesh
  /\ s.host.requested_revision = StandingRevision(s.host, s.editor)
  /\ s.host.requested_edge = s.editor.edge
  /\ s.host.last_error # None
  /\ s.host.last_error.revision = StandingRevision(s.host, s.editor)

AdaptationLeavesAFailedEditStanding ==
  [][(/\ AccountedByItsFailure(State)
      /\ host.retimed = host.uploaded
      /\ RevisionOf(host.active) # host.last_error.revision
      /\ UNCHANGED editor
      /\ Frame(FALSE))
     => /\ host'.last_error # None
        /\ host'.last_error.revision = host.last_error.revision]_vars

\* A Reset asked of a running topology, or folded into a candidate that starts
\* from zero and has not been installed, waits until a generation starts from
\* zero: it is never spent on nothing (RT-13).
ZeroAwaited(h) ==
  \/ h.reset
  \/ \E candidate \in {h.preparing, h.ready} \ {None} :
       /\ candidate.fresh
       /\ h.uploading = None

ResetIsNeverLost ==
  [][ZeroAwaited(host) /\ host.active # None /\ ~host.drop
     => \/ ZeroAwaited(host')
        \/ device'.generation # device.generation]_vars
=============================================================================
