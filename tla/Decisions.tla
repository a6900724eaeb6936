----------------------------- MODULE Decisions -----------------------------
(***************************************************************************)
(* The pure decisions of crates/funfern-protocol/src/decisions.rs: what    *)
(* the host does about a ready candidate, an upload in flight, a failure,  *)
(* a refused live event or a document that may need a new request, as a    *)
(* function of what it has seen.  The runtime of the app and the protocol  *)
(* state machine both call them.                                           *)
(***************************************************************************)

CONSTANT None          \* The absent value of an Option.

(***************************************************************************)
(* Carrying a ready candidate to the device.                               *)
(***************************************************************************)
Updates == {"Measurements", "Sources", "Full"}

\* Only a change that leaves alone what the solver runs, or touches its
\* sources alone, goes without a whole generation, and only at the step that
\* the device runs.
Carry(running, sameStep, update) ==
  IF running /\ sameStep /\ update # "Full"
  THEN IF update = "Measurements" THEN "InPlace" ELSE "Patch"
  ELSE "Pack"

StartsFromZero(active, resetRequested, freshRequested) ==
  \/ ~active
  \/ resetRequested
  \/ freshRequested

StepsWithheld(packedWaiting, freshUpload) == packedWaiting \/ freshUpload

\* Mutated: the event in flight is not waited for.
UploadOnceCaughtUp(caughtUp, eventInFlight) == caughtUp

UploadMayBegin(caughtUp, eventInFlight) == caughtUp /\ ~eventInFlight

(***************************************************************************)
(* Settling an upload in flight.                                           *)
(***************************************************************************)
\* Mutated: an installed generation that failed is withdrawn too.
SettleUploadFailed(seen) ==
  IF seen.failed THEN "Withdraw"
  ELSE IF seen.refused THEN "Refused"
  ELSE IF seen.ready /\ seen.shown /\ ~seen.handoffPending THEN "Publish"
  ELSE "Wait"

\* Mutated: a generation that failed once installed is waited for.
SettleUploadReady(seen) ==
  IF seen.failed /\ ~seen.runsCandidate THEN "Withdraw"
  ELSE IF seen.refused THEN "Refused"
  ELSE IF seen.ready /\ seen.shown /\ ~seen.handoffPending THEN "Publish"
  ELSE "Wait"

SettleUpload(seen) ==
  IF seen.failed /\ ~seen.runsCandidate THEN "Withdraw"
  ELSE IF seen.refused THEN "Refused"
  ELSE IF /\ seen.ready \/ (seen.failed /\ seen.runsCandidate)
          /\ seen.shown
          /\ ~seen.handoffPending THEN "Publish"
  ELSE "Wait"

(***************************************************************************)
(* Requests for the document as it stands.                                 *)
(***************************************************************************)
Acceptances == {"Pending", "Valid", "Invalid"}

\* The revision at which a request for the document as it stands was made.
Standing(acceptance, revision, requested, readsCurrent) ==
  CASE acceptance = "Pending" -> None
    [] acceptance = "Valid"   -> revision
    [] acceptance = "Invalid" -> IF readsCurrent THEN requested ELSE None

\* Mutated: a request that failed does not account for the document.
AccountedUnlessFailed(seen) ==
  /\ seen.standing # None
  /\ seen.requested = seen.standing
  /\ seen.sameEdge
  /\ seen.inFlight \/ seen.active = seen.standing

\* The request standing for the document is in flight, runs, or has failed.
Accounted(seen) ==
  /\ seen.standing # None
  /\ seen.requested = seen.standing
  /\ seen.sameEdge
  /\ \/ seen.inFlight
     \/ seen.active = seen.standing
     \/ seen.failed = seen.standing

RequestDue(seen) ==
  /\ seen.acceptance # "Pending"
  /\ seen.remesh \/ ~Accounted(seen)

(***************************************************************************)
(* A failure of the running generation, and a refused live event.          *)
(***************************************************************************)
SuperviseFault(seen) ==
  IF ~seen.failed THEN "Clear"
  ELSE IF seen.uploading THEN "Hold"
  ELSE IF ~seen.latched THEN "Pause"
  ELSE IF seen.resuming THEN "Resume"
  ELSE "Hold"

LiveEventFallback(busy, packable) ==
  IF busy THEN "Retry" ELSE IF packable THEN "Pack" ELSE "Refuse"
=============================================================================
