------------------------ MODULE GenerationInvariant ------------------------
(***************************************************************************)
(* The inductive invariant of GenerationProtocol: what host and device     *)
(* agree on between any two steps, and between any two blocks of a frame.  *)
(* Protocol::check asserts some of it; the rest says what the device runs  *)
(* while an upload is in flight, which check leaves open and which the     *)
(* settlement of the upload rests on.                                      *)
(* Beside it, what is on record of the document's own revision.            *)
(***************************************************************************)
EXTENDS GenerationProtocol

States == [editor : Editor, host : Host, device : Device]

\* A preparation and a candidate ready are one request's, the latest.
OneRequest(h) ==
  /\ h.preparing = None \/ h.ready = None
  /\ h.preparing # None => h.requested = h.preparing.token
  /\ h.ready # None => h.requested = h.ready.token

\* What is on its way to the device is the ready candidate, by one way only.
OneWay(h) ==
  /\ h.packed # None => h.packed = h.ready
  /\ h.source_commit # None => h.source_commit = h.ready /\ h.packed = None
  /\ h.uploading # None => /\ h.ready # None
                           /\ h.uploading.candidate = h.ready
                           /\ h.source_commit = None
                           /\ h.packed = None

\* The device has a handoff or an event, not both; a refusal ends a handoff.
OneTransaction(d) ==
  /\ d.refused => d.handoff = None
  /\ d.handoff = None \/ d.event = None
  /\ d.event # None => d.running # None
  /\ d.stranded => d.event # None

\* The patch the host waits for is in flight or answered, on a run it paces.
PatchAwaited(h, d) ==
  h.source_commit # None =>
    /\ h.uploaded # None
    /\ \/ d.patched # None
       \/ d.event = [kind |-> "Patch", candidate |-> h.source_commit]

\* The handoff the device has is the upload the host waits for.
HandoffAwaited(h, d) ==
  d.handoff # None =>
    /\ h.uploading # None
    /\ h.uploading.candidate = d.handoff
    /\ h.uploading.generation = NextGeneration(d.generation)

\* The device runs what the host published, at the step the host paces.
RunsActive(h, d) ==
  h.active # None \/ h.uploaded # None =>
    /\ d.running # None
    /\ h.uploaded = d.running.step
    /\ h.active # None => d.running.candidate = h.active

\* The device runs what is being uploaded: it was installed, or admitted.
RunsTarget(h, d) ==
  /\ d.running # None
  /\ d.running.candidate = h.uploading.candidate
  /\ d.running.step = h.uploading.candidate.token
  /\ d.generation = h.uploading.generation
  /\ d.handoff = None
  /\ ~d.refused

\* The device still runs what the host published: the handoff is pending, or
\* was refused.
RunsSource(h, d) ==
  /\ h.active # None
  /\ RunsActive(h, d)
  /\ h.uploading.generation = NextGeneration(d.generation)
  /\ d.handoff # None \/ d.refused

\* What the device runs, uploading or not.
Runs(h, d) == IF h.uploading = None THEN RunsActive(h, d)
              ELSE RunsTarget(h, d) \/ RunsSource(h, d)

\* The host and the device agree.
Coherent(h, d) ==
  /\ OneRequest(h)
  /\ OneWay(h)
  /\ OneTransaction(d)
  /\ PatchAwaited(h, d)
  /\ HandoffAwaited(h, d)
  /\ Runs(h, d)

Good(s) == s \in States /\ Coherent(s.host, s.device)

\* The invariant every step keeps: whatever is asked in whatever order, the
\* device runs what the host published or, while an upload is awaited, the
\* target it published last or the source it came from, and never a candidate
\* the host has forgotten.
InductiveInvariant == Good(State)

-----------------------------------------------------------------------------
(* What is known of the document's own revision. *)

\* The revisions that are prepared, ready, published or failed; what is packed,
\* uploaded or patched in is the ready one (OneWay).
Revisions(h) ==
  {c.revision : c \in {h.preparing, h.ready, h.active, h.last_error} \ {None}}

\* A candidate of the revision the document is at was asked for since the draft
\* was validated, and that request is the one on record.
AskedAsItStands(h, e) ==
  \A r \in Revisions(h) :
    \/ r < e.revision
    \/ /\ r = e.revision
       /\ e.acceptance # "Pending"
       /\ h.requested_revision = e.revision \/ h.next >= Tokens

\* What every step keeps beside InductiveInvariant.
RevisionsInvariant == AskedAsItStands(host, editor)
=============================================================================
