---------------------- MODULE GenerationProtocol_proofs ----------------------
(***************************************************************************)
(* Proofs about GenerationProtocol, for every value of its constants.  The *)
(* invariant is that of GenerationInvariant.  Each operator on the host or *)
(* the device has a lemma of what it is and, where it matters, one of what *)
(* it keeps; each block of a frame then leaves a good state, and a frame   *)
(* chains its blocks.                                                      *)
(***************************************************************************)
EXTENDS GenerationInvariant, TLAPS

\* None and every member of a set are values of its Option.
LEMMA OptionHas == \A S : None \in Option(S) /\ \A x \in S : x \in Option(S)
BY DEF Option

\* No pulse and no press waiting are counts.
LEMMA ZeroCounts == 0 \in Pulses /\ 0 \in Switches
BY BoundsAssumption DEF Pulses, Switches

-----------------------------------------------------------------------------
(* What the operators leave is of its type. *)

\* A state with another host is a state, with the rest as it was.
LEMMA OnHostIs ==
  ASSUME NEW s \in States, NEW h \in Host
  PROVE  /\ OnHost(s, h) \in States
         /\ OnHost(s, h).editor = s.editor
         /\ OnHost(s, h).host = h
         /\ OnHost(s, h).device = s.device
BY DEF States, OnHost

\* A state with another device is a state, with the rest as it was.
LEMMA OnDeviceIs ==
  ASSUME NEW s \in States, NEW d \in Device
  PROVE  /\ OnDevice(s, d) \in States
         /\ OnDevice(s, d).editor = s.editor
         /\ OnDevice(s, d).host = s.host
         /\ OnDevice(s, d).device = d
BY DEF States, OnDevice

\* The parts of a state have their types.
LEMMA Parts ==
  ASSUME NEW s \in States
  PROVE  s.host \in Host /\ s.device \in Device /\ s.editor \in Editor
BY DEF States

\* The host a replaced scene leaves is a host.
LEMMA DroppedTyped ==
  ASSUME NEW h \in Host
  PROVE  Dropped(h) \in Host
BY OptionHas, ZeroCounts DEF Host, Abandoned, Dropped

\* The device a replaced scene or an install empties is a device.
LEMMA EmptiedTyped ==
  ASSUME NEW d \in Device
  PROVE  /\ Emptied(d) \in Device
         /\ [Emptied(d) EXCEPT !.running = None] \in Device
BY OptionHas DEF Device, Emptied

\* A device whose failure was cleared is a device.
LEMMA ClearedTyped ==
  ASSUME NEW d \in Device, Failed(d)
  PROVE  Cleared(d) \in Device
<1>1. d.running \in Running BY DEF Failed, Device, Option
<1>. QED BY <1>1, OptionHas DEF Cleared, Device, Running

\* A paused host, and one whose failure was cleared, are hosts.
LEMMA PausedTyped ==
  ASSUME NEW h \in Host
  PROVE  /\ Paused(h) \in Host
         /\ [h EXCEPT !.fault = FALSE] \in Host
BY DEF Host, Paused

\* A value of an Option that is not None is of the set.
LEMMA OptionSet ==
  ASSUME NEW S, NEW x \in Option(S), x # None
  PROVE  x \in S
BY DEF Option

\* What is asked of a preparation is a candidate while names are left.
LEMMA CandidatesTyped ==
  ASSUME NEW h \in Host, NEW e \in Editor
  PROVE  /\ h.next < Tokens => CandidateFor(h, e) \in Candidate
         /\ h.active # None /\ h.next < Tokens => AdaptationOf(h) \in Candidate
<1>1. ASSUME h.next < Tokens PROVE h.next \in Token
  BY <1>1, BoundsAssumption DEF Host, Token
<1>2. h.active # None => h.active \in Candidate
  BY OptionSet DEF Host
<1>3. StartsFromZero(h.active # None, h.reset, h.fresh) \in BOOLEAN
  BY DEF Host, StartsFromZero
<1>. QED BY <1>1, <1>2, <1>3 DEF CandidateFor, AdaptationOf, Candidate, Editor

\* The host request_runtime leaves is a host.
LEMMA RequestedTyped ==
  ASSUME NEW h \in Host, NEW e \in Editor
  PROVE  Requested(h, e) \in Host
<1>1. CASE ~(~Due(h, e) \/ h.next >= Tokens)
  <2>1. h.next < Tokens /\ h.next \in Token /\ h.next + 1 \in 0..Tokens
    BY <1>1, BoundsAssumption DEF Host, Token
  <2>2. CandidateFor(h, e) \in Candidate BY <2>1, CandidatesTyped
  <2>3. e.revision \in Nat /\ e.inputs \in Inputs /\ e.edge \in Edges BY DEF Editor
  <2>. QED BY <1>1, <2>1, <2>2, <2>3, OptionHas DEF Requested, Host
<1>2. CASE ~Due(h, e) \/ h.next >= Tokens BY <1>2 DEF Requested
<1>. QED BY <1>1, <1>2

\* The host adapt leaves is a host.
LEMMA AdaptedTyped ==
  ASSUME NEW h \in Host, MayAdapt(h)
  PROVE  Adapted(h) \in Host
<1>1. h.next \in Token /\ h.next + 1 \in 0..Tokens
  BY BoundsAssumption DEF Host, Token, MayAdapt
<1>2. h.active \in Candidate BY OptionSet DEF Host, MayAdapt
<1>3. AdaptationOf(h) \in Candidate
   BY <1>1, <1>2 DEF AdaptationOf, Candidate
<1>4. (IF RevisionOf(h.last_error) = h.active.revision THEN None ELSE h.last_error) \in Option(Candidate)
   BY OptionHas DEF Host
<1>. QED BY <1>1, <1>3, <1>4, OptionHas DEF Adapted, Host

\* The small changes of the host leave hosts.
LEMMA HostStepsTyped ==
  ASSUME NEW h \in Host
  PROVE  /\ Retimed(h) \in Host
         /\ Prepared(h) \in Host
         /\ Unprepared(h) \in Host
         /\ Unpacked(h) \in Host
         /\ Packed(h) \in Host
         /\ UploadOver(h) \in Host
         /\ Stepped(h) \in Host
         /\ [h EXCEPT !.source_commit = None] \in Host
         /\ [h EXCEPT !.source_commit = h.ready] \in Host
BY OptionHas DEF Host, Retimed, Prepared, Unprepared, Unpacked, Packed, UploadOver, Stepped

\* The host reject leaves is a host.
LEMMA RejectedTyped ==
  ASSUME NEW h \in Host, NEW c \in Candidate
  PROVE  Rejected(h, c) \in Host
BY OptionHas DEF Host, Rejected

\* The host a published upload leaves is a host.
LEMMA PublishedTyped ==
  ASSUME NEW h \in Host, NEW c \in Candidate
  PROVE  Published(h, c) \in Host
<1>1. c.token \in Token BY DEF Candidate
<1>2. [h EXCEPT !.uploading = None, !.uploaded = c.token] \in Host
  BY <1>1, OptionHas DEF Host
<1>. QED BY <1>1, <1>2, OptionHas DEF Host, Published

\* The generation after another is a generation, and is another one.
LEMMA NextGenerationTyped ==
  ASSUME NEW g \in Generation
  PROVE  /\ NextGeneration(g) \in Generation
         /\ NextGeneration(g) # g
BY BoundsAssumption DEF Generation, NextGeneration

\* An upload is of its candidate, as its generation.
LEMMA UploadOfTyped ==
  ASSUME NEW c \in Candidate, NEW g \in Generation
  PROVE  /\ UploadOf(c, g) \in Upload
         /\ UploadOf(c, g) # None
         /\ UploadOf(c, g).candidate = c
         /\ UploadOf(c, g).generation = g
BY NoneAssumption DEF UploadOf, Upload

\* The device an install leaves is a device.
LEMMA InstalledTyped ==
  ASSUME NEW d \in Device, NEW c \in Candidate
  PROVE  Installed(d, c) \in Device
<1>1. NextGeneration(d.generation) \in Generation BY NextGenerationTyped DEF Device
<1>2. Emptied(d).generation = d.generation BY DEF Device, Emptied
<1>3. [candidate |-> c, step |-> c.token,
                  ready |-> FALSE, failed |-> FALSE, caught_up |-> TRUE] \in Running
  BY DEF Running, Candidate
<1>. QED BY <1>1, <1>2, <1>3, EmptiedTyped, OptionHas DEF Device, Installed

\* The device commit_in_place names is a device.
LEMMA NamedTyped ==
  ASSUME NEW d \in Device, NEW c \in Candidate
  PROVE  Named(d, c) \in Device
<1>1. CASE d.running # None
  <2>1. d.running \in Running BY <1>1, OptionSet DEF Device
  <2>2. [d.running EXCEPT !.candidate = c] \in Running BY <2>1 DEF Running
  <2>. QED BY <1>1, <2>2, OptionHas DEF Device, Named
<1>2. CASE d.running = None BY <1>2 DEF Named
<1>. QED BY <1>1, <1>2

\* The device asked for steps is a device.
LEMMA LeftBehindTyped ==
  ASSUME NEW d \in Device, d.running # None
  PROVE  LeftBehind(d) \in Device
<1>1. d.running \in Running BY OptionSet DEF Device
<1>2. [d.running EXCEPT !.caught_up = FALSE] \in Running BY <1>1 DEF Running
<1>. QED BY <1>2, OptionHas DEF Device, LeftBehind

\* A device that failed is a device.
LEMMA FaultedTyped ==
  ASSUME NEW d \in Device, d.running # None
  PROVE  Faulted(d) \in Device
<1>1. d.running \in Running BY OptionSet DEF Device
<1>2. [d.running EXCEPT !.failed = TRUE, !.ready = FALSE] \in Running BY <1>1 DEF Running
<1>3. (d.event # None) \in BOOLEAN OBVIOUS
<1>. QED BY <1>2, <1>3, OptionHas DEF Device, Faulted

\* The device whose readbacks arrived is a device.
LEMMA ReadBackTyped ==
  ASSUME NEW d \in Device, d.running # None, NEW caughtUp \in BOOLEAN
  PROVE  ReadBack(d, caughtUp) \in Device
<1>1. d.running \in Running BY OptionSet DEF Device
<1>2. [d.running EXCEPT !.ready = TRUE, !.caught_up = caughtUp] \in Running BY <1>1 DEF Running
<1>. QED BY <1>1, <1>2, OptionHas DEF Device, ReadBack

\* The device that admitted a handoff is a device.
LEMMA AdmittedTyped ==
  ASSUME NEW d \in Device, d.handoff # None
  PROVE  Admitted(d) \in Device
<1>1. d.handoff \in Candidate BY OptionSet DEF Device
<1>2. NextGeneration(d.generation) \in Generation BY NextGenerationTyped DEF Device
<1>3. (d.running # None => d.running.caught_up) \in BOOLEAN
  OBVIOUS
<1>4. [candidate |-> d.handoff, step |-> d.handoff.token,
                  ready |-> TRUE, failed |-> FALSE,
                  caught_up |-> d.running # None => d.running.caught_up] \in Running
  BY <1>1, <1>3 DEF Running, Candidate
<1>. QED BY <1>2, <1>4, OptionHas DEF Device, Admitted

\* The small changes of the device leave devices.
LEMMA DeviceStepsTyped ==
  ASSUME NEW d \in Device
  PROVE  /\ Withdrawn(d) \in Device
         /\ [d EXCEPT !.patched = None] \in Device
         /\ [d EXCEPT !.handoff = None, !.refused = TRUE] \in Device
BY OptionHas DEF Device, Withdrawn

\* The device a handoff was begun on is a device.
LEMMA HandedTyped ==
  ASSUME NEW d \in Device, NEW c \in Candidate
  PROVE  [d EXCEPT !.handoff = c, !.refused = FALSE] \in Device
BY OptionHas DEF Device

\* The device that settled a live event is a device.
LEMMA EventSettledTyped ==
  ASSUME NEW d \in Device, NEW verdict \in {"Taken", "Refused"}
  PROVE  EventSettled(d, verdict) \in Device
<1>1. verdict \in Option({"Taken", "Refused"}) BY OptionHas
<1>. QED BY <1>1, OptionHas DEF Device, EventSettled

\* The device a pulse or a press was sent to is a device.
LEMMA EventSentTyped ==
  ASSUME NEW d \in Device, NEW kind \in {"Pulse", "Switch"}
  PROVE  EventSent(d, kind) \in Device
<1>1. [kind |-> kind, candidate |-> None] \in Event BY DEF Event
<1>. QED BY <1>1, OptionHas DEF Device, EventSent

\* A source patch is a live event.
LEMMA PatchEventTyped ==
  ASSUME NEW c \in Candidate
  PROVE  [kind |-> "Patch", candidate |-> c] \in Event
BY DEF Event

-----------------------------------------------------------------------------
(* What the operators keep of the invariant. *)

\* None is no candidate, no generation that runs, no event and no name.
LEMMA NoneApart ==
  /\ \A c \in Candidate : c # None
  /\ \A r \in Running : r # None
  /\ \A e \in Event : e # None
  /\ \A t \in Token : t # None
BY NoneAssumption, BoundsAssumption DEF Token

\* A replaced scene leaves nothing to agree on.
LEMMA DroppedCoherent ==
  ASSUME NEW h \in Host, NEW d \in Device
  PROVE  Coherent(Dropped(h), [Emptied(d) EXCEPT !.running = None])
BY DEF Host, Device, Dropped, Abandoned, Emptied, Coherent, OneRequest, OneWay,
   OneTransaction, PatchAwaited, HandoffAwaited, Runs, RunsActive

\* The invariant does not read the fields these change.
LEMMA PausedCoherent ==
  ASSUME NEW h \in Host, NEW d \in Device, Coherent(h, d)
  PROVE  /\ Coherent(Paused(h), d)
         /\ Coherent([h EXCEPT !.fault = FALSE], d)
         /\ Coherent(Stepped(h), d)
         /\ Coherent([h EXCEPT !.pulses = @ - 1], d)
         /\ Coherent([h EXCEPT !.switches = @ - 1], d)
         /\ Coherent(Retimed(h), d)
<1>. USE DEF Host, Coherent, OneRequest, OneWay, PatchAwaited, HandoffAwaited, Runs,
        RunsActive, RunsTarget, RunsSource
<1>1. Coherent(Paused(h), d) BY DEF Paused
<1>2. Coherent([h EXCEPT !.fault = FALSE], d) OBVIOUS
<1>3. Coherent(Stepped(h), d) BY DEF Stepped
<1>4. Coherent([h EXCEPT !.pulses = @ - 1], d) OBVIOUS
<1>5. Coherent([h EXCEPT !.switches = @ - 1], d) OBVIOUS
<1>6. Coherent(Retimed(h), d) BY DEF Retimed
<1>. QED BY <1>1, <1>2, <1>3, <1>4, <1>5, <1>6

\* Clearing a failure keeps the invariant: what runs is the same, and an
\* event stranded goes on being in flight.
LEMMA ClearedCoherent ==
  ASSUME NEW h \in Host, NEW d \in Device, Coherent(h, d), d.running # None
  PROVE  Coherent(h, Cleared(d))
<1>1. d.running \in Running BY OptionSet DEF Device
<1>2. Cleared(d).running # None BY <1>1, NoneApart DEF Cleared, Running, Device
<1>. QED BY <1>1, <1>2 DEF Running, Cleared, Device, Coherent, OneTransaction, PatchAwaited, HandoffAwaited, Runs,
        RunsActive, RunsTarget, RunsSource

\* commit_in_place keeps the invariant: the host publishes what the device is
\* told it runs.
LEMMA NamedCoherent ==
  ASSUME NEW h \in Host, NEW d \in Device, NEW c \in Candidate,
         Coherent(h, d), h.requested = c.token, h.ready = c,
         h.uploading = None, h.packed = None, h.source_commit = None,
         h.uploaded # None
  PROVE  Coherent([h EXCEPT !.ready = None, !.active = c], Named(d, c))
<1>1. d.running \in Running
  BY OptionSet DEF Device, Coherent, Runs, RunsActive
<1>2. d.running # None BY <1>1, NoneApart
<1>3. [d.running EXCEPT !.candidate = c] \in Running BY <1>1 DEF Running
<1>4. [d.running EXCEPT !.candidate = c] # None BY <1>3, NoneApart
<1>. QED BY <1>1, <1>2, <1>4 DEF Host, Device, Running, Named, Coherent, OneRequest, OneWay,
     OneTransaction, PatchAwaited, HandoffAwaited, Runs, RunsActive

\* reject keeps the invariant once nothing is on its way to the device.
LEMMA RejectedCoherent ==
  ASSUME NEW h \in Host, NEW d \in Device, NEW c \in Candidate, Coherent(h, d),
         h.uploading = None, h.packed = None, h.source_commit = None
  PROVE  Coherent(Rejected(h, c), d)
BY DEF Host, Rejected, Coherent, OneRequest, OneWay, PatchAwaited, HandoffAwaited,
   Runs, RunsActive

\* request_runtime keeps the invariant: it forgets a ready candidate only
\* when nothing is on its way to the device.
LEMMA RequestedCoherent ==
  ASSUME NEW h \in Host, NEW d \in Device, NEW e \in Editor, Coherent(h, d),
         Unoccupied(h)
  PROVE  Coherent(Requested(h, e), d)
<1>1. CandidateFor(h, e).token = h.next BY DEF CandidateFor
<1>. QED BY <1>1 DEF Host, Requested, Unoccupied, Coherent, OneRequest, OneWay, PatchAwaited, HandoffAwaited,
   Runs, RunsActive

\* adapt keeps the invariant: it asks only when no candidate is ready, so
\* none is on its way to the device.
LEMMA AdaptedCoherent ==
  ASSUME NEW h \in Host, NEW d \in Device, Coherent(h, d), MayAdapt(h)
  PROVE  Coherent(Adapted(h), d)
<1>0. h.active \in Candidate BY OptionSet DEF Host, MayAdapt
<1>1. AdaptationOf(h).token = h.next BY <1>0 DEF AdaptationOf, Candidate
<1>. QED BY <1>1 DEF Host, Adapted, MayAdapt, Coherent, OneRequest, OneWay, PatchAwaited, HandoffAwaited,
   Runs, RunsActive

\* The end of a preparation keeps the invariant: none was ready while it ran.
LEMMA PreparedCoherent ==
  ASSUME NEW h \in Host, NEW d \in Device, Coherent(h, d), h.preparing # None
  PROVE  Coherent(Prepared(h), d) /\ Coherent(Unprepared(h), d)
<1>1. Coherent(Prepared(h), d)
BY DEF Host, Prepared, Coherent, OneRequest, OneWay, PatchAwaited, HandoffAwaited,
   Runs, RunsActive, RunsTarget, RunsSource
<1>2. Coherent(Unprepared(h), d)
BY DEF Host, Unprepared, Coherent, OneRequest, OneWay, PatchAwaited, HandoffAwaited,
   Runs, RunsActive, RunsTarget, RunsSource
<1>. QED BY <1>1, <1>2

\* Packing the ready candidate, and dropping a pack, keep the invariant.
LEMMA PackedCoherent ==
  ASSUME NEW h \in Host, NEW d \in Device, Coherent(h, d)
  PROVE  /\ Coherent(Unpacked(h), d)
         /\ Unoccupied(h) => Coherent(Packed(h), d)
BY DEF Host, Packed, Unpacked, Unoccupied, Coherent, OneRequest, OneWay, PatchAwaited, HandoffAwaited,
   Runs, RunsActive, RunsTarget, RunsSource

\* An install of the packed candidate keeps the invariant: the device runs
\* the target at once.
LEMMA InstalledCoherent ==
  ASSUME NEW h \in Host, NEW d \in Device, NEW c \in Candidate, Coherent(h, d),
         h.packed = c, h.uploading = None
  PROVE  Coherent([h EXCEPT
                        !.packed = None,
                        !.uploaded = c.token,
                        !.uploading = UploadOf(c, NextGeneration(d.generation))],
                  Installed(d, c))
<1>1. NextGeneration(d.generation) \in Generation BY NextGenerationTyped DEF Device
<1>2. [candidate |-> c, step |-> c.token,
                  ready |-> FALSE, failed |-> FALSE, caught_up |-> TRUE] # None
  BY NoneApart DEF Running, Candidate
<1>. QED BY <1>1, <1>2, UploadOfTyped, NoneApart DEF Host, Device, Installed, Emptied, Coherent, OneRequest, OneWay,
   OneTransaction, PatchAwaited, HandoffAwaited, Runs, RunsTarget

\* A handoff of the packed candidate keeps the invariant if no live event is
\* in flight: the device runs the source until it settles.
LEMMA HandedCoherent ==
  ASSUME NEW h \in Host, NEW d \in Device, NEW c \in Candidate, Coherent(h, d),
         h.packed = c, h.uploading = None, h.active # None, d.event = None
  PROVE  Coherent([h EXCEPT
                        !.packed = None,
                        !.uploading = UploadOf(c, NextGeneration(d.generation))],
                  [d EXCEPT !.handoff = c, !.refused = FALSE])
<1>1. NextGeneration(d.generation) \in Generation BY NextGenerationTyped DEF Device
<1>. QED BY <1>1, UploadOfTyped, NoneApart DEF Host, Device, Coherent, OneRequest, OneWay,
   OneTransaction, PatchAwaited, HandoffAwaited, Runs, RunsSource, RunsActive

\* Reading the answer to a source patch keeps the invariant.
LEMMA PatchReadCoherent ==
  ASSUME NEW h \in Host, NEW d \in Device, Coherent(h, d), h.source_commit # None
  PROVE  Coherent([h EXCEPT !.source_commit = None], [d EXCEPT !.patched = None])
BY DEF Host, Device, Coherent, OneRequest, OneWay, OneTransaction, PatchAwaited, HandoffAwaited,
   Runs, RunsActive

\* Sending a source patch keeps the invariant on a device with no handoff.
LEMMA PatchSentCoherent ==
  ASSUME NEW h \in Host, NEW d \in Device, Coherent(h, d), Unoccupied(h), h.ready \in Candidate,
     h.uploaded # None, d.handoff = None
  PROVE  Coherent([h EXCEPT !.source_commit = h.ready],
                  [d EXCEPT !.event = [kind |-> "Patch", candidate |-> h.ready],
                            !.patched = None])
<1>1. [kind |-> "Patch", candidate |-> h.ready] # None BY NoneApart DEF Event
<1>. QED BY <1>1, NoneApart
   DEF Host, Device, Unoccupied, Coherent, OneRequest, OneWay, OneTransaction, PatchAwaited,
   HandoffAwaited, Runs, RunsActive

\* Sending a pulse or a press keeps the invariant on a device with no handoff
\* and no event.
LEMMA EventSentCoherent ==
  ASSUME NEW h \in Host, NEW d \in Device, Coherent(h, d), NEW kind \in {"Pulse", "Switch"},
     d.running # None, d.handoff = None, d.event = None
  PROVE  /\ h.uploading = None /\ h.source_commit = None => Coherent(h, EventSent(d, kind))
BY DEF Device, EventSent, Coherent, OneTransaction, PatchAwaited, HandoffAwaited, Runs, RunsActive

\* Publishing an upload neither refused nor pending keeps the invariant: the
\* device runs its target.
LEMMA PublishedCoherent ==
  ASSUME NEW h \in Host, NEW d \in Device, NEW c \in Candidate, Coherent(h, d),
         h.uploading # None, h.uploading.candidate = c, ~d.refused, d.handoff = None
  PROVE  Coherent(Published(h, c), d)
<1>1. RunsTarget(h, d) BY DEF Coherent, Runs, RunsSource
<1>2. h.ready = c /\ h.requested = c.token /\ h.source_commit = None /\ h.packed = None
   BY NoneApart DEF Coherent, OneWay, OneRequest
<1>. QED BY <1>1, <1>2, NoneApart
   DEF Host, Published, Coherent, OneRequest, OneWay, OneTransaction, PatchAwaited,
   HandoffAwaited, Runs, RunsActive, RunsTarget

\* Withdrawing an upload the device does not run keeps the invariant: it runs
\* the source.
LEMMA WithdrawnCoherent ==
  ASSUME NEW h \in Host, NEW d \in Device, NEW c \in Candidate, Coherent(h, d),
         h.uploading # None, d.generation \in Generation,
         d.refused \/ d.generation # h.uploading.generation
  PROVE  Coherent(UploadOver(h), Withdrawn(d))
<1>1. RunsSource(h, d) BY DEF Coherent, Runs, RunsTarget
<1>. QED BY <1>1
   DEF Host, Device, UploadOver, Withdrawn, Coherent, OneRequest, OneWay, OneTransaction, PatchAwaited,
   HandoffAwaited, Runs, RunsSource, RunsActive
\* Giving up a refused upload keeps the invariant: the device runs the
\* source.
LEMMA RefusedCoherent ==
  ASSUME NEW h \in Host, NEW d \in Device, Coherent(h, d),
         h.uploading # None, d.refused
  PROVE  Coherent(UploadOver(h), d)
<1>1. RunsSource(h, d) BY DEF Coherent, Runs, RunsTarget
<1>. QED BY <1>1
   DEF Host, Device, UploadOver, Coherent, OneRequest, OneWay, OneTransaction, PatchAwaited,
   HandoffAwaited, Runs, RunsSource, RunsActive

\* Reset keeps the invariant: it installs the active topology when nothing is
\* on its way but a pack, which it drops.
LEMMA ResetCoherent ==
  ASSUME NEW h \in Host, NEW d \in Device, Coherent(h, d), ResetMayApply(h)
  PROVE  Coherent([h EXCEPT
                             !.packed = None, !.reset = FALSE,
                             !.uploaded = h.active.token,
                             !.pulses = 0, !.switches = 0], Installed(d, h.active))
<1>0. h.active \in Candidate BY OptionSet DEF Host, ResetMayApply
<1>2. [candidate |-> h.active, step |-> h.active.token,
                  ready |-> FALSE, failed |-> FALSE, caught_up |-> TRUE] # None
  BY <1>0, NoneApart DEF Running, Candidate
<1>. QED BY <1>2, NoneApart DEF ResetMayApply, Host, Device, Installed, Emptied, Coherent, OneRequest, OneWay,
   OneTransaction, PatchAwaited, HandoffAwaited, Runs, RunsActive

\* Asking for steps keeps the invariant.
LEMMA LeftBehindCoherent ==
  ASSUME NEW h \in Host, NEW d \in Device, Coherent(h, d), d.running # None
  PROVE  Coherent(h, LeftBehind(d))
<1>1. d.running \in Running BY OptionSet DEF Device
<1>2. LeftBehind(d).running # None BY <1>1, NoneApart DEF LeftBehind, Running, Device
<1>. QED BY <1>1, <1>2 DEF Running, LeftBehind, Device, Coherent, OneTransaction, PatchAwaited, HandoffAwaited, Runs,
        RunsActive, RunsTarget, RunsSource

-----------------------------------------------------------------------------
(* What the blocks of a frame leave. *)

\* What a good state gives.
LEMMA GoodParts ==
  ASSUME NEW s, Good(s)
  PROVE  /\ s \in States
         /\ s.host \in Host /\ s.device \in Device /\ s.editor \in Editor
         /\ Coherent(s.host, s.device)
BY Parts DEF Good

\* A good state with another host is good if host and device agree.
LEMMA GoodHost ==
  ASSUME NEW s, Good(s), NEW h \in Host, Coherent(h, s.device)
  PROVE  Good(OnHost(s, h))
BY OnHostIs DEF Good

\* A good state with another device is good if host and device agree.
LEMMA GoodDevice ==
  ASSUME NEW s, Good(s), NEW d \in Device, Coherent(s.host, d)
  PROVE  Good(OnDevice(s, d))
BY OnDeviceIs DEF Good

\* A good state with another host and device is good if they agree.
LEMMA GoodBoth ==
  ASSUME NEW s, Good(s), NEW h \in Host, NEW d \in Device, Coherent(h, d)
  PROVE  Good(OnDevice(OnHost(s, h), d))
<1>1. OnHost(s, h) \in States /\ OnHost(s, h).host = h BY OnHostIs DEF Good
<1>. QED BY <1>1, OnDeviceIs DEF Good

\* The host of a state whose host and device were replaced.
LEMMA BothHost ==
  ASSUME NEW s \in States, NEW h \in Host, NEW d \in Device
  PROVE  OnDevice(OnHost(s, h), d).host = h
<1>1. OnHost(s, h) \in States /\ OnHost(s, h).host = h BY OnHostIs
<1>. QED BY <1>1, OnDeviceIs

\* The block that drops a replaced scene leaves a good state.
LEMMA DropReplacedGood ==
  ASSUME NEW s, Good(s)
  PROVE  Good(DropReplaced(s))
BY GoodParts, GoodBoth, DroppedTyped, EmptiedTyped, DroppedCoherent DEF DropReplaced

\* Rejecting a candidate that is not on its way leaves a good state.
LEMMA RejectedGood ==
  ASSUME NEW s, Good(s), NEW c \in Candidate,
         s.host.uploading = None, s.host.packed = None, s.host.source_commit = None
  PROVE  Good(OnHost(s, Rejected(s.host, c)))
BY GoodParts, GoodHost, RejectedTyped, RejectedCoherent

\* Committing in place leaves a good state.
LEMMA CommitInPlaceGood ==
  ASSUME NEW s, Good(s), NEW c \in Candidate,
         s.host.uploading = None, s.host.packed = None,
         s.host.source_commit = None, s.host.uploaded # None
  PROVE  Good(CommitInPlace(s, c))
<1>1. s.host \in Host /\ s.device \in Device BY GoodParts
<1>2. [s.host EXCEPT !.ready = None, !.active = c] \in Host
  BY <1>1, OptionHas DEF Host
<1>. QED BY <1>1, <1>2, GoodParts, GoodBoth, NamedTyped, NamedCoherent DEF CommitInPlace

\* The block that reads a source patch's answer leaves a good state.
LEMMA FinishSourceCommitGood ==
  ASSUME NEW s, Good(s)
  PROVE  Good(FinishSourceCommit(s))
<1>. SUFFICES ASSUME s.host.source_commit # None, s.device.patched # None
              PROVE  Good(FinishSourceCommit(s))
  BY DEF FinishSourceCommit
<1>. DEFINE c == s.host.source_commit
            h == [s.host EXCEPT !.source_commit = None]
            d == [s.device EXCEPT !.patched = None]
            t == OnDevice(OnHost(s, h), d)
<1>1. c \in Candidate BY GoodParts, OptionSet DEF Host
<1>2. /\ h.source_commit = None
      /\ h.uploading = None /\ h.packed = None /\ h.uploaded # None
  BY GoodParts DEF Host, Coherent, OneWay, PatchAwaited
<1>3. h \in Host /\ d \in Device
  BY GoodParts, HostStepsTyped, DeviceStepsTyped
<1>4. Coherent(h, d) BY GoodParts, PatchReadCoherent
<1>5. CASE s.device.patched = "Taken"
  <2>1. Good(t) BY <1>3, <1>4, GoodBoth
  <2>2. t.host = h BY <1>3, GoodParts, BothHost
  <2>3. Good(CommitInPlace(t, c)) BY <1>1, <1>2, <2>1, <2>2, CommitInPlaceGood
  <2>. QED BY <1>5, <2>3 DEF FinishSourceCommit
<1>6. CASE s.device.patched # "Taken"
  <2>1. Rejected(h, c) \in Host BY <1>1, <1>3, RejectedTyped
  <2>2. Coherent(Rejected(h, c), d) BY <1>1, <1>2, <1>3, <1>4, RejectedCoherent
  <2>3. Good(OnDevice(OnHost(s, Rejected(h, c)), d)) BY <1>3, <2>1, <2>2, GoodBoth
  <2>. QED BY <1>6, <2>3 DEF FinishSourceCommit
<1>. QED BY <1>5, <1>6

\* Clearing a failure leaves a good state.
LEMMA FailureClearedGood ==
  ASSUME NEW s, Good(s), Failed(s.device)
  PROVE  Good(FailureCleared(s))
<1>1. s.host \in Host /\ s.device \in Device /\ Coherent(s.host, s.device)
  BY GoodParts
<1>2. s.device.running # None BY DEF Failed
<1>. DEFINE h == [s.host EXCEPT !.fault = FALSE]
<1>3. h \in Host /\ Coherent(h, s.device) BY <1>1, PausedTyped, PausedCoherent
<1>4. Cleared(s.device) \in Device /\ Coherent(h, Cleared(s.device))
  BY <1>1, <1>2, <1>3, ClearedTyped, ClearedCoherent
<1>. QED BY <1>3, <1>4, GoodBoth DEF FailureCleared

\* The block that supervises a failure leaves a good state.
LEMMA SuperviseGood ==
  ASSUME NEW s, Good(s)
  PROVE  Good(Supervise(s))
<1>1. s.host \in Host /\ s.device \in Device /\ Coherent(s.host, s.device)
  BY GoodParts
<1>2. Good(OnHost(s, [s.host EXCEPT !.fault = FALSE]))
  BY <1>1, GoodHost, PausedTyped, PausedCoherent
<1>3. Good(OnHost(s, Paused(s.host)))
  BY <1>1, GoodHost, PausedTyped, PausedCoherent
<1>. QED BY <1>2, <1>3, FailureClearedGood DEF Supervise, SuperviseFault

\* The block that asks for a candidate leaves good states.
LEMMA RequestShareGood ==
  ASSUME NEW s, Good(s), NEW fair, NEW t \in RequestShare(s, fair)
  PROVE  Good(t)
<1>1. s.host \in Host /\ s.device \in Device /\ s.editor \in Editor
      /\ Coherent(s.host, s.device)
  BY GoodParts
<1>2. CASE ~Unoccupied(s.host) BY <1>2 DEF RequestShare
<1>3. CASE Unoccupied(s.host)
  <2>1. Good(OnHost(s, Requested(s.host, s.editor)))
    BY <1>1, <1>3, GoodHost, RequestedTyped, RequestedCoherent
  <2>2. Retimed(s.host) \in Host /\ Coherent(Retimed(s.host), s.device)
    BY <1>1, HostStepsTyped, PausedCoherent
  <2>3. Unoccupied(Retimed(s.host)) BY <1>1, <1>3 DEF Unoccupied, Retimed, Host
  <2>4. Good(OnHost(s, Requested(Retimed(s.host), s.editor)))
    BY <1>1, <2>2, <2>3, GoodHost, RequestedTyped, RequestedCoherent
  <2>. QED BY <1>3, <2>1, <2>4 DEF RequestShare, Outcomes
<1>. QED BY <1>2, <1>3

\* Preparation's share of a frame leaves good states.
LEMMA PreparationShareGood ==
  ASSUME NEW s, Good(s), NEW fair, NEW t \in PreparationShare(s, fair)
  PROVE  Good(t)
<1>1. CASE s.host.preparing = None BY <1>1 DEF PreparationShare
<1>2. CASE s.host.preparing # None
  <2>1. /\ Good(OnHost(s, Prepared(s.host)))
        /\ Good(OnHost(s, Unprepared(s.host)))
    BY <1>2, GoodParts, GoodHost, HostStepsTyped, PreparedCoherent
  <2>. QED BY <1>2, <2>1 DEF PreparationShare, Outcomes
<1>. QED BY <1>1, <1>2

\* The block that drops a stale pack leaves a good state.
LEMMA DropStalePackGood ==
  ASSUME NEW s, Good(s)
  PROVE  Good(DropStalePack(s))
BY GoodParts, GoodHost, HostStepsTyped, PackedCoherent DEF DropStalePack

\* Packing the ready candidate leaves a good state.
LEMMA PackedGood ==
  ASSUME NEW s, Good(s), Unoccupied(s.host)
  PROVE  Good(OnHost(s, Packed(s.host)))
BY GoodParts, GoodHost, HostStepsTyped, PackedCoherent

\* Sending a source patch leaves a good state.
LEMMA PatchSentGood ==
  ASSUME NEW s, Good(s), Unoccupied(s.host), s.host.ready # None,
         s.host.uploaded # None, s.device.handoff = None
  PROVE  Good(PatchSent(s))
<1>1. s.host \in Host /\ s.device \in Device /\ Coherent(s.host, s.device)
  BY GoodParts
<1>2. s.host.ready \in Candidate BY <1>1, OptionSet DEF Host
<1>. DEFINE h == [s.host EXCEPT !.source_commit = s.host.ready]
            d == [s.device EXCEPT
                    !.event = [kind |-> "Patch", candidate |-> s.host.ready],
                    !.patched = None]
<1>3. h \in Host BY <1>1, HostStepsTyped
<1>4. d \in Device BY <1>1, <1>2, PatchEventTyped, OptionHas DEF Device
<1>5. Coherent(h, d) BY <1>1, <1>2, PatchSentCoherent
<1>. QED BY <1>3, <1>4, <1>5, GoodBoth DEF PatchSent

\* Offering a source patch, whatever the answer, leaves a good state.
LEMMA PatchSourcesGood ==
  ASSUME NEW s, Good(s), Unoccupied(s.host), s.host.ready # None,
         s.host.uploaded # None, NEW carriage \in Carriages
  PROVE  Good(PatchSources(s, carriage))
<1>1. s.host.ready \in Candidate BY GoodParts, OptionSet DEF Host
<1>2. Good(OnHost(s, Rejected(s.host, s.host.ready)))
  BY <1>1, RejectedGood DEF Unoccupied
<1>3. Good(OnHost(s, Packed(s.host))) BY PackedGood
<1>4. ASSUME Offer(s.device, carriage.built) = "Taken"
      PROVE  s.device.handoff = None
  BY <1>4 DEF Offer
<1>5. CASE Offer(s.device, carriage.built) = "Taken"
  BY <1>4, <1>5, PatchSentGood DEF PatchSources
<1>6. CASE Offer(s.device, carriage.built) # "Taken"
  BY <1>2, <1>3, <1>6 DEF PatchSources, LiveEventFallback
<1>. QED BY <1>5, <1>6

\* The block that carries a ready candidate leaves good states.
LEMMA CarryReadyGood ==
  ASSUME NEW s, Good(s), NEW t \in CarryReady(s)
  PROVE  Good(t)
<1>1. CASE ~Unoccupied(s.host) \/ s.host.ready = None
  BY <1>1 DEF CarryReady
<1>2. CASE Unoccupied(s.host) /\ s.host.ready # None
  <2>1. PICK carriage \in Carriages : t = CarriedAs(s, carriage)
    BY <1>2 DEF CarryReady
  <2>2. s.host.ready \in Candidate BY <1>2, GoodParts, OptionSet DEF Host
  <2>3. CASE s.host.uploaded # None
    <3>1. Good(CommitInPlace(s, s.host.ready))
      BY <1>2, <2>2, <2>3, CommitInPlaceGood DEF Unoccupied
    <3>2. Good(PatchSources(s, carriage)) BY <1>2, <2>3, PatchSourcesGood
    <3>. QED BY <1>2, <2>1, <3>1, <3>2, PackedGood DEF CarriedAs, Carry
  <2>4. CASE s.host.uploaded = None
    BY <1>2, <2>1, <2>4, PackedGood DEF CarriedAs, Carry
  <2>. QED BY <2>3, <2>4
<1>. QED BY <1>1, <1>2

\* Beginning the upload of a packed candidate leaves good states.
LEMMA UploadPackedGood ==
  ASSUME NEW s, Good(s), s.host.packed # None, NEW fair,
         NEW t \in UploadPacked(s, fair)
  PROVE  Good(t)
<1>1. s.host \in Host /\ s.device \in Device /\ Coherent(s.host, s.device)
  BY GoodParts
<1>. DEFINE c == s.host.packed
            g == NextGeneration(s.device.generation)
<1>2. c \in Candidate BY <1>1, OptionSet DEF Host
<1>3. s.host.uploading = None /\ s.host.source_commit = None
  BY <1>1 DEF Coherent, OneWay
<1>4. g \in Generation BY <1>1, NextGenerationTyped DEF Device
<1>5. UploadOf(c, g) \in Upload /\ c.token \in Token
  BY <1>2, <1>4, UploadOfTyped DEF Candidate
<1>6. Good(InstallUpload(s, c))
  <2>. DEFINE h == [s.host EXCEPT !.packed = None, !.uploaded = c.token,
                                  !.uploading = UploadOf(c, g)]
  <2>1. h \in Host BY <1>1, <1>5, OptionHas DEF Host
  <2>2. Installed(s.device, c) \in Device BY <1>1, <1>2, InstalledTyped
  <2>3. Coherent(h, Installed(s.device, c))
    BY <1>1, <1>2, <1>3, InstalledCoherent
  <2>. QED BY <2>1, <2>2, <2>3, GoodBoth DEF InstallUpload
<1>7. ASSUME s.device.event = None, s.host.active # None
      PROVE  Good(HandOff(s, c))
  <2>. DEFINE h == [s.host EXCEPT !.packed = None, !.uploading = UploadOf(c, g)]
              d == [s.device EXCEPT !.handoff = c, !.refused = FALSE]
  <2>1. h \in Host BY <1>1, <1>5, OptionHas DEF Host
  <2>2. d \in Device BY <1>1, <1>2, HandedTyped
  <2>3. Coherent(h, d) BY <1>1, <1>2, <1>3, <1>7, HandedCoherent
  <2>. QED BY <2>1, <2>2, <2>3, GoodBoth DEF HandOff
<1>8. Good(OnHost(s, Rejected(Unpacked(s.host), c)))
  <2>1. Unpacked(s.host) \in Host /\ Coherent(Unpacked(s.host), s.device)
    BY <1>1, HostStepsTyped, PackedCoherent
  <2>2. /\ Unpacked(s.host).packed = None
        /\ Unpacked(s.host).uploading = None
        /\ Unpacked(s.host).source_commit = None
    BY <1>1, <1>3 DEF Unpacked, Host
  <2>. QED BY <1>1, <1>2, <2>1, <2>2, GoodHost, RejectedTyped, RejectedCoherent
<1>9. CASE s.device.event # None
  BY <1>9 DEF UploadPacked, UploadMayBegin
<1>10. CASE s.device.event = None
  BY <1>6, <1>7, <1>8, <1>10 DEF UploadPacked, UploadMayBegin, Outcomes
<1>. QED BY <1>9, <1>10

\* The block that begins an upload leaves good states.
LEMMA BeginUploadGood ==
  ASSUME NEW s, Good(s), NEW fair, NEW t \in BeginUpload(s, fair)
  PROVE  Good(t)
<1>1. CASE ~PackedAtDevice(s) BY <1>1 DEF BeginUpload
<1>2. CASE PackedAtDevice(s)
  <2>1. Good(ReadyForUpload(s)) BY FailureClearedGood DEF ReadyForUpload
  <2>2. ReadyForUpload(s).host.packed # None
    <3>1. CASE Failed(s.device)
      <4>1. [s.host EXCEPT !.fault = FALSE].packed = s.host.packed
        BY GoodParts DEF Host
      <4>2. FailureCleared(s).host = [s.host EXCEPT !.fault = FALSE]
        BY <3>1, GoodParts, PausedTyped, ClearedTyped, BothHost
           DEF FailureCleared
      <4>. QED BY <1>2, <3>1, <4>1, <4>2 DEF ReadyForUpload, PackedAtDevice
    <3>2. CASE ~Failed(s.device) BY <1>2, <3>2 DEF ReadyForUpload, PackedAtDevice
    <3>. QED BY <3>1, <3>2
  <2>. QED BY <1>2, <2>1, <2>2, UploadPackedGood DEF BeginUpload
<1>. QED BY <1>1, <1>2

\* The block that settles an upload leaves a good state: it withdraws and
\* refuses only what the device does not run, and publishes only what it
\* does.
LEMMA SettledGood ==
  ASSUME NEW s, Good(s)
  PROVE  Good(SettleInFlight(s))
<1>. SUFFICES ASSUME s.host.uploading # None PROVE Good(Settled(s))
  BY DEF SettleInFlight
<1>1. s.host \in Host /\ s.device \in Device /\ Coherent(s.host, s.device)
  BY GoodParts
<1>. DEFINE c == s.host.uploading.candidate
            h == UploadOver(s.host)
<1>2. c \in Candidate BY <1>1, OptionSet DEF Host, Upload
<1>3. /\ s.host.source_commit = None /\ s.host.packed = None
      /\ s.device.generation \in Generation
  BY <1>1 DEF Coherent, OneWay, Device
<1>4. h \in Host /\ h.uploading = None /\ h.packed = None /\ h.source_commit = None
  BY <1>1, <1>3, HostStepsTyped DEF Host, UploadOver
<1>5. Rejected(h, c) \in Host BY <1>2, <1>4, RejectedTyped
<1>6. ASSUME s.device.generation # s.host.uploading.generation
      PROVE  Good(OnDevice(OnHost(s, Rejected(h, c)), Withdrawn(s.device)))
  <2>1. Withdrawn(s.device) \in Device BY <1>1, DeviceStepsTyped
  <2>2. Coherent(h, Withdrawn(s.device))
    BY <1>1, <1>2, <1>3, <1>6, WithdrawnCoherent
  <2>3. Coherent(Rejected(h, c), Withdrawn(s.device))
    BY <1>2, <1>4, <2>1, <2>2, RejectedCoherent
  <2>. QED BY <1>5, <2>1, <2>3, GoodBoth
<1>7. ASSUME s.device.refused PROVE Good(OnHost(s, Rejected(h, c)))
  <2>1. Coherent(h, s.device) BY <1>1, <1>7, RefusedCoherent
  <2>2. Coherent(Rejected(h, c), s.device)
    BY <1>1, <1>2, <1>4, <2>1, RejectedCoherent
  <2>. QED BY <1>5, <2>2, GoodHost
<1>8. ASSUME ~s.device.refused, s.device.handoff = None
      PROVE  Good(OnHost(s, Published(s.host, c)))
  BY <1>1, <1>2, <1>8, PublishedTyped, PublishedCoherent, GoodHost
<1>. QED BY <1>6, <1>7, <1>8 DEF Settled, SettleUpload

\* The block that applies Reset leaves a good state.
LEMMA ApplyResetGood ==
  ASSUME NEW s, Good(s)
  PROVE  Good(ApplyReset(s))
<1>. SUFFICES ASSUME ResetMayApply(s.host) PROVE Good(ApplyReset(s))
  BY DEF ApplyReset
<1>1. s.host \in Host /\ s.device \in Device /\ Coherent(s.host, s.device)
  BY GoodParts
<1>2. s.host.active \in Candidate BY <1>1, OptionSet DEF Host, ResetMayApply
<1>. DEFINE h == [s.host EXCEPT !.packed = None, !.reset = FALSE,
                                !.uploaded = s.host.active.token,
                                !.pulses = 0, !.switches = 0]
<1>3. h \in Host BY <1>1, <1>2, OptionHas, ZeroCounts DEF Host, Candidate
<1>4. Installed(s.device, s.host.active) \in Device
  BY <1>1, <1>2, InstalledTyped
<1>5. Coherent(h, Installed(s.device, s.host.active))
  BY <1>1, ResetCoherent
<1>. QED BY <1>3, <1>4, <1>5, GoodBoth DEF ApplyReset

\* Offering a waiting event leaves a good state.
LEMMA SentGood ==
  ASSUME NEW s, Good(s), NEW kind \in {"Pulse", "Switch"}, NEW built,
         NEW h \in Host, Coherent(h, s.device), h.uploading = None,
         h.source_commit = None
  PROVE  Good(Sent(s, kind, h, built))
<1>1. ASSUME Offer(s.device, built) = "Taken"
      PROVE  Good(OnDevice(OnHost(s, h), EventSent(s.device, kind)))
  <2>1. /\ s.device.running # None /\ s.device.handoff = None
        /\ s.device.event = None
    BY <1>1 DEF Offer
  <2>2. s.device \in Device BY GoodParts
  <2>3. EventSent(s.device, kind) \in Device BY <2>2, EventSentTyped
  <2>4. Coherent(h, EventSent(s.device, kind))
    BY <2>1, <2>2, EventSentCoherent
  <2>. QED BY <2>3, <2>4, GoodBoth
<1>. QED BY <1>1, GoodHost DEF Sent, LiveEventFallback

\* The block that sends a pulse leaves good states.
LEMMA SendPulseGood ==
  ASSUME NEW s, Good(s), NEW fair, NEW t \in SendPulse(s, fair)
  PROVE  Good(t)
<1>. SUFFICES ASSUME MaySend(s.host), s.host.pulses # 0 PROVE Good(t)
  BY DEF SendPulse
<1>1. s.host \in Host /\ s.device \in Device /\ Coherent(s.host, s.device)
  BY GoodParts
<1>. DEFINE h == [s.host EXCEPT !.pulses = @ - 1]
<1>2. s.host.pulses - 1 \in Pulses BY <1>1, BoundsAssumption DEF Host, Pulses
<1>3. h \in Host BY <1>1, <1>2 DEF Host
<1>4. Coherent(h, s.device) BY <1>1, PausedCoherent
<1>5. h.uploading = None /\ h.source_commit = None
  BY <1>1 DEF Host, MaySend
<1>6. \A built \in BOOLEAN : Good(Sent(s, "Pulse", h, built))
  BY <1>3, <1>4, <1>5, SentGood
<1>. QED BY <1>6 DEF SendPulse, Outcomes

\* The block that sends a press leaves good states.
LEMMA SendSwitchGood ==
  ASSUME NEW s, Good(s), NEW fair, NEW t \in SendSwitch(s, fair)
  PROVE  Good(t)
<1>. SUFFICES ASSUME MaySend(s.host), s.host.switches # 0 PROVE Good(t)
  BY DEF SendSwitch
<1>1. s.host \in Host /\ s.device \in Device /\ Coherent(s.host, s.device)
  BY GoodParts
<1>. DEFINE h == [s.host EXCEPT !.switches = @ - 1]
<1>2. s.host.switches - 1 \in Switches BY <1>1, BoundsAssumption DEF Host, Switches
<1>3. h \in Host BY <1>1, <1>2 DEF Host
<1>4. Coherent(h, s.device) BY <1>1, PausedCoherent
<1>5. h.uploading = None /\ h.source_commit = None
  BY <1>1 DEF Host, MaySend
<1>6. \A built \in BOOLEAN : Good(Sent(s, "Switch", h, built))
  BY <1>3, <1>4, <1>5, SentGood
<1>. QED BY <1>6 DEF SendSwitch, Outcomes

\* The block that asks for steps leaves good states.
LEMMA TakeStepsGood ==
  ASSUME NEW s, Good(s), NEW fair, NEW t \in TakeSteps(s, fair)
  PROVE  Good(t)
<1>1. s.host \in Host /\ s.device \in Device /\ Coherent(s.host, s.device)
  BY GoodParts
<1>2. Stepped(s.host) \in Host /\ Coherent(Stepped(s.host), s.device)
  BY <1>1, HostStepsTyped, PausedCoherent
<1>3. Good(OnHost(s, Stepped(s.host))) BY <1>2, GoodHost
<1>4. ASSUME s.device.running # None
      PROVE  Good(OnDevice(OnHost(s, Stepped(s.host)), LeftBehind(s.device)))
  BY <1>1, <1>2, <1>4, LeftBehindTyped, LeftBehindCoherent, GoodBoth
<1>. QED BY <1>3, <1>4 DEF TakeSteps, Outcomes

\* Adaptation's request leaves good states.
LEMMA AdaptShareGood ==
  ASSUME NEW s, Good(s), NEW fair, NEW t \in AdaptShare(s, fair)
  PROVE  Good(t)
<1>1. ASSUME MayAdapt(s.host) PROVE Good(OnHost(s, Adapted(s.host)))
  BY <1>1, GoodParts, GoodHost, AdaptedTyped, AdaptedCoherent
<1>. QED BY <1>1 DEF AdaptShare, Outcomes

\* A document whose validation ended is a document.
LEMMA ValidatedTyped ==
  ASSUME NEW e \in Editor, NEW inputs \in Inputs
  PROVE  Validated(e, inputs) \in Editor
BY DEF Editor, Validated, Acceptances

\* The block that ends a validation leaves good states.
LEMMA ValidationShareGood ==
  ASSUME NEW s, Good(s), NEW fair, NEW t \in ValidationShare(s, fair)
  PROVE  Good(t)
<1>1. \A e \in Editor : Good([s EXCEPT !.editor = e])
  BY GoodParts DEF Good, States
<1>2. s.editor \in Editor /\ s.editor.inputs \in Inputs
  BY GoodParts DEF Editor
<1>. QED BY <1>1, <1>2, ValidatedTyped DEF ValidationShare, Outcomes

-----------------------------------------------------------------------------
(* The steps. *)

\* The record the blocks work on is the variables.
LEMMA StateIs ==
  /\ State.editor = editor /\ State.host = host /\ State.device = device
  /\ TypeOK <=> State \in States
BY DEF State, States, TypeOK

\* A step to a good state establishes the invariant.
LEMMA BecomeGood ==
  ASSUME NEW s, Good(s), Become(s)
  PROVE  InductiveInvariant'
<1>1. s.host \in Host /\ s.device \in Device /\ s.editor \in Editor
      /\ Coherent(s.host, s.device)
  BY GoodParts
<1>2. editor' = s.editor /\ host' = s.host /\ device' = s.device
  BY DEF Become
<1>. QED BY <1>1, <1>2 DEF InductiveInvariant, Good, States, State

\* A scene just opened satisfies the invariant.
LEMMA InitGood == Init => InductiveInvariant
<1>. SUFFICES ASSUME Init PROVE InductiveInvariant OBVIOUS
<1>1. editor \in Editor BY DEF Init, Editor, Acceptances
<1>2. host \in Host
  BY ZeroCounts, BoundsAssumption, OptionHas DEF Init, Host
<1>3. 0 \in Generation BY BoundsAssumption DEF Generation
<1>4. device \in Device BY <1>3, OptionHas DEF Init, Device
<1>5. Coherent(host, device)
  BY DEF Init, Coherent, OneRequest, OneWay, OneTransaction, PatchAwaited,
     HandoffAwaited, Runs, RunsActive
<1>. QED BY <1>1, <1>2, <1>4, <1>5, StateIs DEF InductiveInvariant, Good, States, State

\* A frame's first blocks leave good states.
LEMMA CarriedGood ==
  ASSUME NEW s, Good(s), NEW fair, NEW t \in Carried(s, fair)
  PROVE  Good(t)
<1>1. PICK v \in ValidationShare(s, fair) :
      \E r \in RequestShare(Supervise(FinishSourceCommit(DropReplaced(v))), fair) :
      \E p \in PreparationShare(r, fair) : t \in CarryReady(DropStalePack(p))
  BY DEF Carried
<1>2. PICK r \in RequestShare(Supervise(FinishSourceCommit(DropReplaced(v))), fair) :
      \E p \in PreparationShare(r, fair) : t \in CarryReady(DropStalePack(p))
  BY <1>1
<1>3. PICK p \in PreparationShare(r, fair) : t \in CarryReady(DropStalePack(p))
  BY <1>2
<1>4. Good(v) BY ValidationShareGood
<1>5. Good(Supervise(FinishSourceCommit(DropReplaced(v))))
  BY <1>4, DropReplacedGood, FinishSourceCommitGood, SuperviseGood
<1>6. Good(r) BY <1>5, RequestShareGood
<1>7. Good(p) BY <1>6, PreparationShareGood
<1>8. Good(DropStalePack(p)) BY <1>7, DropStalePackGood
<1>. QED BY <1>3, <1>8, CarryReadyGood

\* A frame's last blocks leave good states.
LEMMA UploadedGood ==
  ASSUME NEW s, Good(s), NEW fair, NEW t \in Uploaded(s, fair)
  PROVE  Good(t)
<1>1. CASE PackAbandoned(s)
  <2>1. Good(OnHost(s, Unpacked(s.host)))
    BY GoodParts, GoodHost, HostStepsTyped, PackedCoherent
  <2>. QED BY <1>1, <2>1 DEF Uploaded
<1>2. CASE ~PackAbandoned(s)
  <2>1. PICK b \in BeginUpload(s, fair) :
        \E p \in SendPulse(ApplyReset(SettleInFlight(b)), fair) :
        \E w \in SendSwitch(p, fair) : t \in TakeSteps(w, fair)
    BY <1>2 DEF Uploaded
  <2>2. PICK p \in SendPulse(ApplyReset(SettleInFlight(b)), fair) :
        \E w \in SendSwitch(p, fair) : t \in TakeSteps(w, fair)
    BY <2>1
  <2>3. PICK w \in SendSwitch(p, fair) : t \in TakeSteps(w, fair)
    BY <2>2
  <2>4. Good(b) BY BeginUploadGood
  <2>5. Good(ApplyReset(SettleInFlight(b))) BY <2>4, SettledGood, ApplyResetGood
  <2>6. Good(p) BY <2>5, SendPulseGood
  <2>7. Good(w) BY <2>6, SendSwitchGood
  <2>. QED BY <2>3, <2>7, TakeStepsGood
<1>. QED BY <1>1, <1>2

\* A frame keeps the invariant.
LEMMA FrameGood ==
  ASSUME InductiveInvariant, NEW fair, Frame(fair)
  PROVE  InductiveInvariant'
<1>1. PICK c \in Carried(State, fair) :
      \E u \in Uploaded(c, fair) : \E end \in AdaptShare(u, fair) : Become(end)
  BY DEF Frame
<1>2. PICK u \in Uploaded(c, fair) : \E end \in AdaptShare(u, fair) : Become(end)
  BY <1>1
<1>3. PICK end \in AdaptShare(u, fair) : Become(end) BY <1>2
<1>4. Good(c) BY CarriedGood DEF InductiveInvariant
<1>5. Good(u) BY <1>4, UploadedGood
<1>6. Good(end) BY <1>5, AdaptShareGood
<1>. QED BY <1>3, <1>6, BecomeGood

\* A step of the device keeps the invariant if it agrees with the host after
\* it.
LEMMA DeviceGood ==
  ASSUME InductiveInvariant, device' \in Device, Coherent(host, device'),
         UNCHANGED <<editor, host>>
  PROVE  InductiveInvariant'
BY DEF InductiveInvariant, Good, States, State

\* Every step of the device keeps the invariant.
LEMMA DeviceStepGood ==
  ASSUME InductiveInvariant, DeviceStep
  PROVE  InductiveInvariant'
<1>1. host \in Host /\ device \in Device /\ Coherent(host, device)
  BY DEF InductiveInvariant, Good, States, State
<1>2. device.running # None => device.running \in Running
  BY <1>1, OptionSet DEF Device
<1>3. device.generation \in Generation BY <1>1 DEF Device
<1>4. ASSUME NEW caughtUp \in BOOLEAN, Readbacks(caughtUp) PROVE InductiveInvariant'
  <2>1. device' \in Device BY <1>1, <1>4, ReadBackTyped DEF Readbacks
  <2>2. device'.running # None
    BY <1>1, <1>2, <1>4, NoneApart DEF Readbacks, ReadBack, Device, Running
  <2>3. Coherent(host, device')
    BY <1>1, <1>2, <1>4, <2>2 DEF Readbacks, ReadBack, Device, Running, Coherent,
       OneTransaction, PatchAwaited, HandoffAwaited, Runs, RunsActive, RunsTarget,
       RunsSource
  <2>. QED BY <1>4, <2>1, <2>3, DeviceGood DEF Readbacks
<1>5. ASSUME AdmitHandoff PROVE InductiveInvariant'
  <2>1. device' \in Device BY <1>1, <1>5, AdmittedTyped DEF AdmitHandoff
  <2>2. device'.running \in Option(Running) BY <2>1 DEF Device
  <2>3. /\ device'.running.candidate = device.handoff
        /\ device'.running.step = device.handoff.token
        /\ device'.handoff = None /\ ~device'.refused
        /\ device'.generation = NextGeneration(device.generation)
        /\ device'.event = device.event /\ device'.stranded = device.stranded
        /\ device'.patched = device.patched
    BY <1>1, <1>5 DEF AdmitHandoff, Admitted, Device
  <2>4. device'.running # None
    <3>1. device.handoff \in Candidate BY <1>1, <1>5, OptionSet DEF Device, AdmitHandoff
    <3>2. [candidate |-> device.handoff, step |-> device.handoff.token,
           ready |-> TRUE, failed |-> FALSE,
           caught_up |-> device.running # None => device.running.caught_up] \in Running
      BY <3>1 DEF Running, Candidate
    <3>. QED BY <1>1, <1>5, <3>2, NoneApart DEF AdmitHandoff, Admitted, Device
  <2>5. Coherent(host, device')
    BY <1>1, <1>5, <2>3, <2>4 DEF AdmitHandoff, Coherent, OneTransaction, OneWay,
       PatchAwaited, HandoffAwaited, Runs, RunsTarget
  <2>. QED BY <1>5, <2>1, <2>5, DeviceGood DEF AdmitHandoff
<1>6. ASSUME RefuseHandoff PROVE InductiveInvariant'
  <2>1. device' \in Device BY <1>1, <1>6, DeviceStepsTyped DEF RefuseHandoff
  <2>2. Coherent(host, device')
    BY <1>1, <1>6 DEF RefuseHandoff, Device, Coherent, OneTransaction, OneWay,
       PatchAwaited, HandoffAwaited, Runs, RunsActive, RunsTarget, RunsSource
  <2>. QED BY <1>6, <2>1, <2>2, DeviceGood DEF RefuseHandoff
<1>7. ASSUME NEW verdict \in {"Taken", "Refused"}, Settle(verdict) PROVE InductiveInvariant'
  <2>1. device' \in Device BY <1>1, <1>7, EventSettledTyped DEF Settle
  <2>2. verdict # None BY NoneAssumption
  <2>3. device.event = [kind |-> "Patch", candidate |-> host.source_commit]
        => device.event.kind = "Patch"
    OBVIOUS
  <2>4. Coherent(host, device')
    BY <1>1, <1>7, <2>2, <2>3 DEF Settle, EventSettled, Device, Coherent, OneTransaction,
       PatchAwaited, HandoffAwaited, Runs, RunsActive, RunsTarget, RunsSource
  <2>. QED BY <1>7, <2>1, <2>4, DeviceGood DEF Settle
<1>8. ASSUME Fault PROVE InductiveInvariant'
  <2>1. device' \in Device BY <1>1, <1>8, FaultedTyped DEF Fault
  <2>2. device'.running # None
    BY <1>1, <1>2, <1>8, NoneApart DEF Fault, Faulted, Device, Running
  <2>3. Coherent(host, device')
    BY <1>1, <1>2, <1>8, <2>2 DEF Fault, Faulted, Device, Running, Coherent,
       OneTransaction, PatchAwaited, HandoffAwaited, Runs, RunsActive, RunsTarget,
       RunsSource
  <2>. QED BY <1>8, <2>1, <2>3, DeviceGood DEF Fault
<1>. QED BY <1>4, <1>5, <1>6, <1>7, <1>8 DEF DeviceStep

\* Every step of the document keeps the invariant, which reads nothing of it.
LEMMA DocumentStepGood ==
  ASSUME InductiveInvariant, DocumentStep
  PROVE  InductiveInvariant'
<1>1. editor \in Editor /\ host \in Host /\ device \in Device /\ Coherent(host, device)
  BY DEF InductiveInvariant, Good, States, State
<1>2. ASSUME editor' \in Editor, UNCHANGED <<host, device>> PROVE InductiveInvariant'
  BY <1>1, <1>2 DEF InductiveInvariant, Good, States, State
<1>3. ASSUME Validate PROVE InductiveInvariant'
  BY <1>1, <1>2, <1>3, ValidatedTyped DEF Validate
<1>4. ASSUME NEW inputs \in Inputs, NEW valid \in BOOLEAN, Edit(inputs, valid)
      PROVE  InductiveInvariant'
  <2>1. editor.revision + 1 \in Nat BY <1>1 DEF Editor
  <2>2. editor' \in Editor BY <1>1, <1>4, <2>1 DEF Edit, Editor, Acceptances
  <2>. QED BY <1>2, <1>4, <2>2 DEF Edit
<1>5. ASSUME NEW edge \in Edges, Edge(edge) PROVE InductiveInvariant'
  BY <1>1, <1>2, <1>5 DEF Edge, Editor
<1>6. ASSUME NEW inputs \in Inputs, NEW edge \in Edges, NEW valid \in BOOLEAN,
             Replace(inputs, edge, valid)
      PROVE  InductiveInvariant'
  <2>1. editor' \in Editor BY <1>1, <1>6 DEF Replace, Editor, Acceptances
  <2>2. host' \in Host BY <1>1, <1>6, OptionHas DEF Replace, Host
  <2>3. Coherent(host', device')
    BY <1>1, <1>6 DEF Replace, Host, Coherent, OneRequest, OneWay, PatchAwaited, HandoffAwaited,
       Runs, RunsActive, RunsTarget, RunsSource
  <2>. QED BY <1>1, <1>6, <2>1, <2>2, <2>3 DEF Replace, InductiveInvariant, Good, States, State
<1>. QED BY <1>3, <1>4, <1>5, <1>6 DEF DocumentStep

\* Every step of the user keeps the invariant, which reads nothing they
\* change.
LEMMA UserStepGood ==
  ASSUME InductiveInvariant, UserStep
  PROVE  InductiveInvariant'
<1>1. editor \in Editor /\ host \in Host /\ device \in Device /\ Coherent(host, device)
  BY DEF InductiveInvariant, Good, States, State
<1>2. ASSUME host' \in Host,
             \A field \in {"requested", "preparing", "ready", "packed",
                           "uploading", "source_commit", "active", "uploaded"} :
               host'[field] = host[field],
             UNCHANGED <<editor, device>>
      PROVE  InductiveInvariant'
  <2>1. /\ host'.requested = host.requested /\ host'.preparing = host.preparing
        /\ host'.ready = host.ready /\ host'.packed = host.packed
        /\ host'.uploading = host.uploading /\ host'.active = host.active
        /\ host'.source_commit = host.source_commit
        /\ host'.uploaded = host.uploaded
    BY <1>2
  <2>2. Coherent(host', device)
    BY <1>1, <2>1 DEF Coherent, OneRequest, OneWay, PatchAwaited, HandoffAwaited, Runs, RunsActive,
       RunsTarget, RunsSource
  <2>. QED BY <1>1, <1>2, <2>2 DEF InductiveInvariant, Good, States, State
<1>3. ASSUME Remesh PROVE InductiveInvariant' BY <1>1, <1>2, <1>3 DEF Remesh, Host
<1>4. ASSUME Reset PROVE InductiveInvariant' BY <1>1, <1>2, <1>4 DEF Reset, Host
<1>5. ASSUME Speed PROVE InductiveInvariant' BY <1>1, <1>2, <1>5, OptionHas DEF Speed, Host
<1>6. ASSUME StepOnce PROVE InductiveInvariant' BY <1>1, <1>2, <1>6 DEF StepOnce, Host
<1>7. ASSUME NEW on \in BOOLEAN, Run(on) PROVE InductiveInvariant'
  BY <1>1, <1>2, <1>7 DEF Run, Host
<1>8. ASSUME Pulse PROVE InductiveInvariant'
  <2>1. More(host.pulses, MaxPulses) \in Pulses
    BY <1>1, BoundsAssumption DEF Host, More, Pulses
  <2>. QED BY <1>1, <1>2, <1>8, <2>1 DEF Pulse, Host
<1>9. ASSUME Switch PROVE InductiveInvariant'
  <2>1. More(host.switches, MaxSwitches) \in Switches
    BY <1>1, BoundsAssumption DEF Host, More, Switches
  <2>. QED BY <1>1, <1>2, <1>9, <2>1 DEF Switch, Host
<1>. QED BY <1>3, <1>4, <1>5, <1>6, <1>7, <1>8, <1>9 DEF UserStep

\* Every step keeps the invariant.
LEMMA StepGood == InductiveInvariant /\ [Next]_vars => InductiveInvariant'
<1>. SUFFICES ASSUME InductiveInvariant, [Next]_vars PROVE InductiveInvariant' OBVIOUS
<1>1. CASE UNCHANGED vars BY <1>1 DEF vars, InductiveInvariant, Good, States, State
<1>. QED BY <1>1, FrameGood, DeviceStepGood, DocumentStepGood, UserStepGood DEF Next

\* The invariant implies each property Protocol::check asserts.
LEMMA Consequences ==
  ASSUME InductiveInvariant
  PROVE  /\ TypeOK
         /\ HostRunsWhatTheDeviceRuns
         /\ HandoffIsTheUpload
         /\ NoEventAcrossAHandoff
         /\ SourceCommitIsThePatch
         /\ CarriedIsTheLatestRequest
<1>1. TypeOK /\ Coherent(host, device) BY StateIs DEF InductiveInvariant, Good, State
<1>2. HostRunsWhatTheDeviceRuns
  BY <1>1 DEF HostRunsWhatTheDeviceRuns, Coherent, Runs, RunsActive
<1>3. HandoffIsTheUpload BY <1>1 DEF HandoffIsTheUpload, Coherent, HandoffAwaited
<1>4. NoEventAcrossAHandoff
  BY <1>1 DEF NoEventAcrossAHandoff, Coherent, OneTransaction
<1>5. SourceCommitIsThePatch
  BY <1>1 DEF SourceCommitIsThePatch, Coherent, OneWay, PatchAwaited
<1>6. CarriedIsTheLatestRequest
  <2>1. OneWay(host) /\ OneRequest(host) BY <1>1 DEF Coherent
  <2>2. host.preparing = None \/ host.ready = None BY <2>1 DEF OneRequest
  <2>3. \A candidate \in {host.preparing, host.ready} :
          candidate # None => host.requested = candidate.token
    BY <2>1 DEF OneRequest
  <2>4. \A candidate \in {host.packed, host.source_commit} \cup
                         (IF host.uploading = None THEN {} ELSE {host.uploading.candidate}) :
          candidate # None => host.ready = candidate
    BY <2>1 DEF OneWay, OneRequest
  <2>. QED BY <2>2, <2>3, <2>4 DEF CarriedIsTheLatestRequest
<1>. QED BY <1>1, <1>2, <1>3, <1>4, <1>5, <1>6

-----------------------------------------------------------------------------
\* Every reachable state is of its type, and the host and the device agree in
\* it: the inductive invariant is one of the protocol, for every number of
\* requests, generations, edits, pulses and presses.
THEOREM Invariance == Spec => []InductiveInvariant
<1>. QED BY InitGood, StepGood, PTL DEF Spec

\* Every field of the document, the host and the device keeps its type: no
\* count passes its bound, no name runs past TOKENS.
THEOREM TypeCorrectness == Spec => []TypeOK
<1>. QED BY Invariance, Consequences, PTL

\* The assertions of Protocol::check on what runs: between uploads the host's
\* active topology is the device's, at the step the host paces.
THEOREM HostAndDeviceAgree == Spec => []HostRunsWhatTheDeviceRuns
<1>. QED BY Invariance, Consequences, PTL

\* A handoff on the device is always the one the host waits for, so that the
\* host can publish it, and knows what to withdraw.
THEOREM HandoffsAreAwaited == Spec => []HandoffIsTheUpload
<1>. QED BY Invariance, Consequences, PTL

\* No live event is in flight beside a handoff, with which it shares bind
\* groups and a clock (RT-2).
THEOREM NothingCrossesAHandoff == Spec => []NoEventAcrossAHandoff
<1>. QED BY Invariance, Consequences, PTL

\* A source edit the host waits for is the patch the device has, or answered.
THEOREM PatchesAreAwaited == Spec => []SourceCommitIsThePatch
<1>. QED BY Invariance, Consequences, PTL

\* What is prepared, ready or on its way to the device is one request's, the
\* latest: what the device takes over, the host can publish.
THEOREM CarriedIsPublishable == Spec => []CarriedIsTheLatestRequest
<1>. QED BY Invariance, Consequences, PTL
=============================================================================
