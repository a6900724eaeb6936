---------------------------- MODULE DeviceEncoding ----------------------------
(***************************************************************************)
(* What of a request the GPU runs, and what the host makes of its answers: *)
(* CanonicalGpuRequest and the systems of CanonicalWaveGpuPlugin in        *)
(* crates/funfern-app/src/canonical_gpu.rs, over the clock and the         *)
(* transactions of canonical_wave.wgsl and canonical_transfer*.wgsl.       *)
(*                                                                         *)
(* The render world's frame works on a copy of the request, taken at an    *)
(* extraction, while the main world's frame changes the request.  The      *)
(* render world encodes a step, a live event or a handoff's transfer by    *)
(* bind groups of its own, which it builds again whenever the request's    *)
(* revision moved, and must neither encode one twice nor lose it.  The     *)
(* device's counts are short and its clock is relative to an epoch that    *)
(* moves: the host decodes both against what it last heard.                *)
(*                                                                         *)
(* The two frames share the counters alone, and of these a frame of the    *)
(* main world writes only a failure it clears: so the render world's frame *)
(* is here ahead of the main world's, except for that.  A frame encodes    *)
(* one step at most, as nothing is heard between the steps of one.  The    *)
(* copies of a frame's control and status are one report.                  *)
(***************************************************************************)
EXTENDS Integers

CONSTANTS
  None,         \* The absent value of an Option.
  Sets,         \* Bound: the sets of buffers made, at installs and handoffs.
  Events,       \* Bound: the live events queued.
  Steps,        \* Bound: the steps asked for.
  Failures,     \* Bound: the steps that fail on the device.
  StartStep,    \* The step the first generation has come to.
  RebaseLimit,  \* rebase_step_limit: the local step an epoch ends before.
  CountWidth,   \* 2^32: the device's count of steps wraps there.
  EpochWidth    \* 2^16: the epoch in a snapshot wraps there.

ASSUME BoundsAssumption ==
  /\ Sets \in Nat \ {0} /\ Events \in Nat /\ Steps \in Nat /\ Failures \in Nat

\* All the steps asked for are less than half the device's range.
ASSUME WidthsAssumption ==
  /\ StartStep \in Nat
  /\ RebaseLimit \in Nat /\ RebaseLimit > 1
  /\ EpochWidth \in Nat /\ EpochWidth > 1
  /\ CountWidth \in Nat /\ StartStep < CountWidth /\ 2 * Steps < CountWidth

Option(S) == S \cup {None}

Buffers == 1..Sets
Serials == 1..Events

VARIABLES
  request,      \* CanonicalGpuRequest.
  stats,        \* The counters of each set of buffers, which the worlds share.
  transfers,    \* Those of each handoff, by its target's buffers.
  display,      \* CanonicalGpuDisplay: its clock, and its last snapshot.
  snapshot,     \* The full snapshot asked for.
  serial,       \* The coordinator's canonical_event_serial.
  extracted,    \* The request as the render world has it.
  groups,       \* The render world's bind groups, and what they encoded.
  device,       \* The sets of buffers.
  report,       \* The copy of a control and a status on its way.
  receipt,      \* The copy of a receipt on its way.
  frame,        \* Where the two worlds' frames are.
  ran,          \* History: the transfers that ran into each set of buffers.
  made,         \* The sets of buffers made.
  sent,         \* The events queued.
  asked,        \* The steps asked for.
  failures      \* The steps that failed.

host == <<request, stats, transfers, display, snapshot, serial>>
render == <<extracted, groups, device, report, receipt, frame, ran, failures>>
bounds == <<made, sent, asked>>
vars == <<host, render, bounds>>

\* `handles` and `handoff` name sets of buffers; `status` numbers the statuses
\* that replace one another beside a set.
Request ==
  [generation : Nat, revision : Nat, handles : Option(Buffers), status : Nat,
   live_event : Option(Nat), handoff : Option(Buffers),
   cleared_failures : Nat, desired_steps : Nat]

Stats ==
  [completed_steps : Nat, local_step : Nat, processed_event : Nat,
   failure : BOOLEAN]

Transfer ==
  [submitted : BOOLEAN, completed : BOOLEAN, failure : BOOLEAN,
   snapshot_step : Nat, snapshot_local_step : Nat]

Clock == [epoch : Nat, step_in_epoch : Nat, accepted_steps : Nat]

\* A snapshot as it is decoded, and what it is a snapshot of.
Decoded == [steps : Nat, epoch : Nat, of : [steps : Nat, epoch : Nat]]

Display ==
  [generation : Nat, clock : Option(Clock), state : Option(Decoded)]

Snapshot ==
  [phase : {"none", "asked", "known", "taken", "answered"},
   steps : Nat, epoch : Nat]

Wave ==
  [generation : Nat, revision : Nat, cleared_failures : Nat,
   encoded_steps : Nat, encoded_local_step : Nat, encoded_live_event : Nat]

HandoffGroup == [revision : Nat, encoded : BOOLEAN]

\* A live event's group is its revision.
Groups ==
  [wave : Option(Wave), handoff : Option(HandoffGroup), event : Option(Nat)]

Answer == [failed : BOOLEAN, steps : Nat, local : Nat]

\* How often each event's passes ran.
Applications == [Serials -> Nat]

\* `latched` is the status a failure is latched in; `applied` is beside the
\* event the device says it processed.
Device ==
  [steps : Nat, local : Nat, epoch : Nat, processed : Nat,
   applied : Applications, latched : Option(Nat), receipt : Option(Answer)]

Report ==
  [of : Buffers, status : Nat, steps : Nat, local : Nat, epoch : Nat,
   processed : Nat, failed : BOOLEAN]

Receipt == [of : Buffers, answer : Answer]

\* None is no count, and no groups.
ASSUME NoneAssumption == None \notin Nat /\ None \notin Wave

TypeOK ==
  /\ request \in Request
  /\ extracted \in Request
  /\ stats \in [Buffers -> Stats]
  /\ transfers \in [Buffers -> Transfer]
  /\ display \in Display
  /\ snapshot \in Snapshot
  /\ serial \in Nat
  /\ groups \in Groups
  /\ device \in [Buffers -> Device]
  /\ report \in Option(Report)
  /\ receipt \in Option(Receipt)
  /\ frame \in {"heard", "heard_fully", "drawn", "drawn_fully"}
  /\ ran \in [Buffers -> Nat]
  /\ made \in Buffers /\ sent \in 0..Events /\ asked \in 0..Steps
  /\ failures \in 0..Failures

-----------------------------------------------------------------------------
(* Counts. *)

Low(count) == count % CountWidth

\* Mutated: a count is taken as the device gives it.
UnwrappedLow(known, low) == low

\* unwrap_steps: the count nearest `known` with these low digits.
Unwrapped(known, low) ==
  LET ahead == Low(low - known)
  IN  IF 2 * ahead < CountWidth THEN known + ahead
      ELSE IF known + ahead < CountWidth THEN low
      ELSE known + ahead - CountWidth

Larger(a, b) == IF a > b THEN a ELSE b

-----------------------------------------------------------------------------
(* The device's buffers. *)

Fresh(start) ==
  [steps |-> start, local |-> 0, epoch |-> 0, processed |-> 0,
   applied |-> [e \in Serials |-> 0], latched |-> None, receipt |-> None]

\* stopped: what is recorded under a latched status does nothing.
Stopped(d, status) == d.latched = status

\* The event's passes, up to commit_event.
EventRun(d, status, event) ==
  IF Stopped(d, status) THEN d
  ELSE [d EXCEPT !.processed = event,
                 !.applied = [d.applied EXCEPT ![event] = d.applied[event] + 1]]

\* commit_clock_rebase.
Rebased(d, status) ==
  IF Stopped(d, status) THEN d
  ELSE [d EXCEPT !.epoch = d.epoch + 1, !.local = 0]

\* commit_step.
StepRun(d, status, ok) ==
  IF Stopped(d, status) THEN d
  ELSE IF ok THEN [d EXCEPT !.steps = d.steps + 1, !.local = d.local + 1]
  ELSE [d EXCEPT !.latched = status]

\* The transfer's passes: the source's state, in an epoch of its own, and a
\* receipt over the map.  Run over a receipt they fail.
TransferRun(target, source, good) ==
  IF good
  THEN [target EXCEPT
          !.steps = source.steps, !.local = 0, !.epoch = source.epoch + 1,
          !.processed = source.processed, !.applied = source.applied,
          !.receipt = [failed |-> FALSE, steps |-> source.steps, local |-> 0]]
  ELSE [target EXCEPT
          !.latched = 0,
          !.receipt = [failed |-> TRUE, steps |-> target.steps,
                       local |-> target.local]]

-----------------------------------------------------------------------------
(* CanonicalGpuRequest, which the main world's frame changes. *)

NewStats(count) ==
  [completed_steps |-> count, local_step |-> 0, processed_event |-> 0,
   failure |-> FALSE]

NewTransfer ==
  [submitted |-> FALSE, completed |-> FALSE, failure |-> FALSE,
   snapshot_step |-> 0, snapshot_local_step |-> 0]

NoSnapshot == [phase |-> "none", steps |-> 0, epoch |-> 0]

Installed == request.handles # None

Own == stats[request.handles]

\* caught_up
CaughtUp == Own.completed_steps >= request.desired_steps \/ Own.failure

Revised(r) == [r EXCEPT !.revision = r.revision + 1]

\* withdraw_handoff
WithoutHandoff(r) ==
  IF r.handoff = None THEN r ELSE Revised([r EXCEPT !.handoff = None])

\* clear: the generation goes, and what was asked of it.
Emptied(r) ==
  [WithoutHandoff(r) EXCEPT !.live_event = None, !.handles = None,
                            !.desired_steps = 0]

Drawn == frame \in {"drawn", "drawn_fully"}

\* What none of the main world's operations but a failure's clearing waits for.
Running == Drawn /\ Installed

Clear ==
  /\ Running
  /\ request' = Emptied(request)
  /\ snapshot' = NoSnapshot
  /\ serial' = 0
  /\ UNCHANGED <<stats, transfers, display, render, bounds>>

Install ==
  /\ Drawn /\ made < Sets
  /\ made' = made + 1
  /\ device' = [device EXCEPT ![made + 1] = Fresh(0)]
  /\ stats' = [stats EXCEPT ![made + 1] = NewStats(0)]
  /\ request' = Revised([Emptied(request) EXCEPT
                           !.generation = request.generation + 1,
                           !.handles = made + 1, !.status = 0])
  /\ snapshot' = NoSnapshot
  /\ serial' = 0
  /\ UNCHANGED <<transfers, display, extracted, groups, report, receipt, frame,
                 ran, failures, sent, asked>>

\* Mutated: a handoff begins beside a live event.
HandoffMayBeginAnyhow == request.handoff = None /\ CaughtUp /\ ~Own.failure

\* A healthy boundary, and no other transaction: begin_handoff sees to a
\* handoff, and upload_may_begin, ahead of it, to a live event.
HandoffMayBegin ==
  /\ request.handoff = None /\ request.live_event = None
  /\ CaughtUp /\ ~Own.failure

BeginHandoff ==
  /\ Running /\ made < Sets
  /\ HandoffMayBegin
  /\ made' = made + 1
  /\ device' = [device EXCEPT ![made + 1] = Fresh(0)]
  /\ transfers' = [transfers EXCEPT ![made + 1] = NewTransfer]
  /\ request' = Revised([request EXCEPT !.handoff = made + 1])
  /\ UNCHANGED <<stats, display, snapshot, serial, extracted, groups, report,
                 receipt, frame, ran, failures, sent, asked>>

\* The settlement of an upload whose source failed withdraws its handoff.
WithdrawHandoff ==
  /\ Running /\ request.handoff # None /\ Own.failure
  /\ request' = WithoutHandoff(request)
  /\ UNCHANGED <<stats, transfers, display, snapshot, serial, render, bounds>>

QueueLiveEvent ==
  LET next == Larger(serial, Own.processed_event) + 1
  IN  /\ Running /\ sent < Events
      /\ request.handoff = None /\ request.live_event = None /\ ~Own.failure
      /\ serial' = next
      /\ sent' = sent + 1
      /\ request' = Revised([request EXCEPT !.live_event = next])
      /\ UNCHANGED <<stats, transfers, display, snapshot, render, made, asked>>

\* clear_failure: what is asked for is the last step accepted, and another
\* status takes the latched one's place.
ClearFailure ==
  /\ Installed /\ Own.failure
  /\ stats' = [stats EXCEPT ![request.handles] = [Own EXCEPT !.failure = FALSE]]
  /\ request' = Revised([request EXCEPT
                           !.desired_steps = Own.completed_steps,
                           !.cleared_failures = request.cleared_failures + 1,
                           !.status = request.status + 1])
  /\ UNCHANGED <<transfers, display, snapshot, serial, render, bounds>>

\* request_steps
RequestStep ==
  /\ Running /\ asked < Steps
  /\ asked' = asked + 1
  /\ request' = [request EXCEPT !.desired_steps = request.desired_steps + 1]
  /\ UNCHANGED <<stats, transfers, display, snapshot, serial, render, made, sent>>

\* request_full_state_readback
RequestSnapshot ==
  /\ Running /\ snapshot.phase = "none"
  /\ snapshot' = [NoSnapshot EXCEPT !.phase = "asked"]
  /\ UNCHANGED <<request, stats, transfers, display, serial, render, bounds>>

-----------------------------------------------------------------------------
(* The render world's frame. *)

\* Ahead of the first frame; and whatever belongs to what is gone.
NoGroups == [wave |-> None, handoff |-> None, event |-> None]

\* What the device has done of a generation, as it last said.
Reported(x) ==
  [encoded_steps |-> stats[x.handles].completed_steps,
   encoded_local_step |-> stats[x.handles].local_step,
   encoded_live_event |-> stats[x.handles].processed_event]

Carried(wave) ==
  [encoded_steps |-> wave.encoded_steps,
   encoded_local_step |-> wave.encoded_local_step,
   encoded_live_event |-> wave.encoded_live_event]

\* Mutated: the event a failure stranded stays encoded.
EncodedButStranded(x, wave) ==
  IF wave = None \/ wave.generation # x.generation THEN Reported(x)
  ELSE IF wave.cleared_failures = x.cleared_failures THEN Carried(wave)
  ELSE [Reported(x) EXCEPT !.encoded_live_event = wave.encoded_live_event]

\* Mutated: groups rebuilt forget the steps in flight.
EncodedAsReported(x, wave) == Reported(x)

\* Groups rebuilt within a generation carry over what was encoded; but what
\* was encoded behind a failure since cleared never ran.
Encoded(x, wave) ==
  IF wave = None THEN Reported(x)
  ELSE IF /\ wave.generation = x.generation
          /\ wave.cleared_failures = x.cleared_failures THEN Carried(wave)
  ELSE Reported(x)

WaveGroup(x, encoded) ==
  [generation |-> x.generation, revision |-> x.revision,
   cleared_failures |-> x.cleared_failures,
   encoded_steps |-> encoded.encoded_steps,
   encoded_local_step |-> encoded.encoded_local_step,
   encoded_live_event |-> encoded.encoded_live_event]

Current(x, wave) ==
  /\ wave # None
  /\ wave.generation = x.generation /\ wave.revision = x.revision

\* prepare_canonical_bind_group
WavePrepared(x, wave, ready) ==
  IF x.handles = None THEN None
  ELSE IF Current(x, wave) \/ ~ready THEN wave
  ELSE WaveGroup(x, Encoded(x, wave))

\* Mutated: groups rebuilt have encoded no transfer.
TransferUnencoded(x) == FALSE

\* Groups rebuilt within a handoff take over whether its transfer was encoded.
TransferEncoded(x) == transfers[x.handoff].submitted

\* prepare_canonical_handoff_bind_groups
HandoffPrepared(x, group, ready) ==
  IF x.handles = None \/ x.handoff = None THEN None
  ELSE IF ~ready THEN group
  ELSE IF group # None /\ group.revision = x.revision THEN group
  ELSE [revision |-> x.revision, encoded |-> TransferEncoded(x)]

\* prepare_canonical_live_event_bind_group
EventPrepared(x, group, ready) ==
  IF x.handles = None \/ x.live_event = None THEN None
  ELSE IF ready THEN x.revision ELSE group

Prepared(x, ready) ==
  [wave |-> WavePrepared(x, groups.wave, "wave" \in ready),
   handoff |-> HandoffPrepared(x, groups.handoff, "handoff" \in ready),
   event |-> EventPrepared(x, groups.event, "event" \in ready)]

\* compute_canonical_wave encodes the event that waits and then steps, on a
\* device not known to have failed.
MayEncode(x, g) == Current(x, g.wave) /\ ~stats[x.handles].failure

EventWaits(x, g) ==
  /\ MayEncode(x, g)
  /\ x.live_event # None /\ x.live_event # g.wave.encoded_live_event
  /\ g.event = x.revision

StepWaits(x, g) == MayEncode(x, g) /\ x.desired_steps > g.wave.encoded_steps

\* Mutated: an epoch ends one step late.
RebaseIsLate(wave) == wave.encoded_local_step >= RebaseLimit

\* The step that would reach the limit starts another epoch.
RebaseIsDue(wave) == wave.encoded_local_step + 1 >= RebaseLimit

EventEncoded(x, g) ==
  IF EventWaits(x, g) THEN [g.wave EXCEPT !.encoded_live_event = x.live_event]
  ELSE g.wave

StepEncoded(x, g, wave) ==
  LET local == IF RebaseIsDue(wave) THEN 0 ELSE wave.encoded_local_step
  IN  IF ~StepWaits(x, g) THEN wave
      ELSE [wave EXCEPT !.encoded_steps = wave.encoded_steps + 1,
                        !.encoded_local_step = local + 1]

WaveEncoded(x, g) == StepEncoded(x, g, EventEncoded(x, g))

\* What the device makes of them: the event's passes, and the step's.
WaveRun(d, x, g, ok) ==
  LET event == IF EventWaits(x, g) THEN EventRun(d, x.status, x.live_event) ELSE d
      begun == IF RebaseIsDue(g.wave) THEN Rebased(event, x.status) ELSE event
  IN  IF StepWaits(x, g) THEN StepRun(begun, x.status, ok) ELSE event

StepMayFail(d, x, g) == StepWaits(x, g) /\ ~Stopped(d, x.status)

\* compute_canonical_handoff
TransferWaits(x, g) ==
  /\ g.handoff # None
  /\ g.handoff.revision = x.revision /\ ~g.handoff.encoded

\* The copies behind a frame's work, of what has none on its way.
ReportOf(x, d) ==
  [of |-> x.handles, status |-> x.status, steps |-> Low(d.steps),
   local |-> d.local, epoch |-> d.epoch, processed |-> d.processed,
   failed |-> Stopped(d, x.status)]

\* Mutated: the words ahead of a receipt are taken for one.
ReceiptAnyhow(x, d) == [of |-> x.handoff, answer |-> d.receipt]

\* A receipt is heard once there is one, by its magic word.
ReceiptOf(x, d) ==
  IF d.receipt = None THEN None ELSE [of |-> x.handoff, answer |-> d.receipt]

\* copy_canonical_snapshot, whose words are the device's.
SnapshotOf(d) == [phase |-> "taken", steps |-> d.steps, epoch |-> d.epoch]

Work == {"wave", "handoff", "event"}

\* What the frame has a use for buffers and pipelines for, and what it may
\* copy.
Wanted ==
  LET x == extracted
      Waits(work) ==
        CASE work = "wave" ->
               /\ x.handles # None
               /\ \/ ~Current(x, groups.wave)
                  \/ StepWaits(x, groups)
                  \/ x.live_event \notin {None, groups.wave.encoded_live_event}
          [] work = "handoff" ->
               /\ x.handoff # None
               /\ \/ groups.handoff = None
                  \/ groups.handoff # [revision |-> x.revision, encoded |-> TRUE]
          [] work = "event" -> x.live_event # None /\ groups.event # x.revision
  IN  {work \in Work : Waits(work)}

Copyable ==
  LET Waits(copy) ==
        CASE copy = "report" -> report = None /\ extracted.handles # None
          [] copy = "receipt" -> receipt = None /\ extracted.handoff # None
          [] copy = "snapshot" -> snapshot.phase = "known"
  IN  {copy \in {"report", "receipt", "snapshot"} : Waits(copy)}

\* A frame that finds `ready` ready leaves the rest to a later one, and takes
\* the copies `copied`.
Draw(ready, copied) ==
  LET x == extracted
      g == Prepared(x, ready)
      waves == "wave" \in ready
      transfer == "handoff" \in ready /\ TransferWaits(x, g)
      before == device[x.handles]
  IN  /\ ~Drawn
      /\ frame' = IF ready = Wanted /\ copied = Copyable THEN "drawn_fully"
                  ELSE "drawn"
      /\ \E ok, good \in BOOLEAN :
           LET own == IF waves THEN WaveRun(before, x, g, ok) ELSE before
               target == IF transfer THEN TransferRun(device[x.handoff], own, good)
                         ELSE device[x.handoff]
           IN  /\ ok \/ (waves /\ StepMayFail(before, x, g) /\ failures < Failures)
               /\ good \/ transfer
               /\ transfer /\ ran[x.handoff] > 0 => ~good
               /\ failures' = IF ok THEN failures ELSE failures + 1
               /\ device' = [b \in Buffers |-> IF b = x.handles THEN own
                                               ELSE IF b = x.handoff THEN target
                                               ELSE device[b]]
               /\ report' = IF "report" \in copied THEN ReportOf(x, own) ELSE report
               /\ receipt' = IF "receipt" \in copied THEN ReceiptOf(x, target)
                             ELSE receipt
               /\ snapshot' = IF "snapshot" \in copied THEN SnapshotOf(own)
                              ELSE snapshot
      /\ groups' =
           [wave |-> IF waves THEN WaveEncoded(x, g) ELSE g.wave,
            handoff |-> IF transfer THEN [g.handoff EXCEPT !.encoded = TRUE]
                        ELSE g.handoff,
            event |-> g.event]
      /\ transfers' =
           IF transfer THEN [transfers EXCEPT ![x.handoff] =
                               [transfers[x.handoff] EXCEPT !.submitted = TRUE]]
           ELSE transfers
      /\ ran' = IF transfer THEN [ran EXCEPT ![x.handoff] = ran[x.handoff] + 1]
                ELSE ran
      /\ UNCHANGED <<request, stats, display, serial, extracted, bounds>>

-----------------------------------------------------------------------------
(* What comes back, and the main world's systems ahead of its own frame. *)

\* What they work on.
Host == [request |-> request, stats |-> stats, transfers |-> transfers,
         display |-> display, snapshot |-> snapshot]

Become(s) == /\ request' = s.request
             /\ stats' = s.stats
             /\ transfers' = s.transfers
             /\ display' = s.display
             /\ snapshot' = s.snapshot

EmptyDisplay(g) == [generation |-> g, clock |-> None, state |-> None]

\* begin_canonical_display_generation
BeginGeneration(d, g) == IF d.generation = g THEN d ELSE EmptyDisplay(g)

\* receive_canonical_control, of the generation that is still the request's.
ControlHeard(s) ==
  LET known == s.stats[report.of]
      steps == Unwrapped(known.completed_steps, report.steps)
      counts == [completed_steps |-> steps, local_step |-> report.local,
                 processed_event |-> report.processed, failure |-> known.failure]
      clock == [epoch |-> report.epoch, step_in_epoch |-> report.local,
                accepted_steps |-> steps]
      begun == BeginGeneration(s.display, s.request.generation)
  IN  [s EXCEPT !.stats = [s.stats EXCEPT ![report.of] = counts],
                !.display = [begun EXCEPT !.clock = clock]]

\* receive_canonical_status, of the status that is still the request's.
StatusHeard(s) ==
  LET counts == [s.stats[report.of] EXCEPT !.failure = report.failed]
  IN  IF report.status # s.request.status THEN s
      ELSE [s EXCEPT !.stats = [s.stats EXCEPT ![report.of] = counts]]

ReportHeard(s) ==
  IF report.of # s.request.handles THEN s ELSE StatusHeard(ControlHeard(s))

\* receive_canonical_handoff_receipt
ReceiptHeard(s) ==
  LET answer == [submitted |-> s.transfers[receipt.of].submitted,
                 completed |-> TRUE, failure |-> receipt.answer.failed,
                 snapshot_step |-> Low(receipt.answer.steps),
                 snapshot_local_step |-> receipt.answer.local]
  IN  IF receipt.of # s.request.handoff \/ s.transfers[receipt.of].completed THEN s
      ELSE [s EXCEPT !.transfers = [s.transfers EXCEPT ![receipt.of] = answer]]

\* The request for a snapshot is extracted; its copy is mapped, or fails to.
SnapshotHeard(s, heard) ==
  IF s.snapshot.phase = "asked" THEN [s EXCEPT !.snapshot = [s.snapshot EXCEPT !.phase = "known"]]
  ELSE IF "snapshot" \in heard THEN [s EXCEPT !.snapshot = [s.snapshot EXCEPT !.phase = "answered"]]
  ELSE IF "unmapped" \in heard THEN [s EXCEPT !.snapshot = NoSnapshot]
  ELSE s

Heard(s, heard) ==
  LET reported == IF "report" \in heard THEN ReportHeard(s) ELSE s
      answered == IF "receipt" \in heard THEN ReceiptHeard(reported) ELSE reported
  IN  SnapshotHeard(answered, heard)

Refused(s) ==
  [s EXCEPT !.request = Revised([s.request EXCEPT !.handoff = None])]

\* The target is the request's own from here on.
Admitted(s) ==
  LET r == s.request
      answer == s.transfers[r.handoff]
      steps == Unwrapped(s.stats[r.handles].completed_steps, answer.snapshot_step)
      counts == [NewStats(steps) EXCEPT !.local_step = answer.snapshot_local_step]
      admitted == [r EXCEPT
        !.generation = r.generation + 1, !.handles = r.handoff, !.status = 0,
        !.handoff = None, !.desired_steps = Larger(r.desired_steps, steps)]
  IN  [s EXCEPT !.request = Revised(admitted),
                !.stats = [s.stats EXCEPT ![r.handoff] = counts],
                !.snapshot = NoSnapshot,
                !.display = BeginGeneration(s.display, r.generation + 1)]

\* settle_canonical_handoff
HandoffSettled(s) ==
  IF s.request.handoff = None THEN s
  ELSE IF ~s.transfers[s.request.handoff].completed THEN s
  ELSE IF s.transfers[s.request.handoff].failure THEN Refused(s)
  ELSE Admitted(s)

\* settle_canonical_live_event
EventSettled(s) ==
  IF s.request.live_event = None THEN s
  ELSE IF s.stats[s.request.handles].processed_event # s.request.live_event THEN s
  ELSE [s EXCEPT !.request = Revised([s.request EXCEPT !.live_event = None])]

\* apply_canonical_state: a snapshot's words, read against what was heard.
Decoding(taken, known) ==
  [steps |-> Unwrapped(known, Low(taken.steps)),
   epoch |-> taken.epoch % EpochWidth,
   of |-> [steps |-> taken.steps, epoch |-> taken.epoch]]

\* receive_canonical_snapshot waits for the clock to reach the snapshot's step.
SnapshotReceived(s) ==
  LET taken == s.snapshot
      clock == s.display.clock
      known == s.stats[s.request.handles].completed_steps
      begun == BeginGeneration(s.display, s.request.generation)
  IN  IF taken.phase # "answered" \/ clock = None THEN s
      ELSE IF clock.accepted_steps < Unwrapped(clock.accepted_steps, Low(taken.steps))
      THEN s
      ELSE [s EXCEPT !.snapshot = NoSnapshot,
                     !.display = [begun EXCEPT !.state = Decoding(taken, known)]]

Settled(s) == SnapshotReceived(EventSettled(HandoffSettled(s)))

\* What has come, or may have.
Arrived ==
  LET Has(copy) ==
        CASE copy = "report" -> report # None
          [] copy = "receipt" -> receipt # None
          [] copy = "snapshot" -> snapshot.phase = "taken"
  IN  {copy \in {"report", "receipt", "snapshot"} : Has(copy)}

\* Both frames are over: the request is extracted, what came is heard, and
\* the next frame of the main world settles it.  A copy whose entity is gone
\* is dropped.
Extract(heard) ==
  /\ Drawn
  /\ Become(Settled(Heard(Host, heard)))
  /\ extracted' = request
  /\ report' = IF report = None \/ "report" \in heard THEN None
               ELSE IF report.of # request'.handles THEN None ELSE report
  /\ receipt' = IF receipt = None \/ "receipt" \in heard THEN None
                ELSE IF receipt.of # request'.handoff THEN None ELSE receipt
  /\ frame' = IF Arrived \subseteq heard THEN "heard_fully" ELSE "heard"
  /\ UNCHANGED <<serial, groups, device, ran, failures, bounds>>

\* A snapshot's map that fails is heard as such.
ExtractUnmapped(heard) ==
  /\ snapshot.phase = "taken" /\ "snapshot" \notin heard
  /\ Extract(heard \cup {"unmapped"})

-----------------------------------------------------------------------------

FirstRequest ==
  [generation |-> 1, revision |-> 1, handles |-> 1, status |-> 0,
   live_event |-> None, handoff |-> None, cleared_failures |-> 0,
   desired_steps |-> StartStep]

\* A generation that has come to StartStep, as the host has heard.
Init ==
  LET start == [b \in Buffers |-> IF b = 1 THEN StartStep ELSE 0]
  IN  /\ request = FirstRequest
      /\ stats = [b \in Buffers |-> NewStats(start[b])]
      /\ transfers = [b \in Buffers |-> NewTransfer]
      /\ display = EmptyDisplay(1)
      /\ snapshot = NoSnapshot
      /\ serial = 0
      /\ extracted = FirstRequest
      /\ groups = NoGroups
      /\ device = [b \in Buffers |-> Fresh(start[b])]
      /\ report = None /\ receipt = None
      /\ frame = "heard"
      /\ ran = [b \in Buffers |-> 0]
      /\ made = 1 /\ sent = 0 /\ asked = 0 /\ failures = 0

Next ==
  \/ Clear
  \/ Install
  \/ BeginHandoff
  \/ WithdrawHandoff
  \/ QueueLiveEvent
  \/ ClearFailure
  \/ RequestStep
  \/ RequestSnapshot
  \/ \E ready \in SUBSET Wanted, copied \in SUBSET Copyable : Draw(ready, copied)
  \/ \E heard \in SUBSET Arrived : Extract(heard)
  \/ \E heard \in SUBSET Arrived : ExtractUnmapped(heard)

\* Both worlds go on, and again and again a frame finds all it wants ready and
\* takes every copy, and an extraction hears all that was copied.
Fairness == []<>(frame = "drawn_fully") /\ []<>(frame = "heard_fully")

Spec == Init /\ [][Next]_vars /\ Fairness

-----------------------------------------------------------------------------
(* Properties. *)

\* A handoff's transfer runs into its buffers once: however often the request
\* is revised while it is pending, the groups built again know that the one
\* before them encoded it.  Run again it would read its own receipt as a map.
TransferRunsOnce == \A b \in Buffers : ran[b] <= 1

\* A pulse, a Switch press or a source patch changes the field once: not again
\* when the failure it was encoded behind is cleared, nor on a generation that
\* already took it over from the one it ran on.
EventRunsOnce == \A b \in Buffers, e \in Serials : device[b].applied[e] <= 1

\* No generation runs past the steps asked for: neither groups built again
\* with steps in flight, nor a failure cleared, nor a handoff encodes a step
\* the device has run.
StepsAreAskedFor ==
  Installed => device[request.handles].steps <= request.desired_steps

\* A clock is rebased ahead of its limit, where its f32 time would lose the
\* step: what the render world counts of an epoch is what the device does.
LocalInEpoch == \A b \in Buffers : device[b].local < RebaseLimit

\* Mutated: the snapshot's epoch goes unread.
AcceptedByStep ==
  /\ display.clock # None /\ display.state # None
  /\ display.clock.accepted_steps >= display.state.steps
  /\ display.clock.step_in_epoch >= display.clock.accepted_steps - display.state.steps

\* accepted_material_runtime, where it decodes.
Accepted ==
  /\ display.clock # None /\ display.state # None
  /\ display.clock.accepted_steps >= display.state.steps
  /\ display.clock.step_in_epoch >= display.clock.accepted_steps - display.state.steps
  /\ display.state.epoch = display.clock.epoch % EpochWidth

\* A snapshot's material is decoded against the clock of its own epoch, though
\* the two come apart: its step and the low digits of its epoch are enough.
DecodedInItsEpoch == Accepted => display.state.of.epoch = display.clock.epoch

\* The host's counts go on where the device's wrap: a decoded step is the one
\* the device was at, and what the host heard is no more than the steps asked
\* for behind the device.
CountsAreExact ==
  /\ display.state # None => display.state.steps = display.state.of.steps
  /\ Installed => /\ Own.completed_steps <= device[request.handles].steps
                  /\ device[request.handles].steps - Own.completed_steps <= Steps

\* Nothing is waited for.
AtRest == request.live_event = None /\ request.handoff = None /\ CaughtUp

\* Whatever was asked of a running generation is answered, unless it fails and
\* nobody clears the failure: no event, handoff, step or snapshot is lost
\* between groups built again, copies and generations.
EverythingIsAnswered ==
  /\ []<>(Installed => AtRest \/ Own.failure)
  /\ []<>(snapshot.phase = "none")

=============================================================================
