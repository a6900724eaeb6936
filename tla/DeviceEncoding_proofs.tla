------------------------- MODULE DeviceEncoding_proofs -------------------------
(***************************************************************************)
(* Proofs about DeviceEncoding, for every number of buffers, events, steps *)
(* and failures and every width of the device's counts.  First the counts: *)
(* a count is read right from its low digits.  Then types, of the device,  *)
(* of what the render world encodes and of what the main world hears; and  *)
(* the invariant of the transfers, step by step.                           *)
(***************************************************************************)
EXTENDS DeviceInvariant, TLAPS

\* None and every member of a set are values of its Option.
LEMMA OptionHas == \A S : None \in Option(S) /\ \A x \in S : x \in Option(S)
BY DEF Option

\* A value that is there is the Option's.
LEMMA OptionIs == \A S : \A x \in Option(S) : x # None => x \in S
BY DEF Option

\* The bounds are counts.
LEMMA Bounds ==
  /\ Sets \in Nat /\ Sets > 0
  /\ Events \in Nat /\ Steps \in Nat /\ Failures \in Nat
  /\ StartStep \in Nat
  /\ CountWidth \in Nat /\ CountWidth > 0 /\ StartStep < CountWidth
  /\ RebaseLimit \in Nat /\ RebaseLimit > 1
  /\ EpochWidth \in Nat /\ EpochWidth > 1
BY BoundsAssumption, WidthsAssumption

\* None is no set of buffers.
LEMMA NoneIsNoBuffer == None \notin Buffers /\ 1 \in Buffers
BY NoneAssumption, Bounds DEF Buffers

-----------------------------------------------------------------------------
(* Counts. *)

\* The low digits of a count are a count below the width.
LEMMA LowBounds ==
  ASSUME NEW a \in Int
  PROVE  Low(a) \in Nat /\ Low(a) < CountWidth
BY Bounds DEF Low

\* A count is a multiple of the width and its low digits.
LEMMA Division ==
  ASSUME NEW a \in Int
  PROVE  /\ a \div CountWidth \in Int
         /\ a = CountWidth * (a \div CountWidth) + Low(a)
BY Bounds DEF Low

\* The low digits are the only ones.
LEMMA LowIsUnique ==
  ASSUME NEW q \in Int, NEW p \in Int, NEW r \in Nat, NEW t \in Nat,
         r < CountWidth, t < CountWidth,
         CountWidth * q + r = CountWidth * p + t
  PROVE  r = t
<1>1. CASE q = p BY Bounds, <1>1
<1>2. CASE q >= p + 1
  <2>1. CountWidth * q >= CountWidth * (p + 1) BY Bounds, <1>2
  <2>2. CountWidth * (p + 1) = CountWidth * p + CountWidth BY Bounds
  <2>. QED BY Bounds, <2>1, <2>2
<1>3. CASE p >= q + 1
  <2>1. CountWidth * p >= CountWidth * (q + 1) BY Bounds, <1>3
  <2>2. CountWidth * (q + 1) = CountWidth * q + CountWidth BY Bounds
  <2>. QED BY Bounds, <2>1, <2>2
<1>. QED BY Bounds, <1>1, <1>2, <1>3

\* Low(a) is r when a and r differ by a multiple of the width.
LEMMA LowIs ==
  ASSUME NEW a \in Int, NEW q \in Int, NEW r \in Nat, r < CountWidth,
         a = CountWidth * q + r
  PROVE  Low(a) = r
<1>1. CountWidth * (a \div CountWidth) + Low(a) = CountWidth * q + r
  BY Division
<1>. QED BY <1>1, Division, LowBounds, LowIsUnique

\* How far a count is ahead of another, from its low digits: the distance, or
\* a width more when it is behind.
LEMMA LowDistance ==
  ASSUME NEW known \in Nat, NEW count \in Nat,
         count - known < CountWidth, known - count < CountWidth
  PROVE  Low(Low(count) - known) =
           IF count >= known THEN count - known ELSE count - known + CountWidth
<1> DEFINE q == count \div CountWidth
<1>1. q \in Int /\ Low(count) \in Nat /\ count = CountWidth * q + Low(count)
  BY Division, LowBounds
<1> HIDE DEF q
<1>2. /\ CountWidth * (-q) = -(CountWidth * q)
      /\ CountWidth * (-q - 1) = -(CountWidth * q) - CountWidth
  BY <1>1, Bounds
<1>3. CASE count >= known
  <2>1. Low(count) - known = CountWidth * (-q) + (count - known)
    BY <1>1, <1>2, Bounds
  <2>2. /\ Low(count) - known \in Int /\ -q \in Int
        /\ count - known \in Nat /\ count - known < CountWidth
    BY <1>1, <1>3, Bounds
  <2>. QED BY <1>3, <2>1, <2>2, LowIs
<1>4. CASE count < known
  <2>1. Low(count) - known = CountWidth * (-q - 1) + (count - known + CountWidth)
    BY <1>1, <1>2, Bounds
  <2>2. /\ Low(count) - known \in Int /\ -q - 1 \in Int
        /\ count - known + CountWidth \in Nat
        /\ count - known + CountWidth < CountWidth
    BY <1>1, <1>4, Bounds
  <2>. QED BY <1>4, <2>1, <2>2, LowIs
<1>. QED BY <1>3, <1>4

\* unwrap_steps finds the count again from its low digits, for every width, so
\* long as what is known is less than half the width away (RT-12).
THEOREM UnwrapIsExact ==
  ASSUME NEW known \in Nat, NEW count \in Nat,
         2 * (count - known) < CountWidth, 2 * (known - count) < CountWidth
  PROVE  Unwrapped(known, Low(count)) = count
<1>1. Low(Low(count) - known) =
        IF count >= known THEN count - known ELSE count - known + CountWidth
  BY Bounds, LowDistance
<1>2. CASE count >= known BY Bounds, <1>1, <1>2 DEF Unwrapped
<1>3. CASE count < known BY Bounds, <1>1, <1>3 DEF Unwrapped
<1>. QED BY <1>2, <1>3

\* What is read is a count, whatever the digits.
LEMMA UnwrappedTyped ==
  ASSUME NEW known \in Nat, NEW low \in Nat
  PROVE  Unwrapped(known, low) \in Nat
BY Bounds, LowBounds DEF Unwrapped

\* The larger of two counts is a count.
LEMMA LargerTyped ==
  ASSUME NEW a \in Nat, NEW b \in Nat
  PROVE  Larger(a, b) \in Nat /\ Larger(a, b) >= a /\ Larger(a, b) >= b
BY DEF Larger

-----------------------------------------------------------------------------
(* The device's buffers keep their type. *)

\* The parts of buffers.
LEMMA DeviceParts ==
  ASSUME NEW d \in Device
  PROVE  /\ d.steps \in Nat /\ d.local \in Nat /\ d.epoch \in Nat
         /\ d.processed \in Nat /\ d.applied \in Applications
         /\ d.latched \in Option(Nat) /\ d.receipt \in Option(Answer)
BY DEF Device

\* Fresh buffers are buffers.
LEMMA FreshTyped ==
  ASSUME NEW start \in Nat
  PROVE  Fresh(start) \in Device
<1> DEFINE none == [e \in Serials |-> 0]
<1>1. none \in Applications BY DEF Applications
<1> HIDE DEF none
<1>2. [steps |-> start, local |-> 0, epoch |-> 0, processed |-> 0,
       applied |-> none, latched |-> None, receipt |-> None] \in Device
  BY <1>1, OptionHas DEF Device
<1>. QED BY <1>2 DEF Fresh, none

\* An event's passes leave buffers.
LEMMA EventRunTyped ==
  ASSUME NEW d \in Device, NEW status, NEW event \in Nat
  PROVE  EventRun(d, status, event) \in Device
<1> DEFINE applied == [d.applied EXCEPT ![event] = d.applied[event] + 1]
<1>1. d.applied \in [Serials -> Nat] BY DeviceParts DEF Applications
<1>2. applied \in [Serials -> Nat]
  <2>1. CASE event \in Serials BY <1>1, <2>1
  <2>2. CASE event \notin Serials BY <1>1, <2>2
  <2>. QED BY <2>1, <2>2
<1>3. applied \in Applications BY <1>2 DEF Applications
<1>4. EventRun(d, status, event) =
        IF Stopped(d, status) THEN d
        ELSE [d EXCEPT !.processed = event, !.applied = applied]
  BY DEF EventRun
<1> HIDE DEF applied
<1>5. [d EXCEPT !.processed = event, !.applied = applied] \in Device
  BY <1>3 DEF Device
<1>. QED BY <1>4, <1>5

\* So does a rebase.
LEMMA RebasedTyped ==
  ASSUME NEW d \in Device, NEW status
  PROVE  Rebased(d, status) \in Device
<1>1. PICK epoch \in Nat : epoch = d.epoch + 1 BY DeviceParts
<1>2. [d EXCEPT !.epoch = epoch, !.local = 0] \in Device BY DEF Device
<1>. QED BY <1>1, <1>2 DEF Rebased

\* So does a step, whether it goes through or fails.
LEMMA StepRunTyped ==
  ASSUME NEW d \in Device, NEW status \in Nat, NEW ok \in BOOLEAN
  PROVE  StepRun(d, status, ok) \in Device
<1>1. PICK steps \in Nat, local \in Nat : steps = d.steps + 1 /\ local = d.local + 1
  BY DeviceParts
<1>2. [d EXCEPT !.steps = steps, !.local = local] \in Device BY DEF Device
<1>3. [d EXCEPT !.latched = status] \in Device BY OptionHas DEF Device
<1>. QED BY <1>1, <1>2, <1>3 DEF StepRun

\* And a transfer into buffers, from those it reads.
LEMMA TransferRunTyped ==
  ASSUME NEW target \in Device, NEW source \in Device, NEW good \in BOOLEAN
  PROVE  TransferRun(target, source, good) \in Device
<1> DEFINE answer == IF good
                     THEN [failed |-> FALSE, steps |-> source.steps, local |-> 0]
                     ELSE [failed |-> TRUE, steps |-> target.steps,
                           local |-> target.local]
<1>1. answer \in Answer BY DeviceParts DEF Answer
<1>2. answer \in Option(Answer) /\ 0 \in Option(Nat) BY <1>1, OptionHas
<1>3. /\ source.steps \in Nat /\ source.epoch + 1 \in Nat
      /\ source.processed \in Nat /\ source.applied \in Applications
  BY DeviceParts
<1>4. CASE good
  <2>1. TransferRun(target, source, good) =
          [target EXCEPT !.steps = source.steps, !.local = 0,
             !.epoch = source.epoch + 1, !.processed = source.processed,
             !.applied = source.applied, !.receipt = answer]
    BY <1>4 DEF TransferRun
  <2> HIDE DEF answer
  <2>2. PICK epoch \in Nat : epoch = source.epoch + 1 BY <1>3
  <2>3. [target EXCEPT !.steps = source.steps, !.local = 0,
           !.epoch = epoch, !.processed = source.processed,
           !.applied = source.applied, !.receipt = answer] \in Device
    BY <1>2, <1>3 DEF Device
  <2>. QED BY <2>1, <2>2, <2>3
<1>5. CASE ~good
  <2>1. TransferRun(target, source, good) =
          [target EXCEPT !.latched = 0, !.receipt = answer]
    BY <1>5 DEF TransferRun
  <2> HIDE DEF answer
  <2>. QED BY <1>2, <2>1 DEF Device
<1>. QED BY <1>4, <1>5

-----------------------------------------------------------------------------
(* What the render world encodes keeps its type. *)

\* The parts of a request and of groups.
LEMMA RequestParts ==
  ASSUME NEW x \in Request
  PROVE  /\ x.generation \in Nat /\ x.revision \in Nat /\ x.status \in Nat
         /\ x.cleared_failures \in Nat /\ x.desired_steps \in Nat
         /\ x.handles # None => x.handles \in Buffers
         /\ x.handoff # None => x.handoff \in Buffers
         /\ x.live_event # None => x.live_event \in Nat
BY OptionIs DEF Request

\* What of a generation its counters say was encoded, or the groups before.
LEMMA EncodedTyped ==
  ASSUME stats \in [Buffers -> Stats], NEW x \in Request, x.handles # None,
         NEW wave \in Option(Wave)
  PROVE  WaveGroup(x, Encoded(x, wave)) \in Wave
<1> DEFINE e == Encoded(x, wave)
<1>1. stats[x.handles] \in Stats BY RequestParts
<1>2. /\ e.encoded_steps \in Nat /\ e.encoded_local_step \in Nat
      /\ e.encoded_live_event \in Nat
  <2>1. CASE wave # None /\ e = Carried(wave)
    <3>1. wave \in Wave BY <2>1, OptionIs
    <3>2. /\ wave.encoded_steps \in Nat /\ wave.encoded_local_step \in Nat
          /\ wave.encoded_live_event \in Nat
      BY <3>1 DEF Wave
    <3> HIDE DEF e
    <3>. QED BY <2>1, <3>2 DEF Carried
  <2>2. CASE e = Reported(x)
    <3>1. /\ stats[x.handles].completed_steps \in Nat
          /\ stats[x.handles].local_step \in Nat
          /\ stats[x.handles].processed_event \in Nat
      BY <1>1 DEF Stats
    <3> HIDE DEF e
    <3>. QED BY <2>2, <3>1 DEF Reported
  <2>. QED BY <2>1, <2>2 DEF Encoded
<1> HIDE DEF e
<1>3. WaveGroup(x, e) \in Wave BY <1>2, RequestParts DEF WaveGroup, Wave
<1>. QED BY <1>3 DEF e

\* The groups a frame works with are groups.
LEMMA PreparedTyped ==
  ASSUME stats \in [Buffers -> Stats], transfers \in [Buffers -> Transfer],
         groups \in Groups, NEW x \in Request, NEW ready
  PROVE  Prepared(x, ready) \in Groups
<1>1. /\ groups.wave \in Option(Wave) /\ groups.event \in Option(Nat)
      /\ groups.handoff \in Option(HandoffGroup)
  BY DEF Groups
<1>2. WavePrepared(x, groups.wave, "wave" \in ready) \in Option(Wave)
  BY <1>1, EncodedTyped, OptionHas DEF WavePrepared
<1>3. HandoffPrepared(x, groups.handoff, "handoff" \in ready) \in
        Option(HandoffGroup)
  <2>1. x.handoff # None =>
          [revision |-> x.revision, encoded |-> TransferEncoded(x)] \in
            HandoffGroup
    BY RequestParts DEF TransferEncoded, Transfer, HandoffGroup
  <2>. QED BY <1>1, <2>1, OptionHas DEF HandoffPrepared
<1>4. EventPrepared(x, groups.event, "event" \in ready) \in Option(Nat)
  BY <1>1, RequestParts, OptionHas DEF EventPrepared
<1>. QED BY <1>2, <1>3, <1>4 DEF Prepared, Groups

\* What waits to be encoded has groups, and a generation.
LEMMA WaitingHasWave ==
  ASSUME NEW x \in Request, NEW g \in Groups, EventWaits(x, g) \/ StepWaits(x, g)
  PROVE  g.wave \in Wave /\ (EventWaits(x, g) => x.live_event \in Nat)
BY OptionIs, RequestParts DEF EventWaits, StepWaits, MayEncode, Current, Groups

\* The wave's groups after its work are groups.
LEMMA WaveEncodedTyped ==
  ASSUME NEW x \in Request, NEW g \in Groups
  PROVE  WaveEncoded(x, g) \in Option(Wave)
<1>1. g.wave \in Option(Wave) BY DEF Groups
<1>2. EventEncoded(x, g) \in Option(Wave) /\
        (EventWaits(x, g) \/ StepWaits(x, g) => EventEncoded(x, g) \in Wave)
  <2>1. CASE EventWaits(x, g)
    <3>1. g.wave \in Wave /\ x.live_event \in Nat BY <2>1, WaitingHasWave
    <3>2. EventEncoded(x, g) \in Wave BY <2>1, <3>1 DEF EventEncoded, Wave
    <3>. QED BY <3>2, OptionHas
  <2>2. CASE ~EventWaits(x, g)
    BY <1>1, <2>2, WaitingHasWave DEF EventEncoded
  <2>. QED BY <2>1, <2>2
<1>3. CASE StepWaits(x, g)
  <2> DEFINE e == EventEncoded(x, g)
             local == IF RebaseIsDue(e) THEN 0 ELSE e.encoded_local_step
  <2>1. e \in Wave BY <1>2, <1>3
  <2>2. WaveEncoded(x, g) = [e EXCEPT !.encoded_steps = e.encoded_steps + 1,
                                      !.encoded_local_step = local + 1]
    BY <1>3 DEF WaveEncoded, StepEncoded
  <2> HIDE DEF e
  <2>3. PICK steps \in Nat, next \in Nat :
          steps = e.encoded_steps + 1 /\ next = local + 1
    BY <2>1 DEF Wave
  <2> HIDE DEF local
  <2>4. [e EXCEPT !.encoded_steps = steps, !.encoded_local_step = next] \in Wave
    BY <2>1 DEF Wave
  <2>. QED BY <2>2, <2>3, <2>4, OptionHas
<1>4. CASE ~StepWaits(x, g)
  BY <1>2, <1>4 DEF WaveEncoded, StepEncoded
<1>. QED BY <1>3, <1>4

\* The buffers after a frame's waves are buffers.
LEMMA WaveRunTyped ==
  ASSUME NEW d \in Device, NEW x \in Request, NEW g \in Groups,
         NEW ok \in BOOLEAN
  PROVE  WaveRun(d, x, g, ok) \in Device
<1>1. PICK event \in Device :
        event = IF EventWaits(x, g) THEN EventRun(d, x.status, x.live_event) ELSE d
  BY WaitingHasWave, EventRunTyped
<1>2. PICK begun \in Device :
        begun = IF RebaseIsDue(g.wave) THEN Rebased(event, x.status) ELSE event
  BY RebasedTyped
<1>3. StepRun(begun, x.status, ok) \in Device BY RequestParts, StepRunTyped
<1>. QED BY <1>1, <1>2, <1>3 DEF WaveRun

-----------------------------------------------------------------------------
(* What the main world hears and settles. *)

\* What its systems work on.
HostStates ==
  [request : Request, stats : [Buffers -> Stats],
   transfers : [Buffers -> Transfer], display : Display, snapshot : Snapshot]

\* Of its type, and nothing asked of a generation that is gone.
Whole(s) ==
  /\ s \in HostStates
  /\ s.request.handles = None => /\ s.request.live_event = None
                                 /\ s.request.handoff = None
                                 /\ s.snapshot.phase = "none"

\* What none of its systems does: take a revision back or a handoff up, submit
\* a transfer, leave a generation with nothing, or ask for a snapshot.
Continues(s, t) ==
  /\ t.request.revision >= s.request.revision
  /\ t.request.revision = s.request.revision =>
       t.request.handoff = s.request.handoff
  /\ t.request.handoff \in {None, s.request.handoff}
  /\ t.request.handles = None => s.request.handles = None
  /\ \A b \in Buffers : t.transfers[b].submitted = s.transfers[b].submitted
  /\ s.snapshot.phase = "none" => t.snapshot.phase = "none"

\* One system's work after another's.
LEMMA ContinuesOn ==
  ASSUME NEW s \in HostStates, NEW t \in HostStates, NEW u \in HostStates,
         Continues(s, t), Continues(t, u)
  PROVE  Continues(s, u)
<1>1. /\ s.request.revision \in Nat /\ t.request.revision \in Nat
      /\ u.request.revision \in Nat
  BY DEF HostStates, Request
<1>. QED BY <1>1 DEF Continues

\* No work at all.
LEMMA ContinuesInPlace ==
  ASSUME NEW s \in HostStates
  PROVE  Continues(s, s)
BY DEF HostStates, Request, Continues

\* The parts of a state.
LEMMA HostParts ==
  ASSUME NEW s \in HostStates
  PROVE  /\ s.request \in Request /\ s.display \in Display
         /\ s.snapshot \in Snapshot
         /\ s.stats \in [Buffers -> Stats]
         /\ s.transfers \in [Buffers -> Transfer]
BY DEF HostStates

\* Counters of one set of buffers, of a display and a snapshot, written back.
LEMMA WithStats ==
  ASSUME NEW s \in HostStates, NEW b, NEW counts \in Stats
  PROVE  LET t == [s EXCEPT !.stats = [s.stats EXCEPT ![b] = counts]]
         IN  t \in HostStates /\ Continues(s, t)
             /\ t.request = s.request /\ t.snapshot = s.snapshot
<1>1. PICK all \in [Buffers -> Stats] : all = [s.stats EXCEPT ![b] = counts]
  BY HostParts
<1>2. [s EXCEPT !.stats = all] \in HostStates BY DEF HostStates
<1>. QED BY <1>1, <1>2, ContinuesInPlace DEF Continues, HostStates

LEMMA WithDisplay ==
  ASSUME NEW s \in HostStates, NEW d \in Display
  PROVE  LET t == [s EXCEPT !.display = d]
         IN  t \in HostStates /\ Continues(s, t)
             /\ t.request = s.request /\ t.snapshot = s.snapshot
BY ContinuesInPlace DEF Continues, HostStates

LEMMA WithSnapshot ==
  ASSUME NEW s \in HostStates, NEW w \in Snapshot,
         s.snapshot.phase = "none" => w.phase = "none"
  PROVE  LET t == [s EXCEPT !.snapshot = w]
         IN  t \in HostStates /\ Continues(s, t) /\ t.request = s.request
BY ContinuesInPlace DEF Continues, HostStates

\* A display's generation begun is a display.
LEMMA BeginGenerationTyped ==
  ASSUME NEW d \in Display, NEW g \in Nat
  PROVE  BeginGeneration(d, g) \in Display
BY OptionHas DEF BeginGeneration, EmptyDisplay, Display

\* The control of a report is counted and displayed.
LEMMA ControlHeardIs ==
  ASSUME NEW s \in HostStates, report \in Report
  PROVE  /\ ControlHeard(s) \in HostStates
         /\ Continues(s, ControlHeard(s))
         /\ ControlHeard(s).request = s.request
         /\ ControlHeard(s).snapshot = s.snapshot
<1> DEFINE known == s.stats[report.of]
           steps == Unwrapped(known.completed_steps, report.steps)
           counts == [completed_steps |-> steps, local_step |-> report.local,
                      processed_event |-> report.processed,
                      failure |-> known.failure]
           clock == [epoch |-> report.epoch, step_in_epoch |-> report.local,
                     accepted_steps |-> steps]
           begun == BeginGeneration(s.display, s.request.generation)
           heard == [s EXCEPT !.stats = [s.stats EXCEPT ![report.of] = counts]]
           shown == [begun EXCEPT !.clock = clock]
<1>1. /\ report.of \in Buffers /\ report.steps \in Nat /\ report.local \in Nat
      /\ report.epoch \in Nat /\ report.processed \in Nat
  BY DEF Report
<1>2. known \in Stats BY <1>1, HostParts
<1>3. steps \in Nat BY <1>1, <1>2, UnwrappedTyped DEF Stats
<1>4. known.failure \in BOOLEAN BY <1>2 DEF Stats
<1> HIDE DEF steps, known
<1>5. counts \in Stats BY <1>1, <1>3, <1>4 DEF Stats
<1>6. clock \in Option(Clock) BY <1>1, <1>3, OptionHas DEF Clock
<1>7. begun \in Display
  BY HostParts, RequestParts, BeginGenerationTyped
<1> HIDE DEF clock, begun, counts
<1>8. shown \in Display BY <1>6, <1>7 DEF Display
<1>9. /\ heard \in HostStates /\ Continues(s, heard)
      /\ heard.request = s.request /\ heard.snapshot = s.snapshot
  BY <1>5, WithStats
<1> HIDE DEF shown
<1>10. ControlHeard(s) = [heard EXCEPT !.display = shown]
  BY DEF ControlHeard, shown, counts, clock, begun, steps, known
<1> HIDE DEF heard
<1>11. LET t == [heard EXCEPT !.display = shown]
       IN  t \in HostStates /\ Continues(heard, t)
           /\ t.request = heard.request /\ t.snapshot = heard.snapshot
  BY <1>8, <1>9, WithDisplay
<1>. QED BY <1>9, <1>10, <1>11, ContinuesOn

\* So is its status.
LEMMA StatusHeardIs ==
  ASSUME NEW s \in HostStates, report \in Report
  PROVE  /\ StatusHeard(s) \in HostStates
         /\ Continues(s, StatusHeard(s))
         /\ StatusHeard(s).request = s.request
         /\ StatusHeard(s).snapshot = s.snapshot
<1> DEFINE counts == [s.stats[report.of] EXCEPT !.failure = report.failed]
<1>1. counts \in Stats
  <2>1. report.of \in Buffers /\ report.failed \in BOOLEAN BY DEF Report
  <2>2. s.stats[report.of] \in Stats BY <2>1, HostParts
  <2>. QED BY <2>1, <2>2 DEF Stats
<1> HIDE DEF counts
<1>2. StatusHeard(s) =
        IF report.status # s.request.status THEN s
        ELSE [s EXCEPT !.stats = [s.stats EXCEPT ![report.of] = counts]]
  BY DEF StatusHeard, counts
<1> DEFINE t == [s EXCEPT !.stats = [s.stats EXCEPT ![report.of] = counts]]
<1>3. /\ t \in HostStates /\ Continues(s, t)
      /\ t.request = s.request /\ t.snapshot = s.snapshot
  BY <1>1, WithStats
<1>4. StatusHeard(s) \in {s, t} BY <1>2
<1> HIDE DEF t
<1>. QED BY <1>3, <1>4, ContinuesInPlace

\* A report is heard whole.
LEMMA ReportHeardIs ==
  ASSUME NEW s, Whole(s), report \in Report
  PROVE  Whole(ReportHeard(s)) /\ Continues(s, ReportHeard(s))
<1> DEFINE t == ControlHeard(s)
           u == StatusHeard(t)
<1>1. s \in HostStates BY DEF Whole
<1>2. /\ t \in HostStates /\ Continues(s, t)
      /\ t.request = s.request /\ t.snapshot = s.snapshot
  BY <1>1, ControlHeardIs
<1> HIDE DEF t
<1>3. /\ u \in HostStates /\ Continues(t, u)
      /\ u.request = t.request /\ u.snapshot = t.snapshot
  BY <1>2, StatusHeardIs
<1> HIDE DEF u
<1>4. Continues(s, u) BY <1>1, <1>2, <1>3, ContinuesOn
<1>5. Whole(u) BY <1>2, <1>3 DEF Whole
<1>6. ReportHeard(s) = s \/ ReportHeard(s) = u BY DEF ReportHeard, t, u
<1>. QED BY <1>1, <1>4, <1>5, <1>6, ContinuesInPlace

\* So is a receipt, which completes the transfer it answers.
LEMMA ReceiptHeardIs ==
  ASSUME NEW s, Whole(s), receipt \in Receipt
  PROVE  Whole(ReceiptHeard(s)) /\ Continues(s, ReceiptHeard(s))
<1> DEFINE answer == [submitted |-> s.transfers[receipt.of].submitted,
                      completed |-> TRUE, failure |-> receipt.answer.failed,
                      snapshot_step |-> Low(receipt.answer.steps),
                      snapshot_local_step |-> receipt.answer.local]
           all == [s.transfers EXCEPT ![receipt.of] = answer]
           t == [s EXCEPT !.transfers = all]
<1>1. s \in HostStates BY DEF Whole
<1>2. receipt.of \in Buffers /\ receipt.answer \in Answer BY DEF Receipt
<1>3. /\ receipt.answer.failed \in BOOLEAN /\ receipt.answer.steps \in Nat
      /\ receipt.answer.local \in Nat
  BY <1>2 DEF Answer
<1>4. s.transfers[receipt.of] \in Transfer /\ s.transfers \in [Buffers -> Transfer]
  BY <1>1, <1>2, HostParts
<1>5. Low(receipt.answer.steps) \in Nat BY <1>3, LowBounds
<1>6. s.transfers[receipt.of].submitted \in BOOLEAN BY <1>4 DEF Transfer
<1>7. PICK known \in BOOLEAN, low \in Nat :
        /\ known = s.transfers[receipt.of].submitted
        /\ low = Low(receipt.answer.steps)
  BY <1>5, <1>6
<1>8. answer \in Transfer /\ answer.submitted = s.transfers[receipt.of].submitted
  BY <1>3, <1>7 DEF Transfer
<1> HIDE DEF answer
<1>9. /\ all \in [Buffers -> Transfer]
      /\ \A b \in Buffers : all[b].submitted = s.transfers[b].submitted
  BY <1>2, <1>4, <1>8
<1> HIDE DEF all
<1>10. t \in HostStates /\ t.request = s.request /\ t.snapshot = s.snapshot
       /\ t.transfers = all
  BY <1>1, <1>9 DEF HostStates
<1>11. Whole(t) BY <1>10 DEF Whole
<1>12. Continues(s, t) BY <1>1, <1>9, <1>10, ContinuesInPlace DEF Continues
<1>13. ReceiptHeard(s) = s \/ ReceiptHeard(s) = t BY DEF ReceiptHeard, t, all, answer
<1>. QED BY <1>1, <1>11, <1>12, <1>13, ContinuesInPlace

\* And what becomes of a snapshot, if one is asked for.
LEMMA SnapshotHeardIs ==
  ASSUME NEW s, Whole(s), NEW heard, "snapshot" \in heard => s.snapshot.phase # "none"
  PROVE  Whole(SnapshotHeard(s, heard)) /\ Continues(s, SnapshotHeard(s, heard))
<1>1. s \in HostStates /\ s.snapshot \in Snapshot BY HostParts DEF Whole
<1>2. ASSUME NEW w \in Snapshot, s.snapshot.phase = "none" => w.phase = "none"
      PROVE  LET t == [s EXCEPT !.snapshot = w] IN Whole(t) /\ Continues(s, t)
  <2> DEFINE t == [s EXCEPT !.snapshot = w]
  <2>1. t \in HostStates /\ Continues(s, t) /\ t.request = s.request
    BY <1>1, <1>2, WithSnapshot
  <2>2. t.snapshot = w BY <1>1 DEF HostStates
  <2> HIDE DEF t
  <2>3. Whole(t) /\ Continues(s, t) BY <1>2, <2>1, <2>2 DEF Whole
  <2>. QED BY <2>3 DEF t
<1>3. /\ [s.snapshot EXCEPT !.phase = "known"] \in Snapshot
      /\ [s.snapshot EXCEPT !.phase = "answered"] \in Snapshot
      /\ NoSnapshot \in Snapshot /\ NoSnapshot.phase = "none"
  BY <1>1 DEF Snapshot, NoSnapshot
<1>4. CASE s.snapshot.phase = "asked"
  BY <1>2, <1>3, <1>4 DEF SnapshotHeard
<1>5. CASE s.snapshot.phase # "asked" /\ "snapshot" \in heard
  BY <1>2, <1>3, <1>5 DEF SnapshotHeard
<1>6. CASE s.snapshot.phase # "asked" /\ "snapshot" \notin heard
  BY <1>1, <1>2, <1>3, <1>6, ContinuesInPlace DEF SnapshotHeard
<1>. QED BY <1>4, <1>5, <1>6

\* What comes with an extraction is heard in its order.
LEMMA HeardIs ==
  ASSUME NEW s, Whole(s), NEW heard,
         "report" \in heard => report \in Report,
         "receipt" \in heard => receipt \in Receipt,
         "snapshot" \in heard => s.snapshot.phase # "none"
  PROVE  Whole(Heard(s, heard)) /\ Continues(s, Heard(s, heard))
<1> DEFINE t == IF "report" \in heard THEN ReportHeard(s) ELSE s
           u == IF "receipt" \in heard THEN ReceiptHeard(t) ELSE t
<1>1. s \in HostStates BY DEF Whole
<1>2. Whole(t) /\ Continues(s, t) BY <1>1, ReportHeardIs, ContinuesInPlace
<1>3. t \in HostStates BY <1>2 DEF Whole
<1>4. "snapshot" \in heard => t.snapshot.phase # "none"
  <2>1. CASE "report" \in heard
    <3>1. ReportHeard(s) = s \/ ReportHeard(s) = StatusHeard(ControlHeard(s))
      BY DEF ReportHeard
    <3>2. ControlHeard(s) \in HostStates /\ ControlHeard(s).snapshot = s.snapshot
      BY <1>1, <2>1, ControlHeardIs
    <3>3. StatusHeard(ControlHeard(s)).snapshot = s.snapshot
      BY <2>1, <3>2, StatusHeardIs
    <3>. QED BY <2>1, <3>1, <3>3
  <2>2. CASE "report" \notin heard BY <2>2
  <2>. QED BY <2>1, <2>2
<1> HIDE DEF t
<1>5. Whole(u) /\ Continues(t, u) BY <1>2, <1>3, ReceiptHeardIs, ContinuesInPlace
<1>6. u \in HostStates BY <1>5 DEF Whole
<1>7. "snapshot" \in heard => u.snapshot.phase # "none"
  <2>1. ReceiptHeard(t).snapshot = t.snapshot
    BY <1>3 DEF ReceiptHeard, HostStates
  <2>. QED BY <1>4, <2>1
<1> HIDE DEF u
<1>8. Whole(SnapshotHeard(u, heard)) /\ Continues(u, SnapshotHeard(u, heard))
  BY <1>5, <1>7, SnapshotHeardIs
<1>9. SnapshotHeard(u, heard) \in HostStates BY <1>8 DEF Whole
<1>10. Continues(s, SnapshotHeard(u, heard))
  <2>1. Continues(s, u) BY <1>1, <1>2, <1>3, <1>5, <1>6, ContinuesOn
  <2>. QED BY <1>1, <1>6, <1>8, <1>9, <2>1, ContinuesOn
<1>11. Heard(s, heard) = SnapshotHeard(u, heard) BY DEF Heard, t, u
<1>. QED BY <1>8, <1>10, <1>11

\* A revised request is one, one revision on.
LEMMA RevisedIs ==
  ASSUME NEW x \in Request
  PROVE  /\ Revised(x) \in Request
         /\ Revised(x).revision = x.revision + 1
         /\ Revised(x).handles = x.handles
         /\ Revised(x).handoff = x.handoff
         /\ Revised(x).live_event = x.live_event
<1>1. PICK n \in Nat : n = x.revision + 1 BY RequestParts
<1>2. [x EXCEPT !.revision = n] \in Request BY DEF Request
<1>3. Revised(x) = [x EXCEPT !.revision = n] BY <1>1 DEF Revised
<1>. QED BY <1>1, <1>2, <1>3 DEF Request

\* A refusal ends the handoff.
LEMMA RefusedIs ==
  ASSUME NEW s, Whole(s)
  PROVE  Whole(Refused(s)) /\ Continues(s, Refused(s))
<1> DEFINE r == s.request
           x == [r EXCEPT !.handoff = None]
           t == [s EXCEPT !.request = Revised(x)]
<1>1. s \in HostStates /\ r \in Request BY HostParts DEF Whole
<1>2. /\ x \in Request /\ x.handoff = None /\ x.handles = r.handles
      /\ x.live_event = r.live_event /\ x.revision = r.revision
  BY <1>1, OptionHas DEF Request
<1> HIDE DEF x
<1>3. /\ Revised(x) \in Request /\ Revised(x).revision = r.revision + 1
      /\ Revised(x).handles = r.handles /\ Revised(x).handoff = None
      /\ Revised(x).live_event = r.live_event
  BY <1>2, RevisedIs
<1>4. /\ t \in HostStates /\ t.request = Revised(x)
      /\ t.snapshot = s.snapshot /\ t.transfers = s.transfers
  BY <1>1, <1>3 DEF HostStates
<1> HIDE DEF t
<1>5. Whole(t) BY <1>3, <1>4 DEF Whole
<1>6. Continues(s, t)
  <2>1. r.revision \in Nat BY <1>1, RequestParts
  <2>. QED BY <1>1, <1>3, <1>4, <2>1 DEF Continues
<1>7. Refused(s) = t BY DEF Refused, t, x
<1>. QED BY <1>5, <1>6, <1>7

\* The handoff's target becomes the request's own.
LEMMA AdmittedIs ==
  ASSUME NEW s, Whole(s), s.request.handoff # None
  PROVE  Whole(Admitted(s)) /\ Continues(s, Admitted(s))
<1> DEFINE r == s.request
           answer == s.transfers[r.handoff]
           steps == Unwrapped(s.stats[r.handles].completed_steps,
                              answer.snapshot_step)
           counts == [NewStats(steps) EXCEPT !.local_step = answer.snapshot_local_step]
           all == [s.stats EXCEPT ![r.handoff] = counts]
           wanted == Larger(r.desired_steps, steps)
           next == r.generation + 1
           x == [r EXCEPT !.generation = next, !.handles = r.handoff,
                          !.status = 0, !.handoff = None, !.desired_steps = wanted]
           begun == BeginGeneration(s.display, next)
           t == [s EXCEPT !.request = Revised(x), !.stats = all,
                          !.snapshot = NoSnapshot, !.display = begun]
<1>1. s \in HostStates /\ r \in Request BY HostParts DEF Whole
<1>2. /\ r.handoff \in Buffers /\ r.handles \in Buffers /\ r.generation \in Nat
      /\ r.desired_steps \in Nat /\ r.revision \in Nat
  BY <1>1, RequestParts DEF Whole
<1>3. answer \in Transfer /\ s.stats[r.handles] \in Stats BY <1>1, <1>2, HostParts
<1>4. /\ answer.snapshot_step \in Nat /\ answer.snapshot_local_step \in Nat
      /\ s.stats[r.handles].completed_steps \in Nat
  <2> HIDE DEF answer
  <2>. QED BY <1>3 DEF Transfer, Stats
<1>5. steps \in Nat BY <1>4, UnwrappedTyped
<1>6. wanted \in Nat /\ next \in Nat
  <2> HIDE DEF steps
  <2>1. wanted \in Nat BY <1>2, <1>5, LargerTyped
  <2>2. next \in Nat BY <1>2
  <2>. QED BY <2>1, <2>2
<1>7. counts \in Stats
  <2> HIDE DEF steps, answer
  <2>1. NewStats(steps) \in Stats BY <1>5 DEF NewStats, Stats
  <2>. QED BY <1>4, <2>1 DEF Stats
<1> HIDE DEF answer, steps, counts, wanted
<1>8. all \in [Buffers -> Stats] BY <1>1, <1>7, HostParts
<1>9. begun \in Display BY <1>1, <1>6, HostParts, BeginGenerationTyped
<1> HIDE DEF all, next, begun
<1>10. /\ x \in Request /\ x.handoff = None /\ x.handles = r.handoff
       /\ x.revision = r.revision
  <2>1. 0 \in Nat /\ None \in Option(Buffers) /\ r.handoff \in Option(Buffers)
    BY <1>2, OptionHas
  <2>. QED BY <1>1, <1>6, <2>1 DEF Request
<1> HIDE DEF x
<1>11. /\ Revised(x) \in Request /\ Revised(x).revision = r.revision + 1
       /\ Revised(x).handles = r.handoff /\ Revised(x).handoff = None
  BY <1>10, RevisedIs
<1>12. NoSnapshot \in Snapshot /\ NoSnapshot.phase = "none"
  BY DEF NoSnapshot, Snapshot
<1>13. /\ t \in HostStates /\ t.request = Revised(x)
       /\ t.snapshot = NoSnapshot /\ t.transfers = s.transfers
  BY <1>1, <1>8, <1>9, <1>11, <1>12 DEF HostStates
<1> HIDE DEF t
<1>14. None \notin Buffers BY NoneAssumption, Bounds DEF Buffers
<1>15. Whole(t) BY <1>2, <1>11, <1>13, <1>14 DEF Whole
<1>16. Continues(s, t) BY <1>2, <1>11, <1>12, <1>13, <1>14 DEF Continues
<1>17. Admitted(s) = t
  BY DEF Admitted, t, x, begun, all, next, wanted, counts, steps, answer
<1>. QED BY <1>15, <1>16, <1>17

\* The handoff that has an answer is refused or admitted.
LEMMA HandoffSettledIs ==
  ASSUME NEW s, Whole(s)
  PROVE  Whole(HandoffSettled(s)) /\ Continues(s, HandoffSettled(s))
<1>1. s \in HostStates BY DEF Whole
<1>. QED BY <1>1, RefusedIs, AdmittedIs, ContinuesInPlace DEF HandoffSettled

\* The event that has been processed is forgotten.
LEMMA EventSettledIs ==
  ASSUME NEW s, Whole(s)
  PROVE  Whole(EventSettled(s)) /\ Continues(s, EventSettled(s))
<1> DEFINE r == s.request
           x == [r EXCEPT !.live_event = None]
           t == [s EXCEPT !.request = Revised(x)]
<1>1. s \in HostStates /\ r \in Request BY HostParts DEF Whole
<1>2. /\ x \in Request /\ x.handoff = r.handoff /\ x.handles = r.handles
      /\ x.live_event = None /\ x.revision = r.revision
  BY <1>1, OptionHas DEF Request
<1> HIDE DEF x
<1>3. /\ Revised(x) \in Request /\ Revised(x).revision = r.revision + 1
      /\ Revised(x).handles = r.handles /\ Revised(x).handoff = r.handoff
      /\ Revised(x).live_event = None
  BY <1>2, RevisedIs
<1>4. /\ t \in HostStates /\ t.request = Revised(x)
      /\ t.snapshot = s.snapshot /\ t.transfers = s.transfers
  BY <1>1, <1>3 DEF HostStates
<1> HIDE DEF t
<1>5. Whole(t) BY <1>3, <1>4 DEF Whole
<1>6. Continues(s, t)
  <2>1. r.revision \in Nat BY <1>1, RequestParts
  <2>. QED BY <1>1, <1>3, <1>4, <2>1 DEF Continues
<1>7. EventSettled(s) = s \/ EventSettled(s) = t BY DEF EventSettled, t, x
<1>. QED BY <1>1, <1>5, <1>6, <1>7, ContinuesInPlace

\* The snapshot the clock has reached is displayed.
LEMMA SnapshotReceivedIs ==
  ASSUME NEW s, Whole(s)
  PROVE  Whole(SnapshotReceived(s)) /\ Continues(s, SnapshotReceived(s))
<1> DEFINE taken == s.snapshot
           known == s.stats[s.request.handles].completed_steps
           state == Decoding(taken, known)
           begun == BeginGeneration(s.display, s.request.generation)
           shown == [begun EXCEPT !.state = state]
           bare == [s EXCEPT !.snapshot = NoSnapshot]
           t == [s EXCEPT !.snapshot = NoSnapshot, !.display = shown]
<1>1. s \in HostStates /\ taken \in Snapshot BY HostParts DEF Whole
<1>2. CASE taken.phase # "answered"
  BY <1>1, <1>2, ContinuesInPlace DEF SnapshotReceived
<1>3. CASE taken.phase = "answered"
  <2>1. s.request \in Request /\ s.request.handles # None
    BY <1>1, <1>3, HostParts DEF Whole
  <2>2. s.request.handles \in Buffers /\ s.request.generation \in Nat
    BY <2>1, RequestParts
  <2>3. known \in Nat
    <3>1. s.stats[s.request.handles] \in Stats BY <1>1, <2>2, HostParts
    <3>. QED BY <3>1 DEF Stats
  <2>4. state \in Option(Decoded)
    <3>1. taken.steps \in Nat /\ taken.epoch \in Nat BY <1>1 DEF Snapshot
    <3> HIDE DEF taken
    <3>2. Low(taken.steps) \in Nat BY <3>1, LowBounds
    <3>3. Unwrapped(known, Low(taken.steps)) \in Nat
      BY <2>3, <3>2, UnwrappedTyped
    <3>4. taken.epoch % EpochWidth \in Nat BY <3>1, Bounds
    <3> HIDE DEF known
    <3>5. PICK steps \in Nat, epoch \in Nat :
            /\ steps = Unwrapped(known, Low(taken.steps))
            /\ epoch = taken.epoch % EpochWidth
      BY <3>3, <3>4
    <3>6. state \in Decoded BY <3>1, <3>5 DEF Decoding, Decoded
    <3>. QED BY <3>6, OptionHas
  <2>5. begun \in Display BY <1>1, <2>2, HostParts, BeginGenerationTyped
  <2> HIDE DEF state, begun
  <2>6. shown \in Display BY <2>4, <2>5 DEF Display
  <2> HIDE DEF shown
  <2>7. NoSnapshot \in Snapshot /\ NoSnapshot.phase = "none"
    BY DEF NoSnapshot, Snapshot
  <2>8. /\ t \in HostStates /\ t.request = s.request
        /\ t.snapshot = NoSnapshot /\ t.transfers = s.transfers
    BY <1>1, <2>6, <2>7 DEF HostStates
  <2> HIDE DEF t
  <2>9. Whole(t) BY <2>7, <2>8 DEF Whole
  <2>10. Continues(s, t)
    BY <1>1, <2>7, <2>8, ContinuesInPlace DEF Continues
  <2>11. SnapshotReceived(s) = s \/ SnapshotReceived(s) = t
    BY DEF SnapshotReceived, t, shown, begun, state, known, taken
  <2>. QED BY <1>1, <2>9, <2>10, <2>11, ContinuesInPlace
<1>. QED BY <1>2, <1>3

\* All that was heard is settled.
LEMMA SettledIs ==
  ASSUME NEW s, Whole(s)
  PROVE  Whole(Settled(s)) /\ Continues(s, Settled(s))
<1>1. Whole(HandoffSettled(s)) /\ Continues(s, HandoffSettled(s))
  BY HandoffSettledIs
<1>2. PICK t : t = HandoffSettled(s) OBVIOUS
<1>3. Whole(EventSettled(t)) /\ Continues(t, EventSettled(t))
  BY <1>1, <1>2, EventSettledIs
<1>4. PICK u : u = EventSettled(t) OBVIOUS
<1>5. Whole(SnapshotReceived(u)) /\ Continues(u, SnapshotReceived(u))
  BY <1>3, <1>4, SnapshotReceivedIs
<1>6. /\ s \in HostStates /\ t \in HostStates /\ u \in HostStates
      /\ SnapshotReceived(u) \in HostStates
  BY <1>1, <1>2, <1>3, <1>4, <1>5 DEF Whole
<1>7. Continues(s, u) BY <1>1, <1>2, <1>3, <1>4, <1>6, ContinuesOn
<1>8. Continues(s, SnapshotReceived(u)) BY <1>5, <1>6, <1>7, ContinuesOn
<1>. QED BY <1>2, <1>4, <1>5, <1>8 DEF Settled

-----------------------------------------------------------------------------
(* What of the invariant reads no counts, of which the rest is about. *)

\* What is asked of a generation goes with it, and a copied snapshot is of one
\* the render world has.
Generations ==
  /\ request.handles = None => /\ request.live_event = None
                               /\ request.handoff = None
                               /\ snapshot.phase = "none"
  /\ snapshot.phase \notin {"none", "asked"} => extracted.handles # None

\* A transfer ran where it was submitted, and only into buffers that are made;
\* the handoff's groups, while they are of the request's revision, know which.
Transactions ==
  /\ request.handoff # None => request.handoff <= made
  /\ extracted.handoff # None => extracted.handoff <= made
  /\ extracted.revision <= request.revision
  /\ extracted.revision = request.revision => extracted.handoff = request.handoff
  /\ \A b \in Buffers : /\ ran[b] = IF transfers[b].submitted THEN 1 ELSE 0
                        /\ b > made => ran[b] = 0
  /\ groups.handoff # None =>
       /\ groups.handoff.revision <= extracted.revision
       /\ extracted.handoff # None /\ groups.handoff.revision = extracted.revision =>
            groups.handoff.encoded = transfers[extracted.handoff].submitted

\* Types, generations and transactions.
TransfersInvariant == TypeOK /\ Generations /\ Transactions

-----------------------------------------------------------------------------
(* The operations on the request. *)

\* What the invariant says of the variables' types, and of a running
\* generation's counters.
LEMMA Types ==
  ASSUME TransfersInvariant
  PROVE  /\ TypeOK /\ Generations /\ Transactions
         /\ request \in Request /\ extracted \in Request
         /\ request.revision \in Nat /\ extracted.revision \in Nat
         /\ Installed => /\ request.handles \in Buffers /\ Own \in Stats
                         /\ Own.completed_steps \in Nat
                         /\ Own.processed_event \in Nat
                         /\ Own.failure \in BOOLEAN
<1>1. TypeOK /\ Generations /\ Transactions BY DEF TransfersInvariant
<1>2. request \in Request /\ extracted \in Request BY <1>1 DEF TypeOK
<1>3. Installed => request.handles \in Buffers /\ Own \in Stats
  BY <1>1, <1>2, RequestParts DEF TypeOK, Installed, Own
<1>4. Own \in Stats => /\ Own.completed_steps \in Nat
                       /\ Own.processed_event \in Nat
                       /\ Own.failure \in BOOLEAN
  BY DEF Stats
<1>. QED BY <1>1, <1>2, <1>3, <1>4, RequestParts

\* An operation that leaves the render world and the transfers alone keeps the
\* invariant if it moves the revision with the handoff, and leaves nothing
\* with a generation it ends.
LEMMA OperationTransfers ==
  ASSUME TransfersInvariant, TypeOK',
         UNCHANGED <<transfers, extracted, groups, ran>>,
         made' \in Nat, made' >= made,
         request'.revision >= request.revision,
         request'.revision = request.revision => request'.handoff = request.handoff,
         request'.handoff # None => request'.handoff <= made',
         request'.handles = None => /\ request'.live_event = None
                                    /\ request'.handoff = None
                                    /\ snapshot'.phase = "none",
         snapshot'.phase \notin {"none", "asked"} => snapshot' = snapshot
  PROVE  TransfersInvariant'
<1>1. TypeOK /\ Generations /\ Transactions BY DEF TransfersInvariant
<1>2. Generations' BY <1>1 DEF Generations
<1>3. Transactions'
  <2>1. made \in Nat BY <1>1, Bounds DEF TypeOK, Buffers
  <2>2. extracted.handoff # None => extracted.handoff \in Nat
    BY <1>1, RequestParts DEF TypeOK, Buffers
  <2>3. request.revision \in Nat /\ extracted.revision \in Nat /\ request'.revision \in Nat
    BY <1>1, RequestParts DEF TypeOK, Request
  <2>4. extracted.handoff # None => extracted.handoff <= made'
    BY <1>1, <2>1, <2>2 DEF Transactions
  <2>5. extracted.revision <= request'.revision BY <1>1, <2>3 DEF Transactions
  <2>6. extracted.revision = request'.revision => extracted.handoff = request'.handoff
    BY <1>1, <2>3 DEF Transactions
  <2>7. \A b \in Buffers : b > made' => ran[b] = 0
    BY <1>1, <2>1, Bounds DEF Transactions, Buffers
  <2>. QED BY <1>1, <2>4, <2>5, <2>6, <2>7 DEF Transactions
<1>. QED BY <1>2, <1>3 DEF TransfersInvariant

\* A withdrawn handoff moves the revision.
LEMMA WithoutHandoffIs ==
  ASSUME NEW x \in Request
  PROVE  /\ WithoutHandoff(x) \in Request
         /\ WithoutHandoff(x).handoff = None
         /\ WithoutHandoff(x).handles = x.handles
         /\ WithoutHandoff(x).live_event = x.live_event
         /\ WithoutHandoff(x).revision >= x.revision
         /\ WithoutHandoff(x).revision = x.revision => x.handoff = None
<1> DEFINE y == [x EXCEPT !.handoff = None]
<1>1. x.revision \in Nat BY RequestParts
<1>2. /\ y \in Request /\ y.handoff = None /\ y.handles = x.handles
      /\ y.live_event = x.live_event /\ y.revision = x.revision
  BY OptionHas DEF Request
<1> HIDE DEF y
<1>3. /\ Revised(y) \in Request /\ Revised(y).handoff = None
      /\ Revised(y).handles = x.handles /\ Revised(y).live_event = x.live_event
      /\ Revised(y).revision = x.revision + 1
  BY <1>2, RevisedIs
<1>4. WithoutHandoff(x) = IF x.handoff = None THEN x ELSE Revised(y)
  BY DEF WithoutHandoff, y
<1>. QED BY <1>1, <1>3, <1>4

\* So does a generation emptied of one.
LEMMA EmptiedIs ==
  ASSUME NEW x \in Request
  PROVE  /\ Emptied(x) \in Request
         /\ Emptied(x).handoff = None /\ Emptied(x).handles = None
         /\ Emptied(x).live_event = None
         /\ Emptied(x).revision >= x.revision
         /\ Emptied(x).revision = x.revision => x.handoff = None
<1>1. PICK y : y = WithoutHandoff(x) OBVIOUS
<1>2. /\ y \in Request /\ y.handoff = None /\ y.revision >= x.revision
      /\ y.revision = x.revision => x.handoff = None
  BY <1>1, WithoutHandoffIs
<1>3. PICK z : z = [y EXCEPT !.live_event = None, !.handles = None,
                             !.desired_steps = 0]
  OBVIOUS
<1>4. 0 \in Nat /\ None \in Option(Nat) /\ None \in Option(Buffers)
  BY OptionHas
<1>5. /\ z \in Request /\ z.handoff = None /\ z.handles = None
      /\ z.live_event = None /\ z.revision = y.revision
  BY <1>2, <1>3, <1>4 DEF Request
<1>6. Emptied(x) = z BY <1>1, <1>3 DEF Emptied
<1>. QED BY <1>2, <1>5, <1>6

\* clear
LEMMA ClearTransfers == TransfersInvariant /\ Clear => TransfersInvariant'
<1>. SUFFICES ASSUME TransfersInvariant, Clear PROVE TransfersInvariant' OBVIOUS
<1>1. TypeOK /\ request \in Request BY Types
<1>2. NoSnapshot \in Snapshot /\ NoSnapshot.phase = "none"
  BY DEF NoSnapshot, Snapshot
<1>3. TypeOK'
  BY <1>1, <1>2, EmptiedIs DEF Clear, TypeOK, render, bounds
<1>4. made \in Nat BY <1>1, Bounds DEF TypeOK, Buffers
<1>. QED BY <1>1, <1>2, <1>3, <1>4, EmptiedIs, OperationTransfers DEF Clear, render, bounds

\* install
LEMMA InstallTransfers == TransfersInvariant /\ Install => TransfersInvariant'
<1>. SUFFICES ASSUME TransfersInvariant, Install PROVE TransfersInvariant' OBVIOUS
<1>1. TypeOK /\ request \in Request /\ request.revision \in Nat BY Types
<1>2. NoSnapshot \in Snapshot /\ NoSnapshot.phase = "none"
  BY DEF NoSnapshot, Snapshot
<1>3. /\ made \in Nat /\ made' \in Buffers /\ made' = made + 1
      /\ made + 1 \in Option(Buffers)
  BY <1>1, Bounds, OptionHas DEF Install, TypeOK, Buffers
<1>4. PICK y : y = Emptied(request) OBVIOUS
<1>5. PICK n \in Nat : n = request.generation + 1 BY <1>1, RequestParts
<1>6. PICK z : z = [y EXCEPT !.generation = n, !.handles = made + 1, !.status = 0]
  OBVIOUS
<1>7. /\ y \in Request /\ y.handoff = None /\ y.live_event = None
      /\ y.revision \in Nat /\ y.revision >= request.revision
  BY <1>1, <1>4, EmptiedIs, RequestParts
<1>8. /\ z \in Request /\ z.handoff = None /\ z.handles = made + 1
      /\ z.live_event = None /\ z.revision = y.revision
  <2>1. 0 \in Nat OBVIOUS
  <2>. QED BY <1>3, <1>6, <1>7, <2>1 DEF Request
<1>9. /\ request' = Revised(z) /\ request' \in Request
      /\ request'.revision = y.revision + 1
      /\ request'.handles = made + 1 /\ request'.handoff = None
  BY <1>4, <1>5, <1>6, <1>8, RevisedIs DEF Install
<1>10. stats' \in [Buffers -> Stats]
  <2>1. NewStats(0) \in Stats BY DEF NewStats, Stats
  <2>. QED BY <1>1, <2>1 DEF Install, TypeOK
<1>11. device' \in [Buffers -> Device]
  BY <1>1, FreshTyped DEF Install, TypeOK
<1>12. TypeOK'
  BY <1>1, <1>2, <1>3, <1>9, <1>10, <1>11 DEF Install, TypeOK
<1>13. request'.handles # None BY <1>3, <1>9, NoneIsNoBuffer
<1>. QED BY <1>1, <1>2, <1>3, <1>7, <1>9, <1>12, <1>13, OperationTransfers DEF Install

\* withdraw_handoff
LEMMA WithdrawHandoffTransfers == TransfersInvariant /\ WithdrawHandoff => TransfersInvariant'
<1>. SUFFICES ASSUME TransfersInvariant, WithdrawHandoff PROVE TransfersInvariant'
  OBVIOUS
<1>1. TypeOK /\ Generations /\ request \in Request BY Types
<1>2. /\ request' \in Request /\ request'.handoff = None
      /\ request'.handles = request.handles /\ request.handles # None
      /\ request'.revision >= request.revision
      /\ request'.revision = request.revision => request.handoff = None
  BY <1>1, WithoutHandoffIs DEF WithdrawHandoff, Running, Installed
<1>3. TypeOK' BY <1>1, <1>2 DEF WithdrawHandoff, TypeOK, render, bounds
<1>4. made \in Nat BY <1>1, Bounds DEF TypeOK, Buffers
<1>. QED BY <1>2, <1>3, <1>4, OperationTransfers DEF WithdrawHandoff, render, bounds

\* queue_live_event
LEMMA QueueLiveEventTransfers == TransfersInvariant /\ QueueLiveEvent => TransfersInvariant'
<1>. SUFFICES ASSUME TransfersInvariant, QueueLiveEvent PROVE TransfersInvariant'
  OBVIOUS
<1>1. TypeOK /\ request \in Request /\ request.revision \in Nat BY Types
<1>2. Installed BY DEF QueueLiveEvent, Running
<1>3. serial \in Nat /\ Own.processed_event \in Nat
  BY <1>1, <1>2, Types DEF TypeOK
<1>4. PICK next \in Nat : next = Larger(serial, Own.processed_event) + 1
  BY <1>3, LargerTyped
<1>5. PICK y : y = [request EXCEPT !.live_event = next] OBVIOUS
<1>6. /\ y \in Request /\ y.handoff = request.handoff
      /\ y.handles = request.handles /\ y.revision = request.revision
  BY <1>1, <1>4, <1>5, OptionHas DEF Request
<1>7. /\ request' = Revised(y) /\ request' \in Request
      /\ request'.revision = request.revision + 1
      /\ request'.handles = request.handles
      /\ request'.handoff = request.handoff /\ request.handoff = None
  BY <1>4, <1>5, <1>6, RevisedIs DEF QueueLiveEvent
<1>8. sent' \in 0..Events BY <1>1, Bounds DEF QueueLiveEvent, TypeOK
<1>9. TypeOK'
  BY <1>1, <1>4, <1>7, <1>8 DEF QueueLiveEvent, TypeOK, render
<1>10. made \in Nat BY <1>1, Bounds DEF TypeOK, Buffers
<1>. QED
  BY <1>1, <1>2, <1>7, <1>9, <1>10, OperationTransfers
  DEF QueueLiveEvent, render, Installed

\* clear_failure
LEMMA ClearFailureTransfers == TransfersInvariant /\ ClearFailure => TransfersInvariant'
<1>. SUFFICES ASSUME TransfersInvariant, ClearFailure PROVE TransfersInvariant'
  OBVIOUS
<1>1. TypeOK /\ Generations /\ Transactions BY Types
<1>2. request \in Request /\ request.revision \in Nat /\ Installed
  BY Types DEF ClearFailure
<1>3. /\ Own \in Stats /\ Own.completed_steps \in Nat
      /\ request.handles \in Buffers
  BY <1>2, Types
<1>4. PICK steps \in Nat, cleared \in Nat, status \in Nat :
        /\ steps = Own.completed_steps
        /\ cleared = request.cleared_failures + 1
        /\ status = request.status + 1
  BY <1>2, <1>3, RequestParts
<1>5. PICK y : y = [request EXCEPT !.desired_steps = steps,
                      !.cleared_failures = cleared, !.status = status]
  OBVIOUS
<1>6. /\ y \in Request /\ y.handoff = request.handoff
      /\ y.handles = request.handles /\ y.live_event = request.live_event
      /\ y.revision = request.revision
  BY <1>2, <1>5 DEF Request
<1>7. /\ request' = Revised(y) /\ request' \in Request
      /\ request'.revision = request.revision + 1
      /\ request'.handles = request.handles
      /\ request'.handoff = request.handoff
  BY <1>4, <1>5, <1>6, RevisedIs DEF ClearFailure
<1>8. stats' \in [Buffers -> Stats]
  <2>1. [Own EXCEPT !.failure = FALSE] \in Stats BY <1>3 DEF Stats
  <2>. QED BY <1>1, <2>1 DEF ClearFailure, TypeOK
<1>9. TypeOK' BY <1>1, <1>7, <1>8 DEF ClearFailure, TypeOK, render, bounds
<1>10. made \in Nat BY <1>1, Bounds DEF TypeOK, Buffers
<1>11. request'.handles # None BY <1>2, <1>7 DEF Installed
<1>. QED
  BY <1>1, <1>2, <1>7, <1>9, <1>10, <1>11, OperationTransfers
  DEF ClearFailure, render, bounds, Transactions

\* request_steps
LEMMA RequestStepTransfers == TransfersInvariant /\ RequestStep => TransfersInvariant'
<1>. SUFFICES ASSUME TransfersInvariant, RequestStep PROVE TransfersInvariant'
  OBVIOUS
<1>1. TypeOK /\ Generations /\ Transactions BY Types
<1>2. request \in Request /\ request.revision \in Nat /\ request.handles # None
  BY Types DEF RequestStep, Running, Installed
<1>3. PICK steps \in Nat : steps = request.desired_steps + 1
  BY <1>2, RequestParts
<1>4. /\ request' \in Request /\ request'.revision = request.revision
      /\ request'.handles = request.handles
      /\ request'.handoff = request.handoff
  BY <1>2, <1>3 DEF RequestStep, Request
<1>5. asked' \in 0..Steps BY <1>1, Bounds DEF RequestStep, TypeOK
<1>6. TypeOK' BY <1>1, <1>4, <1>5 DEF RequestStep, TypeOK, render
<1>7. made \in Nat BY <1>1, Bounds DEF TypeOK, Buffers
<1>. QED
  BY <1>1, <1>2, <1>4, <1>6, <1>7, OperationTransfers
  DEF RequestStep, render, Transactions

\* request_full_state_readback
LEMMA RequestSnapshotTransfers == TransfersInvariant /\ RequestSnapshot => TransfersInvariant'
<1>. SUFFICES ASSUME TransfersInvariant, RequestSnapshot PROVE TransfersInvariant'
  OBVIOUS
<1>1. TypeOK /\ Generations /\ Transactions BY Types
<1>2. request \in Request /\ request.revision \in Nat /\ request.handles # None
  BY Types DEF RequestSnapshot, Running, Installed
<1>3. snapshot' \in Snapshot /\ snapshot'.phase = "asked"
  BY DEF RequestSnapshot, NoSnapshot, Snapshot
<1>4. TypeOK' BY <1>1, <1>3 DEF RequestSnapshot, TypeOK, render, bounds
<1>5. made \in Nat BY <1>1, Bounds DEF TypeOK, Buffers
<1>. QED
  BY <1>1, <1>2, <1>3, <1>4, <1>5, OperationTransfers
  DEF RequestSnapshot, render, bounds, Transactions

\* begin_handoff: its buffers are new, and no transfer ran into them.
LEMMA BeginHandoffTransfers == TransfersInvariant /\ BeginHandoff => TransfersInvariant'
<1>. SUFFICES ASSUME TransfersInvariant, BeginHandoff PROVE TransfersInvariant'
  OBVIOUS
<1>1. TypeOK /\ Generations /\ Transactions BY Types
<1>2. /\ request \in Request /\ request.revision \in Nat
      /\ extracted \in Request /\ extracted.revision \in Nat
      /\ request.handles # None
  BY Types DEF BeginHandoff, Running, Installed
<1>3. /\ made \in Nat /\ made' \in Buffers /\ made' = made + 1
      /\ made + 1 \in Option(Buffers)
  BY <1>1, Bounds, OptionHas DEF BeginHandoff, TypeOK, Buffers
<1>4. PICK y : y = [request EXCEPT !.handoff = made + 1] OBVIOUS
<1>5. /\ y \in Request /\ y.handoff = made + 1
      /\ y.handles = request.handles /\ y.revision = request.revision
  BY <1>2, <1>3, <1>4 DEF Request
<1>6. /\ request' = Revised(y) /\ request' \in Request
      /\ request'.revision = request.revision + 1
      /\ request'.handles = request.handles /\ request'.handoff = made + 1
  BY <1>4, <1>5, RevisedIs DEF BeginHandoff
<1>7. NewTransfer \in Transfer /\ NewTransfer.submitted = FALSE
  BY DEF NewTransfer, Transfer
<1>8. /\ transfers' \in [Buffers -> Transfer]
      /\ \A b \in Buffers :
           transfers'[b] = IF b = made + 1 THEN NewTransfer ELSE transfers[b]
  BY <1>1, <1>7 DEF BeginHandoff, TypeOK
<1>9. device' \in [Buffers -> Device]
  BY <1>1, FreshTyped DEF BeginHandoff, TypeOK
<1>10. TypeOK' BY <1>1, <1>3, <1>6, <1>8, <1>9 DEF BeginHandoff, TypeOK
<1>11. Generations' BY <1>1, <1>2, <1>6 DEF BeginHandoff, Generations
<1>12. Transactions'
  <2>1. extracted.handoff # None => extracted.handoff \in Buffers /\ extracted.handoff <= made
    BY <1>1, <1>2, RequestParts DEF Transactions
  <2>2. extracted.handoff # None =>
          /\ extracted.handoff <= made'
          /\ transfers'[extracted.handoff] = transfers[extracted.handoff]
    BY <1>3, <1>8, <2>1 DEF Buffers
  <2>3. extracted.revision < request'.revision
    BY <1>1, <1>2, <1>6 DEF Transactions
  <2>4. \A b \in Buffers : /\ ran[b] = IF transfers'[b].submitted THEN 1 ELSE 0
                           /\ b > made' => ran[b] = 0
    BY <1>1, <1>3, <1>7, <1>8 DEF Transactions, Buffers
  <2>5. request'.handoff <= made' BY <1>3, <1>6
  <2>6. UNCHANGED <<extracted, groups, ran>> BY DEF BeginHandoff
  <2>. QED
    BY <1>1, <1>2, <1>6, <2>2, <2>3, <2>4, <2>5, <2>6 DEF Transactions
<1>. QED BY <1>10, <1>11, <1>12 DEF TransfersInvariant

-----------------------------------------------------------------------------
(* The render world's frame, and what is heard behind it. *)

\* A transfer that waits has its buffers, and was not submitted: the groups at
\* hand say so, those of this revision by what they encoded, new ones by the
\* counters of the handoff.
LEMMA TransferWaiting ==
  ASSUME TransfersInvariant, NEW ready, TransferWaits(extracted, Prepared(extracted, ready))
  PROVE  /\ extracted.handles \in Buffers /\ extracted.handoff \in Buffers
         /\ ~transfers[extracted.handoff].submitted
         /\ Prepared(extracted, ready).handoff \in HandoffGroup
<1>1. TypeOK /\ Transactions /\ extracted \in Request BY Types
<1> DEFINE x == extracted
           g == HandoffPrepared(x, groups.handoff, "handoff" \in ready)
           new == [revision |-> x.revision, encoded |-> TransferEncoded(x)]
<1>2. Prepared(x, ready).handoff = g BY DEF Prepared
<1>3. g # None /\ g.revision = x.revision /\ ~g.encoded
  BY <1>2 DEF TransferWaits
<1>4. /\ x.handles # None /\ x.handoff # None
      /\ g = groups.handoff \/ g = new
  BY <1>3 DEF HandoffPrepared
<1>5. x.handles \in Buffers /\ x.handoff \in Buffers
  BY <1>1, <1>4, RequestParts
<1> HIDE DEF g
<1>6. ~transfers[x.handoff].submitted
  <2>1. CASE g = groups.handoff
    BY <1>1, <1>3, <1>4, <2>1 DEF Transactions
  <2>2. CASE g = new
    BY <1>3, <2>2 DEF TransferEncoded
  <2>. QED BY <1>4, <2>1, <2>2
<1>7. g \in HandoffGroup
  <2>1. Prepared(x, ready) \in Groups BY <1>1, PreparedTyped DEF TypeOK
  <2>. QED BY <1>2, <1>3, <2>1, OptionIs DEF Groups
<1>. QED BY <1>2, <1>5, <1>6, <1>7

\* What a copy is of.
LEMMA CopyableIs ==
  /\ "report" \in Copyable => extracted.handles # None
  /\ "receipt" \in Copyable => extracted.handoff # None
  /\ "snapshot" \in Copyable => snapshot.phase = "known"
<1>1. "report" \in Copyable => extracted.handles # None BY DEF Copyable
<1>2. "receipt" \in Copyable => extracted.handoff # None BY DEF Copyable
<1>3. "snapshot" \in Copyable => snapshot.phase = "known" BY DEF Copyable
<1>. QED BY <1>1, <1>2, <1>3

\* A frame of the render world submits the transfer that waits, once, and
\* marks it in its groups and for those built after them.
LEMMA DrawTransfers ==
  ASSUME TransfersInvariant,
         NEW ready \in SUBSET Wanted, NEW copied \in SUBSET Copyable,
         Draw(ready, copied)
  PROVE  TransfersInvariant'
<1>1. /\ TypeOK /\ Generations /\ Transactions
      /\ extracted \in Request /\ extracted.revision \in Nat
  BY Types
<1> DEFINE x == extracted
           g == Prepared(x, ready)
           waves == "wave" \in ready
           transfer == "handoff" \in ready /\ TransferWaits(x, g)
           before == device[x.handles]
<1>2. PICK ok \in BOOLEAN, good \in BOOLEAN :
        LET own == IF waves THEN WaveRun(before, x, g, ok) ELSE before
            target == IF transfer THEN TransferRun(device[x.handoff], own, good)
                      ELSE device[x.handoff]
        IN  /\ ok \/ (waves /\ StepMayFail(before, x, g) /\ failures < Failures)
            /\ good \/ transfer
            /\ transfer /\ ran[x.handoff] > 0 => ~good
            /\ failures' = IF ok THEN failures ELSE failures + 1
            /\ device' = [b \in Buffers |-> IF b = x.handles THEN own
                                            ELSE IF b = x.handoff THEN target
                                            ELSE device[b]]
            /\ report' = IF "report" \in copied THEN ReportOf(x, own) ELSE report
            /\ receipt' = IF "receipt" \in copied THEN ReceiptOf(x, target)
                          ELSE receipt
            /\ snapshot' = IF "snapshot" \in copied THEN SnapshotOf(own)
                           ELSE snapshot
  BY DEF Draw
<1> DEFINE own == IF waves THEN WaveRun(before, x, g, ok) ELSE before
           target == IF transfer THEN TransferRun(device[x.handoff], own, good)
                     ELSE device[x.handoff]
<1>3. g \in Groups BY <1>1, PreparedTyped DEF TypeOK
<1>4. transfer => /\ x.handles \in Buffers /\ x.handoff \in Buffers
                  /\ ~transfers[x.handoff].submitted
                  /\ g.handoff \in HandoffGroup
                  /\ g.handoff # None /\ g.handoff.revision = x.revision
  BY TransferWaiting DEF TransferWaits
<1>5. x.handles # None => own \in Device
  <2>1. x.handles # None => before \in Device BY <1>1, RequestParts DEF TypeOK
  <2>. QED BY <1>1, <1>3, <2>1, WaveRunTyped
<1>6. x.handoff # None => target \in Device
  <2>1. x.handoff # None => device[x.handoff] \in Device
    BY <1>1, RequestParts DEF TypeOK
  <2>2. transfer => own \in Device BY <1>4, <1>5, NoneIsNoBuffer
  <2>. QED BY <2>1, <2>2, TransferRunTyped
<1>7. /\ failures' = IF ok THEN failures ELSE failures + 1
      /\ ok \/ failures < Failures
      /\ device' = [b \in Buffers |-> IF b = x.handles THEN own
                                      ELSE IF b = x.handoff THEN target
                                      ELSE device[b]]
      /\ report' = IF "report" \in copied THEN ReportOf(x, own) ELSE report
      /\ receipt' = IF "receipt" \in copied THEN ReceiptOf(x, target) ELSE receipt
      /\ snapshot' = IF "snapshot" \in copied THEN SnapshotOf(own) ELSE snapshot
  BY <1>2
<1>8. groups' = [wave |-> IF waves THEN WaveEncoded(x, g) ELSE g.wave,
                 handoff |-> IF transfer THEN [g.handoff EXCEPT !.encoded = TRUE]
                             ELSE g.handoff,
                 event |-> g.event]
  BY DEF Draw
<1>9. /\ transfers' =
           IF transfer THEN [transfers EXCEPT ![x.handoff] =
                               [transfers[x.handoff] EXCEPT !.submitted = TRUE]]
           ELSE transfers
      /\ ran' = IF transfer THEN [ran EXCEPT ![x.handoff] = ran[x.handoff] + 1]
                ELSE ran
      /\ UNCHANGED <<request, stats, display, serial, extracted, bounds>>
      /\ frame' \in {"drawn", "drawn_fully"}
  BY DEF Draw
<1>10. /\ "report" \in copied => x.handles # None
       /\ "receipt" \in copied => x.handoff # None
       /\ "snapshot" \in copied => x.handles # None /\ snapshot.phase = "known"
  BY <1>1, CopyableIs DEF Generations
<1> HIDE DEF own, target, waves, before, transfer, g
<1>11. device' \in [Buffers -> Device]
  BY <1>1, <1>5, <1>6, <1>7, NoneIsNoBuffer DEF TypeOK
<1>12. report' \in Option(Report)
  <2>1. ASSUME "report" \in copied PROVE ReportOf(x, own) \in Report
    <3>1. own \in Device /\ x.handles \in Buffers /\ x.status \in Nat
      BY <1>1, <1>5, <1>10, <2>1, RequestParts
    <3>2. /\ own.steps \in Nat /\ own.local \in Nat /\ own.epoch \in Nat
          /\ own.processed \in Nat
      BY <3>1, DeviceParts
    <3>3. Low(own.steps) \in Nat /\ Stopped(own, x.status) \in BOOLEAN
      BY <3>2, LowBounds DEF Stopped
    <3>. QED BY <3>1, <3>2, <3>3 DEF ReportOf, Report
  <2>. QED BY <1>1, <1>7, <2>1, OptionHas DEF TypeOK
<1>13. receipt' \in Option(Receipt)
  <2>1. ASSUME "receipt" \in copied PROVE ReceiptOf(x, target) \in Option(Receipt)
    <3>1. target \in Device /\ x.handoff \in Buffers
      BY <1>1, <1>6, <1>10, <2>1, RequestParts
    <3>2. target.receipt # None => target.receipt \in Answer
      BY <3>1, DeviceParts, OptionIs
    <3>3. target.receipt # None =>
            [of |-> x.handoff, answer |-> target.receipt] \in Receipt
      BY <3>1, <3>2 DEF Receipt
    <3>. QED BY <3>3, OptionHas DEF ReceiptOf
  <2>. QED BY <1>1, <1>7, <2>1 DEF TypeOK
<1>14. /\ snapshot' \in Snapshot
       /\ \/ snapshot' = snapshot
          \/ snapshot'.phase = "taken" /\ x.handles # None /\ snapshot.phase = "known"
  <2>1. ASSUME "snapshot" \in copied PROVE SnapshotOf(own) \in Snapshot
    <3>1. own.steps \in Nat /\ own.epoch \in Nat
      BY <1>5, <1>10, <2>1, DeviceParts
    <3>. QED BY <3>1 DEF SnapshotOf, Snapshot
  <2>2. SnapshotOf(own).phase = "taken" BY DEF SnapshotOf
  <2>. QED BY <1>1, <1>7, <1>10, <2>1, <2>2 DEF TypeOK
<1>15. groups' \in Groups
  <2>1. /\ g.wave \in Option(Wave) /\ g.event \in Option(Nat)
        /\ g.handoff \in Option(HandoffGroup)
    BY <1>3 DEF Groups
  <2>2. PICK wave \in Option(Wave) :
          wave = IF waves THEN WaveEncoded(x, g) ELSE g.wave
    BY <1>1, <1>3, <2>1, WaveEncodedTyped
  <2>3. PICK handoff \in Option(HandoffGroup) :
          handoff = IF transfer THEN [g.handoff EXCEPT !.encoded = TRUE]
                    ELSE g.handoff
    <3>1. transfer => [g.handoff EXCEPT !.encoded = TRUE] \in HandoffGroup
      BY <1>4 DEF HandoffGroup
    <3>. QED BY <2>1, <3>1, OptionHas
  <2>. QED BY <1>8, <2>1, <2>2, <2>3 DEF Groups
<1>16. /\ transfers' \in [Buffers -> Transfer]
       /\ ran' \in [Buffers -> Nat]
       /\ \A b \in Buffers :
            IF transfer /\ b = x.handoff
            THEN transfers'[b].submitted = TRUE /\ ran'[b] = ran[b] + 1
            ELSE transfers'[b] = transfers[b] /\ ran'[b] = ran[b]
  <2>1. transfers \in [Buffers -> Transfer] /\ ran \in [Buffers -> Nat]
    BY <1>1 DEF TypeOK
  <2>2. CASE transfer
    <3>1. x.handoff \in Buffers BY <1>4, <2>2
    <3>2. PICK t : t = [transfers[x.handoff] EXCEPT !.submitted = TRUE] OBVIOUS
    <3>3. t \in Transfer /\ t.submitted = TRUE BY <2>1, <3>1, <3>2 DEF Transfer
    <3>4. transfers' = [transfers EXCEPT ![x.handoff] = t]
      BY <1>9, <2>2, <3>2
    <3>5. ran' = [ran EXCEPT ![x.handoff] = ran[x.handoff] + 1] BY <1>9, <2>2
    <3>. QED BY <2>1, <2>2, <3>1, <3>3, <3>4, <3>5
  <2>3. CASE ~transfer BY <1>9, <2>1, <2>3
  <2>. QED BY <2>2, <2>3
<1>17. failures' \in 0..Failures BY <1>1, <1>7, Bounds DEF TypeOK
<1>18. TypeOK'
  BY <1>1, <1>9, <1>11, <1>12, <1>13, <1>14, <1>15, <1>16, <1>17
  DEF TypeOK, bounds
<1>19. Generations' BY <1>1, <1>9, <1>14 DEF Generations
<1>20. Transactions'
  <2>1. \A b \in Buffers : /\ ran'[b] = IF transfers'[b].submitted THEN 1 ELSE 0
                           /\ b > made => ran'[b] = 0
    <3>1. made \in Nat BY <1>1, Bounds DEF TypeOK, Buffers
    <3>2. transfer => ~(x.handoff > made) /\ ran[x.handoff] = 0
      BY <1>1, <1>4, <3>1, NoneIsNoBuffer DEF Transactions, Buffers
    <3>. QED BY <1>1, <1>16, <3>2 DEF Transactions
  <2>2. ASSUME groups'.handoff # None
        PROVE  /\ groups'.handoff.revision <= x.revision
               /\ x.handoff # None /\ groups'.handoff.revision = x.revision =>
                    groups'.handoff.encoded = transfers'[x.handoff].submitted
    <3>1. CASE transfer
      <4>1. groups'.handoff = [g.handoff EXCEPT !.encoded = TRUE]
        BY <1>8, <3>1
      <4>2. groups'.handoff.revision = x.revision /\ groups'.handoff.encoded = TRUE
        BY <1>4, <3>1, <4>1 DEF HandoffGroup
      <4>3. transfers'[x.handoff].submitted = TRUE BY <1>4, <1>16, <3>1
      <4>4. x.revision <= x.revision BY <1>1
      <4>. QED BY <4>2, <4>3, <4>4
    <3>2. CASE ~transfer
      <4>1. groups'.handoff = g.handoff /\ transfers' = transfers
        BY <1>8, <1>9, <3>2
      <4>2. g.handoff = HandoffPrepared(x, groups.handoff, "handoff" \in ready)
        BY DEF Prepared, g
      <4>3. \/ g.handoff = groups.handoff
            \/ /\ g.handoff.revision = x.revision
               /\ g.handoff.encoded = transfers[x.handoff].submitted
        BY <2>2, <4>1, <4>2 DEF HandoffPrepared, TransferEncoded
      <4>4. CASE g.handoff = groups.handoff
        BY <1>1, <2>2, <4>1, <4>4 DEF Transactions
      <4>5. CASE /\ g.handoff.revision = x.revision
                 /\ g.handoff.encoded = transfers[x.handoff].submitted
        <5>1. x.revision <= x.revision BY <1>1
        <5>. QED BY <4>1, <4>5, <5>1
      <4>. QED BY <4>3, <4>4, <4>5
    <3>. QED BY <3>1, <3>2
  <2>3. UNCHANGED <<request, extracted, made>> BY <1>9 DEF bounds
  <2>. QED BY <1>1, <2>1, <2>2, <2>3 DEF Transactions
<1>. QED BY <1>18, <1>19, <1>20 DEF TransfersInvariant

\* What has arrived.
LEMMA ArrivedIs ==
  /\ "report" \in Arrived => report # None
  /\ "receipt" \in Arrived => receipt # None
  /\ "snapshot" \in Arrived => snapshot.phase = "taken"
<1>1. "report" \in Arrived => report # None BY DEF Arrived
<1>2. "receipt" \in Arrived => receipt # None BY DEF Arrived
<1>3. "snapshot" \in Arrived => snapshot.phase = "taken" BY DEF Arrived
<1>. QED BY <1>1, <1>2, <1>3

\* An extraction takes the request over ahead of what it hears, which takes no
\* revision back: groups that are of the request's revision are of its handoff.
LEMMA ExtractTransfers ==
  ASSUME TransfersInvariant, NEW heard,
         "report" \in heard => report # None,
         "receipt" \in heard => receipt # None,
         "snapshot" \in heard => snapshot.phase = "taken",
         Extract(heard)
  PROVE  TransfersInvariant'
<1>1. /\ TypeOK /\ Generations /\ Transactions
      /\ request \in Request /\ request.revision \in Nat
      /\ extracted.revision \in Nat
  BY Types
<1>2. PICK t : t = Settled(Heard(Host, heard)) OBVIOUS
<1>3. Host \in HostStates /\ Whole(Host)
  <2>1. Host \in HostStates BY <1>1 DEF TypeOK, Host, HostStates
  <2>2. Host.request = request /\ Host.snapshot = snapshot BY DEF Host
  <2>. QED BY <1>1, <2>1, <2>2 DEF Whole, Generations
<1>4. Whole(t) /\ t \in HostStates /\ Continues(Host, t)
  <2>1. /\ "report" \in heard => report \in Report
        /\ "receipt" \in heard => receipt \in Receipt
        /\ "snapshot" \in heard => Host.snapshot.phase # "none"
    BY <1>1, OptionIs DEF TypeOK, Host
  <2>2. PICK u : u = Heard(Host, heard) OBVIOUS
  <2>3. Whole(u) /\ Continues(Host, u) BY <1>3, <2>1, <2>2, HeardIs
  <2>4. Whole(t) /\ Continues(u, t) BY <1>2, <2>2, <2>3, SettledIs
  <2>5. u \in HostStates /\ t \in HostStates BY <2>3, <2>4 DEF Whole
  <2>. QED BY <1>3, <2>3, <2>4, <2>5, ContinuesOn
<1>5. /\ request' = t.request /\ stats' = t.stats
      /\ transfers' = t.transfers /\ display' = t.display
      /\ snapshot' = t.snapshot
      /\ extracted' = request
      /\ frame' \in {"heard", "heard_fully"}
      /\ report' \in {None, report} /\ receipt' \in {None, receipt}
      /\ UNCHANGED <<serial, groups, device, ran, failures, bounds>>
  BY <1>2 DEF Extract, Become
<1>6. TypeOK'
  <2>1. report' \in Option(Report) /\ receipt' \in Option(Receipt)
    BY <1>1, <1>5, OptionHas DEF TypeOK
  <2>. QED BY <1>1, <1>4, <1>5, <2>1, HostParts DEF TypeOK, bounds
<1>7. /\ request'.revision >= request.revision
      /\ request'.revision = request.revision => request'.handoff = request.handoff
      /\ request'.handoff \in {None, request.handoff}
      /\ request'.handles = None => request.handles = None
      /\ \A b \in Buffers : transfers'[b].submitted = transfers[b].submitted
      /\ snapshot.phase = "none" => snapshot'.phase = "none"
  BY <1>4, <1>5 DEF Continues, Host
<1>8. Generations'
  BY <1>1, <1>4, <1>5, <1>7 DEF Generations, Whole
<1>9. Transactions'
  <2>1. request'.revision \in Nat BY <1>6 DEF TypeOK, Request
  <2>2. groups.handoff # None => groups.handoff.revision \in Nat
    BY <1>1, OptionIs DEF TypeOK, Groups, HandoffGroup
  <2>3. groups.handoff # None =>
          /\ groups.handoff.revision <= request.revision
          /\ groups.handoff.revision = request.revision =>
               /\ groups.handoff.revision = extracted.revision
               /\ extracted.handoff = request.handoff
    BY <1>1, <2>2 DEF Transactions
  <2>4. request.handoff # None => request.handoff \in Buffers
    BY <1>1, RequestParts
  <2>5. groups.handoff # None /\ request.handoff # None
          /\ groups.handoff.revision = request.revision =>
            groups.handoff.encoded = transfers'[request.handoff].submitted
    BY <1>1, <1>7, <2>3, <2>4 DEF Transactions
  <2>6. UNCHANGED <<groups, ran, made>> /\ extracted' = request
    BY <1>5 DEF bounds
  <2>7. \A b \in Buffers : /\ ran[b] = IF transfers'[b].submitted THEN 1 ELSE 0
                           /\ b > made => ran[b] = 0
    BY <1>1, <1>7 DEF Transactions
  <2>8. request'.handoff # None => request'.handoff <= made
    BY <1>1, <1>7 DEF Transactions
  <2>. QED
    BY <1>1, <1>7, <2>1, <2>3, <2>5, <2>6, <2>7, <2>8 DEF Transactions
<1>. QED BY <1>6, <1>8, <1>9 DEF TransfersInvariant

-----------------------------------------------------------------------------
(* The behaviours. *)

\* The generation at StartStep is a good start.
LEMMA InitTransfers == Init => TransfersInvariant
<1>. SUFFICES ASSUME Init PROVE TransfersInvariant OBVIOUS
<1> USE OptionHas, NoneIsNoBuffer, Bounds
<1>1. /\ FirstRequest \in Request /\ FirstRequest.handles = 1
      /\ FirstRequest.handoff = None /\ FirstRequest.live_event = None
      /\ FirstRequest.revision = 1
  <2>1. 1 \in Option(Buffers) /\ None \in Option(Nat) /\ None \in Option(Buffers)
    OBVIOUS
  <2>. QED BY <2>1 DEF FirstRequest, Request
<1>2. NoSnapshot \in Snapshot /\ NoSnapshot.phase = "none"
  BY DEF NoSnapshot, Snapshot
<1>3. EmptyDisplay(1) \in Display BY DEF EmptyDisplay, Display
<1>4. NoGroups \in Groups /\ NoGroups.handoff = None BY DEF NoGroups, Groups
<1>5. NewTransfer \in Transfer /\ NewTransfer.submitted = FALSE
  BY DEF NewTransfer, Transfer
<1>6. PICK start \in [Buffers -> Nat] :
        /\ stats = [b \in Buffers |-> NewStats(start[b])]
        /\ device = [b \in Buffers |-> Fresh(start[b])]
  <2>1. [b \in Buffers |-> IF b = 1 THEN StartStep ELSE 0] \in [Buffers -> Nat]
    OBVIOUS
  <2>. QED BY <2>1 DEF Init
<1>7. stats \in [Buffers -> Stats]
  <2>1. \A n \in Nat : NewStats(n) \in Stats BY DEF NewStats, Stats
  <2>. QED BY <1>6, <2>1
<1>8. device \in [Buffers -> Device] BY <1>6, FreshTyped
<1>9. /\ request = FirstRequest /\ extracted = FirstRequest
      /\ transfers = [b \in Buffers |-> NewTransfer]
      /\ display = EmptyDisplay(1) /\ snapshot = NoSnapshot /\ serial = 0
      /\ groups = NoGroups /\ report = None /\ receipt = None
      /\ frame = "heard" /\ ran = [b \in Buffers |-> 0]
      /\ made = 1 /\ sent = 0 /\ asked = 0 /\ failures = 0
  BY DEF Init
<1>10. TypeOK
  BY <1>1, <1>2, <1>3, <1>4, <1>5, <1>7, <1>8, <1>9 DEF TypeOK
<1>11. Generations BY <1>1, <1>2, <1>9 DEF Generations
<1>12. Transactions
  BY <1>1, <1>4, <1>5, <1>9 DEF Transactions
<1>. QED BY <1>10, <1>11, <1>12 DEF TransfersInvariant

\* Every step keeps the invariant.
LEMMA StepTransfers == TransfersInvariant /\ [Next]_vars => TransfersInvariant'
<1>. SUFFICES ASSUME TransfersInvariant, [Next]_vars PROVE TransfersInvariant' OBVIOUS
<1>1. CASE UNCHANGED vars
  BY <1>1 DEF vars, host, render, bounds, TransfersInvariant, TypeOK, Generations,
     Transactions
<1>2. ASSUME NEW heard \in SUBSET Arrived, Extract(heard) PROVE TransfersInvariant'
  BY <1>2, ArrivedIs, ExtractTransfers
<1>3. ASSUME NEW heard \in SUBSET Arrived, ExtractUnmapped(heard)
      PROVE  TransfersInvariant'
  <2>1. Extract(heard \cup {"unmapped"}) BY <1>3 DEF ExtractUnmapped
  <2>2. PICK all : all = heard \cup {"unmapped"} OBVIOUS
  <2>3. /\ "report" \in all => report # None
        /\ "receipt" \in all => receipt # None
        /\ "snapshot" \in all => snapshot.phase = "taken"
    BY <1>3, <2>2, ArrivedIs
  <2>. QED BY <2>1, <2>2, <2>3, ExtractTransfers
<1>4. ASSUME NEW ready \in SUBSET Wanted, NEW copied \in SUBSET Copyable,
             Draw(ready, copied)
      PROVE  TransfersInvariant'
  BY <1>4, DrawTransfers
<1>. QED
  BY <1>1, <1>2, <1>3, <1>4, ClearTransfers, InstallTransfers, BeginHandoffTransfers,
     WithdrawHandoffTransfers, QueueLiveEventTransfers, ClearFailureTransfers, RequestStepTransfers,
     RequestSnapshotTransfers DEF Next

\* Every reachable state keeps the invariant: every field its type, and the
\* render world knows of every handoff whether its transfer was encoded.
THEOREM TransfersAreInvariant == Spec => []TransfersInvariant
<1>. QED BY InitTransfers, StepTransfers, PTL DEF Spec

\* A handoff's transfer runs once into its buffers, for every number of
\* revisions while it is pending (RT-4).
THEOREM TransfersRunOnce == Spec => []TransferRunsOnce
<1>1. TransfersInvariant => TransferRunsOnce
  BY DEF TransfersInvariant, Transactions, TransferRunsOnce
<1>. QED BY <1>1, TransfersAreInvariant, PTL
=============================================================================
