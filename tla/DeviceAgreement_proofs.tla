----------------------- MODULE DeviceAgreement_proofs ------------------------
(***************************************************************************)
(* That InductiveInvariant holds of every behaviour of DeviceEncoding, for *)
(* every number of buffers, events, steps and failures and every width of  *)
(* the device's counts, and what follows of the device's safety; and, on   *)
(* top of it, that the clocks the host decodes by are of one another.      *)
(***************************************************************************)
EXTENDS DeviceEncoding_proofs

-----------------------------------------------------------------------------
(* The worlds agree through an extraction, and through what is settled. *)

\* The types that the variables the main world's systems leave alone have.
Surroundings ==
  /\ device \in [Buffers -> Device]
  /\ report \in Option(Report) /\ receipt \in Option(Receipt)
  /\ groups \in Groups
  /\ made \in Buffers /\ asked \in 0..Steps /\ serial \in Nat

\* Counters and buffers of a set.
LEMMA SetParts ==
  ASSUME Surroundings, NEW s \in HostStates, NEW b \in Buffers
  PROVE  /\ s.stats[b] \in Stats /\ s.transfers[b] \in Transfer
         /\ s.stats[b].completed_steps \in Nat
         /\ s.stats[b].local_step \in Nat
         /\ s.stats[b].processed_event \in Nat
         /\ s.stats[b].failure \in BOOLEAN
         /\ s.transfers[b].submitted \in BOOLEAN
         /\ s.transfers[b].snapshot_step \in Nat
         /\ s.transfers[b].snapshot_local_step \in Nat
         /\ device[b] \in Device /\ device[b].steps \in Nat
         /\ device[b].local \in Nat /\ device[b].processed \in Nat
         /\ device[b].applied \in Applications
         /\ device[b].receipt # None => device[b].receipt \in Answer
<1>1. s.stats[b] \in Stats /\ s.transfers[b] \in Transfer BY HostParts
<1>2. device[b] \in Device BY DEF Surroundings
<1>3. /\ s.stats[b].completed_steps \in Nat /\ s.stats[b].local_step \in Nat
      /\ s.stats[b].processed_event \in Nat /\ s.stats[b].failure \in BOOLEAN
  BY <1>1 DEF Stats
<1>4. /\ s.transfers[b].submitted \in BOOLEAN
      /\ s.transfers[b].snapshot_step \in Nat
      /\ s.transfers[b].snapshot_local_step \in Nat
  BY <1>1 DEF Transfer
<1>. QED BY <1>1, <1>2, <1>3, <1>4, DeviceParts, OptionIs

\* The counts of a report.
LEMMA ReportParts ==
  ASSUME Surroundings, report # None
  PROVE  /\ report \in Report /\ report.of \in Buffers
         /\ report.status \in Nat /\ report.steps \in Nat
         /\ report.local \in Nat /\ report.epoch \in Nat
         /\ report.processed \in Nat /\ report.failed \in BOOLEAN
<1>1. report \in Report BY OptionIs DEF Surroundings
<1>. QED BY <1>1 DEF Report

\* The counts of the wave's groups.
LEMMA WaveParts ==
  ASSUME NEW wave \in Wave
  PROVE  /\ wave.generation \in Nat /\ wave.revision \in Nat
         /\ wave.cleared_failures \in Nat /\ wave.encoded_steps \in Nat
         /\ wave.encoded_local_step \in Nat /\ wave.encoded_live_event \in Nat
BY DEF Wave

\* What is heard of a running generation is less than half the width behind.
LEMMA Close ==
  ASSUME Surroundings, NEW base \in 0..StartStep, NEW a \in Nat, NEW c \in Nat,
         base <= a, a <= base + asked, base <= c, c <= base + asked
  PROVE  Unwrapped(a, Low(c)) = c
<1>1. asked \in Nat /\ asked <= Steps BY Bounds DEF Surroundings
<1>2. a - c <= Steps /\ c - a <= Steps BY <1>1, Bounds
<1>3. 2 * Steps < CountWidth BY WidthsAssumption
<1>4. 2 * (a - c) < CountWidth /\ 2 * (c - a) < CountWidth BY <1>2, <1>3, Bounds
<1>. QED BY <1>4, UnwrapIsExact

\* The parts of an agreement that read no counter and no display.
LEMMA SameRequests ==
  ASSUME NEW s, NEW t, NEW x, t.request = s.request, t.transfers = s.transfers,
         t.snapshot = s.snapshot, Agree(s, x)
  PROVE  /\ OfAGeneration(t, x) /\ TransfersAreKnown(t, x)
         /\ Follows(x, t.request) /\ ReceiptIsTrue(t) /\ EventsInOrder(t, x)
<1>1. OfAGeneration(t, x) BY DEF Agree, OfAGeneration
<1>2. TransfersAreKnown(t, x) BY DEF Agree, TransfersAreKnown
<1>3. Follows(x, t.request) BY DEF Agree
<1>4. ReceiptIsTrue(t) BY DEF Agree, ReceiptIsTrue
<1>5. EventsInOrder(t, x) BY DEF Agree, EventsInOrder
<1>. QED BY <1>1, <1>2, <1>3, <1>4, <1>5

\* An extraction gives the render world the main world's request.  Its groups
\* are of no later one, so that they are of this one or nothing has run of it.
LEMMA ExtractedAgrees ==
  ASSUME Surroundings, NEW s \in HostStates, NEW x \in Request, Agree(s, x)
  PROVE  Agree(s, s.request)
<1> DEFINE r == s.request
           b == r.handles
<1>1. r \in Request BY HostParts
<1>2. /\ r.generation \in Nat /\ r.revision \in Nat /\ r.status \in Nat
      /\ r.cleared_failures \in Nat /\ r.desired_steps \in Nat
      /\ b # None => b \in Buffers
      /\ r.handoff # None => r.handoff \in Buffers
      /\ x.generation \in Nat /\ x.revision \in Nat /\ x.status \in Nat
      /\ x.cleared_failures \in Nat /\ x.desired_steps \in Nat
      /\ r.live_event # None => r.live_event \in Nat
  BY <1>1, RequestParts
<1>3. groups.wave # None => groups.wave \in Wave
  BY OptionIs DEF Surroundings, Groups
<1>4. groups.wave # None =>
        /\ groups.wave.generation \in Nat /\ groups.wave.revision \in Nat
        /\ groups.wave.cleared_failures \in Nat
  BY <1>3, WaveParts
<1> HIDE DEF r
<1>5. /\ OfAGeneration(s, x) /\ TransfersAreKnown(s, x) /\ Follows(x, r)
      /\ WorkIsKnown(s, x) /\ ReportIsTrue(s, x) /\ ReceiptIsTrue(s)
      /\ CountsAreClose(s) /\ DecodedExactly(s) /\ EventsInOrder(s, x)
  BY DEF Agree, r
<1>6. OfAGeneration(s, r) BY <1>5 DEF OfAGeneration, r
<1>7. Follows(r, r)
  BY <1>2, <1>5 DEF Follows, InOrder
<1>8. TransfersAreKnown(s, r)
  <2>1. groups.handoff # None => groups.handoff.revision \in Nat
    BY OptionIs DEF Surroundings, Groups, HandoffGroup
  <2>2. groups.handoff # None =>
          /\ groups.handoff.revision <= r.revision
          /\ groups.handoff.revision = r.revision =>
               groups.handoff.revision = x.revision /\ x.handoff = r.handoff
    BY <1>2, <1>5, <2>1 DEF TransfersAreKnown, r
  <2>3. r.handoff # None /\ r.handoff = r.handles => FALSE
    BY <1>2, <1>7 DEF InOrder, Follows, Buffers
  <2>4. r.revision <= r.revision BY <1>2
  <2>. QED BY <1>5, <2>2, <2>3, <2>4 DEF TransfersAreKnown, r
<1>9. WorkIsKnown(s, r)
  <2>1. IsOf(groups.wave, r)
    <3>1. /\ x.revision <= r.revision
          /\ x.generation <= r.generation
          /\ x.cleared_failures <= r.cleared_failures
          /\ x.revision = r.revision => x.cleared_failures = r.cleared_failures
      BY <1>5 DEF Follows, TransfersAreKnown, r
    <3>2. IsOf(groups.wave, x) BY <1>5 DEF WorkIsKnown
    <3>. QED BY <1>2, <1>4, <3>1, <3>2 DEF IsOf
  <2>2. EncodesOn(s, groups.wave, r, r.live_event)
    <3>1. CASE b = None BY <3>1 DEF EncodesOn
    <3>2. CASE b # None /\ x.generation = r.generation
               /\ x.cleared_failures = r.cleared_failures
      <4>1. x.handles = b /\ x.status = r.status
        BY <1>5, <3>2 DEF Follows
      <4>2. EncodesOn(s, groups.wave, x, r.live_event)
        BY <1>5, <3>2 DEF WorkIsKnown, r
      <4>3. Known(groups.wave, x) <=> Known(groups.wave, r) BY <3>2 DEF Known
      <4>. QED BY <4>1, <4>2, <4>3 DEF EncodesOn, EncodedOn
    <3>3. CASE /\ b # None
               /\ \/ x.generation # r.generation
                  \/ x.cleared_failures # r.cleared_failures
      <4>1. CaughtUpOn(s, b, r.live_event) BY <1>5, <3>3 DEF WorkIsKnown, r
      <4>2. ~Known(groups.wave, r)
        <5>1. /\ x.generation <= r.generation
              /\ x.cleared_failures <= r.cleared_failures
          BY <1>5 DEF Follows
        <5>. QED BY <1>2, <1>4, <1>5, <3>3, <5>1 DEF Known, WorkIsKnown, IsOf
      <4>. QED BY <4>1, <4>2 DEF EncodesOn
    <3>. QED BY <3>1, <3>2, <3>3
  <2>3. b # None /\ s.stats[b].failure =>
          /\ CaughtUpOn(s, b, r.live_event) /\ Stopped(device[b], r.status)
    BY <1>5 DEF WorkIsKnown, r
  <2>. QED BY <2>1, <2>2, <2>3 DEF WorkIsKnown, r
<1>10. ReportIsTrue(s, r)
  <2>1. ASSUME report # None, report.of = b
        PROVE  report.status <= r.status
    <3>1. report.status \in Nat /\ b # None BY <2>1, ReportParts, NoneIsNoBuffer
    <3>2. report.status <= x.status /\ x.generation = r.generation
      BY <1>5, <2>1 DEF ReportIsTrue, r
    <3>3. x.status <= r.status BY <1>5, <3>1, <3>2 DEF Follows
    <3>. QED BY <1>2, <3>1, <3>2, <3>3
  <2>. QED BY <1>5, <2>1 DEF ReportIsTrue, r
<1>11. EventsInOrder(s, r) BY <1>5 DEF EventsInOrder, r
<1>. QED
  BY <1>5, <1>6, <1>7, <1>8, <1>9, <1>10, <1>11 DEF Agree, r

\* A report moves the counters it is of on towards what its buffers have done,
\* and all the way to it where these have done no more, as after a failure.
LEMMA ReportHeardCounts ==
  ASSUME Surroundings, NEW s \in HostStates, NEW x \in Request, Agree(s, x),
         report # None, report.of = s.request.handles
  PROVE  LET b == report.of
             t == ReportHeard(s)
             h == t.stats[b]
         IN  /\ \A a \in Buffers : a # b => t.stats[a] = s.stats[a]
             /\ h.completed_steps \in s.stats[b].completed_steps..device[b].steps
             /\ report.steps = Low(h.completed_steps)
             /\ report.steps = Low(device[b].steps) =>
                  h.completed_steps = device[b].steps
             /\ h.local_step = report.local
             /\ h.processed_event = report.processed
             /\ h.failure = IF report.status = s.request.status THEN report.failed
                            ELSE s.stats[b].failure
             /\ t.request = s.request /\ t.transfers = s.transfers
             /\ t.snapshot = s.snapshot
             /\ t.display.state # None => t.display.state = s.display.state
<1> DEFINE b == report.of
           known == s.stats[b]
           steps == Unwrapped(known.completed_steps, report.steps)
           counts == [completed_steps |-> steps, local_step |-> report.local,
                      processed_event |-> report.processed,
                      failure |-> known.failure]
           begun == BeginGeneration(s.display, s.request.generation)
           clock == [epoch |-> report.epoch, step_in_epoch |-> report.local,
                     accepted_steps |-> steps]
           c == ControlHeard(s)
           t == ReportHeard(s)
<1>1. /\ b \in Buffers /\ b = s.request.handles /\ b # None
      /\ report.failed \in BOOLEAN /\ report.steps \in Nat
  BY ReportParts, NoneIsNoBuffer
<1>2. /\ s.stats \in [Buffers -> Stats] /\ s.stats[b] \in Stats
      /\ s.stats[b].completed_steps \in Nat /\ device[b].steps \in Nat
  BY <1>1, SetParts, HostParts
<1>3. \A n \in s.stats[b].completed_steps..device[b].steps :
        Unwrapped(known.completed_steps, Low(n)) = n
  <2>1. PICK base \in 0..StartStep : Within(s, base) BY DEF Agree, CountsAreClose
  <2>2. /\ base <= s.stats[b].completed_steps
        /\ s.stats[b].completed_steps <= device[b].steps
        /\ device[b].steps <= s.request.desired_steps
        /\ s.request.desired_steps <= base + asked
    BY <1>1, <2>1 DEF Within
  <2>3. s.request.desired_steps \in Nat /\ asked \in Nat /\ base \in Nat
    BY HostParts, RequestParts, Bounds DEF Surroundings
  <2>4. ASSUME NEW n \in s.stats[b].completed_steps..device[b].steps
        PROVE  Unwrapped(known.completed_steps, Low(n)) = n
    <3>1. /\ n \in Nat /\ base <= n /\ n <= base + asked
          /\ base <= known.completed_steps
          /\ known.completed_steps <= base + asked
      BY <1>2, <2>2, <2>3
    <3>. QED BY <1>2, <3>1, Close
  <2>. QED BY <2>4
<1>4. \E n \in s.stats[b].completed_steps..device[b].steps : report.steps = Low(n)
  BY <1>1 DEF Agree, ReportIsTrue
<1>5. /\ steps \in s.stats[b].completed_steps..device[b].steps
      /\ report.steps = Low(steps)
      /\ report.steps = Low(device[b].steps) => steps = device[b].steps
  <2>1. PICK n \in s.stats[b].completed_steps..device[b].steps : report.steps = Low(n)
    BY <1>4
  <2>2. steps = n BY <1>3, <2>1
  <2>3. device[b].steps \in s.stats[b].completed_steps..device[b].steps
    BY <1>2, <2>1
  <2>4. report.steps = Low(device[b].steps) => steps = device[b].steps
    BY <1>3, <2>3
  <2>. QED BY <2>1, <2>2, <2>4
<1> HIDE DEF steps
<1>6. c = [s EXCEPT !.stats = [s.stats EXCEPT ![b] = counts],
                    !.display = [begun EXCEPT !.clock = clock]]
  BY DEF ControlHeard, steps
<1> HIDE DEF c, counts, begun, clock
<1>7. /\ c.stats = [s.stats EXCEPT ![b] = counts]
      /\ c.request = s.request /\ c.transfers = s.transfers
      /\ c.snapshot = s.snapshot
      /\ c.display = [begun EXCEPT !.clock = clock]
      /\ c \in [request : {c.request}, stats : {c.stats}, transfers : {c.transfers},
                display : {c.display}, snapshot : {c.snapshot}]
  BY <1>6 DEF HostStates
<1>8. begun \in Display /\ (begun.state # None => begun.state = s.display.state)
  <2>1. begun \in Display
    BY HostParts, RequestParts, BeginGenerationTyped DEF begun
  <2>2. begun = s.display \/ begun.state = None
    BY DEF begun, BeginGeneration, EmptyDisplay
  <2>. QED BY <2>1, <2>2
<1>9. c.display.state # None => c.display.state = s.display.state
  BY <1>7, <1>8 DEF Display
<1>10. /\ c.stats[b] = counts
       /\ \A a \in Buffers : a # b => c.stats[a] = s.stats[a]
  BY <1>1, <1>2, <1>7
<1>11. t = IF report.status # c.request.status THEN c
           ELSE [c EXCEPT !.stats =
                   [c.stats EXCEPT ![b] = [c.stats[b] EXCEPT !.failure = report.failed]]]
  BY <1>1 DEF ReportHeard, StatusHeard, c
<1> HIDE DEF t
<1>12. /\ t.request = c.request /\ t.transfers = c.transfers
       /\ t.snapshot = c.snapshot /\ t.display = c.display
       /\ t.stats = IF report.status # c.request.status THEN c.stats
                    ELSE [c.stats EXCEPT ![b] =
                            [c.stats[b] EXCEPT !.failure = report.failed]]
  BY <1>7, <1>11
<1>13. c.stats \in [Buffers -> Stats] /\ counts \in Stats
  <2>1. ControlHeard(s) \in HostStates BY OptionIs, ControlHeardIs DEF Surroundings
  <2>2. c.stats \in [Buffers -> Stats] BY <2>1, HostParts DEF c
  <2>. QED BY <1>1, <1>10, <2>2
<1>14. /\ counts.completed_steps = steps /\ counts.local_step = report.local
       /\ counts.processed_event = report.processed
       /\ counts.failure = s.stats[b].failure
  BY DEF counts
<1>15. /\ \A a \in Buffers : a # b => t.stats[a] = s.stats[a]
       /\ t.stats[b] = IF report.status # s.request.status THEN counts
                       ELSE [counts EXCEPT !.failure = report.failed]
  BY <1>1, <1>7, <1>10, <1>12, <1>13
<1>16. /\ t.stats[b].completed_steps = steps
       /\ t.stats[b].local_step = report.local
       /\ t.stats[b].processed_event = report.processed
       /\ t.stats[b].failure = IF report.status = s.request.status THEN report.failed
                               ELSE s.stats[b].failure
  BY <1>13, <1>14, <1>15 DEF Stats
<1>. QED BY <1>5, <1>7, <1>9, <1>12, <1>15, <1>16 DEF t

\* Counters that a report finds where their buffers are, it leaves there.
LEMMA ReportHeardAgrees ==
  ASSUME Surroundings, NEW s \in HostStates, NEW x \in Request, Agree(s, x),
         report # None
  PROVE  Agree(ReportHeard(s), x)
<1> DEFINE b == report.of
           t == ReportHeard(s)
           r == s.request
<1>1. CASE report.of # s.request.handles BY <1>1 DEF ReportHeard
<1>2. CASE report.of = s.request.handles
  <2>1. /\ \A a \in Buffers : a # b => t.stats[a] = s.stats[a]
        /\ t.stats[b].completed_steps \in s.stats[b].completed_steps..device[b].steps
        /\ report.steps = Low(t.stats[b].completed_steps)
        /\ report.steps = Low(device[b].steps) =>
             t.stats[b].completed_steps = device[b].steps
        /\ t.stats[b].local_step = report.local
        /\ t.stats[b].processed_event = report.processed
        /\ t.stats[b].failure = IF report.status = r.status THEN report.failed
                                ELSE s.stats[b].failure
        /\ t.request = r /\ t.transfers = s.transfers
        /\ t.snapshot = s.snapshot
        /\ t.display.state # None => t.display.state = s.display.state
    BY <1>2, ReportHeardCounts
  <2> HIDE DEF t
  <2>2. /\ WorkIsKnown(s, x) /\ ReportIsTrue(s, x) /\ Follows(x, r)
        /\ CountsAreClose(s) /\ DecodedExactly(s)
    BY DEF Agree
  <2>3. /\ OfAGeneration(t, x) /\ TransfersAreKnown(t, x)
        /\ Follows(x, t.request) /\ ReceiptIsTrue(t) /\ EventsInOrder(t, x)
    BY <2>1, SameRequests
  <2>4. /\ b \in Buffers /\ b # None /\ b = r.handles /\ report.failed \in BOOLEAN
        /\ report.status \in Nat
    BY <1>2, ReportParts, NoneIsNoBuffer
  <2>5. /\ s.stats[b].completed_steps \in Nat /\ device[b].steps \in Nat
        /\ s.stats[b].failure \in BOOLEAN
    BY <2>4, SetParts
  <2>6. /\ report.steps = Low(device[b].steps) /\ report.local = device[b].local
           /\ report.processed = device[b].processed =>
             \A live : CaughtUpOn(t, b, live)
    BY <2>1 DEF CaughtUpOn
  <2>7. ASSUME NEW a \in Buffers, NEW live, CaughtUpOn(s, a, live)
        PROVE  CaughtUpOn(t, a, live)
    <3>1. CASE a = b BY <2>6, <2>7, <3>1 DEF CaughtUpOn
    <3>2. CASE a # b BY <2>1, <2>7, <3>2 DEF CaughtUpOn
    <3>. QED BY <3>1, <3>2
  <2>8. ASSUME NEW live, EncodesOn(s, groups.wave, x, live)
        PROVE  EncodesOn(t, groups.wave, x, live)
    BY <2>7, <2>8, RequestParts DEF EncodesOn
  <2>9. WorkIsKnown(t, x)
    <3>1. ASSUME t.stats[b].failure
          PROVE  /\ x.generation = r.generation /\ x.status = r.status
                 /\ CaughtUpOn(t, b, r.live_event) /\ Stopped(device[b], r.status)
      <4>1. CASE report.status = r.status
        <5>1. report.failed BY <2>1, <3>1, <4>1
        <5>2. /\ Stopped(device[b], r.status)
              /\ report.steps = Low(device[b].steps)
              /\ report.local = device[b].local
              /\ report.processed = device[b].processed
              /\ x.generation = r.generation /\ report.status <= x.status
          BY <2>2, <2>4, <4>1, <5>1 DEF ReportIsTrue
        <5>3. x.status <= r.status BY <2>2, <2>4, <5>2 DEF Follows
        <5>4. x.status \in Nat BY RequestParts
        <5>. QED BY <2>4, <2>6, <4>1, <5>2, <5>3, <5>4
      <4>2. CASE report.status # r.status
        <5>1. s.stats[b].failure BY <2>1, <3>1, <4>2
        <5>. QED BY <2>2, <2>4, <2>7, <5>1 DEF WorkIsKnown
      <4>. QED BY <4>1, <4>2
    <3>. QED BY <2>1, <2>2, <2>4, <2>7, <2>8, <3>1 DEF WorkIsKnown
  <2>10. ReportIsTrue(t, x)
    <3>1. t.stats[b].completed_steps \in Nat BY <2>1, <2>5
    <3>2. t.stats[b].completed_steps \in t.stats[b].completed_steps..device[b].steps
      BY <2>1, <2>5, <3>1
    <3>3. \E n \in t.stats[b].completed_steps..device[b].steps : report.steps = Low(n)
      BY <2>1, <3>2
    <3>. QED BY <2>1, <2>2, <2>4, <3>3 DEF ReportIsTrue
  <2>11. CountsAreClose(t)
    <3>1. PICK base \in 0..StartStep : Within(s, base) BY <2>2 DEF CountsAreClose
    <3>2. base <= s.stats[b].completed_steps BY <2>4, <3>1 DEF Within
    <3>3. /\ base <= t.stats[b].completed_steps
          /\ t.stats[b].completed_steps <= device[b].steps
      BY <2>1, <2>5, <3>2
    <3>4. Within(t, base) BY <2>1, <2>4, <3>1, <3>3 DEF Within
    <3>. QED BY <3>4 DEF CountsAreClose
  <2>12. DecodedExactly(t) BY <2>1, <2>2 DEF DecodedExactly
  <2>. QED BY <2>3, <2>9, <2>10, <2>11, <2>12 DEF Agree, t
<1>. QED BY <1>1, <1>2

\* The parts of an agreement that read no transfer and no snapshot.
LEMMA SameCounts ==
  ASSUME NEW s, NEW t, NEW x, t.request = s.request, t.stats = s.stats,
         t.display = s.display, Agree(s, x)
  PROVE  /\ Follows(x, t.request) /\ WorkIsKnown(t, x) /\ ReportIsTrue(t, x)
         /\ DecodedExactly(t) /\ EventsInOrder(t, x)
<1>1. WorkIsKnown(t, x)
  BY DEF Agree, WorkIsKnown, EncodesOn, CaughtUpOn
<1>2. ReportIsTrue(t, x) BY DEF Agree, ReportIsTrue
<1>3. DecodedExactly(t) BY DEF Agree, DecodedExactly
<1>4. EventsInOrder(t, x) BY DEF Agree, EventsInOrder
<1>. QED BY <1>1, <1>2, <1>3, <1>4 DEF Agree

\* A receipt completes the transfer as its target says.
LEMMA ReceiptHeardAgrees ==
  ASSUME Surroundings, NEW s \in HostStates, NEW x \in Request, Agree(s, x),
         receipt # None
  PROVE  Agree(ReceiptHeard(s), x)
<1> DEFINE b == receipt.of
           answer == [submitted |-> s.transfers[b].submitted,
                      completed |-> TRUE, failure |-> receipt.answer.failed,
                      snapshot_step |-> Low(receipt.answer.steps),
                      snapshot_local_step |-> receipt.answer.local]
           t == [s EXCEPT !.transfers = [s.transfers EXCEPT ![b] = answer]]
<1>1. CASE b # s.request.handoff \/ s.transfers[b].completed
  BY <1>1 DEF ReceiptHeard
<1>2. CASE b = s.request.handoff /\ ~s.transfers[b].completed
  <2>1. b \in Buffers /\ b # None
    <3>1. receipt \in Receipt BY OptionIs DEF Surroundings
    <3>. QED BY <3>1, NoneIsNoBuffer DEF Receipt
  <2>2. s.transfers \in [Buffers -> Transfer] BY HostParts
  <2>3. /\ answer.submitted = s.transfers[b].submitted
        /\ answer.failure = receipt.answer.failed
        /\ answer.snapshot_step = Low(receipt.answer.steps)
        /\ answer.snapshot_local_step = receipt.answer.local
    OBVIOUS
  <2> HIDE DEF answer
  <2>4. /\ t.request = s.request /\ t.stats = s.stats /\ t.display = s.display
        /\ t.snapshot = s.snapshot
        /\ t.transfers = [s.transfers EXCEPT ![b] = answer]
    BY DEF HostStates
  <2>5. ReceiptHeard(s) = t BY <1>2 DEF ReceiptHeard, answer
  <2> HIDE DEF t
  <2>6. /\ t.transfers[b] = answer
        /\ \A a \in Buffers : /\ a # b => t.transfers[a] = s.transfers[a]
                              /\ t.transfers[a].submitted = s.transfers[a].submitted
    BY <2>1, <2>2, <2>3, <2>4
  <2>7. /\ Follows(x, t.request) /\ WorkIsKnown(t, x) /\ ReportIsTrue(t, x)
        /\ DecodedExactly(t) /\ EventsInOrder(t, x)
    BY <2>4, SameCounts
  <2>8. OfAGeneration(t, x) BY <2>4 DEF Agree, OfAGeneration
  <2>9. TransfersAreKnown(t, x)
    <3>1. x.handoff # None => x.handoff \in Buffers BY RequestParts
    <3>2. x.handoff # None =>
            t.transfers[x.handoff].submitted = s.transfers[x.handoff].submitted
      BY <2>6, <3>1
    <3>3. TransfersAreKnown(s, x) BY DEF Agree
    <3>. QED BY <2>4, <2>6, <3>2, <3>3 DEF TransfersAreKnown
  <2>10. ReceiptIsTrue(t)
    <3>1. ReceiptIsTrue(s) BY DEF Agree
    <3>2. receipt.answer = device[b].receipt /\ device[b].receipt # None
      BY <1>2, <2>1, <3>1 DEF ReceiptIsTrue
    <3>. QED BY <1>2, <2>1, <2>3, <2>4, <2>6, <3>1, <3>2 DEF ReceiptIsTrue
  <2>11. CountsAreClose(t)
    <3>1. PICK base \in 0..StartStep : Within(s, base) BY DEF Agree, CountsAreClose
    <3>2. Within(t, base) BY <2>4, <3>1 DEF Within
    <3>. QED BY <3>2 DEF CountsAreClose
  <2>. QED BY <2>5, <2>7, <2>8, <2>9, <2>10, <2>11 DEF Agree
<1>. QED BY <1>1, <1>2

\* What becomes of a snapshot leaves the words it has.
LEMMA SnapshotHeardAgrees ==
  ASSUME Surroundings, NEW s \in HostStates, Whole(s), Agree(s, s.request), NEW heard,
         "snapshot" \in heard => s.snapshot.phase \in {"asked", "taken"}
  PROVE  Agree(SnapshotHeard(s, heard), s.request)
<1> DEFINE x == s.request
<1>1. s.snapshot \in Snapshot BY HostParts
<1>2. x.handles = None => s.snapshot.phase = "none" BY DEF Whole
<1> HIDE DEF x
<1>3. ASSUME NEW w \in Snapshot,
             w.phase \notin {"none", "asked"} => s.snapshot.phase # "none",
             w.phase \in {"taken", "answered"} =>
               /\ s.snapshot.phase \in {"taken", "answered"}
               /\ w.steps = s.snapshot.steps,
             s.snapshot.phase = "none" => w.phase = "none"
      PROVE  Agree([s EXCEPT !.snapshot = w], x)
  <2> DEFINE t == [s EXCEPT !.snapshot = w]
  <2>1. /\ t.request = s.request /\ t.stats = s.stats /\ t.display = s.display
        /\ t.transfers = s.transfers /\ t.snapshot = w
    BY DEF HostStates
  <2> HIDE DEF t
  <2>2. Agree(s, x) BY DEF x
  <2>3. /\ Follows(x, t.request) /\ WorkIsKnown(t, x) /\ ReportIsTrue(t, x)
        /\ DecodedExactly(t) /\ EventsInOrder(t, x)
    BY <2>1, <2>2, SameCounts
  <2>4. OfAGeneration(t, x)
    BY <1>2, <1>3, <2>1, <2>2 DEF Agree, OfAGeneration, x
  <2>5. TransfersAreKnown(t, x) BY <2>1, <2>2 DEF Agree, TransfersAreKnown
  <2>6. ReceiptIsTrue(t) BY <2>1, <2>2 DEF Agree, ReceiptIsTrue
  <2>7. CountsAreClose(t)
    <3>1. PICK base \in 0..StartStep : Within(s, base)
      BY <2>2 DEF Agree, CountsAreClose
    <3>2. Within(t, base) BY <1>3, <2>1, <3>1 DEF Within
    <3>. QED BY <3>2 DEF CountsAreClose
  <2>. QED BY <2>3, <2>4, <2>5, <2>6, <2>7 DEF Agree, t
<1>4. /\ [s.snapshot EXCEPT !.phase = "known"] \in Snapshot
      /\ [s.snapshot EXCEPT !.phase = "known"].phase = "known"
      /\ [s.snapshot EXCEPT !.phase = "answered"] \in Snapshot
      /\ [s.snapshot EXCEPT !.phase = "answered"].phase = "answered"
      /\ [s.snapshot EXCEPT !.phase = "answered"].steps = s.snapshot.steps
      /\ NoSnapshot \in Snapshot /\ NoSnapshot.phase = "none"
  BY <1>1 DEF Snapshot, NoSnapshot
<1>5. CASE s.snapshot.phase = "asked"
  BY <1>3, <1>4, <1>5 DEF SnapshotHeard, x
<1>6. CASE s.snapshot.phase # "asked" /\ "snapshot" \in heard
  BY <1>3, <1>4, <1>6 DEF SnapshotHeard, x
<1>7. CASE s.snapshot.phase # "asked" /\ "snapshot" \notin heard
  BY <1>3, <1>4, <1>7 DEF SnapshotHeard, x
<1>. QED BY <1>5, <1>6, <1>7

\* A request that waits for less, at a later revision.
LEMMA LessIsAsked ==
  ASSUME Surroundings, NEW s \in HostStates, NEW t \in HostStates,
         NEW x \in Request, Agree(s, x),
         t.stats = s.stats, t.transfers = s.transfers, t.display = s.display,
         t.snapshot = s.snapshot,
         t.request.generation = s.request.generation,
         t.request.handles = s.request.handles,
         t.request.status = s.request.status,
         t.request.cleared_failures = s.request.cleared_failures,
         t.request.desired_steps = s.request.desired_steps,
         t.request.revision > s.request.revision,
         t.request.handoff \in {None, s.request.handoff},
         t.request.live_event \in {None, s.request.live_event}
  PROVE  Agree(t, x)
<1> DEFINE r == s.request
           q == t.request
<1>1. r \in Request /\ q \in Request BY HostParts
<1>2. /\ r.revision \in Nat /\ q.revision \in Nat /\ x.revision \in Nat
  BY <1>1, RequestParts
<1> HIDE DEF r, q
<1>3. /\ OfAGeneration(s, x) /\ TransfersAreKnown(s, x) /\ Follows(x, r)
      /\ WorkIsKnown(s, x) /\ ReportIsTrue(s, x) /\ ReceiptIsTrue(s)
      /\ CountsAreClose(s) /\ DecodedExactly(s) /\ EventsInOrder(s, x)
  BY DEF Agree, r
<1>4. /\ q.generation = r.generation /\ q.handles = r.handles
      /\ q.status = r.status /\ q.cleared_failures = r.cleared_failures
      /\ q.desired_steps = r.desired_steps /\ q.revision > r.revision
      /\ q.handoff \in {None, r.handoff} /\ q.live_event \in {None, r.live_event}
  BY DEF q, r
<1>5. x.revision <= r.revision BY <1>3 DEF TransfersAreKnown, r
<1>6. x.revision <= q.revision /\ x.revision # q.revision BY <1>2, <1>4, <1>5
<1>7. OfAGeneration(t, x) BY <1>3, <1>4 DEF OfAGeneration, q, r
<1>8. TransfersAreKnown(t, x)
  BY <1>3, <1>4, <1>6 DEF TransfersAreKnown, q, r
<1>9. Follows(x, q) BY <1>3, <1>4, <1>6 DEF Follows, InOrder
<1>10. WorkIsKnown(t, x)
  <2>1. ASSUME NEW b, CaughtUpOn(s, b, r.live_event)
        PROVE  CaughtUpOn(t, b, q.live_event)
    BY <1>4, <2>1 DEF CaughtUpOn
  <2>2. EncodesOn(t, groups.wave, x, x.live_event)
    BY <1>3 DEF WorkIsKnown, EncodesOn, CaughtUpOn
  <2>3. EncodesOn(s, groups.wave, x, r.live_event) =>
          EncodesOn(t, groups.wave, x, q.live_event)
    BY <1>4, <2>1 DEF EncodesOn, EncodedOn
  <2>. QED BY <1>3, <1>4, <2>1, <2>2, <2>3 DEF WorkIsKnown, q, r
<1>11. ReportIsTrue(t, x) BY <1>3, <1>4 DEF ReportIsTrue, q, r
<1>12. ReceiptIsTrue(t) BY <1>3, <1>4 DEF ReceiptIsTrue, q, r
<1>13. CountsAreClose(t)
  <2>1. PICK base \in 0..StartStep : Within(s, base) BY <1>3 DEF CountsAreClose
  <2>2. Within(t, base) BY <1>4, <2>1 DEF Within, q, r
  <2>. QED BY <2>2 DEF CountsAreClose
<1>14. DecodedExactly(t) BY <1>3 DEF DecodedExactly
<1>15. EventsInOrder(t, x) BY <1>3, <1>4 DEF EventsInOrder, q, r
<1>. QED
  BY <1>7, <1>8, <1>9, <1>10, <1>11, <1>12, <1>13, <1>14, <1>15 DEF Agree, q

\* A refusal leaves the handoff nothing.
LEMMA RefusedAgrees ==
  ASSUME Surroundings, NEW s \in HostStates, NEW x \in Request, Agree(s, x)
  PROVE  Refused(s) \in HostStates /\ Agree(Refused(s), x)
<1> DEFINE r == s.request
           y == [r EXCEPT !.handoff = None]
           t == [s EXCEPT !.request = Revised(y)]
<1>1. r \in Request BY HostParts
<1>2. /\ y \in Request /\ y.handoff = None /\ y.handles = r.handles
      /\ y.live_event = r.live_event /\ y.revision = r.revision
      /\ y.generation = r.generation /\ y.status = r.status
      /\ y.cleared_failures = r.cleared_failures
      /\ y.desired_steps = r.desired_steps
  BY <1>1, OptionHas DEF Request
<1> HIDE DEF y
<1>3. PICK q : q = Revised(y) OBVIOUS
<1>4. /\ q \in Request /\ q.revision = r.revision + 1 /\ q.handoff = None
      /\ q.handles = r.handles /\ q.live_event = r.live_event
      /\ q.generation = r.generation /\ q.status = r.status
      /\ q.cleared_failures = r.cleared_failures
      /\ q.desired_steps = r.desired_steps
  BY <1>2, <1>3, RevisedIs DEF Revised, Request
<1>5. t = [s EXCEPT !.request = q] BY <1>3
<1>6. /\ t.request = q /\ t.stats = s.stats /\ t.transfers = s.transfers
      /\ t.display = s.display /\ t.snapshot = s.snapshot /\ t \in HostStates
  BY <1>4, <1>5 DEF HostStates
<1>7. Refused(s) = t BY DEF Refused, y
<1>8. r.revision \in Nat BY <1>1, RequestParts
<1>9. q.revision > r.revision BY <1>4, <1>8
<1> HIDE DEF t
<1>10. Agree(t, x) BY <1>4, <1>6, <1>9, LessIsAsked
<1>. QED BY <1>6, <1>7, <1>10

\* An event that has been processed is not waited for.
LEMMA EventSettledAgrees ==
  ASSUME Surroundings, NEW s \in HostStates, NEW x \in Request, Agree(s, x)
  PROVE  EventSettled(s) \in HostStates /\ Agree(EventSettled(s), x)
<1> DEFINE r == s.request
           y == [r EXCEPT !.live_event = None]
           t == [s EXCEPT !.request = Revised(y)]
<1>1. r \in Request BY HostParts
<1>2. /\ y \in Request /\ y.handoff = r.handoff /\ y.handles = r.handles
      /\ y.live_event = None /\ y.revision = r.revision
      /\ y.generation = r.generation /\ y.status = r.status
      /\ y.cleared_failures = r.cleared_failures
      /\ y.desired_steps = r.desired_steps
  BY <1>1, OptionHas DEF Request
<1> HIDE DEF y
<1>3. PICK q : q = Revised(y) OBVIOUS
<1>4. /\ q \in Request /\ q.revision = r.revision + 1 /\ q.handoff = r.handoff
      /\ q.handles = r.handles /\ q.live_event = None
      /\ q.generation = r.generation /\ q.status = r.status
      /\ q.cleared_failures = r.cleared_failures
      /\ q.desired_steps = r.desired_steps
  BY <1>2, <1>3, RevisedIs DEF Revised, Request
<1>5. t = [s EXCEPT !.request = q] BY <1>3
<1>6. /\ t.request = q /\ t.stats = s.stats /\ t.transfers = s.transfers
      /\ t.display = s.display /\ t.snapshot = s.snapshot /\ t \in HostStates
  BY <1>4, <1>5 DEF HostStates
<1>7. EventSettled(s) = s \/ EventSettled(s) = t BY DEF EventSettled, y
<1>8. r.revision \in Nat BY <1>1, RequestParts
<1>9. q.revision > r.revision BY <1>4, <1>8
<1> HIDE DEF t
<1>10. Agree(t, x) BY <1>4, <1>6, <1>9, LessIsAsked
<1>. QED BY <1>6, <1>7, <1>10

\* Nothing is asked of a generation that is gone.
LEMMA AgreementIsWhole ==
  ASSUME NEW s \in HostStates, NEW x, Agree(s, x)
  PROVE  Whole(s)
BY DEF Agree, OfAGeneration, Whole

\* The transfer that was heard of was submitted, and its target is where its
\* receipt says: at the host's count, read against the source's.
LEMMA AdmittedCounts ==
  ASSUME Surroundings, NEW s \in HostStates, NEW x \in Request, Agree(s, x),
         s.request.handoff # None, s.transfers[s.request.handoff].completed,
         ~s.transfers[s.request.handoff].failure
  PROVE  LET r == s.request
             answer == s.transfers[r.handoff]
             b == r.handoff
         IN  /\ b \in Buffers /\ r.handles \in Buffers /\ r.handles < b
             /\ b <= made /\ r.live_event = None
             /\ s.transfers[b].submitted
             /\ Unwrapped(s.stats[r.handles].completed_steps,
                          answer.snapshot_step) = device[b].steps
             /\ answer.snapshot_local_step = device[b].local
             /\ device[b].processed <= serial
             /\ \E base \in 0..StartStep :
                  /\ base <= device[b].steps /\ device[b].steps <= base + asked
                  /\ r.desired_steps <= base + asked
<1> DEFINE r == s.request
           b == r.handoff
           answer == device[b].receipt
<1>1. r \in Request BY HostParts
<1>2. /\ OfAGeneration(s, x) /\ TransfersAreKnown(s, x) /\ Follows(x, r)
      /\ ReceiptIsTrue(s) /\ CountsAreClose(s)
  BY DEF Agree
<1>3. /\ b \in Buffers /\ r.handles \in Buffers /\ r.handles < b /\ b <= made
      /\ r.live_event = None
  BY <1>1, <1>2, RequestParts DEF Follows, InOrder, TransfersAreKnown
<1>4. /\ answer # None /\ ~answer.failed
      /\ s.transfers[b].snapshot_step = Low(answer.steps)
      /\ s.transfers[b].snapshot_local_step = answer.local
      /\ device[b].steps = answer.steps /\ device[b].local = 0
      /\ answer.local = 0 /\ device[b].processed <= serial
  BY <1>2, <1>3, NoneIsNoBuffer DEF ReceiptIsTrue
<1>5. s.transfers[b].submitted BY <1>2, <1>3, <1>4 DEF TransfersAreKnown
<1>6. PICK base \in 0..StartStep : Within(s, base) BY <1>2 DEF CountsAreClose
<1>7. /\ base <= s.stats[r.handles].completed_steps
      /\ s.stats[r.handles].completed_steps <= device[r.handles].steps
      /\ device[r.handles].steps <= r.desired_steps
      /\ r.desired_steps <= base + asked
      /\ base <= answer.steps /\ answer.steps <= base + asked
  BY <1>3, <1>4, <1>6, NoneIsNoBuffer DEF Within
<1>8. /\ s.stats[r.handles].completed_steps \in Nat
      /\ device[r.handles].steps \in Nat /\ device[b].steps \in Nat
      /\ r.desired_steps \in Nat /\ asked \in Nat /\ base \in Nat
  BY <1>1, <1>3, SetParts, RequestParts, Bounds DEF Surroundings
<1>9. s.stats[r.handles].completed_steps <= base + asked BY <1>7, <1>8
<1>10. Unwrapped(s.stats[r.handles].completed_steps, Low(answer.steps)) = answer.steps
  BY <1>4, <1>7, <1>8, <1>9, Close
<1>. QED BY <1>3, <1>4, <1>5, <1>7, <1>10

\* What the target of a handoff has come to is what the host takes over.
LEMMA AdmittedAgrees ==
  ASSUME Surroundings, NEW s \in HostStates, NEW x \in Request, Agree(s, x),
         s.request.handoff # None, s.transfers[s.request.handoff].completed,
         ~s.transfers[s.request.handoff].failure
  PROVE  Agree(Admitted(s), x)
<1> DEFINE r == s.request
           b == r.handoff
           steps == Unwrapped(s.stats[r.handles].completed_steps,
                              s.transfers[b].snapshot_step)
           counts == [NewStats(steps) EXCEPT
                        !.local_step = s.transfers[b].snapshot_local_step]
           wanted == Larger(r.desired_steps, steps)
           y == [r EXCEPT !.generation = r.generation + 1, !.handles = b,
                          !.status = 0, !.handoff = None, !.desired_steps = wanted]
           begun == BeginGeneration(s.display, r.generation + 1)
           t == [s EXCEPT !.request = Revised(y),
                          !.stats = [s.stats EXCEPT ![b] = counts],
                          !.snapshot = NoSnapshot, !.display = begun]
<1>1. /\ b \in Buffers /\ r.handles \in Buffers /\ r.handles < b
      /\ b <= made /\ r.live_event = None
      /\ s.transfers[b].submitted
      /\ steps = device[b].steps
      /\ s.transfers[b].snapshot_local_step = device[b].local
      /\ device[b].processed <= serial
  BY AdmittedCounts
<1>2. PICK base \in 0..StartStep :
        /\ base <= device[b].steps /\ device[b].steps <= base + asked
        /\ r.desired_steps <= base + asked
  BY AdmittedCounts
<1>3. r \in Request /\ b # None BY <1>1, HostParts, NoneIsNoBuffer
<1>4. /\ r.generation \in Nat /\ r.revision \in Nat /\ r.desired_steps \in Nat
      /\ r.cleared_failures \in Nat
      /\ device[b].steps \in Nat /\ asked \in Nat /\ base \in Nat /\ made \in Nat
      /\ x.generation \in Nat /\ x.revision \in Nat /\ x.cleared_failures \in Nat
      /\ x.handles # None => x.handles \in Buffers
      /\ x.handoff # None => x.handoff \in Buffers
  BY <1>1, <1>3, SetParts, RequestParts, Bounds DEF Surroundings, Buffers
<1> HIDE DEF steps
<1>5. /\ counts.completed_steps = device[b].steps
      /\ counts.local_step = device[b].local /\ counts.failure = FALSE
  BY <1>1 DEF NewStats
<1>6. wanted >= r.desired_steps /\ wanted >= device[b].steps /\ wanted <= base + asked
  BY <1>1, <1>2, <1>4 DEF Larger
<1> HIDE DEF counts, wanted
<1>7. /\ y.generation = r.generation + 1 /\ y.handles = b /\ y.status = 0
      /\ y.handoff = None /\ y.desired_steps = wanted
      /\ y.revision = r.revision /\ y.live_event = None
      /\ y.cleared_failures = r.cleared_failures
  BY <1>1, <1>3 DEF Request
<1>8. PICK q : q = Revised(y) OBVIOUS
<1>9. /\ q.generation = r.generation + 1 /\ q.handles = b /\ q.status = 0
      /\ q.handoff = None /\ q.desired_steps = wanted
      /\ q.revision = r.revision + 1 /\ q.live_event = None
      /\ q.cleared_failures = r.cleared_failures
  BY <1>3, <1>7, <1>8 DEF Revised, Request
<1> HIDE DEF y
<1>10. /\ t.request = q /\ t.stats = [s.stats EXCEPT ![b] = counts]
       /\ t.snapshot = NoSnapshot /\ t.display = begun
       /\ t.transfers = s.transfers
  BY <1>8 DEF HostStates
<1>11. Admitted(s) = t
  BY DEF Admitted, y, wanted, counts, steps
<1> HIDE DEF t
<1>12. begun.state # None => begun.state = s.display.state
  BY DEF BeginGeneration, EmptyDisplay
<1> HIDE DEF begun
<1>13. /\ t.stats[b] = counts
       /\ \A a \in Buffers : a # b => t.stats[a] = s.stats[a]
  BY <1>1, <1>10, HostParts
<1>14. NoSnapshot.phase = "none" BY DEF NoSnapshot
<1>15. /\ OfAGeneration(s, x) /\ TransfersAreKnown(s, x) /\ Follows(x, r)
       /\ WorkIsKnown(s, x) /\ ReportIsTrue(s, x) /\ ReceiptIsTrue(s)
       /\ DecodedExactly(s) /\ EventsInOrder(s, x)
  BY DEF Agree
<1>16. /\ x.handles # None => x.handles < b
       /\ report # None => report.of \in Buffers /\ report.of < b
       /\ x.generation < q.generation /\ x.revision < q.revision
       /\ x.generation # q.generation /\ x.revision # q.revision
       /\ x.revision <= q.revision /\ x.generation <= q.generation
  BY <1>3, <1>4, <1>9, <1>15, ReportParts DEF Follows, ReportIsTrue, TransfersAreKnown
<1>17. /\ x.handles # None => x.handles # b
       /\ report # None => report.of # b
  BY <1>4, <1>16, <1>1, NoneIsNoBuffer DEF Buffers
<1>18. OfAGeneration(t, x) BY <1>3, <1>9, <1>10, <1>14 DEF OfAGeneration
<1>19. TransfersAreKnown(t, x)
  BY <1>1, <1>9, <1>10, <1>15, <1>16 DEF TransfersAreKnown
<1>20. Follows(x, q)
  BY <1>1, <1>3, <1>9, <1>15, <1>16 DEF Follows, InOrder
<1>21. WorkIsKnown(t, x)
  <2>1. EncodesOn(t, groups.wave, x, x.live_event)
    BY <1>4, <1>13, <1>15, <1>17 DEF WorkIsKnown, EncodesOn, CaughtUpOn
  <2>2. CaughtUpOn(t, b, None) BY <1>5, <1>13, <1>17 DEF CaughtUpOn
  <2>. QED
    BY <1>5, <1>9, <1>10, <1>13, <1>15, <1>16, <2>1, <2>2 DEF WorkIsKnown
<1>22. ReportIsTrue(t, x) BY <1>9, <1>10, <1>15, <1>17 DEF ReportIsTrue
<1>23. ReceiptIsTrue(t) BY <1>9, <1>10, <1>15 DEF ReceiptIsTrue
<1>24. CountsAreClose(t)
  <2>1. Within(t, base)
    BY <1>2, <1>4, <1>5, <1>6, <1>9, <1>10, <1>13, <1>14 DEF Within
  <2>. QED BY <2>1 DEF CountsAreClose
<1>25. DecodedExactly(t) BY <1>10, <1>12, <1>15 DEF DecodedExactly
<1>26. EventsInOrder(t, x) BY <1>1, <1>9, <1>10, <1>15 DEF EventsInOrder
<1>. QED
  BY <1>10, <1>11, <1>18, <1>19, <1>20, <1>21, <1>22, <1>23, <1>24, <1>25, <1>26
  DEF Agree

\* A handoff that completed is refused or admitted.
LEMMA HandoffSettledAgrees ==
  ASSUME Surroundings, NEW s \in HostStates, NEW x \in Request, Agree(s, x)
  PROVE  HandoffSettled(s) \in HostStates /\ Agree(HandoffSettled(s), x)
<1>1. HandoffSettled(s) \in HostStates
  BY AgreementIsWhole, HandoffSettledIs DEF Whole
<1>2. CASE \/ s.request.handoff = None
           \/ ~s.transfers[s.request.handoff].completed
  BY <1>1, <1>2 DEF HandoffSettled
<1>3. CASE /\ s.request.handoff # None
           /\ s.transfers[s.request.handoff].completed
           /\ s.transfers[s.request.handoff].failure
  BY <1>1, <1>3, RefusedAgrees DEF HandoffSettled
<1>4. CASE /\ s.request.handoff # None
           /\ s.transfers[s.request.handoff].completed
           /\ ~s.transfers[s.request.handoff].failure
  BY <1>1, <1>4, AdmittedAgrees DEF HandoffSettled
<1>. QED BY <1>2, <1>3, <1>4

\* A snapshot is decoded to the step it was taken of.
LEMMA SnapshotReceivedAgrees ==
  ASSUME Surroundings, NEW s \in HostStates, NEW x \in Request, Agree(s, x)
  PROVE  /\ SnapshotReceived(s) \in HostStates
         /\ Agree(SnapshotReceived(s), x)
<1> DEFINE r == s.request
           taken == s.snapshot
           known == s.stats[r.handles].completed_steps
           state == Decoding(taken, known)
           begun == BeginGeneration(s.display, r.generation)
           shown == [begun EXCEPT !.state = state]
           t == [s EXCEPT !.snapshot = NoSnapshot, !.display = shown]
<1>1. SnapshotReceived(s) \in HostStates
  BY AgreementIsWhole, SnapshotReceivedIs DEF Whole
<1>2. SnapshotReceived(s) = s \/ SnapshotReceived(s) = t
  BY DEF SnapshotReceived
<1>3. CASE taken.phase = "answered"
  <2>1. Whole(s) /\ r \in Request BY AgreementIsWhole, HostParts
  <2>2. r.handles # None /\ r.handles \in Buffers BY <1>3, <2>1, RequestParts DEF Whole
  <2>3. PICK base \in 0..StartStep : Within(s, base) BY DEF Agree, CountsAreClose
  <2>4. /\ base <= known /\ known <= device[r.handles].steps
        /\ device[r.handles].steps <= r.desired_steps
        /\ r.desired_steps <= base + asked
        /\ base <= taken.steps /\ taken.steps <= base + asked
    BY <1>3, <2>2, <2>3 DEF Within
  <2>5. /\ known \in Nat /\ device[r.handles].steps \in Nat
        /\ r.desired_steps \in Nat /\ taken.steps \in Nat
        /\ asked \in Nat /\ base \in Nat
    <3>1. taken \in Snapshot BY HostParts
    <3>2. taken.steps \in Nat BY <3>1 DEF Snapshot
    <3>. QED BY <2>1, <2>2, <3>2, SetParts, RequestParts, Bounds DEF Surroundings
  <2>6. Unwrapped(known, Low(taken.steps)) = taken.steps
    <3>1. known <= base + asked BY <2>4, <2>5
    <3>. QED BY <2>4, <2>5, <3>1, Close
  <2>7. state.steps = state.of.steps BY <2>6 DEF Decoding
  <2>8. begun \in Display
    BY <2>1, HostParts, RequestParts, BeginGenerationTyped
  <2> HIDE DEF state, begun
  <2>9. shown.state = state BY <2>8 DEF Display
  <2> HIDE DEF shown
  <2>10. /\ t.request = r /\ t.stats = s.stats /\ t.transfers = s.transfers
         /\ t.snapshot = NoSnapshot /\ t.display = shown
    BY DEF HostStates
  <2> HIDE DEF t
  <2>11. NoSnapshot.phase = "none" BY DEF NoSnapshot
  <2>12. OfAGeneration(t, x) BY <2>10, <2>11 DEF Agree, OfAGeneration
  <2>13. TransfersAreKnown(t, x) BY <2>10 DEF Agree, TransfersAreKnown
  <2>14. Follows(x, t.request) BY <2>10 DEF Agree
  <2>15. WorkIsKnown(t, x)
    BY <2>10 DEF Agree, WorkIsKnown, EncodesOn, CaughtUpOn
  <2>16. ReportIsTrue(t, x) BY <2>10 DEF Agree, ReportIsTrue
  <2>17. ReceiptIsTrue(t) BY <2>10 DEF Agree, ReceiptIsTrue
  <2>18. CountsAreClose(t)
    <3>1. Within(t, base) BY <2>3, <2>10, <2>11 DEF Within
    <3>. QED BY <3>1 DEF CountsAreClose
  <2>19. DecodedExactly(t) BY <2>7, <2>9, <2>10 DEF DecodedExactly
  <2>20. EventsInOrder(t, x) BY <2>10 DEF Agree, EventsInOrder
  <2>21. Agree(t, x)
    BY <2>12, <2>13, <2>14, <2>15, <2>16, <2>17, <2>18, <2>19, <2>20 DEF Agree
  <2>. QED BY <1>1, <1>2, <2>21 DEF t
<1>4. CASE taken.phase # "answered" BY <1>1, <1>4 DEF SnapshotReceived
<1>. QED BY <1>3, <1>4

\* The settling systems, one behind another.
LEMMA SettledAgrees ==
  ASSUME Surroundings, NEW s \in HostStates, NEW x \in Request, Agree(s, x)
  PROVE  Settled(s) \in HostStates /\ Agree(Settled(s), x)
<1>1. PICK t : t = HandoffSettled(s) OBVIOUS
<1>2. t \in HostStates /\ Agree(t, x) BY <1>1, HandoffSettledAgrees
<1>3. PICK u : u = EventSettled(t) OBVIOUS
<1>4. u \in HostStates /\ Agree(u, x) BY <1>2, <1>3, EventSettledAgrees
<1>5. SnapshotReceived(u) \in HostStates /\ Agree(SnapshotReceived(u), x)
  BY <1>4, SnapshotReceivedAgrees
<1>6. Settled(s) = SnapshotReceived(u) BY <1>1, <1>3 DEF Settled
<1>. QED BY <1>5, <1>6

\* What is heard moves the counters towards the device, and no request.
LEMMA HeardAgrees ==
  ASSUME Surroundings, NEW s \in HostStates, Agree(s, s.request), NEW heard,
         "report" \in heard => report # None,
         "receipt" \in heard => receipt # None,
         "snapshot" \in heard => s.snapshot.phase = "taken"
  PROVE  Heard(s, heard) \in HostStates /\ Agree(Heard(s, heard), s.request)
<1> DEFINE x == s.request
           t == IF "report" \in heard THEN ReportHeard(s) ELSE s
           u == IF "receipt" \in heard THEN ReceiptHeard(t) ELSE t
<1>1. x \in Request /\ Whole(s) BY HostParts, AgreementIsWhole
<1>2. /\ "report" \in heard => report \in Report
      /\ "receipt" \in heard => receipt \in Receipt
  BY OptionIs DEF Surroundings
<1>3. /\ Whole(t) /\ Agree(t, x) /\ t.request = x /\ t.snapshot = s.snapshot
  <2>1. CASE "report" \in heard
    <3>1. Whole(ReportHeard(s)) BY <1>1, <1>2, <2>1, ReportHeardIs
    <3>2. Agree(ReportHeard(s), x) BY <1>1, <2>1, ReportHeardAgrees
    <3>3. ReportHeard(s).request = x /\ ReportHeard(s).snapshot = s.snapshot
      <4>1. CASE report.of # s.request.handles BY <4>1 DEF ReportHeard
      <4>2. CASE report.of = s.request.handles
        BY <1>1, <2>1, <4>2, ReportHeardCounts
      <4>. QED BY <4>1, <4>2
    <3>. QED BY <2>1, <3>1, <3>2, <3>3
  <2>2. CASE "report" \notin heard BY <1>1, <2>2
  <2>. QED BY <2>1, <2>2
<1> HIDE DEF t
<1>4. t \in HostStates BY <1>3 DEF Whole
<1>5. /\ Whole(u) /\ Agree(u, x) /\ u.request = x /\ u.snapshot = s.snapshot
  <2>1. CASE "receipt" \in heard
    <3>1. Whole(ReceiptHeard(t)) BY <1>2, <1>3, <2>1, ReceiptHeardIs
    <3>2. Agree(ReceiptHeard(t), x) BY <1>1, <1>3, <1>4, <2>1, ReceiptHeardAgrees
    <3>3. ReceiptHeard(t).request = x /\ ReceiptHeard(t).snapshot = s.snapshot
      BY <1>3, <1>4 DEF ReceiptHeard, HostStates
    <3>. QED BY <2>1, <3>1, <3>2, <3>3
  <2>2. CASE "receipt" \notin heard BY <1>3, <2>2
  <2>. QED BY <2>1, <2>2
<1>6. Heard(s, heard) = SnapshotHeard(u, heard) BY DEF Heard, t
<1> HIDE DEF u
<1>7. u \in HostStates BY <1>5 DEF Whole
<1>8. Agree(SnapshotHeard(u, heard), u.request)
  BY <1>5, <1>7, SnapshotHeardAgrees
<1>9. Whole(SnapshotHeard(u, heard)) BY <1>5, SnapshotHeardIs
<1>. QED BY <1>5, <1>6, <1>8, <1>9 DEF Whole

-----------------------------------------------------------------------------
(* Every step keeps the agreement. *)

\* The invariant that is proved: the transfers' with the rest of the agreement.
AgreementInvariant ==
  TransfersInvariant /\ Agree(Host, extracted) /\ LocalInEpoch

\* The state the main world's systems work on, and what surrounds it.
LEMMA HostIs ==
  ASSUME TypeOK
  PROVE  /\ Host \in HostStates /\ Surroundings
         /\ request \in Request /\ extracted \in Request
         /\ Host.request = request /\ Host.stats = stats
         /\ Host.transfers = transfers /\ Host.display = display
         /\ Host.snapshot = snapshot
<1>1. Host \in HostStates BY DEF TypeOK, Host, HostStates
<1>2. Surroundings BY Bounds DEF TypeOK, Surroundings
<1>. QED BY <1>1, <1>2 DEF TypeOK, Host

\* An extraction, what it hears and what is settled of that.
LEMMA ExtractAgrees ==
  ASSUME AgreementInvariant, NEW heard,
         "report" \in heard => report # None,
         "receipt" \in heard => receipt # None,
         "snapshot" \in heard => snapshot.phase = "taken",
         Extract(heard)
  PROVE  Agree(Host, extracted)' /\ LocalInEpoch'
<1>1. TypeOK /\ Agree(Host, extracted) /\ LocalInEpoch
  BY DEF AgreementInvariant, TransfersInvariant
<1>2. /\ Host \in HostStates /\ Surroundings
      /\ request \in Request /\ extracted \in Request
      /\ Host.request = request /\ Host.snapshot = snapshot
  BY <1>1, HostIs
<1>3. Agree(Host, request) BY <1>1, <1>2, ExtractedAgrees
<1>4. PICK u : u = Heard(Host, heard) OBVIOUS
<1>5. u \in HostStates /\ Agree(u, request)
  BY <1>2, <1>3, <1>4, HeardAgrees
<1>6. PICK t : t = Settled(u) OBVIOUS
<1>7. t \in HostStates /\ Agree(t, request) BY <1>2, <1>5, <1>6, SettledAgrees
<1>8. /\ request' = t.request /\ stats' = t.stats
      /\ transfers' = t.transfers /\ display' = t.display
      /\ snapshot' = t.snapshot
      /\ extracted' = request
      /\ report' \in {None, report} /\ receipt' \in {None, receipt}
      /\ UNCHANGED <<serial, groups, device, ran, failures, bounds>>
  BY <1>4, <1>6 DEF Extract, Become
<1>9. UNCHANGED <<serial, groups, device, ran, made, asked>> BY <1>8 DEF bounds
<1>10. /\ Host'.request = t.request /\ Host'.stats = t.stats
       /\ Host'.transfers = t.transfers /\ Host'.display = t.display
       /\ Host'.snapshot = t.snapshot
  BY <1>8 DEF Host
<1>11. OfAGeneration(Host, extracted)' BY <1>7, <1>8, <1>10 DEF Agree, OfAGeneration
<1>12. TransfersAreKnown(Host, extracted)'
  BY <1>7, <1>8, <1>9, <1>10 DEF Agree, TransfersAreKnown
<1>13. Follows(extracted, Host.request)'
  BY <1>7, <1>8, <1>9, <1>10 DEF Agree, Follows, InOrder
<1>14. ASSUME NEW b, NEW live, CaughtUpOn(t, b, live)
       PROVE  CaughtUpOn(Host, b, live)'
  BY <1>8, <1>9, <1>10, <1>14 DEF CaughtUpOn
<1>15. WorkIsKnown(Host, extracted)'
  <2>1. WorkIsKnown(t, request) BY <1>7 DEF Agree
  <2>2. ASSUME NEW live, EncodesOn(t, groups.wave, request, live)
        PROVE  EncodesOn(Host, groups.wave, extracted, live)'
    BY <1>8, <1>9, <1>14, <2>2 DEF EncodesOn, EncodedOn, Known, Stopped
  <2>. QED
    BY <1>8, <1>9, <1>10, <1>14, <2>1, <2>2 DEF WorkIsKnown, IsOf, Stopped
<1>16. ReportIsTrue(Host, extracted)'
  BY <1>7, <1>8, <1>9, <1>10 DEF Agree, ReportIsTrue, Stopped, Low
<1>17. ReceiptIsTrue(Host)'
  BY <1>7, <1>8, <1>9, <1>10 DEF Agree, ReceiptIsTrue, Low
<1>18. CountsAreClose(Host)'
  BY <1>7, <1>8, <1>9, <1>10 DEF Agree, CountsAreClose, Within
<1>19. DecodedExactly(Host)' BY <1>7, <1>10 DEF Agree, DecodedExactly
<1>20. EventsInOrder(Host, extracted)'
  BY <1>7, <1>8, <1>9, <1>10 DEF Agree, EventsInOrder
<1>21. LocalInEpoch' BY <1>1, <1>9 DEF LocalInEpoch
<1>. QED
  BY <1>11, <1>12, <1>13, <1>15, <1>16, <1>17, <1>18, <1>19, <1>20, <1>21 DEF Agree

\* The parts of the invariant, and the types they are read at.
LEMMA Agreed ==
  ASSUME AgreementInvariant
  PROVE  /\ TransfersInvariant /\ TypeOK /\ LocalInEpoch
         /\ OfAGeneration(Host, extracted) /\ TransfersAreKnown(Host, extracted)
         /\ Follows(extracted, request) /\ WorkIsKnown(Host, extracted)
         /\ ReportIsTrue(Host, extracted) /\ ReceiptIsTrue(Host)
         /\ CountsAreClose(Host) /\ DecodedExactly(Host)
         /\ EventsInOrder(Host, extracted)
<1>1. TypeOK BY DEF AgreementInvariant, TransfersInvariant
<1>2. Host.request = request BY DEF Host
<1>. QED BY <1>1, <1>2 DEF AgreementInvariant, Agree

\* The counts of the two requests.
LEMMA RequestsParts ==
  ASSUME TypeOK
  PROVE  /\ request.generation \in Nat /\ request.revision \in Nat
         /\ request.status \in Nat /\ request.cleared_failures \in Nat
         /\ request.desired_steps \in Nat
         /\ request.handles # None => request.handles \in Buffers
         /\ request.handoff # None => request.handoff \in Buffers
         /\ request.live_event # None => request.live_event \in Nat
         /\ extracted.generation \in Nat /\ extracted.revision \in Nat
         /\ extracted.status \in Nat /\ extracted.cleared_failures \in Nat
         /\ extracted.desired_steps \in Nat
         /\ extracted.handles # None => extracted.handles \in Buffers
         /\ extracted.handoff # None => extracted.handoff \in Buffers
         /\ extracted.live_event # None => extracted.live_event \in Nat
         /\ made \in Nat /\ asked \in Nat /\ serial \in Nat
         /\ report # None => report.of \in Buffers /\ report.status \in Nat
         /\ receipt # None => receipt.of \in Buffers
<1>1. request \in Request /\ extracted \in Request BY DEF TypeOK
<1>2. made \in Nat /\ asked \in Nat /\ serial \in Nat BY Bounds DEF TypeOK, Buffers
<1>3. Surroundings BY HostIs
<1>4. report # None => report.of \in Buffers /\ report.status \in Nat
  BY <1>3, ReportParts
<1>5. receipt # None => receipt.of \in Buffers
  <2>1. receipt # None => receipt \in Receipt BY OptionIs DEF TypeOK
  <2>. QED BY <2>1 DEF Receipt
<1>. QED BY <1>1, <1>2, <1>4, <1>5, RequestParts

\* A request emptied is of its generation, at the next revision if a handoff
\* went with it.
LEMMA EmptiedKeeps ==
  ASSUME NEW x \in Request
  PROVE  /\ Emptied(x).generation = x.generation
         /\ Emptied(x).cleared_failures = x.cleared_failures
         /\ Emptied(x).desired_steps = 0
<1> DEFINE y == [x EXCEPT !.handoff = None]
<1>1. /\ y \in Request /\ y.generation = x.generation
      /\ y.cleared_failures = x.cleared_failures
  BY OptionHas DEF Request
<1>2. /\ Revised(y).generation = y.generation /\ Revised(y) \in Request
      /\ Revised(y).cleared_failures = y.cleared_failures
  BY <1>1, RevisedIs DEF Revised, Request
<1> HIDE DEF y
<1>3. PICK w : w = WithoutHandoff(x) OBVIOUS
<1>4. /\ w \in Request /\ w.generation = x.generation
      /\ w.cleared_failures = x.cleared_failures
  BY <1>1, <1>2, <1>3 DEF WithoutHandoff, y
<1>. QED BY <1>3, <1>4 DEF Emptied, Request

\* A generation that is gone has nothing to agree on but what is on its way.
LEMMA ClearAgrees ==
  ASSUME AgreementInvariant, Clear
  PROVE  Agree(Host, extracted)' /\ LocalInEpoch'
<1>1. /\ TypeOK /\ LocalInEpoch /\ TransfersInvariant
      /\ OfAGeneration(Host, extracted) /\ TransfersAreKnown(Host, extracted)
      /\ Follows(extracted, request) /\ WorkIsKnown(Host, extracted)
      /\ ReportIsTrue(Host, extracted) /\ ReceiptIsTrue(Host)
      /\ DecodedExactly(Host) /\ EventsInOrder(Host, extracted)
  BY Agreed
<1>2. PICK r \in Request : r = Emptied(request) BY <1>1, EmptiedIs DEF TypeOK
<1>3. /\ r.handoff = None /\ r.handles = None /\ r.live_event = None
      /\ r.generation = request.generation
      /\ r.cleared_failures = request.cleared_failures
      /\ r.revision >= request.revision
      /\ r.revision = request.revision => r.handoff = request.handoff
  BY <1>1, <1>2, EmptiedIs, EmptiedKeeps DEF TypeOK
<1>4. /\ Host'.request = r /\ Host'.snapshot = NoSnapshot /\ NoSnapshot.phase = "none"
      /\ Host'.stats = stats /\ Host'.transfers = transfers
      /\ Host'.display = display
      /\ UNCHANGED <<stats, transfers, display, extracted, groups, device, report,
                     receipt, ran, made, asked>>
  BY <1>2 DEF Clear, Host, render, bounds, NoSnapshot
<1>5. /\ Host.request = request /\ Host.stats = stats
      /\ Host.transfers = transfers /\ Host.display = display
  BY DEF Host
<1>6. r.revision \in Nat /\ extracted.revision \in Nat /\ request.revision \in Nat
  BY <1>1, RequestsParts, RequestParts
<1>7. OfAGeneration(Host, extracted)' BY <1>3, <1>4 DEF OfAGeneration
<1>8. /\ extracted.revision <= r.revision
      /\ extracted.revision = r.revision =>
           r.revision = request.revision
  BY <1>1, <1>3, <1>5, <1>6 DEF TransfersAreKnown
<1>9. TransfersAreKnown(Host, extracted)'
  BY <1>1, <1>3, <1>4, <1>5, <1>8 DEF TransfersAreKnown
<1>10. Follows(extracted, Host.request)'
  BY <1>1, <1>3, <1>4, <1>8 DEF Follows, InOrder
<1>11. WorkIsKnown(Host, extracted)'
  BY <1>1, <1>3, <1>4, <1>5
  DEF WorkIsKnown, EncodesOn, CaughtUpOn, EncodedOn, IsOf, Known, Stopped, Low
<1>12. ReportIsTrue(Host, extracted)'
  BY <1>1, <1>3, <1>4, RequestsParts, NoneIsNoBuffer DEF ReportIsTrue
<1>13. ReceiptIsTrue(Host)' BY <1>1, <1>3, <1>4 DEF ReceiptIsTrue
<1>14. CountsAreClose(Host)'
  <2>1. 0 \in 0..StartStep BY Bounds
  <2>2. Within(Host, 0)' BY <1>3, <1>4 DEF Within
  <2>. QED BY <2>1, <2>2 DEF CountsAreClose
<1>15. DecodedExactly(Host)' BY <1>1, <1>4, <1>5 DEF DecodedExactly
<1>16. EventsInOrder(Host, extracted)' BY <1>1, <1>3, <1>4 DEF EventsInOrder
<1>17. LocalInEpoch' BY <1>1, <1>4 DEF LocalInEpoch
<1>. QED
  BY <1>7, <1>9, <1>10, <1>11, <1>12, <1>13, <1>14, <1>15, <1>16, <1>17 DEF Agree

\* Buffers not made yet are of no generation, handoff or copy.
LEMMA NewBuffers ==
  ASSUME AgreementInvariant, NEW b, b = made + 1
  PROVE  /\ request.handles # None => request.handles # b /\ request.handles < b
         /\ request.handoff # None => request.handoff # b
         /\ extracted.handles # None => extracted.handles # b /\ extracted.handles < b
         /\ extracted.handoff # None => extracted.handoff # b
         /\ report # None => report.of # b /\ report.of < b /\ report.of <= b
         /\ receipt # None => receipt.of # b /\ receipt.of <= b
         /\ b \in Nat /\ b > made /\ b # None
<1>1. /\ TypeOK /\ TransfersAreKnown(Host, extracted) /\ Follows(extracted, request)
      /\ ReportIsTrue(Host, extracted) /\ ReceiptIsTrue(Host)
  BY Agreed
<1>2. /\ request.handles # None => request.handles <= made
      /\ request.handoff # None => request.handoff <= made
      /\ extracted.handles # None => extracted.handles <= made
      /\ extracted.handoff # None => extracted.handoff <= made
      /\ report # None => report.of <= made
      /\ receipt # None => receipt.of <= made
  BY <1>1 DEF TransfersAreKnown, Follows, InOrder, ReportIsTrue, ReceiptIsTrue, Host
<1>. QED BY <1>1, <1>2, RequestsParts, NoneAssumption DEF Buffers

\* The transfers and the groups of the handoff are known of the variables as
\* they stand.
LEMMA TransfersOf ==
  TransfersAreKnown(Host, extracted) <=>
    /\ Transactions
    /\ \A b \in Buffers : device[b].receipt # None => transfers[b].submitted
    /\ extracted.handoff # None /\ extracted.handoff = request.handles =>
         transfers[extracted.handoff].submitted
BY DEF TransfersAreKnown, Transactions, Host

\* A generation installed begins in buffers of its own, which did nothing.
LEMMA InstallAgrees ==
  ASSUME AgreementInvariant, Install
  PROVE  Agree(Host, extracted)' /\ LocalInEpoch'
<1> DEFINE b == made + 1
<1>1. /\ TypeOK /\ LocalInEpoch /\ TransfersInvariant
      /\ OfAGeneration(Host, extracted) /\ TransfersAreKnown(Host, extracted)
      /\ Follows(extracted, request) /\ WorkIsKnown(Host, extracted)
      /\ ReportIsTrue(Host, extracted) /\ ReceiptIsTrue(Host)
      /\ DecodedExactly(Host) /\ EventsInOrder(Host, extracted)
  BY Agreed
<1>2. /\ b \in Buffers /\ made \in Nat /\ b \in Nat /\ b <= b /\ b # None
  BY <1>1, RequestsParts, Bounds, NoneIsNoBuffer DEF Install, Buffers
<1>3. /\ extracted.handles # None => extracted.handles # b /\ extracted.handles < b
      /\ extracted.handoff # None => extracted.handoff # b
      /\ report # None => report.of # b /\ report.of < b /\ report.of <= b
      /\ receipt # None => receipt.of # b /\ receipt.of <= b
  BY NewBuffers
<1>4. PICK e \in Request : e = Emptied(request) BY <1>1, EmptiedIs DEF TypeOK
<1>5. /\ e.handoff = None /\ e.live_event = None
      /\ e.generation = request.generation
      /\ e.cleared_failures = request.cleared_failures
      /\ e.desired_steps = 0 /\ e.revision >= request.revision
  BY <1>1, <1>4, EmptiedIs, EmptiedKeeps DEF TypeOK
<1>6. request.generation \in Nat /\ e.revision \in Nat /\ request.revision \in Nat
  BY <1>1, RequestsParts, RequestParts
<1>7. PICK r : r = Revised([e EXCEPT !.generation = request.generation + 1,
                                     !.handles = b, !.status = 0])
  OBVIOUS
<1>8. /\ r.generation = request.generation + 1 /\ r.handles = b /\ r.status = 0
      /\ r.handoff = None /\ r.live_event = None /\ r.desired_steps = 0
      /\ r.cleared_failures = request.cleared_failures
      /\ r.revision = e.revision + 1
  BY <1>4, <1>5, <1>7 DEF Revised, Request
<1>9. /\ Host'.request = r /\ Host'.snapshot = NoSnapshot /\ NoSnapshot.phase = "none"
      /\ Host'.stats = [stats EXCEPT ![b] = NewStats(0)]
      /\ Host'.transfers = transfers /\ Host'.display = display
      /\ request' = r /\ serial' = 0 /\ made' = b
      /\ device' = [device EXCEPT ![b] = Fresh(0)]
      /\ UNCHANGED <<transfers, display, extracted, groups, report, receipt, ran,
                     asked>>
  BY <1>4, <1>7 DEF Install, Host, NoSnapshot
<1>10. /\ Host.request = request /\ Host.stats = stats
       /\ Host.transfers = transfers /\ Host.display = display
  BY DEF Host
<1>11. /\ Host'.stats[b] = NewStats(0) /\ device'[b] = Fresh(0)
       /\ \A a \in Buffers : a # b => /\ Host'.stats[a] = stats[a]
                                      /\ device'[a] = device[a]
  BY <1>1, <1>2, <1>9 DEF TypeOK
<1>12. /\ Fresh(0).steps = 0 /\ Fresh(0).local = 0 /\ Fresh(0).processed = 0
       /\ Fresh(0).receipt = None
       /\ \A n \in Serials : Fresh(0).applied[n] = 0
       /\ NewStats(0).completed_steps = 0 /\ NewStats(0).local_step = 0
       /\ NewStats(0).failure = FALSE
  BY DEF Fresh, NewStats
<1>13. /\ extracted.handles # None => extracted.handles \in Buffers
       /\ extracted.handoff # None => extracted.handoff \in Buffers
       /\ extracted.live_event # None => extracted.handles # None
       /\ extracted.generation \in Nat /\ extracted.revision \in Nat
       /\ extracted.generation <= request.generation
       /\ extracted.revision <= request.revision
       /\ asked \in Nat
  BY <1>1, RequestsParts, TransfersOf DEF Follows, InOrder, Transactions
<1>14. /\ extracted.generation <= r.generation /\ extracted.generation # r.generation
       /\ extracted.revision <= r.revision /\ extracted.revision # r.revision
  BY <1>5, <1>6, <1>8, <1>13
<1>15. OfAGeneration(Host, extracted)'
  BY <1>2, <1>8, <1>9 DEF OfAGeneration
<1>16. TransfersAreKnown(Host, extracted)'
  <2>1. Transactions' BY <1>1, InstallTransfers DEF TransfersInvariant
  <2>2. \A a \in Buffers : device'[a].receipt # None => transfers[a].submitted
    BY <1>1, <1>11, <1>12, TransfersOf
  <2>3. extracted.handoff # r.handles \/ extracted.handoff = None
    BY <1>3, <1>8
  <2>4. /\ \A a \in Buffers : device'[a].receipt # None => transfers'[a].submitted
        /\ extracted'.handoff # None /\ extracted'.handoff = request'.handles =>
             transfers'[extracted'.handoff].submitted
    BY <1>9, <2>2, <2>3
  <2>. QED BY <1>9, <1>10, <2>1, <2>4 DEF TransfersAreKnown, Transactions
<1>17. Follows(extracted, Host.request)'
  <2>1. InOrder(extracted)'
    BY <1>1, <1>2, <1>3, <1>9, <1>13, RequestsParts DEF Follows, InOrder, Buffers
  <2>. QED
    BY <1>1, <1>2, <1>3, <1>8, <1>9, <1>14, <2>1 DEF Follows, InOrder
<1>18. WorkIsKnown(Host, extracted)'
  <2>1. IsOf(groups.wave, extracted)' BY <1>1, <1>9 DEF WorkIsKnown, IsOf
  <2>2. EncodesOn(Host, groups.wave, extracted, extracted.live_event)'
    <3>1. CASE extracted.handles = None BY <1>9, <3>1 DEF EncodesOn
    <3>2. CASE extracted.handles # None
      <4>1. /\ Host'.stats[extracted.handles] = stats[extracted.handles]
            /\ device'[extracted.handles] = device[extracted.handles]
        BY <1>3, <1>11, <1>13, <3>2
      <4>. QED
        BY <1>1, <1>9, <1>10, <3>2, <4>1
        DEF WorkIsKnown, EncodesOn, CaughtUpOn, EncodedOn, Known, Stopped, Low
    <3>. QED BY <3>1, <3>2
  <2>4. CaughtUpOn(Host, request.handles, request.live_event)'
    BY <1>3, <1>8, <1>9, <1>11, <1>12 DEF CaughtUpOn
  <2>5. Host'.stats[r.handles].failure = FALSE BY <1>8, <1>11, <1>12
  <2>. QED
    BY <1>8, <1>9, <1>14, <2>1, <2>2, <2>4, <2>5 DEF WorkIsKnown
<1>19. ReportIsTrue(Host, extracted)' BY <1>3, <1>8, <1>9 DEF ReportIsTrue
<1>20. ReceiptIsTrue(Host)' BY <1>3, <1>8, <1>9 DEF ReceiptIsTrue
<1>21. CountsAreClose(Host)'
  <2>1. 0 \in 0..StartStep /\ asked \in Nat BY <1>13, Bounds
  <2>2. Within(Host, 0)'
    BY <1>2, <1>8, <1>9, <1>11, <1>12, <1>13 DEF Within
  <2>. QED BY <2>1, <2>2 DEF CountsAreClose
<1>22. DecodedExactly(Host)' BY <1>1, <1>9, <1>10 DEF DecodedExactly
<1>23. EventsInOrder(Host, extracted)'
  <2>1. \A a \in Buffers, n \in Serials :
          /\ device'[a].applied[n] <= 1
          /\ device'[a].applied[n] = 1 => n <= device'[a].processed
    BY <1>1, <1>11, <1>12 DEF EventsInOrder
  <2>2. extracted.live_event # None =>
          device'[extracted.handles].processed <= extracted.live_event
    BY <1>1, <1>3, <1>11, <1>13 DEF EventsInOrder
  <2>3. device'[b].processed <= 0 BY <1>11, <1>12
  <2>. QED BY <1>8, <1>9, <2>1, <2>2, <2>3 DEF EventsInOrder
<1>24. LocalInEpoch'
  <2>1. \A a \in Buffers : device'[a].local < RebaseLimit
    BY <1>1, <1>11, <1>12, Bounds DEF LocalInEpoch
  <2>. QED BY <2>1 DEF LocalInEpoch
<1>. QED
  BY <1>15, <1>16, <1>17, <1>18, <1>19, <1>20, <1>21, <1>22, <1>23, <1>24 DEF Agree

\* A handoff begins into buffers of its own, beside no live event.
LEMMA BeginHandoffAgrees ==
  ASSUME AgreementInvariant, BeginHandoff
  PROVE  Agree(Host, extracted)' /\ LocalInEpoch'
<1> DEFINE b == made + 1
<1>1. /\ TypeOK /\ LocalInEpoch /\ TransfersInvariant
      /\ OfAGeneration(Host, extracted) /\ TransfersAreKnown(Host, extracted)
      /\ Follows(extracted, request) /\ WorkIsKnown(Host, extracted)
      /\ ReportIsTrue(Host, extracted) /\ ReceiptIsTrue(Host)
      /\ CountsAreClose(Host) /\ DecodedExactly(Host)
      /\ EventsInOrder(Host, extracted)
  BY Agreed
<1>2. /\ b \in Buffers /\ made \in Nat /\ b \in Nat /\ b <= b /\ b # None
  BY <1>1, RequestsParts, Bounds, NoneIsNoBuffer DEF BeginHandoff, Buffers
<1>3. /\ request.handles # None /\ request.handles # b /\ request.handles < b
      /\ request.handles \in Buffers
      /\ extracted.handles # None => extracted.handles # b /\ extracted.handles < b
      /\ extracted.handoff # None => extracted.handoff # b
      /\ report # None => report.of # b /\ report.of < b /\ report.of <= b
      /\ receipt # None => receipt.of # b /\ receipt.of <= b
      /\ request.live_event = None
  BY <1>1, NewBuffers, RequestsParts
  DEF BeginHandoff, Running, Installed, HandoffMayBegin
<1>4. PICK r : r = Revised([request EXCEPT !.handoff = b]) OBVIOUS
<1>5. /\ r.generation = request.generation /\ r.handles = request.handles
      /\ r.status = request.status /\ r.handoff = b /\ r.live_event = None
      /\ r.desired_steps = request.desired_steps
      /\ r.cleared_failures = request.cleared_failures
      /\ r.revision = request.revision + 1
  BY <1>1, <1>3, <1>4 DEF Revised, Request, TypeOK
<1>6. /\ request' = r /\ Host'.request = r /\ Host'.snapshot = snapshot
      /\ Host'.stats = stats /\ Host'.display = display
      /\ Host'.transfers = [transfers EXCEPT ![b] = NewTransfer]
      /\ made' = b /\ device' = [device EXCEPT ![b] = Fresh(0)]
      /\ UNCHANGED <<stats, display, snapshot, serial, extracted, groups, report,
                     receipt, ran, asked>>
  BY <1>4 DEF BeginHandoff, Host
<1>7. /\ Host.request = request /\ Host.stats = stats
      /\ Host.transfers = transfers /\ Host.display = display
      /\ Host.snapshot = snapshot
  BY DEF Host
<1>8. /\ Host'.transfers[b] = NewTransfer /\ device'[b] = Fresh(0)
      /\ \A a \in Buffers : a # b => /\ Host'.transfers[a] = transfers[a]
                                     /\ device'[a] = device[a]
  BY <1>1, <1>2, <1>6 DEF TypeOK
<1>9. /\ Fresh(0).local = 0 /\ Fresh(0).processed = 0 /\ Fresh(0).receipt = None
      /\ \A n \in Serials : Fresh(0).applied[n] = 0
      /\ NewTransfer.submitted = FALSE /\ NewTransfer.completed = FALSE
  BY DEF Fresh, NewTransfer
<1>10. /\ extracted.handles # None => extracted.handles \in Buffers
       /\ extracted.handoff # None => extracted.handoff \in Buffers
       /\ extracted.live_event # None => extracted.handles # None
       /\ extracted.revision \in Nat /\ request.revision \in Nat
       /\ extracted.revision <= request.revision
  BY <1>1, RequestsParts, TransfersOf DEF Follows, InOrder, Transactions
<1>11. extracted.revision <= r.revision /\ extracted.revision # r.revision
  BY <1>5, <1>10
<1>12. /\ device'[request.handles] = device[request.handles]
       /\ extracted.handles # None =>
            device'[extracted.handles] = device[extracted.handles]
  BY <1>3, <1>8, <1>10
<1>13. OfAGeneration(Host, extracted)'
  BY <1>1, <1>3, <1>5, <1>6, <1>7 DEF OfAGeneration
<1>14. TransfersAreKnown(Host, extracted)'
  <2>1. Transactions' BY <1>1, BeginHandoffTransfers DEF TransfersInvariant
  <2>2. \A a \in Buffers : device'[a].receipt # None => Host'.transfers[a].submitted
    BY <1>1, <1>8, <1>9, TransfersOf
  <2>3. extracted.handoff # None /\ extracted.handoff = request.handles =>
          Host'.transfers[extracted.handoff].submitted
    BY <1>1, <1>3, <1>8, <1>10, TransfersOf
  <2>4. Host'.transfers = transfers' BY DEF Host
  <2>. QED BY <1>5, <1>6, <2>1, <2>2, <2>3, <2>4 DEF TransfersAreKnown, Transactions
<1>15. Follows(extracted, Host.request)'
  <2>1. InOrder(extracted)'
    BY <1>1, <1>2, <1>3, <1>6, <1>10, RequestsParts DEF Follows, InOrder, Buffers
  <2>2. InOrder(Host.request)' BY <1>2, <1>3, <1>5, <1>6 DEF InOrder, Buffers
  <2>. QED
    BY <1>1, <1>3, <1>5, <1>6, <1>11, <2>1, <2>2 DEF Follows
<1>16. ASSUME NEW a \in Buffers, a # b, NEW live, CaughtUpOn(Host, a, live)
       PROVE  CaughtUpOn(Host, a, live)'
  BY <1>6, <1>7, <1>8, <1>16 DEF CaughtUpOn, Low
<1>17. ASSUME NEW live, EncodesOn(Host, groups.wave, extracted, live)
       PROVE  EncodesOn(Host, groups.wave, extracted, live)'
  <2>1. CASE extracted.handles = None BY <1>6, <2>1 DEF EncodesOn
  <2>2. CASE extracted.handles # None
    <3>1. CaughtUpOn(Host, extracted.handles, live) =>
            CaughtUpOn(Host, extracted.handles, live)'
      BY <1>3, <1>6, <1>10, <1>16, <2>2
    <3>. QED
      BY <1>6, <1>12, <1>17, <2>2, <3>1 DEF EncodesOn, EncodedOn, Known, Stopped
  <2>. QED BY <2>1, <2>2
<1>18. WorkIsKnown(Host, extracted)'
  <2>1. IsOf(groups.wave, extracted)' BY <1>1, <1>6 DEF WorkIsKnown, IsOf
  <2>2. EncodesOn(Host, groups.wave, extracted, extracted.live_event)'
    BY <1>1, <1>6, <1>17 DEF WorkIsKnown
  <2>3. /\ request'.handles = request.handles
        /\ request'.live_event = request.live_event
        /\ Host'.stats = Host.stats
    BY <1>3, <1>5, <1>6, <1>7
  <2>4. CaughtUpOn(Host, request.handles, request.live_event) =>
          CaughtUpOn(Host, request.handles, request.live_event)'
    BY <1>3, <1>16, <2>3
  <2>5. EncodesOn(Host, groups.wave, extracted, request.live_event) =>
          EncodesOn(Host, groups.wave, extracted, request.live_event)'
    BY <1>17, <2>3
  <2>6. \A status : Stopped(device[request.handles], status) =>
                      Stopped(device[request.handles], status)'
    BY <1>12, <2>3 DEF Stopped
  <2>. QED
    BY <1>1, <1>3, <1>5, <1>6, <1>7, <1>12, <2>1, <2>2, <2>3, <2>4, <2>5
    DEF WorkIsKnown, Stopped
<1>19. ReportIsTrue(Host, extracted)'
  BY <1>1, <1>3, <1>5, <1>6, <1>7, <1>12 DEF ReportIsTrue, Stopped, Low
<1>20. ReceiptIsTrue(Host)'
  BY <1>3, <1>5, <1>6, <1>8, <1>9 DEF ReceiptIsTrue
<1>21. CountsAreClose(Host)'
  <2>1. PICK base \in 0..StartStep : Within(Host, base) BY <1>1 DEF CountsAreClose
  <2>2. Within(Host, base)'
    BY <1>3, <1>5, <1>6, <1>7, <1>8, <1>9, <1>12, <2>1 DEF Within
  <2>. QED BY <2>2 DEF CountsAreClose
<1>22. DecodedExactly(Host)' BY <1>1, <1>6, <1>7 DEF DecodedExactly
<1>23. EventsInOrder(Host, extracted)'
  <2>1. \A a \in Buffers, n \in Serials :
          /\ device'[a].applied[n] <= 1
          /\ device'[a].applied[n] = 1 => n <= device'[a].processed
    BY <1>1, <1>8, <1>9 DEF EventsInOrder
  <2>. QED
    BY <1>1, <1>3, <1>5, <1>6, <1>7, <1>10, <1>12, <2>1 DEF EventsInOrder
<1>24. LocalInEpoch'
  <2>1. \A a \in Buffers : device'[a].local < RebaseLimit
    BY <1>1, <1>8, <1>9, Bounds DEF LocalInEpoch
  <2>. QED BY <2>1 DEF LocalInEpoch
<1>. QED
  BY <1>13, <1>14, <1>15, <1>18, <1>19, <1>20, <1>21, <1>22, <1>23, <1>24 DEF Agree

\* What an agreement of other variables says of the variables themselves, when
\* these became theirs.
LEMMA AgreesNext ==
  ASSUME NEW t, Agree(t, extracted),
         request' = t.request, stats' = t.stats, transfers' = t.transfers,
         display' = t.display, snapshot' = t.snapshot,
         UNCHANGED <<extracted, serial, groups, device, report, receipt, ran, made,
                     asked>>
  PROVE  Agree(Host, extracted)'
<1>1. /\ Host'.request = t.request /\ Host'.stats = t.stats
      /\ Host'.transfers = t.transfers /\ Host'.display = t.display
      /\ Host'.snapshot = t.snapshot
  BY DEF Host
<1>2. OfAGeneration(Host, extracted)' BY <1>1 DEF Agree, OfAGeneration
<1>3. TransfersAreKnown(Host, extracted)' BY <1>1 DEF Agree, TransfersAreKnown
<1>4. Follows(extracted, Host.request)' BY <1>1 DEF Agree, Follows, InOrder
<1>5. WorkIsKnown(Host, extracted)'
  BY <1>1
  DEF Agree, WorkIsKnown, EncodesOn, CaughtUpOn, EncodedOn, IsOf, Known, Stopped, Low
<1>6. ReportIsTrue(Host, extracted)'
  BY <1>1 DEF Agree, ReportIsTrue, Stopped, Low
<1>7. ReceiptIsTrue(Host)' BY <1>1 DEF Agree, ReceiptIsTrue, Low
<1>8. CountsAreClose(Host)' BY <1>1 DEF Agree, CountsAreClose, Within
<1>9. DecodedExactly(Host)' BY <1>1 DEF Agree, DecodedExactly
<1>10. EventsInOrder(Host, extracted)' BY <1>1 DEF Agree, EventsInOrder
<1>. QED BY <1>2, <1>3, <1>4, <1>5, <1>6, <1>7, <1>8, <1>9, <1>10 DEF Agree

\* A handoff withdrawn is one refused.
LEMMA WithdrawHandoffAgrees ==
  ASSUME AgreementInvariant, WithdrawHandoff
  PROVE  Agree(Host, extracted)' /\ LocalInEpoch'
<1>1. TypeOK /\ LocalInEpoch /\ Agree(Host, extracted)
  BY Agreed DEF AgreementInvariant
<1>2. /\ Host \in HostStates /\ Surroundings /\ extracted \in Request
      /\ Host.request = request /\ Host.stats = stats
      /\ Host.transfers = transfers /\ Host.display = display
      /\ Host.snapshot = snapshot
  BY <1>1, HostIs
<1>3. Agree(Refused(Host), extracted) BY <1>1, <1>2, RefusedAgrees
<1>4. /\ Refused(Host).request = WithoutHandoff(request)
      /\ Refused(Host).stats = stats /\ Refused(Host).transfers = transfers
      /\ Refused(Host).display = display /\ Refused(Host).snapshot = snapshot
  BY <1>2 DEF WithdrawHandoff, Refused, WithoutHandoff, HostStates
<1>5. /\ request' = WithoutHandoff(request)
      /\ UNCHANGED <<stats, transfers, display, snapshot, extracted, serial, groups,
                     device, report, receipt, ran, made, asked>>
  BY DEF WithdrawHandoff, render, bounds
<1>6. Agree(Host, extracted)' BY <1>3, <1>4, <1>5, AgreesNext
<1>. QED BY <1>1, <1>5, <1>6 DEF LocalInEpoch

\* A live event's serial is past all that was processed.
LEMMA QueueLiveEventAgrees ==
  ASSUME AgreementInvariant, QueueLiveEvent
  PROVE  Agree(Host, extracted)' /\ LocalInEpoch'
<1>b. PICK b : b = request.handles OBVIOUS
<1>n. PICK next : next = Larger(serial, Own.processed_event) + 1 OBVIOUS
<1>1. /\ TypeOK /\ LocalInEpoch /\ TransfersInvariant
      /\ OfAGeneration(Host, extracted) /\ TransfersAreKnown(Host, extracted)
      /\ Follows(extracted, request) /\ WorkIsKnown(Host, extracted)
      /\ ReportIsTrue(Host, extracted) /\ ReceiptIsTrue(Host)
      /\ CountsAreClose(Host) /\ DecodedExactly(Host)
      /\ EventsInOrder(Host, extracted)
  BY Agreed
<1>2. /\ b # None /\ b \in Buffers /\ stats[b].failure = FALSE
      /\ request.handoff = None /\ request.live_event = None
      /\ Own.processed_event \in Nat
  <2>1. Installed BY DEF QueueLiveEvent, Running
  <2>2. Own \in Stats /\ b \in Buffers BY <1>1, <1>b, <2>1, Types
  <2>. QED BY <1>b, <2>1, <2>2 DEF QueueLiveEvent, Installed, Own, Stats
<1>3. next \in Nat /\ serial < next /\ serial <= next /\ serial \in Nat
  <2>1. serial \in Nat BY <1>1, RequestsParts
  <2>2. Larger(serial, Own.processed_event) \in Nat
    BY <1>2, <2>1, LargerTyped
  <2>3. Larger(serial, Own.processed_event) >= serial
    BY <1>2, <2>1, LargerTyped
  <2>. QED BY <1>n, <2>1, <2>2, <2>3
<1>4. PICK r : r = Revised([request EXCEPT !.live_event = next]) OBVIOUS
<1>5. /\ r.generation = request.generation /\ r.handles = b
      /\ r.status = request.status /\ r.handoff = None /\ r.live_event = next
      /\ r.desired_steps = request.desired_steps
      /\ r.cleared_failures = request.cleared_failures
      /\ r.revision = request.revision + 1
  BY <1>1, <1>2, <1>4, <1>b DEF Revised, Request, TypeOK
<1>6. /\ request' = r /\ serial' = next /\ Host'.request = r
      /\ Host'.stats = Host.stats /\ Host'.transfers = Host.transfers
      /\ Host'.display = Host.display /\ Host'.snapshot = Host.snapshot
      /\ UNCHANGED <<stats, transfers, display, snapshot, extracted, groups, device,
                     report, receipt, ran, made, asked>>
  BY <1>4, <1>n DEF QueueLiveEvent, Host, render
<1>7. Host.request = request /\ Host.stats = stats BY DEF Host
<1>8. /\ extracted.revision \in Nat /\ request.revision \in Nat
      /\ extracted.revision <= request.revision
      /\ extracted.live_event # None => extracted.live_event \in Nat
      /\ device[b].processed \in Nat
  <2>1. device[b] \in Device BY <1>1, <1>2 DEF TypeOK
  <2>. QED BY <1>1, <2>1, DeviceParts, RequestsParts, TransfersOf DEF Transactions
<1>9. extracted.revision <= r.revision /\ extracted.revision # r.revision
  BY <1>5, <1>8
<1>10. device[b].processed <= serial BY <1>1, <1>2, <1>7, <1>b DEF EventsInOrder
<1>11. device[b].processed # next /\ device[b].processed <= next
  BY <1>3, <1>8, <1>10
<1>12. OfAGeneration(Host, extracted)'
  BY <1>1, <1>2, <1>b, <1>5, <1>6, <1>7 DEF OfAGeneration
<1>13. TransfersAreKnown(Host, extracted)'
  BY <1>1, <1>2, <1>b, <1>5, <1>6, <1>7, <1>9 DEF TransfersAreKnown
<1>14. Follows(extracted, Host.request)'
  BY <1>1, <1>2, <1>b, <1>3, <1>5, <1>6, <1>8, <1>9, NoneAssumption DEF Follows, InOrder
<1>15. ASSUME NEW a, NEW live, CaughtUpOn(Host, a, live)
       PROVE  CaughtUpOn(Host, a, live)'
  BY <1>6, <1>15 DEF CaughtUpOn, Low
<1>16. CaughtUpOn(Host, b, None) => CaughtUpOn(Host, b, next)'
  BY <1>6, <1>11 DEF CaughtUpOn, Low
<1>17. ASSUME NEW live, EncodesOn(Host, groups.wave, extracted, live)
       PROVE  EncodesOn(Host, groups.wave, extracted, live)'
  BY <1>6, <1>15, <1>17 DEF EncodesOn, EncodedOn, Known, Stopped
<1>18. extracted.handles = b /\ EncodesOn(Host, groups.wave, extracted, None) =>
         EncodesOn(Host, groups.wave, extracted, next)'
  BY <1>6, <1>11, <1>16 DEF EncodesOn, EncodedOn, Known, Stopped
<1>19. WorkIsKnown(Host, extracted)'
  <2>1. IsOf(groups.wave, extracted)' BY <1>1, <1>6 DEF WorkIsKnown, IsOf
  <2>2. EncodesOn(Host, groups.wave, extracted, extracted.live_event)'
    BY <1>1, <1>6, <1>17 DEF WorkIsKnown
  <2>3. extracted.generation = request.generation => extracted.handles = b
    BY <1>1, <1>2, <1>b DEF Follows
  <2>4. /\ request'.handles = b /\ request'.live_event = next
        /\ Host'.stats[b].failure = FALSE
    BY <1>2, <1>5, <1>6, <1>7
  <2>5. CaughtUpOn(Host, b, None) =>
          CaughtUpOn(Host, request.handles, request.live_event)'
    BY <1>16, <2>4
  <2>6. extracted.handles = b /\ EncodesOn(Host, groups.wave, extracted, None) =>
          EncodesOn(Host, groups.wave, extracted, request.live_event)'
    BY <1>18, <2>4
  <2>. QED
    BY <1>1, <1>2, <1>b, <1>5, <1>6, <1>7, <2>1, <2>2, <2>3, <2>4, <2>5, <2>6
    DEF WorkIsKnown, Stopped
<1>20. ReportIsTrue(Host, extracted)'
  BY <1>1, <1>2, <1>b, <1>5, <1>6, <1>7 DEF ReportIsTrue, Stopped, Low
<1>21. ReceiptIsTrue(Host)' BY <1>1, <1>5, <1>6 DEF ReceiptIsTrue
<1>22. CountsAreClose(Host)'
  BY <1>1, <1>2, <1>b, <1>5, <1>6, <1>7 DEF CountsAreClose, Within
<1>23. DecodedExactly(Host)' BY <1>1, <1>6 DEF DecodedExactly
<1>24. EventsInOrder(Host, extracted)'
  <2>1. device[b].processed <= next BY <1>11
  <2>. QED BY <1>1, <1>2, <1>b, <1>5, <1>6, <1>7, <2>1 DEF EventsInOrder
<1>25. LocalInEpoch' BY <1>1, <1>6 DEF LocalInEpoch
<1>. QED
  BY <1>12, <1>13, <1>14, <1>19, <1>20, <1>21, <1>22, <1>23, <1>24, <1>25 DEF Agree

\* A failure cleared leaves the device stopped for what is encoded yet, and all
\* that it did heard.
LEMMA ClearFailureAgrees ==
  ASSUME AgreementInvariant, ClearFailure
  PROVE  Agree(Host, extracted)' /\ LocalInEpoch'
<1> DEFINE b == request.handles
           counts == [Own EXCEPT !.failure = FALSE]
<1>1. /\ TypeOK /\ LocalInEpoch /\ TransfersInvariant
      /\ OfAGeneration(Host, extracted) /\ TransfersAreKnown(Host, extracted)
      /\ Follows(extracted, request) /\ WorkIsKnown(Host, extracted)
      /\ ReportIsTrue(Host, extracted) /\ ReceiptIsTrue(Host)
      /\ CountsAreClose(Host) /\ DecodedExactly(Host)
      /\ EventsInOrder(Host, extracted)
  BY Agreed
<1>2. /\ b # None /\ b \in Buffers /\ stats[b] \in Stats /\ stats[b].failure
      /\ Own = stats[b]
  <2>1. Installed BY DEF ClearFailure
  <2>2. Own \in Stats /\ b \in Buffers BY <1>1, <2>1, Types
  <2>. QED BY <2>1, <2>2 DEF ClearFailure, Installed, Own
<1>3. /\ counts.completed_steps = stats[b].completed_steps
      /\ counts.local_step = stats[b].local_step
      /\ counts.processed_event = stats[b].processed_event
      /\ counts.failure = FALSE
  BY <1>2 DEF Stats
<1> HIDE DEF counts
<1>4. PICK r : r = Revised([request EXCEPT
                              !.desired_steps = Own.completed_steps,
                              !.cleared_failures = request.cleared_failures + 1,
                              !.status = request.status + 1])
  OBVIOUS
<1>5. /\ r.generation = request.generation /\ r.handles = b
      /\ r.status = request.status + 1 /\ r.handoff = request.handoff
      /\ r.live_event = request.live_event
      /\ r.desired_steps = stats[b].completed_steps
      /\ r.cleared_failures = request.cleared_failures + 1
      /\ r.revision = request.revision + 1
  BY <1>1, <1>2, <1>4 DEF Revised, Request, TypeOK
<1>6. /\ request' = r /\ Host'.request = r
      /\ Host'.stats = [stats EXCEPT ![b] = counts]
      /\ Host'.transfers = Host.transfers
      /\ Host'.display = Host.display /\ Host'.snapshot = Host.snapshot
      /\ UNCHANGED <<transfers, display, snapshot, serial, extracted, groups, device,
                     report, receipt, ran, made, asked>>
  BY <1>4 DEF ClearFailure, Host, render, bounds, counts
<1>7. Host.request = request /\ Host.stats = stats BY DEF Host
<1>8. /\ Host'.stats[b] = counts
      /\ \A a \in Buffers : a # b => Host'.stats[a] = stats[a]
  BY <1>1, <1>2, <1>6 DEF TypeOK
<1>9. /\ extracted.generation = request.generation
      /\ extracted.status = request.status
      /\ extracted.handles = b
      /\ CaughtUpOn(Host, b, request.live_event)
      /\ Stopped(device[b], request.status)
  BY <1>1, <1>2, <1>7 DEF WorkIsKnown, Follows
<1>10. /\ extracted.revision \in Nat /\ request.revision \in Nat
       /\ extracted.revision <= request.revision
       /\ extracted.cleared_failures \in Nat /\ request.cleared_failures \in Nat
       /\ extracted.cleared_failures <= request.cleared_failures
       /\ request.status \in Nat
       /\ report # None => report.status \in Nat
  BY <1>1, RequestsParts, TransfersOf DEF Transactions, Follows
<1>11. /\ extracted.revision <= r.revision /\ extracted.revision # r.revision
       /\ extracted.cleared_failures <= r.cleared_failures
       /\ extracted.cleared_failures # r.cleared_failures
       /\ extracted.status <= r.status /\ extracted.status < r.status
  BY <1>5, <1>9, <1>10
<1>12. OfAGeneration(Host, extracted)'
  BY <1>1, <1>5, <1>6, <1>7 DEF OfAGeneration
<1>13. TransfersAreKnown(Host, extracted)'
  BY <1>1, <1>5, <1>6, <1>7, <1>11 DEF TransfersAreKnown
<1>14. Follows(extracted, Host.request)'
  BY <1>1, <1>5, <1>6, <1>9, <1>11 DEF Follows, InOrder
<1>15. ASSUME NEW a \in Buffers, NEW live, CaughtUpOn(Host, a, live)
       PROVE  CaughtUpOn(Host, a, live)'
  <2>1. /\ Host'.stats[a].completed_steps = stats[a].completed_steps
        /\ Host'.stats[a].local_step = stats[a].local_step
        /\ Host'.stats[a].processed_event = stats[a].processed_event
    BY <1>3, <1>8
  <2>. QED BY <1>6, <1>7, <1>15, <2>1 DEF CaughtUpOn, Low
<1>16. ASSUME NEW live, EncodesOn(Host, groups.wave, extracted, live)
       PROVE  EncodesOn(Host, groups.wave, extracted, live)'
  BY <1>2, <1>6, <1>9, <1>15, <1>16 DEF EncodesOn, EncodedOn, Known, Stopped
<1>17. WorkIsKnown(Host, extracted)'
  <2>1. IsOf(groups.wave, extracted)' BY <1>1, <1>6 DEF WorkIsKnown, IsOf
  <2>2. EncodesOn(Host, groups.wave, extracted, extracted.live_event)'
    BY <1>1, <1>6, <1>16 DEF WorkIsKnown
  <2>3. /\ request'.handles = b /\ request'.live_event = request.live_event
        /\ Host'.stats[b].failure = FALSE
    BY <1>3, <1>5, <1>6, <1>8
  <2>4. CaughtUpOn(Host, request.handles, request.live_event)'
    BY <1>2, <1>9, <1>15, <2>3
  <2>5. Stopped(device[b], extracted.status) BY <1>9
  <2>. QED
    BY <1>5, <1>6, <1>9, <1>11, <2>1, <2>2, <2>3, <2>4, <2>5
    DEF WorkIsKnown, Stopped
<1>18. ReportIsTrue(Host, extracted)'
  <2>1. report # None /\ report.of = b => report.status # r.status
    BY <1>1, <1>5, <1>7, <1>9, <1>10 DEF ReportIsTrue
  <2>. QED
    BY <1>1, <1>3, <1>5, <1>6, <1>7, <1>8, <2>1 DEF ReportIsTrue, Low
<1>19. ReceiptIsTrue(Host)' BY <1>1, <1>5, <1>6, <1>7 DEF ReceiptIsTrue, Low
<1>20. CountsAreClose(Host)'
  <2>1. PICK base \in 0..StartStep : Within(Host, base) BY <1>1 DEF CountsAreClose
  <2>2. /\ device[b].steps = stats[b].completed_steps
        /\ stats[b].completed_steps \in Nat /\ base \in Nat /\ asked \in Nat
        /\ request.desired_steps \in Nat
    BY <1>1, <1>2, <1>7, <1>9, RequestsParts, Bounds DEF CaughtUpOn, Stats
  <2>3. /\ base <= stats[b].completed_steps
        /\ stats[b].completed_steps <= request.desired_steps
        /\ request.desired_steps <= base + asked
    BY <1>2, <1>7, <2>1, <2>2 DEF Within
  <2>4. /\ stats[b].completed_steps <= base + asked
        /\ stats[b].completed_steps <= stats[b].completed_steps
    BY <2>2, <2>3
  <2>5. Within(Host, base)'
    BY <1>2, <1>3, <1>5, <1>6, <1>7, <1>8, <2>1, <2>2, <2>3, <2>4 DEF Within
  <2>. QED BY <2>5 DEF CountsAreClose
<1>21. DecodedExactly(Host)' BY <1>1, <1>6 DEF DecodedExactly
<1>22. EventsInOrder(Host, extracted)'
  BY <1>1, <1>5, <1>6, <1>7 DEF EventsInOrder
<1>23. LocalInEpoch' BY <1>1, <1>6 DEF LocalInEpoch
<1>. QED
  BY <1>12, <1>13, <1>14, <1>17, <1>18, <1>19, <1>20, <1>21, <1>22, <1>23 DEF Agree

\* A step asked for is within the steps that are asked for.
LEMMA RequestStepAgrees ==
  ASSUME AgreementInvariant, RequestStep
  PROVE  Agree(Host, extracted)' /\ LocalInEpoch'
<1>1. /\ TypeOK /\ LocalInEpoch /\ TransfersInvariant
      /\ OfAGeneration(Host, extracted) /\ TransfersAreKnown(Host, extracted)
      /\ Follows(extracted, request) /\ WorkIsKnown(Host, extracted)
      /\ ReportIsTrue(Host, extracted) /\ ReceiptIsTrue(Host)
      /\ CountsAreClose(Host) /\ DecodedExactly(Host)
      /\ EventsInOrder(Host, extracted)
  BY Agreed
<1>2. PICK r : r = [request EXCEPT !.desired_steps = request.desired_steps + 1]
  OBVIOUS
<1>3. /\ r.generation = request.generation /\ r.handles = request.handles
      /\ r.status = request.status /\ r.handoff = request.handoff
      /\ r.live_event = request.live_event
      /\ r.desired_steps = request.desired_steps + 1
      /\ r.cleared_failures = request.cleared_failures
      /\ r.revision = request.revision
  BY <1>1, <1>2 DEF Request, TypeOK
<1>4. /\ request' = r /\ Host'.request = r /\ Host'.stats = Host.stats
      /\ Host'.transfers = Host.transfers
      /\ Host'.display = Host.display /\ Host'.snapshot = Host.snapshot
      /\ asked' = asked + 1
      /\ UNCHANGED <<stats, transfers, display, snapshot, serial, extracted, groups,
                     device, report, receipt, ran, made>>
  BY <1>2 DEF RequestStep, Host, render
<1>5. Host.request = request /\ Host.stats = stats BY DEF Host
<1>6. OfAGeneration(Host, extracted)'
  BY <1>1, <1>3, <1>4, <1>5 DEF OfAGeneration
<1>7. TransfersAreKnown(Host, extracted)'
  BY <1>1, <1>3, <1>4, <1>5 DEF TransfersAreKnown
<1>8. Follows(extracted, Host.request)'
  <2>1. /\ extracted.desired_steps \in Nat /\ request.desired_steps \in Nat
    BY <1>1, RequestsParts
  <2>2. extracted.desired_steps <= request.desired_steps =>
          extracted.desired_steps <= r.desired_steps
    BY <1>3, <2>1
  <2>. QED BY <1>1, <1>3, <1>4, <2>2 DEF Follows, InOrder
<1>9. WorkIsKnown(Host, extracted)'
  BY <1>1, <1>3, <1>4, <1>5
  DEF WorkIsKnown, EncodesOn, CaughtUpOn, EncodedOn, IsOf, Known, Stopped, Low
<1>10. ReportIsTrue(Host, extracted)'
  BY <1>1, <1>3, <1>4, <1>5 DEF ReportIsTrue, Stopped, Low
<1>11. ReceiptIsTrue(Host)' BY <1>1, <1>3, <1>4, <1>5 DEF ReceiptIsTrue, Low
<1>12. CountsAreClose(Host)'
  <2>1. PICK base \in 0..StartStep : Within(Host, base) BY <1>1 DEF CountsAreClose
  <2>2. base \in Nat /\ asked \in Nat /\ request.desired_steps \in Nat
    BY <1>1, RequestsParts, Bounds
  <2>3. CASE request.handles = None BY <1>3, <1>4, <2>3 DEF Within, CountsAreClose
  <2>4. CASE request.handles # None
    <3>1. Host.snapshot.steps \in Nat /\ device[request.handles].steps \in Nat
      <4>1. Host.snapshot \in Snapshot BY <1>1, HostIs, HostParts
      <4>2. device[request.handles] \in Device
        BY <1>1, <2>4, RequestsParts DEF TypeOK
      <4>. QED BY <4>1, <4>2, DeviceParts DEF Snapshot
    <3>2. /\ device[request.handles].steps <= request.desired_steps
          /\ request.desired_steps <= base + asked
      BY <1>5, <2>1, <2>4 DEF Within
    <3>3. /\ device[request.handles].steps <= r.desired_steps
          /\ r.desired_steps <= base + (asked + 1)
      BY <1>3, <2>2, <3>1, <3>2
    <3>4. \A n \in Nat : n <= base + asked => n <= base + (asked + 1)
      BY <2>2
    <3>5. request.handoff # None /\ device[request.handoff].receipt # None =>
            device[request.handoff].receipt.steps \in Nat
      <4>1. request.handoff # None => device[request.handoff] \in Device
        BY <1>1, RequestsParts DEF TypeOK
      <4>2. request.handoff # None /\ device[request.handoff].receipt # None =>
              device[request.handoff].receipt \in Answer
        BY <4>1, DeviceParts, OptionIs
      <4>. QED BY <4>2 DEF Answer
    <3>6. Within(Host, base)'
      BY <1>3, <1>4, <1>5, <2>1, <2>4, <3>1, <3>3, <3>4, <3>5 DEF Within
    <3>. QED BY <3>6 DEF CountsAreClose
  <2>. QED BY <2>3, <2>4
<1>13. DecodedExactly(Host)' BY <1>1, <1>4 DEF DecodedExactly
<1>14. EventsInOrder(Host, extracted)'
  BY <1>1, <1>3, <1>4, <1>5 DEF EventsInOrder
<1>15. LocalInEpoch' BY <1>1, <1>4 DEF LocalInEpoch
<1>. QED
  BY <1>6, <1>7, <1>8, <1>9, <1>10, <1>11, <1>12, <1>13, <1>14, <1>15 DEF Agree

\* A snapshot asked for has no words yet.
LEMMA RequestSnapshotAgrees ==
  ASSUME AgreementInvariant, RequestSnapshot
  PROVE  Agree(Host, extracted)' /\ LocalInEpoch'
<1>1. /\ TypeOK /\ LocalInEpoch /\ TransfersInvariant
      /\ OfAGeneration(Host, extracted) /\ TransfersAreKnown(Host, extracted)
      /\ Follows(extracted, request) /\ WorkIsKnown(Host, extracted)
      /\ ReportIsTrue(Host, extracted) /\ ReceiptIsTrue(Host)
      /\ CountsAreClose(Host) /\ DecodedExactly(Host)
      /\ EventsInOrder(Host, extracted)
  BY Agreed
<1>2. /\ Host'.request = Host.request /\ Host'.stats = Host.stats
      /\ Host'.transfers = Host.transfers /\ Host'.display = Host.display
      /\ Host'.snapshot.phase = "asked" /\ request.handles # None
      /\ Host.request = request /\ request' = request
      /\ UNCHANGED <<serial, extracted, groups, device, report, receipt, ran, made,
                     asked>>
  BY DEF RequestSnapshot, Running, Installed, Host, render, bounds, NoSnapshot
<1>3. OfAGeneration(Host, extracted)' BY <1>2 DEF OfAGeneration
<1>4. TransfersAreKnown(Host, extracted)' BY <1>1, <1>2 DEF TransfersAreKnown
<1>5. Follows(extracted, Host.request)' BY <1>1, <1>2 DEF Follows, InOrder
<1>6. WorkIsKnown(Host, extracted)'
  BY <1>1, <1>2
  DEF WorkIsKnown, EncodesOn, CaughtUpOn, EncodedOn, IsOf, Known, Stopped, Low
<1>7. ReportIsTrue(Host, extracted)'
  BY <1>1, <1>2 DEF ReportIsTrue, Stopped, Low
<1>8. ReceiptIsTrue(Host)' BY <1>1, <1>2 DEF ReceiptIsTrue, Low
<1>9. CountsAreClose(Host)' BY <1>1, <1>2 DEF CountsAreClose, Within
<1>10. DecodedExactly(Host)' BY <1>1, <1>2 DEF DecodedExactly
<1>11. EventsInOrder(Host, extracted)' BY <1>1, <1>2 DEF EventsInOrder
<1>12. LocalInEpoch' BY <1>1, <1>2 DEF LocalInEpoch
<1>. QED
  BY <1>3, <1>4, <1>5, <1>6, <1>7, <1>8, <1>9, <1>10, <1>11, <1>12 DEF Agree

\* Nothing is encoded, and nothing runs, but by groups of what is asked.
LEMMA UnknownIsIdle ==
  ASSUME NEW x, NEW g, NEW d, NEW ok, IsOf(g.wave, x), ~Known(g.wave, x)
  PROVE  WaveRun(d, x, g, ok) = d /\ WaveEncoded(x, g) = g.wave
<1>1. ~MayEncode(x, g) BY DEF IsOf, Known, MayEncode, Current
<1>2. ~EventWaits(x, g) /\ ~StepWaits(x, g) BY <1>1 DEF EventWaits, StepWaits
<1>. QED BY <1>2 DEF WaveRun, WaveEncoded, EventEncoded, StepEncoded

\* Buffers and groups are of one count: the buffers stopped, or both are of as
\* many steps, and an event the buffers have processed is one encoded.
Even(d, wave, status, live) ==
  \/ Stopped(d, status)
  \/ /\ d.steps = wave.encoded_steps /\ d.local = wave.encoded_local_step
     /\ live # None /\ d.processed = live => wave.encoded_live_event = live

\* A live event runs once: it is encoded if it was processed, and the buffers
\* stay even with the groups.
LEMMA EventRunKnows ==
  ASSUME NEW x \in Request, NEW g \in Groups, NEW d \in Device,
         Known(g.wave, x), Even(d, g.wave, x.status, x.live_event),
         x.live_event # None => d.processed <= x.live_event,
         \A e \in Serials : /\ d.applied[e] <= 1
                            /\ d.applied[e] = 1 => e <= d.processed
  PROVE  LET own == IF EventWaits(x, g) THEN EventRun(d, x.status, x.live_event)
                    ELSE d
             wave == EventEncoded(x, g)
         IN  /\ own \in Device /\ wave \in Wave
             /\ Stopped(d, x.status) => own = d
             /\ own.latched = d.latched /\ own.receipt = d.receipt
             /\ own.steps = d.steps /\ own.local = d.local
             /\ \/ own.processed = d.processed
                \/ x.live_event # None /\ own.processed = x.live_event
             /\ \A e \in Serials : /\ own.applied[e] <= 1
                                   /\ own.applied[e] = 1 => e <= own.processed
             /\ wave.generation = g.wave.generation
             /\ wave.revision = g.wave.revision
             /\ wave.cleared_failures = g.wave.cleared_failures
             /\ wave.encoded_steps = g.wave.encoded_steps
             /\ wave.encoded_local_step = g.wave.encoded_local_step
             /\ \A live : Even(d, g.wave, x.status, live) =>
                            Even(own, wave, x.status, live)
<1> DEFINE e0 == x.live_event
           run == EventRun(d, x.status, e0)
           wave == [g.wave EXCEPT !.encoded_live_event = e0]
<1>1. g.wave \in Wave BY OptionIs DEF Known, Groups
<1>2. CASE ~EventWaits(x, g) BY <1>1, <1>2 DEF EventEncoded
<1>3. CASE EventWaits(x, g)
  <2>1. e0 # None /\ e0 \in Nat /\ e0 # g.wave.encoded_live_event
    BY <1>3, WaitingHasWave DEF EventWaits
  <2>2. /\ wave \in Wave /\ wave.generation = g.wave.generation
        /\ wave.revision = g.wave.revision
        /\ wave.cleared_failures = g.wave.cleared_failures
        /\ wave.encoded_steps = g.wave.encoded_steps
        /\ wave.encoded_local_step = g.wave.encoded_local_step
        /\ wave.encoded_live_event = e0
    BY <1>1, <2>1 DEF Wave
  <2>3. EventEncoded(x, g) = wave BY <1>3 DEF EventEncoded
  <2> HIDE DEF wave
  <2>4. CASE Stopped(d, x.status)
    <3>1. run = d BY <2>4 DEF EventRun
    <3>2. \A live : Even(d, wave, x.status, live) BY <2>4 DEF Even
    <3>. QED BY <1>3, <2>2, <2>3, <2>4, <3>1, <3>2
  <2>5. CASE ~Stopped(d, x.status)
    <3> DEFINE applied == [d.applied EXCEPT ![e0] = d.applied[e0] + 1]
    <3>1. d.applied \in [Serials -> Nat] /\ d.processed \in Nat
      BY DeviceParts DEF Applications
    <3>2. d.processed # e0 BY <2>1, <2>5 DEF Even
    <3>3. d.processed < e0 BY <2>1, <3>1, <3>2
    <3>4. ASSUME NEW e \in Serials
          PROVE  applied[e] <= 1 /\ (applied[e] = 1 => e <= e0)
      <4>1. d.applied[e] \in Nat /\ e \in Nat BY <3>1, Bounds DEF Serials
      <4>2. CASE e = e0
        <5>1. d.applied[e] # 1 BY <3>1, <3>3, <4>1, <4>2
        <5>2. d.applied[e] <= 1 OBVIOUS
        <5>3. applied[e] = d.applied[e] + 1 BY <3>1, <4>2
        <5>. QED BY <4>1, <4>2, <5>1, <5>2, <5>3
      <4>3. CASE e # e0
        <5>1. applied[e] = d.applied[e] BY <3>1, <4>3
        <5>2. d.applied[e] = 1 => e <= d.processed OBVIOUS
        <5>. QED BY <2>1, <3>1, <3>3, <4>1, <5>1, <5>2
      <4>. QED BY <4>2, <4>3
    <3>5. run = [d EXCEPT !.processed = e0, !.applied = applied]
      BY <2>5 DEF EventRun
    <3> HIDE DEF applied
    <3>6. /\ run.processed = e0 /\ run.applied = applied
          /\ run.steps = d.steps /\ run.local = d.local
          /\ run.latched = d.latched /\ run.receipt = d.receipt
      BY <3>5 DEF Device
    <3>7. run \in Device BY <2>1, EventRunTyped
    <3> HIDE DEF run
    <3>8. \A live : Even(d, g.wave, x.status, live) =>
                      Even(run, wave, x.status, live)
      BY <2>2, <2>5, <3>6 DEF Even
    <3>9. EventWaits(x, g) /\ run = EventRun(d, x.status, e0) BY <1>3 DEF run
    <3>. QED BY <2>1, <2>2, <2>3, <2>5, <3>4, <3>6, <3>7, <3>8, <3>9
  <2>. QED BY <2>4, <2>5
<1>. QED BY <1>2, <1>3

\* A frame's work keeps buffers even with their groups, within their epoch and
\* the steps asked for.
LEMMA WaveRunKnows ==
  ASSUME NEW x \in Request, NEW g \in Groups, NEW d \in Device, NEW ok \in BOOLEAN,
         Known(g.wave, x), Even(d, g.wave, x.status, x.live_event),
         x.live_event # None => d.processed <= x.live_event,
         \A e \in Serials : /\ d.applied[e] <= 1
                            /\ d.applied[e] = 1 => e <= d.processed,
         d.local < RebaseLimit
  PROVE  LET own == WaveRun(d, x, g, ok)
             wave == WaveEncoded(x, g)
         IN  /\ own \in Device /\ wave \in Wave
             /\ Stopped(d, x.status) => own = d
             /\ own.receipt = d.receipt
             /\ \/ own.steps = d.steps
                \/ /\ ~Stopped(d, x.status)
                   /\ own.steps = d.steps + 1 /\ own.steps <= x.desired_steps
             /\ own.local < RebaseLimit
             /\ \/ own.processed = d.processed
                \/ x.live_event # None /\ own.processed = x.live_event
             /\ \A e \in Serials : /\ own.applied[e] <= 1
                                   /\ own.applied[e] = 1 => e <= own.processed
             /\ wave.generation = g.wave.generation
             /\ wave.revision = g.wave.revision
             /\ wave.cleared_failures = g.wave.cleared_failures
             /\ \A live : Even(d, g.wave, x.status, live) =>
                            Even(own, wave, x.status, live)
<1>1. PICK event : event = IF EventWaits(x, g) THEN EventRun(d, x.status, x.live_event)
                           ELSE d
  OBVIOUS
<1>2. PICK mid : mid = EventEncoded(x, g) OBVIOUS
<1>3. /\ event \in Device /\ mid \in Wave
      /\ Stopped(d, x.status) => event = d
      /\ event.latched = d.latched /\ event.receipt = d.receipt
      /\ event.steps = d.steps /\ event.local = d.local
      /\ \/ event.processed = d.processed
         \/ x.live_event # None /\ event.processed = x.live_event
      /\ \A e \in Serials : /\ event.applied[e] <= 1
                            /\ event.applied[e] = 1 => e <= event.processed
      /\ mid.generation = g.wave.generation
      /\ mid.revision = g.wave.revision
      /\ mid.cleared_failures = g.wave.cleared_failures
      /\ mid.encoded_steps = g.wave.encoded_steps
      /\ mid.encoded_local_step = g.wave.encoded_local_step
      /\ \A live : Even(d, g.wave, x.status, live) => Even(event, mid, x.status, live)
  BY <1>1, <1>2, EventRunKnows
<1>4. /\ WaveEncoded(x, g) = StepEncoded(x, g, mid)
      /\ ~StepWaits(x, g) => WaveRun(d, x, g, ok) = event
  BY <1>1, <1>2 DEF WaveEncoded, WaveRun
<1>5. CASE ~StepWaits(x, g)
  <2>1. StepEncoded(x, g, mid) = mid BY <1>5 DEF StepEncoded
  <2>. QED BY <1>3, <1>4, <1>5, <2>1
<1>6. CASE StepWaits(x, g)
  <2>1. PICK begun :
          begun = IF RebaseIsDue(g.wave) THEN Rebased(event, x.status) ELSE event
    OBVIOUS
  <2>2. WaveRun(d, x, g, ok) = StepRun(begun, x.status, ok)
    BY <1>1, <1>6, <2>1 DEF WaveRun
  <2>3. PICK local : local = IF RebaseIsDue(mid) THEN 0 ELSE mid.encoded_local_step
    OBVIOUS
  <2>4. local \in Nat
    BY <1>3, <2>3, WaveParts
  <2>5. PICK wave : wave = [mid EXCEPT !.encoded_steps = mid.encoded_steps + 1,
                                       !.encoded_local_step = local + 1]
    OBVIOUS
  <2>6. WaveEncoded(x, g) = wave
    BY <1>4, <1>6, <2>3, <2>5 DEF StepEncoded
  <2>7. /\ wave \in Wave
        /\ wave.generation = mid.generation /\ wave.revision = mid.revision
        /\ wave.cleared_failures = mid.cleared_failures
        /\ wave.encoded_steps = mid.encoded_steps + 1
        /\ wave.encoded_local_step = local + 1
        /\ wave.encoded_live_event = mid.encoded_live_event
    <3>1. PICK n \in Nat, l \in Nat : n = mid.encoded_steps + 1 /\ l = local + 1
      BY <1>3, <2>4, WaveParts
    <3>2. wave = [mid EXCEPT !.encoded_steps = n, !.encoded_local_step = l]
      BY <2>5, <3>1
    <3>. QED BY <1>3, <3>1, <3>2 DEF Wave
  <2>8. begun \in Device /\ WaveRun(d, x, g, ok) \in Device
    BY <1>3, <2>1, RebasedTyped, WaveRunTyped
  <2>9. CASE Stopped(d, x.status)
    <3>1. begun = d BY <1>3, <2>1, <2>9 DEF Rebased
    <3>2. WaveRun(d, x, g, ok) = d BY <2>2, <2>9, <3>1 DEF StepRun
    <3>3. \A live : Even(d, wave, x.status, live) BY <2>9 DEF Even
    <3>. QED BY <1>3, <2>6, <2>7, <2>9, <3>2, <3>3
  <2>10. CASE ~Stopped(d, x.status)
    <3>1. ~Stopped(event, x.status) /\ ~Stopped(begun, x.status)
      BY <1>3, <2>1, <2>10 DEF Stopped, Rebased, Device
    <3>2. /\ begun.steps = d.steps /\ begun.receipt = d.receipt
          /\ begun.latched = d.latched
          /\ begun.processed = event.processed /\ begun.applied = event.applied
          /\ begun.local = IF RebaseIsDue(g.wave) THEN 0 ELSE d.local
      <4>1. CASE ~RebaseIsDue(g.wave) BY <1>3, <2>1, <4>1
      <4>2. CASE RebaseIsDue(g.wave)
        <5>1. begun = [event EXCEPT !.epoch = event.epoch + 1, !.local = 0]
          BY <2>1, <3>1, <4>2 DEF Rebased
        <5>. QED BY <1>3, <4>2, <5>1 DEF Device
      <4>. QED BY <4>1, <4>2
    <3>3. d.steps = g.wave.encoded_steps /\ d.local = g.wave.encoded_local_step
      BY <2>10 DEF Even
    <3>4. local = begun.local /\ local + 1 < RebaseLimit
      <4>1. RebaseIsDue(mid) <=> RebaseIsDue(g.wave) BY <1>3 DEF RebaseIsDue
      <4>2. d.local \in Nat BY DeviceParts
      <4>3. CASE RebaseIsDue(g.wave) BY <2>3, <3>2, <4>1, <4>3, Bounds
      <4>4. CASE ~RebaseIsDue(g.wave)
        <5>1. local = d.local /\ begun.local = d.local
          BY <1>3, <2>3, <3>2, <3>3, <4>1, <4>4
        <5>2. ~(d.local + 1 >= RebaseLimit) BY <3>3, <4>4 DEF RebaseIsDue
        <5>. QED BY <4>2, <5>1, <5>2, Bounds
      <4>. QED BY <4>3, <4>4
    <3>5. CASE ~ok
      <4>1. WaveRun(d, x, g, ok) = [begun EXCEPT !.latched = x.status]
        BY <2>2, <3>1, <3>5 DEF StepRun
      <4>2. PICK own : own = [begun EXCEPT !.latched = x.status] OBVIOUS
      <4>3. /\ own.latched = x.status /\ own.steps = begun.steps
            /\ own.local = begun.local /\ own.processed = begun.processed
            /\ own.applied = begun.applied /\ own.receipt = begun.receipt
        BY <2>8, <4>2 DEF Device
      <4>4. \A live : Even(own, wave, x.status, live) BY <4>3 DEF Even, Stopped
      <4>5. own.local < RebaseLimit
        BY <2>4, <3>4, <4>3, Bounds
      <4>6. own = WaveRun(d, x, g, ok) BY <4>1, <4>2
      <4>. QED
        BY <1>3, <2>6, <2>7, <2>8, <2>10, <3>2, <4>3, <4>4, <4>5, <4>6
    <3>6. CASE ok
      <4>1. WaveRun(d, x, g, ok) =
              [begun EXCEPT !.steps = begun.steps + 1, !.local = begun.local + 1]
        BY <2>2, <3>1, <3>6 DEF StepRun
      <4>2. PICK own : own = WaveRun(d, x, g, ok) OBVIOUS
      <4>3. /\ own.latched = begun.latched /\ own.steps = begun.steps + 1
            /\ own.local = begun.local + 1 /\ own.processed = begun.processed
            /\ own.applied = begun.applied /\ own.receipt = begun.receipt
        BY <2>8, <4>1, <4>2 DEF Device
      <4>4. /\ own.steps = d.steps + 1 /\ own.local = local + 1
            /\ own.receipt = d.receipt /\ own.processed = event.processed
            /\ own.applied = event.applied
        BY <3>2, <3>4, <4>3
      <4>5. own.local < RebaseLimit BY <3>4, <4>4
      <4>6. own.steps <= x.desired_steps
        <5>1. x.desired_steps > g.wave.encoded_steps BY <1>6 DEF StepWaits
        <5>. QED BY <3>3, <4>4, <5>1, DeviceParts, RequestParts
      <4>7. own.steps = wave.encoded_steps /\ own.local = wave.encoded_local_step
        BY <1>3, <2>7, <3>3, <4>4
      <4>8. \A live : Even(event, mid, x.status, live) => Even(own, wave, x.status, live)
        BY <2>7, <3>1, <4>4, <4>7 DEF Even
      <4>. QED
        BY <1>3, <2>6, <2>7, <2>8, <2>10, <4>2, <4>4, <4>5, <4>6, <4>8
    <3>. QED BY <3>5, <3>6
  <2>. QED BY <2>9, <2>10
<1>. QED BY <1>5, <1>6

\* Groups built again are of what is asked, and as even with their buffers as
\* those before them, or as the counters are.
LEMMA PreparedKnows ==
  ASSUME TypeOK, NEW s, s.stats = stats, NEW x \in Request, NEW ready,
         x.handles # None, IsOf(groups.wave, x)
  PROVE  LET wave == Prepared(x, ready).wave
         IN  /\ IsOf(wave, x)
             /\ \A live : EncodesOn(s, groups.wave, x, live) =>
                            EncodesOn(s, wave, x, live)
<1> DEFINE old == groups.wave
           new == WaveGroup(x, Encoded(x, old))
<1>1. PICK wave : wave = Prepared(x, ready).wave OBVIOUS
<1>2. wave = old \/ wave = new BY <1>1 DEF Prepared, WavePrepared
<1>3. CASE wave = old BY <1>1, <1>3
<1>4. CASE wave = new
  <2>1. /\ new.generation = x.generation /\ new.revision = x.revision
        /\ new.cleared_failures = x.cleared_failures
        /\ new.encoded_steps = Encoded(x, old).encoded_steps
        /\ new.encoded_local_step = Encoded(x, old).encoded_local_step
        /\ new.encoded_live_event = Encoded(x, old).encoded_live_event
    BY DEF WaveGroup
  <2>2. IsOf(new, x) BY <2>1, RequestParts DEF IsOf
  <2>3. new # None /\ Known(new, x)
    <3>1. new # None
      <4>1. new \in Wave BY EncodedTyped DEF TypeOK, Groups
      <4>. QED BY <4>1, NoneAssumption
    <3>. QED BY <2>1, <3>1 DEF Known
  <2>4. CASE Known(old, x)
    <3>1. Encoded(x, old) = Carried(old) BY <2>4 DEF Known, Encoded
    <3>. QED
      BY <1>1, <1>4, <2>1, <2>2, <2>3, <2>4, <3>1 DEF EncodesOn, EncodedOn, Carried
  <2>5. CASE ~Known(old, x)
    <3>1. Encoded(x, old) = Reported(x) BY <2>5 DEF Known, Encoded
    <3>2. \A live : CaughtUpOn(s, x.handles, live) => EncodedOn(new, x, x.handles, live)
      BY <2>1, <3>1 DEF CaughtUpOn, EncodedOn, Reported
    <3>. QED BY <1>1, <1>4, <2>2, <2>3, <2>5, <3>2 DEF EncodesOn
  <2>. QED BY <2>4, <2>5
<1>. QED BY <1>2, <1>3, <1>4

\* What a frame of the render world does: its wave's work to the buffers it has,
\* a transfer to those of a handoff that had none, and copies of the two.
LEMMA DrawIs ==
  ASSUME TransfersInvariant, NEW ready, NEW copied \in SUBSET Copyable,
         Draw(ready, copied),
         extracted.handoff # None => extracted.handoff # extracted.handles
  PROVE  LET x == extracted
             g == Prepared(x, ready)
         IN  /\ UNCHANGED <<request, stats, display, serial, extracted, made, asked>>
             /\ x.handles # None =>
                  \/ /\ device'[x.handles] = device[x.handles]
                     /\ groups'.wave = g.wave
                  \/ \E ok \in BOOLEAN :
                       /\ device'[x.handles] = WaveRun(device[x.handles], x, g, ok)
                       /\ groups'.wave = WaveEncoded(x, g)
             /\ x.handles = None => groups'.wave = None
             /\ \A b \in Buffers : b # x.handles =>
                  \/ device'[b] = device[b]
                  \/ /\ b = x.handoff /\ x.handles \in Buffers
                     /\ ~transfers[b].submitted /\ transfers'[b].submitted
                     /\ \E good \in BOOLEAN :
                          device'[b] = TransferRun(device[b], device'[x.handles], good)
             /\ \A b \in Buffers :
                  /\ transfers[b].submitted => transfers'[b].submitted
                  /\ transfers'[b].completed = transfers[b].completed
                  /\ transfers'[b].failure = transfers[b].failure
                  /\ transfers'[b].snapshot_step = transfers[b].snapshot_step
                  /\ transfers'[b].snapshot_local_step =
                       transfers[b].snapshot_local_step
             /\ \/ report' = report
                \/ x.handles # None /\ report' = ReportOf(x, device'[x.handles])
             /\ \/ receipt' = receipt
                \/ x.handoff # None /\ receipt' = ReceiptOf(x, device'[x.handoff])
             /\ \/ snapshot' = snapshot
                \/ /\ x.handles # None /\ snapshot.phase = "known"
                   /\ snapshot' = SnapshotOf(device'[x.handles])
<1>1. TypeOK /\ Generations /\ extracted \in Request BY Types
<1> DEFINE x == extracted
           g == Prepared(x, ready)
           waves == "wave" \in ready
           transfer == "handoff" \in ready /\ TransferWaits(x, g)
<1>2. PICK ok \in BOOLEAN, good \in BOOLEAN :
        LET own == IF waves THEN WaveRun(device[x.handles], x, g, ok)
                   ELSE device[x.handles]
            target == IF transfer THEN TransferRun(device[x.handoff], own, good)
                      ELSE device[x.handoff]
        IN  /\ device' = [b \in Buffers |-> IF b = x.handles THEN own
                                            ELSE IF b = x.handoff THEN target
                                            ELSE device[b]]
            /\ report' = IF "report" \in copied THEN ReportOf(x, own) ELSE report
            /\ receipt' = IF "receipt" \in copied THEN ReceiptOf(x, target)
                          ELSE receipt
            /\ snapshot' = IF "snapshot" \in copied THEN SnapshotOf(own)
                           ELSE snapshot
  BY DEF Draw
<1> DEFINE own == IF waves THEN WaveRun(device[x.handles], x, g, ok)
                  ELSE device[x.handles]
           target == IF transfer THEN TransferRun(device[x.handoff], own, good)
                     ELSE device[x.handoff]
<1>3. /\ device' = [b \in Buffers |-> IF b = x.handles THEN own
                                      ELSE IF b = x.handoff THEN target
                                      ELSE device[b]]
      /\ report' = IF "report" \in copied THEN ReportOf(x, own) ELSE report
      /\ receipt' = IF "receipt" \in copied THEN ReceiptOf(x, target) ELSE receipt
      /\ snapshot' = IF "snapshot" \in copied THEN SnapshotOf(own) ELSE snapshot
  BY <1>2
<1>4. /\ groups'.wave = IF waves THEN WaveEncoded(x, g) ELSE g.wave
      /\ transfers' =
           IF transfer THEN [transfers EXCEPT ![x.handoff] =
                               [transfers[x.handoff] EXCEPT !.submitted = TRUE]]
           ELSE transfers
      /\ UNCHANGED <<request, stats, display, serial, extracted, made, asked>>
  BY DEF Draw, bounds
<1>5. transfer => /\ x.handles \in Buffers /\ x.handoff \in Buffers
                  /\ ~transfers[x.handoff].submitted
  BY TransferWaiting
<1>6. /\ x.handles # None => x.handles \in Buffers
      /\ x.handoff # None => x.handoff \in Buffers /\ x.handoff # x.handles
  BY <1>1, RequestParts
<1>7. /\ "report" \in copied => x.handles # None
      /\ "receipt" \in copied => x.handoff # None
      /\ "snapshot" \in copied => x.handles # None /\ snapshot.phase = "known"
  BY <1>1, CopyableIs DEF Generations
<1> HIDE DEF own, target, waves, transfer, g
<1>8. /\ x.handles # None => device'[x.handles] = own
      /\ x.handoff # None => device'[x.handoff] = target
      /\ \A b \in Buffers : b # x.handles /\ b # x.handoff => device'[b] = device[b]
  BY <1>3, <1>6
<1>9. x.handles # None =>
        \/ device'[x.handles] = device[x.handles] /\ groups'.wave = g.wave
        \/ \E n \in BOOLEAN :
             /\ device'[x.handles] = WaveRun(device[x.handles], x, g, n)
             /\ groups'.wave = WaveEncoded(x, g)
  <2>1. CASE waves BY <1>4, <1>8, <2>1 DEF own
  <2>2. CASE ~waves BY <1>4, <1>8, <2>2 DEF own
  <2>. QED BY <2>1, <2>2
<1>10. x.handles = None => groups'.wave = None
  <2>1. x.handles = None => g.wave = None BY DEF Prepared, WavePrepared, g
  <2>2. g.wave = None => WaveEncoded(x, g) = None
    BY DEF WaveEncoded, StepEncoded, EventEncoded, EventWaits, StepWaits, MayEncode,
           Current
  <2>. QED BY <1>4, <2>1, <2>2
<1>11. /\ \A b \in Buffers :
            /\ transfers[b].submitted => transfers'[b].submitted
            /\ transfers'[b].completed = transfers[b].completed
            /\ transfers'[b].failure = transfers[b].failure
            /\ transfers'[b].snapshot_step = transfers[b].snapshot_step
            /\ transfers'[b].snapshot_local_step = transfers[b].snapshot_local_step
       /\ transfer => transfers'[x.handoff].submitted
  <2>1. transfers \in [Buffers -> Transfer] BY <1>1 DEF TypeOK
  <2>2. CASE transfer
    <3>1. PICK t : t = [transfers[x.handoff] EXCEPT !.submitted = TRUE] OBVIOUS
    <3>2. /\ t.submitted = TRUE
          /\ t.completed = transfers[x.handoff].completed
          /\ t.failure = transfers[x.handoff].failure
          /\ t.snapshot_step = transfers[x.handoff].snapshot_step
          /\ t.snapshot_local_step = transfers[x.handoff].snapshot_local_step
      BY <1>5, <2>1, <2>2, <3>1 DEF Transfer
    <3>3. transfers' = [transfers EXCEPT ![x.handoff] = t] BY <1>4, <2>2, <3>1
    <3>. QED BY <1>5, <2>1, <2>2, <3>2, <3>3
  <2>3. CASE ~transfer BY <1>4, <2>3
  <2>. QED BY <2>2, <2>3
<1>12. ASSUME NEW b \in Buffers, b # x.handles
       PROVE  \/ device'[b] = device[b]
              \/ /\ b = x.handoff /\ x.handles \in Buffers
                 /\ ~transfers[b].submitted /\ transfers'[b].submitted
                 /\ \E n \in BOOLEAN :
                      device'[b] = TransferRun(device[b], device'[x.handles], n)
  <2>1. CASE b = x.handoff /\ transfer
    <3>1. x.handoff # None /\ x.handles # None BY <1>5, <2>1, NoneIsNoBuffer
    <3>2. device'[b] = TransferRun(device[b], device'[x.handles], good)
      BY <1>8, <2>1, <3>1 DEF target
    <3>. QED BY <1>5, <1>11, <2>1, <3>2
  <2>2. CASE b = x.handoff /\ ~transfer
    BY <1>8, <1>12, <2>2, NoneIsNoBuffer DEF target
  <2>3. CASE b # x.handoff BY <1>8, <1>12, <2>3
  <2>. QED BY <2>1, <2>2, <2>3
<1>13. \/ report' = report
       \/ x.handles # None /\ report' = ReportOf(x, device'[x.handles])
  BY <1>3, <1>7, <1>8
<1>14. \/ receipt' = receipt
       \/ x.handoff # None /\ receipt' = ReceiptOf(x, device'[x.handoff])
  BY <1>3, <1>7, <1>8
<1>15. \/ snapshot' = snapshot
       \/ /\ x.handles # None /\ snapshot.phase = "known"
          /\ snapshot' = SnapshotOf(device'[x.handles])
  BY <1>3, <1>7, <1>8
<1>. QED
  BY <1>4, <1>9, <1>10, <1>11, <1>12, <1>13, <1>14, <1>15 DEF g

\* The buffers of the request the render world has, behind a frame of it: even
\* with its groups, or as the host heard them.
LEMMA DrawnOwn ==
  ASSUME AgreementInvariant, NEW ready, NEW copied \in SUBSET Copyable,
         Draw(ready, copied), extracted.handles # None
  PROVE  LET x == extracted
             d == device[x.handles]
             own == device'[x.handles]
             wave == groups'.wave
         IN  /\ Stopped(d, x.status) => own = d
             /\ own.receipt = d.receipt
             /\ \/ own.steps = d.steps
                \/ /\ ~Stopped(d, x.status)
                   /\ own.steps = d.steps + 1 /\ own.steps <= x.desired_steps
             /\ own.local < RebaseLimit
             /\ \/ own.processed = d.processed
                \/ x.live_event # None /\ own.processed = x.live_event
             /\ \A e \in Serials : /\ own.applied[e] <= 1
                                   /\ own.applied[e] = 1 => e <= own.processed
             /\ IsOf(wave, x)
             /\ \A live : EncodesOn(Host, groups.wave, x, live) =>
                            IF Known(wave, x) THEN Even(own, wave, x.status, live)
                            ELSE own = d /\ CaughtUpOn(Host, x.handles, live)
<1> DEFINE x == extracted
           g == Prepared(x, ready)
           d == device[x.handles]
           own == device'[x.handles]
           wave == groups'.wave
<1>1. /\ TypeOK /\ LocalInEpoch /\ TransfersInvariant
      /\ Follows(x, request) /\ WorkIsKnown(Host, x) /\ EventsInOrder(Host, x)
  BY Agreed
<1>2. /\ x \in Request /\ x.handles \in Buffers /\ d \in Device
      /\ x.handoff # None => x.handoff # x.handles
      /\ x.handoff # None => x.handoff \in Buffers
  <2>1. x \in Request /\ device \in [Buffers -> Device] BY <1>1 DEF TypeOK
  <2>2. /\ x.handles \in Buffers
        /\ x.handoff # None => x.handoff \in Buffers
    BY <2>1, RequestParts
  <2>3. x.handoff # None => x.handles < x.handoff BY <1>1 DEF Follows, InOrder
  <2>4. x.handoff # None => x.handoff # x.handles BY <2>2, <2>3 DEF Buffers
  <2>. QED BY <2>1, <2>2, <2>4
<1>3. \/ own = d /\ wave = g.wave
      \/ \E ok \in BOOLEAN : own = WaveRun(d, x, g, ok) /\ wave = WaveEncoded(x, g)
  BY <1>1, <1>2, DrawIs
<1>4. g \in Groups BY <1>1, <1>2, PreparedTyped DEF TypeOK
<1>5. /\ IsOf(g.wave, x)
      /\ \A live : EncodesOn(Host, groups.wave, x, live) =>
                     EncodesOn(Host, g.wave, x, live)
  <2>1. IsOf(groups.wave, x) /\ Host.stats = stats BY <1>1 DEF WorkIsKnown, Host
  <2>. QED BY <1>1, <1>2, <2>1, PreparedKnows
<1>6. EncodesOn(Host, groups.wave, x, x.live_event) BY <1>1 DEF WorkIsKnown
<1>7. /\ d.local < RebaseLimit
      /\ x.live_event # None => d.processed <= x.live_event
      /\ \A e \in Serials : /\ d.applied[e] <= 1
                            /\ d.applied[e] = 1 => e <= d.processed
  BY <1>1, <1>2 DEF LocalInEpoch, EventsInOrder
<1>8. \A live : EncodesOn(Host, g.wave, x, live) =>
                  IF Known(g.wave, x) THEN Even(d, g.wave, x.status, live)
                  ELSE CaughtUpOn(Host, x.handles, live)
  BY DEF EncodesOn, EncodedOn, Even
<1>h. x.handles # None OBVIOUS
<1> HIDE DEF g, d, own, wave
<1>9. CASE own = d /\ wave = g.wave
  <2>1. \A live : EncodesOn(Host, groups.wave, x, live) =>
                    IF Known(wave, x) THEN Even(own, wave, x.status, live)
                    ELSE own = d /\ CaughtUpOn(Host, x.handles, live)
    BY <1>5, <1>8, <1>9
  <2>. QED BY <1>5, <1>7, <1>9, <2>1 DEF d, own, wave
<1>10. ASSUME NEW ok \in BOOLEAN, own = WaveRun(d, x, g, ok), wave = WaveEncoded(x, g),
              Known(g.wave, x)
       PROVE  /\ Stopped(d, x.status) => own = d
              /\ own.receipt = d.receipt
              /\ \/ own.steps = d.steps
                 \/ /\ ~Stopped(d, x.status)
                    /\ own.steps = d.steps + 1 /\ own.steps <= x.desired_steps
              /\ own.local < RebaseLimit
              /\ \/ own.processed = d.processed
                 \/ x.live_event # None /\ own.processed = x.live_event
              /\ \A e \in Serials : /\ own.applied[e] <= 1
                                    /\ own.applied[e] = 1 => e <= own.processed
              /\ IsOf(wave, x) /\ Known(wave, x)
              /\ \A live : EncodesOn(Host, groups.wave, x, live) =>
                             Even(own, wave, x.status, live)
  <2>1. Even(d, g.wave, x.status, x.live_event) BY <1>5, <1>6, <1>8, <1>10
  <2>2. PICK u : u = WaveRun(d, x, g, ok) OBVIOUS
  <2>3. PICK w : w = WaveEncoded(x, g) OBVIOUS
  <2>4. /\ u \in Device /\ w \in Wave
        /\ Stopped(d, x.status) => u = d
        /\ u.receipt = d.receipt
        /\ \/ u.steps = d.steps
           \/ /\ ~Stopped(d, x.status)
              /\ u.steps = d.steps + 1 /\ u.steps <= x.desired_steps
        /\ u.local < RebaseLimit
        /\ \/ u.processed = d.processed
           \/ x.live_event # None /\ u.processed = x.live_event
        /\ \A e \in Serials : /\ u.applied[e] <= 1
                              /\ u.applied[e] = 1 => e <= u.processed
        /\ w.generation = g.wave.generation
        /\ w.revision = g.wave.revision
        /\ w.cleared_failures = g.wave.cleared_failures
        /\ \A live : Even(d, g.wave, x.status, live) => Even(u, w, x.status, live)
    BY <1>2, <1>4, <1>7, <1>10, <2>1, <2>2, <2>3, WaveRunKnows
  <2>5. own = u /\ wave = w /\ w # None
    BY <1>10, <2>2, <2>3, <2>4, NoneAssumption
  <2>6. IsOf(w, x) /\ Known(w, x) BY <1>5, <1>10, <2>4, <2>5 DEF IsOf, Known
  <2>7. \A live : EncodesOn(Host, groups.wave, x, live) => Even(u, w, x.status, live)
    BY <1>5, <1>8, <1>10, <2>4
  <2>. QED BY <2>4, <2>5, <2>6, <2>7
<1>11. ASSUME NEW ok \in BOOLEAN, own = WaveRun(d, x, g, ok), wave = WaveEncoded(x, g),
              ~Known(g.wave, x)
       PROVE  own = d /\ wave = g.wave
  BY <1>5, <1>11, UnknownIsIdle
<1>12. CASE own # d \/ wave # g.wave
  <2>1. PICK ok \in BOOLEAN : own = WaveRun(d, x, g, ok) /\ wave = WaveEncoded(x, g)
    BY <1>3, <1>12
  <2>2. Known(g.wave, x) BY <1>11, <1>12, <2>1
  <2>3. /\ Stopped(d, x.status) => own = d
        /\ own.receipt = d.receipt
        /\ \/ own.steps = d.steps
           \/ /\ ~Stopped(d, x.status)
              /\ own.steps = d.steps + 1 /\ own.steps <= x.desired_steps
        /\ own.local < RebaseLimit
        /\ \/ own.processed = d.processed
           \/ x.live_event # None /\ own.processed = x.live_event
        /\ \A e \in Serials : /\ own.applied[e] <= 1
                              /\ own.applied[e] = 1 => e <= own.processed
        /\ IsOf(wave, x) /\ Known(wave, x)
        /\ \A live : EncodesOn(Host, groups.wave, x, live) =>
                       Even(own, wave, x.status, live)
    BY <1>10, <2>1, <2>2
  <2>. QED BY <2>3 DEF d, own, wave
<1>. QED BY <1>9, <1>12

\* A transfer that succeeds leaves its target where its source is, and its
\* receipt says so; one that fails leaves its target where it was.
LEMMA TransferRunIs ==
  ASSUME NEW target \in Device, NEW source \in Device, NEW good \in BOOLEAN
  PROVE  LET t == TransferRun(target, source, good)
         IN  /\ t.local \in {0, target.local}
             /\ \/ t.processed = source.processed /\ t.applied = source.applied
                \/ t.processed = target.processed /\ t.applied = target.applied
             /\ ~t.receipt.failed =>
                  /\ t.steps = source.steps /\ t.receipt.steps = source.steps
                  /\ t.local = 0 /\ t.receipt.local = 0
                  /\ t.processed = source.processed
<1> DEFINE yes == [failed |-> FALSE, steps |-> source.steps, local |-> 0]
           no == [failed |-> TRUE, steps |-> target.steps, local |-> target.local]
<1>1. CASE good
  <2>1. /\ yes.failed = FALSE /\ yes.steps = source.steps /\ yes.local = 0 OBVIOUS
  <2> HIDE DEF yes
  <2>2. TransferRun(target, source, good) =
          [target EXCEPT !.steps = source.steps, !.local = 0,
                         !.epoch = source.epoch + 1, !.processed = source.processed,
                         !.applied = source.applied, !.receipt = yes]
    BY <1>1 DEF TransferRun, yes
  <2>3. PICK t : t = TransferRun(target, source, good) OBVIOUS
  <2>4. /\ t.steps = source.steps /\ t.local = 0
        /\ t.processed = source.processed /\ t.applied = source.applied
        /\ t.receipt = yes
    BY <2>2, <2>3 DEF Device
  <2>. QED BY <2>1, <2>3, <2>4
<1>2. CASE ~good
  <2>1. no.failed = TRUE OBVIOUS
  <2> HIDE DEF no
  <2>2. TransferRun(target, source, good) =
          [target EXCEPT !.latched = 0, !.receipt = no]
    BY <1>2 DEF TransferRun, no
  <2>3. PICK t : t = TransferRun(target, source, good) OBVIOUS
  <2>4. /\ t.local = target.local /\ t.processed = target.processed
        /\ t.applied = target.applied /\ t.receipt = no
    BY <2>2, <2>3 DEF Device
  <2>. QED BY <2>1, <2>3, <2>4
<1>. QED BY <1>1, <1>2

\* A frame of the render world leaves what was agreed on.
LEMMA DrawAgrees ==
  ASSUME AgreementInvariant,
         NEW ready \in SUBSET Wanted, NEW copied \in SUBSET Copyable,
         Draw(ready, copied)
  PROVE  Agree(Host, extracted)' /\ LocalInEpoch'
<1>1. /\ TypeOK /\ LocalInEpoch /\ TransfersInvariant
      /\ OfAGeneration(Host, extracted) /\ TransfersAreKnown(Host, extracted)
      /\ Follows(extracted, request) /\ WorkIsKnown(Host, extracted)
      /\ ReportIsTrue(Host, extracted) /\ ReceiptIsTrue(Host)
      /\ CountsAreClose(Host) /\ DecodedExactly(Host)
      /\ EventsInOrder(Host, extracted)
  BY Agreed
<1>2. TransfersInvariant' /\ TypeOK' BY <1>1, DrawTransfers DEF TransfersInvariant
<1>x. PICK x : x = extracted OBVIOUS
<1>r. PICK r : r = request OBVIOUS
<1>3. /\ x \in Request /\ r \in Request
      /\ x.handles # None => x.handles \in Buffers
      /\ x.handoff # None => x.handoff \in Buffers
      /\ r.handles # None => r.handles \in Buffers
      /\ r.handoff # None => r.handoff \in Buffers
      /\ x.live_event # None => x.live_event \in Nat
      /\ r.live_event # None => r.live_event \in Nat
      /\ x.status \in Nat /\ r.status \in Nat
      /\ x.desired_steps \in Nat /\ r.desired_steps \in Nat
      /\ made \in Nat /\ asked \in Nat /\ serial \in Nat
      /\ None \notin Buffers
  BY <1>1, <1>x, <1>r, RequestsParts, NoneIsNoBuffer DEF TypeOK
<1>4. /\ x.handoff # None =>
           x.handles # None /\ x.handles < x.handoff /\ x.live_event = None
      /\ x.handles # None => x.handles <= made
      /\ x.handoff # None => x.handoff <= made
      /\ x.live_event # None => x.handles # None
      /\ x.handles # None /\ r.handoff # None => x.handles < r.handoff
  BY <1>1, <1>x, <1>r DEF Follows, InOrder, TransfersAreKnown, Host
<1>5. /\ x.handoff # None => x.handoff # x.handles
      /\ r.handoff # None => r.handoff # x.handles
  BY <1>3, <1>4 DEF Buffers
<1>6. /\ request' = r /\ extracted' = x
      /\ UNCHANGED <<request, stats, display, serial, extracted, made, asked>>
      /\ x.handles = None => groups'.wave = None
      /\ \A b \in Buffers : b # x.handles =>
           \/ device'[b] = device[b]
           \/ /\ b = x.handoff /\ x.handles \in Buffers
              /\ ~transfers[b].submitted /\ transfers'[b].submitted
              /\ \E good \in BOOLEAN :
                   device'[b] = TransferRun(device[b], device'[x.handles], good)
      /\ \A b \in Buffers :
           /\ transfers[b].submitted => transfers'[b].submitted
           /\ transfers'[b].completed = transfers[b].completed
           /\ transfers'[b].failure = transfers[b].failure
           /\ transfers'[b].snapshot_step = transfers[b].snapshot_step
           /\ transfers'[b].snapshot_local_step = transfers[b].snapshot_local_step
      /\ \/ report' = report
         \/ x.handles # None /\ report' = ReportOf(x, device'[x.handles])
      /\ \/ receipt' = receipt
         \/ x.handoff # None /\ receipt' = ReceiptOf(x, device'[x.handoff])
      /\ \/ snapshot' = snapshot
         \/ /\ x.handles # None /\ snapshot.phase = "known"
            /\ snapshot' = SnapshotOf(device'[x.handles])
  BY <1>1, <1>5, <1>x, <1>r, DrawIs
<1>s. /\ request' = r /\ extracted' = x /\ stats' = stats /\ display' = display
      /\ serial' = serial /\ made' = made /\ asked' = asked
  BY <1>6
<1>7. ASSUME x.handles # None
      PROVE  LET d == device[x.handles]
                 own == device'[x.handles]
             IN  /\ Stopped(d, x.status) => own = d
                 /\ own.receipt = d.receipt
                 /\ \/ own.steps = d.steps
                    \/ /\ ~Stopped(d, x.status)
                       /\ own.steps = d.steps + 1 /\ own.steps <= x.desired_steps
                 /\ own.local < RebaseLimit
                 /\ \/ own.processed = d.processed
                    \/ x.live_event # None /\ own.processed = x.live_event
                 /\ \A e \in Serials : /\ own.applied[e] <= 1
                                       /\ own.applied[e] = 1 => e <= own.processed
                 /\ IsOf(groups'.wave, x)
                 /\ \A live : EncodesOn(Host, groups.wave, x, live) =>
                                IF Known(groups'.wave, x)
                                THEN Even(own, groups'.wave, x.status, live)
                                ELSE own = d /\ CaughtUpOn(Host, x.handles, live)
  BY <1>7, <1>x, DrawnOwn
<1>8. /\ Host.request = r /\ Host.stats = stats /\ Host.transfers = transfers
      /\ Host.display = display /\ Host.snapshot = snapshot
      /\ Host'.request = r /\ Host'.stats = stats /\ Host'.transfers = transfers'
      /\ Host'.display = display /\ Host'.snapshot = snapshot'
  BY <1>6, <1>r DEF Host
<1>9. /\ OfAGeneration(Host, x) /\ TransfersAreKnown(Host, x)
      /\ Follows(x, r) /\ WorkIsKnown(Host, x)
      /\ ReportIsTrue(Host, x) /\ EventsInOrder(Host, x)
  BY <1>1, <1>x, <1>r
<1>10. \A b \in Buffers : /\ device[b] \in Device /\ device'[b] \in Device
                          /\ device[b].steps \in Nat /\ device'[b].steps \in Nat
                          /\ device[b].local \in Nat
                          /\ device[b].processed \in Nat
  BY <1>1, <1>2, DeviceParts DEF TypeOK

\* Buffers a transfer was submitted to, and those of the main world's
\* generation, no transfer changes.
<1>11. \A b \in Buffers :
         b # x.handles /\ (b # x.handoff \/ transfers[b].submitted) =>
           device'[b] = device[b]
  BY <1>6
<1>12. r.handles # None =>
         /\ x.generation = r.generation <=> x.handles = r.handles
         /\ x.handles # r.handles => device'[r.handles] = device[r.handles]
  <2>1. r.handles # None /\ x.generation = r.generation => x.handles = r.handles
    BY <1>9 DEF Follows
  <2>2. r.handles # None /\ x.generation # r.generation => x.handles # r.handles
    <3>1. r.handles # None /\ x.generation # r.generation =>
            x.handles = None \/ x.handles < r.handles
      BY <1>9 DEF Follows
    <3>. QED BY <1>3, <3>1 DEF Buffers
  <2>3. r.handles # None /\ r.handles = x.handoff => transfers[r.handles].submitted
    BY <1>8, <1>9 DEF TransfersAreKnown
  <2>. QED BY <1>3, <1>11, <2>1, <2>2, <2>3
<1>13. x.handles # None /\ x.handles = r.handles =>
         \/ device'[x.handles].steps = device[x.handles].steps
         \/ device'[x.handles].steps <= r.desired_steps
  <2>1. SUFFICES ASSUME x.handles # None, x.handles = r.handles,
                        device'[x.handles].steps # device[x.handles].steps
                 PROVE  device'[x.handles].steps <= r.desired_steps
    OBVIOUS
  <2>2. /\ ~Stopped(device[x.handles], x.status)
        /\ device'[x.handles].steps <= x.desired_steps
    BY <1>7, <2>1
  <2>3. x.generation = r.generation BY <1>12, <2>1
  <2>4. x.cleared_failures = r.cleared_failures
    BY <1>8, <1>9, <2>1, <2>2, <2>3 DEF WorkIsKnown
  <2>5. x.desired_steps <= r.desired_steps BY <1>9, <2>1, <2>3, <2>4 DEF Follows
  <2>. QED BY <1>3, <1>10, <2>1, <2>2, <2>5
<1>14. ASSUME NEW b \in Buffers, NEW live, CaughtUpOn(Host, b, live),
              device'[b] = device[b]
       PROVE  CaughtUpOn(Host, b, live)'
  <2>1. report' # None /\ report'.of = b =>
          /\ report'.steps = Low(device[b].steps)
          /\ report'.local = device[b].local
          /\ report'.processed = device[b].processed
    <3>1. CASE report' = report BY <1>14, <3>1 DEF CaughtUpOn
    <3>2. CASE report' = ReportOf(x, device'[x.handles])
      BY <1>14, <3>2 DEF ReportOf
    <3>. QED BY <1>6, <3>1, <3>2
  <2>. QED BY <1>8, <1>14, <2>1 DEF CaughtUpOn, Low
<1>15. ASSUME NEW live, EncodesOn(Host, groups.wave, x, live)
       PROVE  EncodesOn(Host, groups.wave, extracted, live)'
  <2>1. CASE x.handles = None BY <1>6, <2>1 DEF EncodesOn
  <2>2. CASE x.handles # None /\ Known(groups'.wave, x)
    <3>1. Even(device'[x.handles], groups'.wave, x.status, live) BY <1>7, <1>15, <2>2
    <3>. QED BY <1>6, <2>2, <3>1 DEF EncodesOn, EncodedOn, Even, Known, Stopped
  <2>3. CASE x.handles # None /\ ~Known(groups'.wave, x)
    <3>1. CaughtUpOn(Host, x.handles, live)'
      BY <1>3, <1>7, <1>14, <1>15, <2>3
    <3>. QED BY <1>6, <2>3, <3>1 DEF EncodesOn, Known
  <2>. QED BY <2>1, <2>2, <2>3
<1>16. OfAGeneration(Host, extracted)'
  <2>1. SnapshotOf(device'[x.handles]).phase = "taken" BY DEF SnapshotOf
  <2>. QED BY <1>6, <1>8, <1>9, <2>1 DEF OfAGeneration
<1>17. TransfersAreKnown(Host, extracted)'
  <2>1. Transactions' BY <1>2 DEF TransfersInvariant
  <2>2. ASSUME NEW b \in Buffers, device'[b].receipt # None
        PROVE  transfers'[b].submitted
    <3>1. CASE device'[b].receipt = device[b].receipt
      BY <1>6, <1>8, <1>9, <2>2, <3>1 DEF TransfersAreKnown
    <3>2. CASE device'[b].receipt # device[b].receipt
      <4>1. b # x.handles BY <1>3, <1>7, <3>2
      <4>. QED BY <1>6, <3>2, <4>1
    <3>. QED BY <3>1, <3>2
  <2>3. x.handoff # None /\ x.handoff = r.handles => transfers'[x.handoff].submitted
    BY <1>3, <1>6, <1>8, <1>9 DEF TransfersAreKnown
  <2>4. /\ r.handoff # None => r.handoff <= made
        /\ x.handoff # None => x.handoff <= made
        /\ x.revision <= r.revision
        /\ x.revision = r.revision => x.handoff = r.handoff
    BY <1>8, <1>9 DEF TransfersAreKnown
  <2>. QED
    BY <1>s, <1>8, <2>1, <2>2, <2>3, <2>4 DEF TransfersAreKnown, Transactions
<1>18. Follows(extracted, Host.request)'
  <2>1. Follows(x, r) BY <1>9
  <2>2. Follows(x, r)' BY <1>s, <2>1 DEF Follows, InOrder
  <2>. QED BY <1>s, <1>8, <2>2 DEF Follows, InOrder
<1>19. WorkIsKnown(Host, extracted)'
  <2> DEFINE b == r.handles
  <2>1. IsOf(groups.wave, extracted)'
    <3>1. IsOf(groups'.wave, x) BY <1>6, <1>7 DEF IsOf
    <3>. QED BY <1>6, <3>1 DEF IsOf
  <2>2. EncodesOn(Host, groups.wave, extracted, x.live_event)'
    BY <1>9, <1>15 DEF WorkIsKnown
  <2>3. ASSUME b # None, CaughtUpOn(Host, b, r.live_event), device'[b] = device[b]
        PROVE  CaughtUpOn(Host, b, r.live_event)'
    <3>1. b \in Buffers BY <1>3, <2>3
    <3>. QED BY <1>14, <2>3, <3>1
  <2>4. b # None /\ x.generation = r.generation /\ Stopped(device[b], x.status) =>
          device'[b] = device[b]
    BY <1>7, <1>12
  <2>5. b # None /\ x.generation # r.generation => device'[b] = device[b]
    BY <1>12
  <2>6. b # None /\ x.generation = r.generation
          /\ x.cleared_failures = r.cleared_failures =>
            EncodesOn(Host, groups.wave, extracted, r.live_event)'
    BY <1>8, <1>9, <1>15 DEF WorkIsKnown
  <2>7. b # None /\ x.generation # r.generation => CaughtUpOn(Host, b, r.live_event)'
    BY <1>8, <1>9, <2>3, <2>5 DEF WorkIsKnown
  <2>8. b # None /\ x.generation = r.generation
          /\ x.cleared_failures # r.cleared_failures =>
            /\ CaughtUpOn(Host, b, r.live_event)'
            /\ Stopped(device'[b], x.status)
    BY <1>8, <1>9, <2>3, <2>4 DEF WorkIsKnown
  <2>9. b # None /\ stats[b].failure =>
          /\ x.generation = r.generation /\ x.status = r.status
          /\ CaughtUpOn(Host, b, r.live_event)'
          /\ Stopped(device'[b], r.status)
    BY <1>8, <1>9, <2>3, <2>4 DEF WorkIsKnown
  <2>. QED
    BY <1>6, <1>8, <2>1, <2>2, <2>6, <2>7, <2>8, <2>9 DEF WorkIsKnown, Stopped
<1>20. /\ x.handles # None => device[x.handles].steps <= device'[x.handles].steps
       /\ r.handles # None =>
            /\ stats[r.handles].completed_steps \in Nat
            /\ stats[r.handles].completed_steps <= device[r.handles].steps
            /\ device[r.handles].steps <= device'[r.handles].steps
  <2>1. x.handles # None => device[x.handles].steps <= device'[x.handles].steps
    BY <1>3, <1>7, <1>10
  <2>2. PICK base \in 0..StartStep : Within(Host, base) BY <1>1 DEF CountsAreClose
  <2>3. r.handles # None => stats[r.handles].completed_steps <= device[r.handles].steps
    BY <1>8, <2>2 DEF Within
  <2>4. r.handles # None => stats[r.handles].completed_steps \in Nat
    <3>1. Surroundings /\ Host \in HostStates BY <1>1, HostIs
    <3>. QED BY <1>3, <1>8, <3>1, SetParts
  <2>5. r.handles # None => device[r.handles].steps <= device'[r.handles].steps
    BY <1>3, <1>10, <1>12, <2>1
  <2>. QED BY <2>1, <2>3, <2>4, <2>5
<1>21. ReportIsTrue(Host, extracted)'
  <2>1. CASE report' = report /\ report # None
    <3>1. PICK b : b = report.of OBVIOUS
    <3>2. /\ b <= made
          /\ r.handoff # None => b < r.handoff
          /\ b = r.handles =>
               /\ x.generation = r.generation /\ report.status <= x.status
               /\ \E c \in stats[b].completed_steps..device[b].steps :
                    report.steps = Low(c)
               /\ report.failed /\ report.status = r.status =>
                    /\ Stopped(device[b], r.status)
                    /\ report.steps = Low(device[b].steps)
                    /\ report.local = device[b].local
                    /\ report.processed = device[b].processed
      BY <1>8, <1>9, <2>1, <3>1 DEF ReportIsTrue
    <3>3. report.status \in Nat /\ b \in Buffers
      <4>1. Surroundings BY <1>1, HostIs
      <4>. QED BY <2>1, <3>1, <4>1, ReportParts
    <3>4. ASSUME b = r.handles
          PROVE  \E c \in stats[b].completed_steps..device'[b].steps :
                   report.steps = Low(c)
      <4>1. PICK c \in stats[b].completed_steps..device[b].steps : report.steps = Low(c)
        BY <3>2, <3>4
      <4>2. /\ stats[b].completed_steps \in Nat
            /\ device[b].steps \in Nat /\ device'[b].steps \in Nat
            /\ device[b].steps <= device'[b].steps
        BY <1>3, <1>10, <1>20, <3>3, <3>4
      <4>3. c \in stats[b].completed_steps..device'[b].steps BY <4>2
      <4>. QED BY <4>1, <4>3
    <3>5. ASSUME b = r.handles, report.failed, report.status = r.status
          PROVE  device'[b] = device[b]
      <4>1. /\ x.generation = r.generation /\ report.status <= x.status
            /\ Stopped(device[b], r.status)
        BY <3>2, <3>5
      <4>2. x.handles = r.handles /\ x.handles # None
        BY <1>3, <1>12, <3>3, <3>5, <4>1
      <4>3. x.status <= r.status BY <1>9, <4>1, <4>2 DEF Follows
      <4>4. x.status = r.status BY <1>3, <3>5, <4>1, <4>3
      <4>. QED BY <1>7, <3>5, <4>1, <4>2, <4>4
    <3>. QED
      BY <1>s, <1>8, <2>1, <3>1, <3>2, <3>4, <3>5 DEF ReportIsTrue, Low, Stopped
  <2>2. CASE x.handles # None /\ report' = ReportOf(x, device'[x.handles])
    <3>1. PICK b : b = x.handles OBVIOUS
    <3>2. PICK own : own = device'[b] OBVIOUS
    <3>3. PICK new : new = ReportOf(x, own) OBVIOUS
    <3>4. /\ new.of = b /\ new.status = x.status /\ new.steps = Low(own.steps)
          /\ new.local = own.local /\ new.processed = own.processed
          /\ new.failed = Stopped(own, x.status)
      BY <3>1, <3>3 DEF ReportOf
    <3>5. /\ b <= made /\ b \in Buffers
          /\ r.handoff # None => b < r.handoff
          /\ b = r.handles => x.generation = r.generation
      BY <1>3, <1>4, <1>12, <2>2, <3>1
    <3>6. own.steps \in Nat BY <1>10, <3>2, <3>5
    <3>7. b = r.handles => own.steps \in stats[b].completed_steps..own.steps
      <4>1. b = r.handles =>
              /\ stats[b].completed_steps \in Nat /\ device[b].steps \in Nat
              /\ stats[b].completed_steps <= device[b].steps
              /\ device[b].steps <= own.steps
        BY <1>3, <1>10, <1>20, <3>2, <3>5
      <4>. QED BY <3>6, <4>1
    <3>8. report' = new BY <2>2, <3>1, <3>2, <3>3
    <3>9. x.status <= x.status BY <1>3
    <3>. QED
      BY <1>s, <1>8, <3>2, <3>4, <3>5, <3>7, <3>8, <3>9 DEF ReportIsTrue, Low, Stopped
  <2>3. CASE report' = None BY <2>3 DEF ReportIsTrue
  <2>. QED BY <1>6, <2>1, <2>2, <2>3

\* What a transfer leaves, where one ran.
<1>22. ASSUME NEW b \in Buffers, b # x.handles, device'[b] # device[b]
       PROVE  LET own == device'[x.handles]
              IN  /\ b = x.handoff /\ x.handles \in Buffers
                  /\ own.processed = device[x.handles].processed
                  /\ own.processed \in Nat /\ own.steps \in Nat
                  /\ device'[b].local \in {0, device[b].local}
                  /\ \/ /\ device'[b].processed = own.processed
                        /\ device'[b].applied = own.applied
                     \/ /\ device'[b].processed = device[b].processed
                        /\ device'[b].applied = device[b].applied
                  /\ ~device'[b].receipt.failed =>
                       /\ device'[b].steps = own.steps
                       /\ device'[b].receipt.steps = own.steps
                       /\ device'[b].local = 0 /\ device'[b].receipt.local = 0
                       /\ device'[b].processed = own.processed
  <2>1. PICK good \in BOOLEAN :
          /\ b = x.handoff /\ x.handles \in Buffers
          /\ device'[b] = TransferRun(device[b], device'[x.handles], good)
    BY <1>6, <1>22
  <2>2. PICK own : own = device'[x.handles] OBVIOUS
  <2>3. PICK d : d = device[b] OBVIOUS
  <2>4. /\ own \in Device /\ d \in Device
        /\ own.processed \in Nat /\ own.steps \in Nat
    <3>1. own \in Device /\ d \in Device BY <1>10, <2>1, <2>2, <2>3
    <3>. QED BY <3>1, DeviceParts
  <2>5. PICK t : t = TransferRun(d, own, good) OBVIOUS
  <2>6. /\ t.local \in {0, d.local}
        /\ \/ t.processed = own.processed /\ t.applied = own.applied
           \/ t.processed = d.processed /\ t.applied = d.applied
        /\ ~t.receipt.failed =>
             /\ t.steps = own.steps /\ t.receipt.steps = own.steps
             /\ t.local = 0 /\ t.receipt.local = 0
             /\ t.processed = own.processed
    BY <2>4, <2>5, TransferRunIs
  <2>7. device'[b] = t BY <2>1, <2>2, <2>3, <2>5
  <2>8. own.processed = device[x.handles].processed
    BY <1>3, <1>4, <1>7, <2>1, <2>2
  <2>. QED BY <2>1, <2>2, <2>3, <2>4, <2>6, <2>7, <2>8
<1>23. r.handoff # None =>
         /\ device[r.handoff].receipt # None => device'[r.handoff] = device[r.handoff]
         /\ r.handles # None
         /\ r.handoff = x.handoff => x.handles = r.handles
  <2>1. r.handoff # None /\ device[r.handoff].receipt # None =>
          transfers[r.handoff].submitted
    BY <1>3, <1>8, <1>9 DEF TransfersAreKnown
  <2>2. r.handoff # None => r.handles # None BY <1>9 DEF Follows, InOrder
  <2>3. r.handoff # None /\ r.handoff = x.handoff => x.generation = r.generation
    BY <1>9 DEF Follows
  <2>. QED BY <1>3, <1>5, <1>11, <1>12, <2>1, <2>2, <2>3
<1>24. ReceiptIsTrue(Host)'
  <2>1. PICK b : b = r.handoff OBVIOUS
  <2>2. /\ receipt # None => receipt.of <= made
        /\ b # None =>
          /\ receipt # None /\ receipt.of = b =>
               receipt.answer = device[b].receipt /\ device[b].receipt # None
          /\ transfers[b].completed =>
               /\ device[b].receipt # None
               /\ transfers[b].failure = device[b].receipt.failed
               /\ transfers[b].snapshot_step = Low(device[b].receipt.steps)
               /\ transfers[b].snapshot_local_step = device[b].receipt.local
          /\ device[b].receipt # None /\ ~device[b].receipt.failed =>
               /\ device[b].steps = device[b].receipt.steps
               /\ device[b].local = 0 /\ device[b].receipt.local = 0
               /\ device[b].processed <= serial
    BY <1>1, <1>8, <2>1 DEF ReceiptIsTrue
  <2>3. b # None => b \in Buffers /\ b # x.handles BY <1>3, <1>5, <2>1
  <2>4. /\ receipt' # None => receipt'.of <= made
        /\ b # None /\ receipt' # None /\ receipt'.of = b =>
             receipt'.answer = device'[b].receipt /\ device'[b].receipt # None
    <3>1. CASE receipt' = receipt BY <1>23, <2>1, <2>2, <3>1
    <3>2. CASE x.handoff # None /\ receipt' = ReceiptOf(x, device'[x.handoff])
      <4>1. receipt' # None =>
              /\ receipt'.of = x.handoff /\ receipt'.answer = device'[x.handoff].receipt
              /\ device'[x.handoff].receipt # None
        BY <3>2 DEF ReceiptOf
      <4>. QED BY <1>4, <3>2, <4>1
    <3>. QED BY <1>6, <3>1, <3>2
  <2>5. b # None /\ transfers'[b].completed =>
          /\ device'[b].receipt # None
          /\ transfers'[b].failure = device'[b].receipt.failed
          /\ transfers'[b].snapshot_step = Low(device'[b].receipt.steps)
          /\ transfers'[b].snapshot_local_step = device'[b].receipt.local
    BY <1>6, <1>23, <2>1, <2>2, <2>3
  <2>6. ASSUME b # None, device'[b].receipt # None, ~device'[b].receipt.failed
        PROVE  /\ device'[b].steps = device'[b].receipt.steps
               /\ device'[b].local = 0 /\ device'[b].receipt.local = 0
               /\ device'[b].processed <= serial
    <3>1. CASE device'[b] = device[b] BY <2>2, <2>6, <3>1
    <3>2. CASE device'[b] # device[b]
      <4>1. /\ b = x.handoff /\ device'[b].steps = device'[b].receipt.steps
            /\ device'[b].local = 0 /\ device'[b].receipt.local = 0
            /\ device'[b].processed = device[x.handles].processed
        BY <1>22, <2>3, <2>6, <3>2
      <4>2. x.handles = r.handles /\ r.handles # None BY <1>23, <2>1, <2>6, <4>1
      <4>3. device[r.handles].processed <= serial
        BY <1>8, <1>9, <4>2 DEF EventsInOrder
      <4>. QED BY <4>1, <4>2, <4>3
    <3>. QED BY <3>1, <3>2
  <2>. QED
    BY <1>s, <1>8, <2>1, <2>4, <2>5, <2>6 DEF ReceiptIsTrue, Low
<1>25. CountsAreClose(Host)'
  <2>1. PICK base \in 0..StartStep : Within(Host, base) BY <1>1 DEF CountsAreClose
  <2>2. SUFFICES ASSUME r.handles # None PROVE Within(Host, base)'
    BY <1>8 DEF CountsAreClose, Within
  <2>3. /\ base <= stats[r.handles].completed_steps
        /\ device[r.handles].steps <= r.desired_steps
        /\ r.desired_steps <= base + asked
        /\ r.handoff # None /\ device[r.handoff].receipt # None
             /\ ~device[r.handoff].receipt.failed =>
               /\ base <= device[r.handoff].receipt.steps
               /\ device[r.handoff].receipt.steps <= base + asked
        /\ snapshot.phase \in {"taken", "answered"} =>
             base <= snapshot.steps /\ snapshot.steps <= base + asked
    BY <1>8, <2>1, <2>2 DEF Within
  <2>4. /\ base \in Nat /\ r.desired_steps \in Nat /\ asked \in Nat
        /\ r.handles \in Buffers
        /\ device'[r.handles].steps \in Nat /\ device[r.handles].steps \in Nat
        /\ stats[r.handles].completed_steps \in Nat
    BY <1>3, <1>10, <1>20, <2>2, Bounds
  <2>5. /\ stats[r.handles].completed_steps <= device'[r.handles].steps
        /\ device'[r.handles].steps <= r.desired_steps
    <3>1. device'[r.handles].steps <= r.desired_steps
      BY <1>12, <1>13, <2>2, <2>3
    <3>. QED BY <1>20, <2>2, <2>4, <3>1
  <2>6. base <= device'[r.handles].steps /\ device'[r.handles].steps <= base + asked
    BY <2>3, <2>4, <2>5
  <2>7. r.handoff # None /\ device'[r.handoff].receipt # None
          /\ ~device'[r.handoff].receipt.failed =>
            /\ base <= device'[r.handoff].receipt.steps
            /\ device'[r.handoff].receipt.steps <= base + asked
    <3>1. r.handoff # None => r.handoff \in Buffers /\ r.handoff # x.handles
      BY <1>3, <1>5
    <3>2. CASE device'[r.handoff] = device[r.handoff] BY <2>3, <3>2
    <3>3. CASE device'[r.handoff] # device[r.handoff]
      <4>1. SUFFICES ASSUME r.handoff # None, ~device'[r.handoff].receipt.failed
                     PROVE  /\ base <= device'[r.handoff].receipt.steps
                            /\ device'[r.handoff].receipt.steps <= base + asked
        OBVIOUS
      <4>2. /\ r.handoff = x.handoff
            /\ device'[r.handoff].receipt.steps = device'[x.handles].steps
        BY <1>22, <3>1, <3>3, <4>1
      <4>3. x.handles = r.handles BY <1>23, <4>1, <4>2
      <4>. QED BY <2>6, <4>2, <4>3
    <3>. QED BY <3>2, <3>3
  <2>8. snapshot'.phase \in {"taken", "answered"} =>
          base <= snapshot'.steps /\ snapshot'.steps <= base + asked
    <3>1. CASE snapshot' = snapshot BY <2>3, <3>1
    <3>2. CASE /\ x.handles # None /\ snapshot.phase = "known"
               /\ snapshot' = SnapshotOf(device'[x.handles])
      <4>1. x.generation = r.generation BY <1>8, <1>9, <3>2 DEF OfAGeneration
      <4>2. x.handles = r.handles BY <1>12, <2>2, <4>1
      <4>3. snapshot'.steps = device'[x.handles].steps BY <3>2 DEF SnapshotOf
      <4>. QED BY <2>6, <4>2, <4>3
    <3>. QED BY <1>6, <3>1, <3>2
  <2>. QED BY <1>s, <1>8, <2>3, <2>5, <2>7, <2>8 DEF Within
<1>26. DecodedExactly(Host)' BY <1>1, <1>s, <1>8 DEF DecodedExactly
<1>27. EventsInOrder(Host, extracted)'
  <2>1. ASSUME NEW b \in Buffers, NEW e \in Serials
        PROVE  /\ device'[b].applied[e] <= 1
               /\ device'[b].applied[e] = 1 => e <= device'[b].processed
    <3>1. /\ device[b].applied[e] <= 1
          /\ device[b].applied[e] = 1 => e <= device[b].processed
      BY <1>9 DEF EventsInOrder
    <3>2. CASE b = x.handles BY <1>3, <1>7, <3>2
    <3>3. CASE b # x.handles
      <4>1. CASE device'[b] = device[b] BY <3>1, <4>1
      <4>2. CASE device'[b] # device[b]
        <5>1. /\ x.handles \in Buffers
              /\ \/ /\ device'[b].processed = device'[x.handles].processed
                    /\ device'[b].applied = device'[x.handles].applied
                 \/ /\ device'[b].processed = device[b].processed
                    /\ device'[b].applied = device[b].applied
          BY <1>22, <3>3, <4>2
        <5>2. /\ device'[x.handles].applied[e] <= 1
              /\ device'[x.handles].applied[e] = 1 =>
                   e <= device'[x.handles].processed
          BY <1>3, <1>7, <5>1
        <5>. QED BY <3>1, <5>1, <5>2
      <4>. QED BY <4>1, <4>2
    <3>. QED BY <3>2, <3>3
  <2>2. /\ x.live_event # None => device[x.handles].processed <= x.live_event
        /\ r.live_event # None => device[r.handles].processed <= r.live_event
        /\ r.handles # None => device[r.handles].processed <= serial
    BY <1>8, <1>9 DEF EventsInOrder
  <2>3. x.live_event # None => device'[x.handles].processed <= x.live_event
    BY <1>3, <1>4, <1>7, <2>2
  <2>4. r.live_event # None => r.handles # None BY <1>9 DEF Follows, InOrder
  <2>5. ASSUME r.handles # None
        PROVE  /\ device'[r.handles].processed <= serial
               /\ r.live_event # None => device'[r.handles].processed <= r.live_event
    <3>1. CASE device'[r.handles].processed = device[r.handles].processed
      BY <2>2, <2>5, <3>1
    <3>2. CASE device'[r.handles].processed # device[r.handles].processed
      <4>1. x.handles = r.handles /\ x.generation = r.generation
        BY <1>12, <2>5, <3>2
      <4>2. x.live_event # None /\ device'[r.handles].processed = x.live_event
        BY <1>7, <2>5, <3>2, <4>1
      <4>3. /\ x.live_event <= serial
            /\ r.live_event # None => x.live_event <= r.live_event
        BY <1>9, <2>5, <4>1, <4>2 DEF Follows
      <4>. QED BY <4>2, <4>3
    <3>. QED BY <3>1, <3>2
  <2>. QED BY <1>s, <1>8, <2>1, <2>3, <2>4, <2>5 DEF EventsInOrder
<1>28. LocalInEpoch'
  <2>1. SUFFICES ASSUME NEW b \in Buffers PROVE device'[b].local < RebaseLimit
    BY DEF LocalInEpoch
  <2>2. device[b].local < RebaseLimit BY <1>1 DEF LocalInEpoch
  <2>3. CASE b = x.handles BY <1>3, <1>7, <2>3
  <2>4. CASE b # x.handles /\ device'[b] # device[b]
    <3>1. device'[b].local \in {0, device[b].local} BY <1>22, <2>4
    <3>. QED BY <2>2, <3>1, WidthsAssumption
  <2>. QED BY <2>2, <2>3, <2>4
<1>. QED
  BY <1>16, <1>17, <1>18, <1>19, <1>21, <1>24, <1>25, <1>26, <1>27, <1>28 DEF Agree

-----------------------------------------------------------------------------
(* The behaviours. *)

\* The first generation's host has heard all that its buffers have done.
LEMMA InitAgrees == Init => Agree(Host, extracted) /\ LocalInEpoch
<1>. SUFFICES ASSUME Init PROVE Agree(Host, extracted) /\ LocalInEpoch OBVIOUS
<1>1. /\ request = FirstRequest /\ extracted = FirstRequest
      /\ display = EmptyDisplay(1) /\ snapshot = NoSnapshot /\ serial = 0
      /\ groups = NoGroups /\ report = None /\ receipt = None
      /\ made = 1 /\ asked = 0
  BY DEF Init
<1>2. /\ request.generation = 1 /\ request.revision = 1 /\ request.handles = 1
      /\ request.status = 0 /\ request.live_event = None /\ request.handoff = None
      /\ request.cleared_failures = 0 /\ request.desired_steps = StartStep
  BY <1>1 DEF FirstRequest
<1>3. /\ snapshot.phase = "none" /\ groups.wave = None /\ groups.handoff = None
      /\ display.state = None
  BY <1>1 DEF NoSnapshot, NoGroups, EmptyDisplay
<1>4. StartStep \in Nat /\ 1 \in Buffers /\ 1 # None /\ 1 \in Nat /\ 0 \in Nat
  BY WidthsAssumption, NoneIsNoBuffer
<1>5. \A b \in Buffers :
        /\ device[b].steps = IF b = 1 THEN StartStep ELSE 0
        /\ device[b].local = 0 /\ device[b].processed = 0
        /\ device[b].latched = None /\ device[b].receipt = None
        /\ \A e \in Serials : device[b].applied[e] = 0
        /\ stats[b].completed_steps = IF b = 1 THEN StartStep ELSE 0
        /\ stats[b].local_step = 0 /\ stats[b].processed_event = 0
        /\ stats[b].failure = FALSE
        /\ transfers[b].submitted = FALSE /\ ran[b] = 0
  BY DEF Init, Fresh, NewStats, NewTransfer
<1>6. /\ Host.request = request /\ Host.stats = stats
      /\ Host.transfers = transfers /\ Host.display = display
      /\ Host.snapshot = snapshot
  BY DEF Host
<1>7. OfAGeneration(Host, extracted) BY <1>2, <1>3, <1>4, <1>6 DEF OfAGeneration
<1>8. TransfersAreKnown(Host, extracted)
  BY <1>1, <1>2, <1>3, <1>5, <1>6 DEF TransfersAreKnown
<1>9. Follows(extracted, request)
  BY <1>1, <1>2, <1>4 DEF Follows, InOrder
<1>10. CaughtUpOn(Host, 1, None)
  BY <1>1, <1>4, <1>5, <1>6 DEF CaughtUpOn
<1>11. WorkIsKnown(Host, extracted)
  <2>1. EncodesOn(Host, groups.wave, extracted, None)
    BY <1>1, <1>2, <1>3, <1>10 DEF EncodesOn, Known
  <2>. QED BY <1>1, <1>2, <1>3, <1>4, <1>5, <1>6, <1>10, <2>1 DEF WorkIsKnown, IsOf
<1>12. ReportIsTrue(Host, extracted) BY <1>1 DEF ReportIsTrue
<1>13. ReceiptIsTrue(Host) BY <1>1, <1>2, <1>6 DEF ReceiptIsTrue
<1>14. CountsAreClose(Host)
  <2>1. StartStep \in 0..StartStep BY <1>4
  <2>2. Within(Host, StartStep)
    BY <1>1, <1>2, <1>3, <1>4, <1>5, <1>6 DEF Within
  <2>. QED BY <2>1, <2>2 DEF CountsAreClose
<1>15. DecodedExactly(Host) BY <1>3, <1>6 DEF DecodedExactly
<1>16. EventsInOrder(Host, extracted)
  BY <1>1, <1>2, <1>4, <1>5, <1>6 DEF EventsInOrder
<1>17. LocalInEpoch BY <1>5, WidthsAssumption DEF LocalInEpoch
<1>. QED
  BY <1>6, <1>7, <1>8, <1>9, <1>11, <1>12, <1>13, <1>14, <1>15, <1>16, <1>17 DEF Agree

\* Every step keeps what was agreed on.
LEMMA StepAgrees == AgreementInvariant /\ [Next]_vars => AgreementInvariant'
<1>. SUFFICES ASSUME AgreementInvariant, [Next]_vars PROVE AgreementInvariant' OBVIOUS
<1>1. TransfersInvariant' BY StepTransfers DEF AgreementInvariant
<1>2. CASE UNCHANGED vars
  <2>1. TypeOK /\ Agree(Host, extracted) /\ LocalInEpoch
    BY DEF AgreementInvariant, TransfersInvariant
  <2>2. /\ Host.request = request /\ Host.stats = stats
        /\ Host.transfers = transfers /\ Host.display = display
        /\ Host.snapshot = snapshot
    BY DEF Host
  <2>3. UNCHANGED <<request, stats, transfers, display, snapshot, extracted, serial,
                    groups, device, report, receipt, ran, made, asked>>
    BY <1>2 DEF vars, host, render, bounds
  <2>4. Agree(Host, extracted)' BY <2>1, <2>2, <2>3, AgreesNext
  <2>. QED BY <1>1, <2>1, <2>3, <2>4 DEF AgreementInvariant, LocalInEpoch
<1>3. ASSUME NEW heard \in SUBSET Arrived, Extract(heard)
      PROVE  Agree(Host, extracted)' /\ LocalInEpoch'
  BY <1>3, ArrivedIs, ExtractAgrees
<1>4. ASSUME NEW heard \in SUBSET Arrived, ExtractUnmapped(heard)
      PROVE  Agree(Host, extracted)' /\ LocalInEpoch'
  <2>1. Extract(heard \cup {"unmapped"}) BY <1>4 DEF ExtractUnmapped
  <2>2. PICK all : all = heard \cup {"unmapped"} OBVIOUS
  <2>3. /\ "report" \in all => report # None
        /\ "receipt" \in all => receipt # None
        /\ "snapshot" \in all => snapshot.phase = "taken"
    BY <1>4, <2>2, ArrivedIs
  <2>. QED BY <2>1, <2>2, <2>3, ExtractAgrees
<1>5. ASSUME NEW ready \in SUBSET Wanted, NEW copied \in SUBSET Copyable,
             Draw(ready, copied)
      PROVE  Agree(Host, extracted)' /\ LocalInEpoch'
  BY <1>5, DrawAgrees
<1>6. CASE Next
  <2>1. Agree(Host, extracted)' /\ LocalInEpoch'
    BY <1>3, <1>4, <1>5, <1>6, ClearAgrees, InstallAgrees, BeginHandoffAgrees,
       WithdrawHandoffAgrees, QueueLiveEventAgrees, ClearFailureAgrees,
       RequestStepAgrees, RequestSnapshotAgrees DEF Next
  <2>. QED BY <1>1, <2>1 DEF AgreementInvariant
<1>. QED BY <1>2, <1>6

\* What both worlds agree on holds of every reachable state.
LEMMA AgreementIsInvariant == Spec => []AgreementInvariant
<1>1. Init => AgreementInvariant
  BY InitTransfers, InitAgrees DEF AgreementInvariant
<1>. QED BY <1>1, StepAgrees, PTL DEF Spec

\* Every reachable state keeps the invariant: what the host has heard, what the
\* groups encoded and what the device has done are of one generation's work.
THEOREM EncodingIsInvariant == Spec => []InductiveInvariant
<1>1. AgreementInvariant => InductiveInvariant
  BY DEF AgreementInvariant, TransfersInvariant, InductiveInvariant
<1>. QED BY <1>1, AgreementIsInvariant, PTL

\* A live event changes the field once, for every number of events, failures
\* cleared and handoffs.
THEOREM EventsRunOnce == Spec => []EventRunsOnce
<1>1. AgreementInvariant => EventRunsOnce
  BY DEF AgreementInvariant, Agree, EventsInOrder, EventRunsOnce
<1>. QED BY <1>1, AgreementIsInvariant, PTL

\* The device is nowhere past the steps asked for.
THEOREM NoStepIsAdded == Spec => []StepsAreAskedFor
<1>1. AgreementInvariant => StepsAreAskedFor
  <2>1. SUFFICES ASSUME AgreementInvariant, Installed
                 PROVE  device[request.handles].steps <= request.desired_steps
    BY DEF StepsAreAskedFor
  <2>2. PICK base \in 0..StartStep : Within(Host, base) BY <2>1, Agreed DEF CountsAreClose
  <2>. QED BY <2>1, <2>2 DEF Within, Host, Installed
<1>. QED BY <1>1, AgreementIsInvariant, PTL

\* A clock is rebased ahead of its limit (RT-12), whatever the limit is.
THEOREM EpochsAreBounded == Spec => []LocalInEpoch
<1>1. AgreementInvariant => LocalInEpoch BY DEF AgreementInvariant
<1>. QED BY <1>1, AgreementIsInvariant, PTL

\* The host's counts go on where the device's wrap, for every width of more
\* than twice the steps asked for (RT-12).
THEOREM CountsStayExact == Spec => []CountsAreExact
<1>1. AgreementInvariant => CountsAreExact
  <2>. SUFFICES ASSUME AgreementInvariant PROVE CountsAreExact OBVIOUS
  <2>1. display.state # None => display.state.steps = display.state.of.steps
    BY Agreed DEF DecodedExactly, Host
  <2>2. ASSUME Installed
        PROVE  /\ Own.completed_steps <= device[request.handles].steps
               /\ device[request.handles].steps - Own.completed_steps <= Steps
    <3>1. PICK base \in 0..StartStep : Within(Host, base) BY Agreed DEF CountsAreClose
    <3>2. TypeOK BY Agreed
    <3>3. request.handles # None /\ request.handles \in Buffers
      BY <2>2, <3>2, RequestsParts DEF Installed
    <3>4. /\ base <= Own.completed_steps
          /\ Own.completed_steps <= device[request.handles].steps
          /\ device[request.handles].steps <= request.desired_steps
          /\ request.desired_steps <= base + asked
      BY <3>1, <3>3 DEF Within, Host, Own
    <3>5. /\ base \in Nat /\ asked \in Nat /\ asked <= Steps /\ Steps \in Nat
          /\ request.desired_steps \in Nat
      BY <3>2, RequestsParts, Bounds DEF TypeOK
    <3>6. Own.completed_steps \in Nat /\ device[request.handles].steps \in Nat
      <4>1. Host \in HostStates /\ Surroundings /\ Host.stats = stats
        BY <3>2, HostIs
      <4>. QED BY <3>3, <4>1, SetParts DEF Own
    <3>. QED BY <3>4, <3>5, <3>6
  <2>. QED BY <2>1, <2>2 DEF CountsAreExact
<1>. QED BY <1>1, AgreementIsInvariant, PTL

-----------------------------------------------------------------------------
(* Clocks of one set of buffers. *)

\* What buffers do within a step: nothing to their clock, a step, or a step or
\* its failure in an epoch they begin.
GoesOn(d, e) ==
  \/ e.steps = d.steps /\ e.local = d.local /\ e.epoch = d.epoch
  \/ e.steps = d.steps + 1 /\ e.local = d.local + 1 /\ e.epoch = d.epoch
  \/ /\ d.local >= 1 /\ e.epoch = d.epoch + 1
     /\ \/ e.steps = d.steps /\ e.local = 0
        \/ e.steps = d.steps + 1 /\ e.local = 1

\* What was seen of buffers stays so while they go on.
LEMMA SeenGoesOn ==
  ASSUME NEW o, o.steps \in Nat, o.epoch \in Nat,
         NEW d \in Device, NEW e \in Device, GoesOn(d, e), Seen(o, d)
  PROVE  Seen(o, e)
<1>1. /\ d.steps \in Nat /\ d.local \in Nat /\ d.epoch \in Nat
      /\ e.steps \in Nat /\ e.local \in Nat /\ e.epoch \in Nat
  BY DeviceParts
<1>2. CASE e.steps = d.steps /\ e.local = d.local /\ e.epoch = d.epoch
  BY <1>2 DEF Seen
<1>3. CASE e.steps = d.steps + 1 /\ e.local = d.local + 1 /\ e.epoch = d.epoch
  BY <1>1, <1>3 DEF Seen
<1>4. CASE /\ d.local >= 1 /\ e.epoch = d.epoch + 1
           /\ e.steps = d.steps /\ e.local = 0
  BY <1>1, <1>4 DEF Seen
<1>5. CASE /\ d.local >= 1 /\ e.epoch = d.epoch + 1
           /\ e.steps = d.steps + 1 /\ e.local = 1
  BY <1>1, <1>5 DEF Seen
<1>. QED BY <1>2, <1>3, <1>4, <1>5 DEF GoesOn

\* Buffers are seen as they stand.
LEMMA SeenNow ==
  ASSUME NEW d, d.steps \in Nat, d.epoch \in Nat, NEW o,
         o.steps = d.steps, o.epoch = d.epoch
  PROVE  Seen(o, d)
BY DEF Seen

\* What they stand at is after the clocks that were of them.
LEMMA SeenPrecedes ==
  ASSUME NEW c, c.steps \in Nat, NEW d, d.steps \in Nat, d.local \in Nat,
         Seen(c, d), NEW o, o.steps = d.steps, o.epoch = d.epoch
  PROVE  Comparable(c, o)
<1>1. c.epoch + 1 < o.epoch => c.steps < o.steps BY DEF Seen
<1>. QED BY <1>1 DEF Seen, Precedes, Comparable

\* A frame's work goes on: an epoch is begun ahead of the step that would reach
\* the limit of the one before, which is more than one.
LEMMA WaveRunGoesOn ==
  ASSUME NEW x \in Request, NEW g \in Groups, NEW d \in Device, NEW ok \in BOOLEAN,
         IsOf(g.wave, x), NEW live,
         Known(g.wave, x) => Even(d, g.wave, x.status, live)
  PROVE  GoesOn(d, WaveRun(d, x, g, ok))
<1>1. d.steps \in Nat /\ d.local \in Nat /\ d.epoch \in Nat BY DeviceParts
<1>2. CASE ~Known(g.wave, x)
  <2>1. WaveRun(d, x, g, ok) = d BY <1>2, UnknownIsIdle
  <2>. QED BY <2>1 DEF GoesOn
<1>3. CASE Known(g.wave, x)
  <2>1. PICK event : event = IF EventWaits(x, g)
                             THEN EventRun(d, x.status, x.live_event) ELSE d
    OBVIOUS
  <2>2. /\ event.steps = d.steps /\ event.local = d.local /\ event.epoch = d.epoch
        /\ event.latched = d.latched
    BY <2>1 DEF EventRun, Device
  <2>3. event \in Device
    BY <2>1, EventRunTyped, WaitingHasWave DEF EventWaits
  <2>4. CASE ~StepWaits(x, g)
    <3>1. WaveRun(d, x, g, ok) = event BY <2>1, <2>4 DEF WaveRun
    <3>. QED BY <2>2, <3>1 DEF GoesOn
  <2>5. CASE StepWaits(x, g)
    <3>1. PICK begun :
            begun = IF RebaseIsDue(g.wave) THEN Rebased(event, x.status) ELSE event
      OBVIOUS
    <3>2. PICK own : own = WaveRun(d, x, g, ok) OBVIOUS
    <3>3. own = StepRun(begun, x.status, ok) BY <2>1, <2>5, <3>1, <3>2 DEF WaveRun
    <3>4. begun \in Device BY <2>3, <3>1, RebasedTyped
    <3>5. CASE Stopped(d, x.status)
      <4>1. Stopped(event, x.status) BY <2>2, <3>5 DEF Stopped
      <4>2. begun = event BY <3>1, <4>1 DEF Rebased
      <4>3. own = event BY <3>3, <4>1, <4>2 DEF StepRun
      <4>. QED BY <2>2, <3>2, <4>3 DEF GoesOn
    <3>6. CASE ~Stopped(d, x.status)
      <4>1. d.local = g.wave.encoded_local_step BY <1>3, <3>6 DEF Even
      <4>2. RebaseIsDue(g.wave) => d.local >= 1
        BY <1>1, <4>1, Bounds DEF RebaseIsDue
      <4>3. ~Stopped(event, x.status) BY <2>2, <3>6 DEF Stopped
      <4>4. /\ begun.steps = d.steps
            /\ \/ begun.local = d.local /\ begun.epoch = d.epoch
               \/ d.local >= 1 /\ begun.local = 0 /\ begun.epoch = d.epoch + 1
            /\ ~Stopped(begun, x.status)
        <5>1. CASE ~RebaseIsDue(g.wave) BY <2>2, <3>1, <4>3, <5>1
        <5>2. CASE RebaseIsDue(g.wave)
          <6>1. begun = [event EXCEPT !.epoch = event.epoch + 1, !.local = 0]
            BY <3>1, <4>3, <5>2 DEF Rebased
          <6>2. /\ begun.steps = event.steps /\ begun.local = 0
                /\ begun.epoch = event.epoch + 1 /\ begun.latched = event.latched
            BY <2>3, <6>1 DEF Device
          <6>. QED BY <2>2, <4>2, <4>3, <5>2, <6>2 DEF Stopped
        <5>. QED BY <5>1, <5>2
      <4>5. \/ /\ own.steps = begun.steps + 1 /\ own.local = begun.local + 1
               /\ own.epoch = begun.epoch
            \/ /\ own.steps = begun.steps /\ own.local = begun.local
               /\ own.epoch = begun.epoch
        BY <3>3, <3>4, <4>4 DEF StepRun, Device
      <4>6. 0 + 1 = 1 OBVIOUS
      <4>. QED BY <3>2, <4>4, <4>5, <4>6 DEF GoesOn
    <3>. QED BY <3>5, <3>6
  <2>. QED BY <2>4, <2>5
<1>. QED BY <1>2, <1>3

-----------------------------------------------------------------------------
(* The clocks agree through an extraction, and through what is settled. *)

\* The parts of a display.
LEMMA DisplayParts ==
  ASSUME NEW d \in Display
  PROVE  /\ d.generation \in Nat
         /\ d.clock # None => d.clock \in Clock
         /\ d.state # None => d.state \in Decoded
BY OptionIs DEF Display

\* A clock and a snapshot are of counts.
LEMMA SightsAreCounts ==
  /\ \A c \in Clock : /\ ClockOf(c).steps \in Nat /\ ClockOf(c).local \in Nat
                      /\ ClockOf(c).epoch \in Nat
  /\ \A z \in Decoded : z.steps \in Nat /\ z.epoch \in Nat
                        /\ z.of.steps \in Nat /\ z.of.epoch \in Nat
  /\ \A w \in Snapshot : w.steps \in Nat /\ w.epoch \in Nat
BY DEF Clock, ClockOf, Decoded, Snapshot

\* The same is displayed and counted, and no more is copied; or the generation
\* is gone.
LEMMA ClocksCarry ==
  ASSUME NEW s, NEW t, ClocksAgree(s),
         t.display = s.display,
         t.request.generation = s.request.generation,
         t.request.handles \in {None, s.request.handles},
         t.request.handles # None =>
           t.stats[t.request.handles].completed_steps =
             s.stats[t.request.handles].completed_steps,
         t.request.handles # None /\ Copied(t) =>
           /\ Copied(s)
           /\ t.snapshot.steps = s.snapshot.steps
           /\ t.snapshot.epoch = s.snapshot.epoch
  PROVE  ClocksAgree(t)
<1> DEFINE b == t.request.handles
<1>1. DisplayIsOfOne(t) BY DEF ClocksAgree, DisplayIsOfOne
<1>2. ASSUME b # None
      PROVE  DisplayIsSeen(t, b) /\ SnapshotIsSeen(t, b) /\ ReportIsSeen(t, b)
  <2>1. b = s.request.handles BY <1>2
  <2>2. /\ DisplayIsSeen(s, b) /\ SnapshotIsSeen(s, b) /\ ReportIsSeen(s, b)
        /\ t.stats[b].completed_steps = s.stats[b].completed_steps
        /\ Copied(t) => /\ Copied(s)
                        /\ t.snapshot.steps = s.snapshot.steps
                        /\ t.snapshot.epoch = s.snapshot.epoch
    BY <1>2, <2>1 DEF ClocksAgree
  <2> HIDE DEF b
  <2>3. \A c : Copied(t) /\ Comparable(c, s.snapshot) => Comparable(c, t.snapshot)
    BY <2>2 DEF Comparable, Seen, Precedes
  <2>4. DisplayIsSeen(t, b) BY <2>2, <2>3 DEF DisplayIsSeen
  <2>5. SnapshotIsSeen(t, b) BY <2>2 DEF SnapshotIsSeen, Seen
  <2>6. \A n : ToldTruly(s, b, n) => ToldTruly(t, b, n)
    BY <2>2, <2>3 DEF ToldTruly
  <2>7. ReportIsSeen(t, b) BY <2>2, <2>6 DEF ReportIsSeen
  <2>. QED BY <2>4, <2>5, <2>7
<1>. QED BY <1>1, <1>2 DEF ClocksAgree

\* A report has one count: those that the host may tell it by are less than the
\* width apart.
LEMMA CountIsOne ==
  ASSUME Surroundings, NEW s \in HostStates, NEW x, Agree(s, x),
         NEW b \in Buffers, b = s.request.handles,
         NEW n \in s.stats[b].completed_steps..device[b].steps,
         NEW m \in s.stats[b].completed_steps..device[b].steps,
         Low(n) = Low(m)
  PROVE  n = m
<1>1. PICK base \in 0..StartStep : Within(s, base) BY DEF Agree, CountsAreClose
<1>2. /\ base <= s.stats[b].completed_steps
      /\ s.stats[b].completed_steps <= device[b].steps
      /\ device[b].steps <= s.request.desired_steps
      /\ s.request.desired_steps <= base + asked
  BY <1>1, NoneIsNoBuffer DEF Within
<1>3. /\ s.request.desired_steps \in Nat /\ asked \in Nat /\ base \in Nat
      /\ s.stats[b].completed_steps \in Nat /\ device[b].steps \in Nat
  BY SetParts, HostParts, RequestParts, Bounds DEF Surroundings
<1>4. /\ n \in Nat /\ m \in Nat
      /\ base <= n /\ n <= base + asked /\ base <= m /\ m <= base + asked
  BY <1>2, <1>3
<1>5. Unwrapped(n, Low(n)) = n /\ Unwrapped(n, Low(m)) = m BY <1>4, Close
<1>. QED BY <1>5

\* What a report that is heard is displayed as.
LEMMA ReportIsDisplayed ==
  ASSUME Surroundings, NEW s \in HostStates, NEW x \in Request, Agree(s, x),
         report # None, report.of = s.request.handles
  PROVE  LET t == ReportHeard(s)
             begun == BeginGeneration(s.display, s.request.generation)
         IN  /\ t.display.generation = s.request.generation
             /\ t.display.state = begun.state
             /\ ClockOf(t.display.clock) = Told(t.stats[report.of].completed_steps)
<1> DEFINE b == report.of
           known == s.stats[b]
           steps == Unwrapped(known.completed_steps, report.steps)
           counts == [completed_steps |-> steps, local_step |-> report.local,
                      processed_event |-> report.processed,
                      failure |-> known.failure]
           begun == BeginGeneration(s.display, s.request.generation)
           clock == [epoch |-> report.epoch, step_in_epoch |-> report.local,
                     accepted_steps |-> steps]
           c == ControlHeard(s)
           t == ReportHeard(s)
<1>1. b \in Buffers BY ReportParts
<1>2. s.stats \in [Buffers -> Stats] /\ c \in HostStates
  BY HostParts, OptionIs, ControlHeardIs DEF Surroundings
<1>3. c.stats \in [Buffers -> Stats] BY <1>2, HostParts
<1>4. c = [s EXCEPT !.stats = [s.stats EXCEPT ![b] = counts],
                    !.display = [begun EXCEPT !.clock = clock]]
  BY DEF ControlHeard
<1>5. clock.epoch = report.epoch /\ clock.step_in_epoch = report.local
      /\ clock.accepted_steps = steps /\ counts.completed_steps = steps
  OBVIOUS
<1> HIDE DEF steps
<1>6. ClockOf(clock) = Told(steps) BY <1>5 DEF ClockOf, Told
<1> HIDE DEF c, counts, clock
<1>7. begun \in Display /\ begun.generation = s.request.generation
  <2>1. begun \in Display BY HostParts, RequestParts, BeginGenerationTyped
  <2>2. begun.generation = s.request.generation
    BY DEF BeginGeneration, EmptyDisplay
  <2>. QED BY <2>1, <2>2
<1> HIDE DEF begun
<1>8. /\ c.stats = [s.stats EXCEPT ![b] = counts]
      /\ c.display = [begun EXCEPT !.clock = clock]
  BY <1>4 DEF HostStates
<1>9. /\ c.display.generation = begun.generation /\ c.display.state = begun.state
      /\ c.display.clock = clock
  BY <1>7, <1>8 DEF Display
<1>10. c.stats[b] = counts BY <1>1, <1>2, <1>8
<1>11. t = IF report.status # c.request.status THEN c
           ELSE [c EXCEPT !.stats =
                   [c.stats EXCEPT ![b] = [c.stats[b] EXCEPT !.failure = report.failed]]]
  BY DEF ReportHeard, StatusHeard, c
<1> HIDE DEF t
<1>12. t.display = c.display BY <1>2, <1>11 DEF HostStates
<1>13. t.stats[b].completed_steps = c.stats[b].completed_steps
  <2>1. c.stats[b] \in Stats BY <1>1, <1>3
  <2>2. t.stats = c.stats
          \/ t.stats = [c.stats EXCEPT ![b] =
                          [c.stats[b] EXCEPT !.failure = report.failed]]
    BY <1>2, <1>11 DEF HostStates
  <2>. QED BY <1>1, <1>3, <2>1, <2>2 DEF Stats
<1>. QED BY <1>5, <1>6, <1>7, <1>9, <1>10, <1>12, <1>13 DEF t, begun

\* The clock a report told of is displayed, and is what the report still tells.
LEMMA ReportHeardClocks ==
  ASSUME Surroundings, NEW s \in HostStates, NEW x \in Request, Agree(s, x),
         report # None, ClocksAgree(s)
  PROVE  ClocksAgree(ReportHeard(s))
<1>1. CASE report.of # s.request.handles BY <1>1 DEF ReportHeard
<1>2. CASE report.of = s.request.handles
  <2> DEFINE b == report.of
             d == s.display
             begun == BeginGeneration(d, s.request.generation)
  <2>1. PICK t : t = ReportHeard(s) OBVIOUS
  <2>2. PICK n : n = t.stats[b].completed_steps OBVIOUS
  <2>3. /\ n \in s.stats[b].completed_steps..device[b].steps
        /\ report.steps = Low(n)
        /\ t.request = s.request /\ t.snapshot = s.snapshot
    BY <1>2, <2>1, <2>2, ReportHeardCounts
  <2>4. /\ t.display.generation = s.request.generation
        /\ t.display.state = begun.state
        /\ ClockOf(t.display.clock) = Told(n)
    BY <1>2, <2>1, <2>2, ReportIsDisplayed
  <2>5. /\ b \in Buffers /\ b # None /\ b = s.request.handles
        /\ s.stats[b].completed_steps \in Nat /\ device[b].steps \in Nat
        /\ s.request.generation \in Nat
    BY <1>2, ReportParts, NoneIsNoBuffer, SetParts, HostParts, RequestParts
  <2>6. /\ DisplayIsOfOne(s) /\ DisplayIsSeen(s, b)
        /\ SnapshotIsSeen(s, b) /\ ReportIsSeen(s, b)
    BY <2>5 DEF ClocksAgree
  <2>7. ToldTruly(s, b, n)
    <3>1. PICK m \in s.stats[b].completed_steps..device[b].steps : ToldTruly(s, b, m)
      BY <2>6 DEF ReportIsSeen
    <3>2. Low(m) = Low(n) BY <2>3, <3>1 DEF ToldTruly
    <3>3. m = n BY <2>3, <2>5, <3>2, CountIsOne
    <3>. QED BY <3>1, <3>3
  <2>8. begun.state # None =>
          begun.state = d.state /\ d.state # None
            /\ d.generation = s.request.generation
    BY DEF BeginGeneration, EmptyDisplay
  <2> HIDE DEF begun
  <2>9. DisplayIsOfOne(t)
    <3>1. t.display.generation <= t.request.generation BY <2>3, <2>4, <2>5
    <3>2. t.display.state # None =>
            t.display.state.epoch = t.display.state.of.epoch % EpochWidth
      BY <2>4, <2>6, <2>8 DEF DisplayIsOfOne
    <3>3. t.display.state # None =>
            Comparable(ClockOf(t.display.clock), t.display.state.of)
      BY <2>4, <2>7, <2>8 DEF ToldTruly
    <3>. QED BY <3>1, <3>2, <3>3 DEF DisplayIsOfOne
  <2>10. DisplayIsSeen(t, b)
    <3>1. Seen(ClockOf(t.display.clock), device[b]) BY <2>4, <2>7 DEF ToldTruly
    <3>2. Copied(t) => Comparable(ClockOf(t.display.clock), t.snapshot)
      BY <2>3, <2>4, <2>7 DEF ToldTruly, Copied
    <3>3. t.display.state # None => Seen(t.display.state.of, device[b])
      BY <2>4, <2>6, <2>8 DEF DisplayIsSeen
    <3>. QED BY <3>1, <3>2, <3>3 DEF DisplayIsSeen
  <2>11. SnapshotIsSeen(t, b) BY <2>3, <2>6 DEF SnapshotIsSeen, Copied
  <2>12. ReportIsSeen(t, b)
    <3>1. n \in t.stats[b].completed_steps..device[b].steps BY <2>2, <2>3, <2>5
    <3>2. ToldTruly(t, b, n)
      BY <2>3, <2>4, <2>7, <2>8 DEF ToldTruly, Copied
    <3>. QED BY <3>1, <3>2 DEF ReportIsSeen
  <2>13. t.request.handles = b BY <2>3, <2>5
  <2>. QED BY <2>1, <2>9, <2>10, <2>11, <2>12, <2>13 DEF ClocksAgree
<1>. QED BY <1>1, <1>2

\* A receipt is of no clock.
LEMMA ReceiptHeardClocks ==
  ASSUME NEW s \in HostStates, ClocksAgree(s)
  PROVE  ClocksAgree(ReceiptHeard(s))
<1>1. PICK t : t = ReceiptHeard(s) OBVIOUS
<1>2. /\ t.request = s.request /\ t.stats = s.stats /\ t.display = s.display
      /\ t.snapshot = s.snapshot
  BY <1>1 DEF ReceiptHeard, HostStates
<1>3. ClocksAgree(t) BY <1>2, ClocksCarry DEF Copied
<1>. QED BY <1>1, <1>3

\* What becomes of a snapshot leaves the words it has, or it.
LEMMA SnapshotHeardClocks ==
  ASSUME NEW s \in HostStates, ClocksAgree(s), NEW heard,
         "snapshot" \in heard => s.snapshot.phase \in {"asked", "taken"}
  PROVE  ClocksAgree(SnapshotHeard(s, heard))
<1>1. PICK t : t = SnapshotHeard(s, heard) OBVIOUS
<1>2. /\ t.request = s.request /\ t.stats = s.stats /\ t.display = s.display
      /\ \/ t.snapshot = s.snapshot
         \/ t.snapshot = [s.snapshot EXCEPT !.phase = "known"]
         \/ /\ t.snapshot = [s.snapshot EXCEPT !.phase = "answered"]
            /\ s.snapshot.phase = "taken"
         \/ t.snapshot = NoSnapshot
  BY <1>1 DEF SnapshotHeard, HostStates
<1>3. s.snapshot \in Snapshot BY HostParts
<1>4. Copied(t) => /\ Copied(s)
                   /\ t.snapshot.steps = s.snapshot.steps
                   /\ t.snapshot.epoch = s.snapshot.epoch
  BY <1>2, <1>3 DEF Copied, Snapshot, NoSnapshot
<1>5. ClocksAgree(t) BY <1>2, <1>4, ClocksCarry
<1>. QED BY <1>1, <1>5

\* What is heard, one of it behind another.
LEMMA HeardClocks ==
  ASSUME Surroundings, NEW s \in HostStates, Agree(s, s.request), ClocksAgree(s),
         NEW heard,
         "report" \in heard => report # None,
         "receipt" \in heard => receipt # None,
         "snapshot" \in heard => s.snapshot.phase = "taken"
  PROVE  ClocksAgree(Heard(s, heard))
<1>1. s.request \in Request /\ Whole(s) BY HostParts, AgreementIsWhole
<1>2. /\ "report" \in heard => report \in Report
      /\ "receipt" \in heard => receipt \in Receipt
  BY OptionIs DEF Surroundings
<1>3. PICK t : t = IF "report" \in heard THEN ReportHeard(s) ELSE s OBVIOUS
<1>4. Whole(t) /\ ClocksAgree(t) /\ t.snapshot = s.snapshot
  <2>1. CASE "report" \in heard
    <3>1. Whole(ReportHeard(s)) BY <1>1, <1>2, <2>1, ReportHeardIs
    <3>2. ClocksAgree(ReportHeard(s)) BY <1>1, <2>1, ReportHeardClocks
    <3>3. ReportHeard(s).snapshot = s.snapshot
      <4>1. CASE report.of # s.request.handles BY <4>1 DEF ReportHeard
      <4>2. CASE report.of = s.request.handles
        BY <1>1, <2>1, <4>2, ReportHeardCounts
      <4>. QED BY <4>1, <4>2
    <3>. QED BY <1>3, <2>1, <3>1, <3>2, <3>3
  <2>2. CASE "report" \notin heard BY <1>1, <1>3, <2>2
  <2>. QED BY <2>1, <2>2
<1>5. PICK u : u = IF "receipt" \in heard THEN ReceiptHeard(t) ELSE t OBVIOUS
<1>6. t \in HostStates BY <1>4 DEF Whole
<1>7. Whole(u) /\ ClocksAgree(u) /\ u.snapshot = s.snapshot
  <2>1. CASE "receipt" \in heard
    <3>1. Whole(ReceiptHeard(t)) BY <1>2, <1>4, <2>1, ReceiptHeardIs
    <3>2. ClocksAgree(ReceiptHeard(t)) BY <1>4, <1>6, ReceiptHeardClocks
    <3>3. ReceiptHeard(t).snapshot = t.snapshot
      BY <1>6 DEF ReceiptHeard, HostStates
    <3>. QED BY <1>4, <1>5, <2>1, <3>1, <3>2, <3>3
  <2>2. CASE "receipt" \notin heard BY <1>4, <1>5, <2>2
  <2>. QED BY <2>1, <2>2
<1>8. u \in HostStates BY <1>7 DEF Whole
<1>9. Heard(s, heard) = SnapshotHeard(u, heard) BY <1>3, <1>5 DEF Heard
<1>. QED BY <1>7, <1>8, <1>9, SnapshotHeardClocks

\* A handoff that is refused leaves the clocks.
LEMMA RefusedClocks ==
  ASSUME NEW s \in HostStates, ClocksAgree(s)
  PROVE  ClocksAgree(Refused(s))
<1>1. s.request \in Request BY HostParts
<1>2. PICK r : r = Revised([s.request EXCEPT !.handoff = None]) OBVIOUS
<1>3. /\ r.generation = s.request.generation
      /\ r.handles = s.request.handles
  BY <1>1, <1>2 DEF Revised, Request
<1>4. PICK t : t = Refused(s) OBVIOUS
<1>5. /\ t.request = r /\ t.stats = s.stats /\ t.display = s.display
      /\ t.snapshot = s.snapshot
  BY <1>2, <1>4 DEF Refused, HostStates
<1>6. ClocksAgree(t) BY <1>3, <1>5, ClocksCarry DEF Copied
<1>. QED BY <1>4, <1>6

\* An event's settlement does.
LEMMA EventSettledClocks ==
  ASSUME NEW s \in HostStates, ClocksAgree(s)
  PROVE  ClocksAgree(EventSettled(s))
<1>1. s.request \in Request BY HostParts
<1>2. PICK r : r = Revised([s.request EXCEPT !.live_event = None]) OBVIOUS
<1>3. /\ r.generation = s.request.generation
      /\ r.handles = s.request.handles
  BY <1>1, <1>2 DEF Revised, Request
<1>4. PICK t : t = EventSettled(s) OBVIOUS
<1>5. /\ t.request = r \/ t.request = s.request
      /\ t.stats = s.stats /\ t.display = s.display /\ t.snapshot = s.snapshot
  BY <1>2, <1>4 DEF EventSettled, HostStates
<1>6. ClocksAgree(t) BY <1>3, <1>5, ClocksCarry DEF Copied
<1>. QED BY <1>4, <1>6

\* A generation of which nothing is displayed, copied or told.
LEMMA ClocksAreNew ==
  ASSUME NEW t, t.display.generation \in Nat, t.request.generation \in Nat,
         t.request.handles # None => ~Copied(t),
         t.request.handles # None => report = None \/ report.of # t.request.handles,
         \/ t.display = EmptyDisplay(t.request.generation)
         \/ DisplayIsOfOne(t) /\ t.display.generation # t.request.generation
  PROVE  ClocksAgree(t)
<1> DEFINE b == t.request.handles
<1>1. CASE t.display = EmptyDisplay(t.request.generation)
  <2>1. /\ t.display.generation = t.request.generation
        /\ t.display.clock = None /\ t.display.state = None
    BY <1>1 DEF EmptyDisplay
  <2>2. DisplayIsOfOne(t) BY <2>1 DEF DisplayIsOfOne
  <2>3. DisplayIsSeen(t, b) BY <2>1 DEF DisplayIsSeen
  <2>4. b # None => SnapshotIsSeen(t, b) /\ ReportIsSeen(t, b)
    BY DEF SnapshotIsSeen, ReportIsSeen
  <2>. QED BY <2>2, <2>3, <2>4 DEF ClocksAgree
<1>2. CASE DisplayIsOfOne(t) /\ t.display.generation # t.request.generation
  <2>1. DisplayIsSeen(t, b) BY <1>2 DEF DisplayIsSeen
  <2>2. b # None => SnapshotIsSeen(t, b) /\ ReportIsSeen(t, b)
    BY DEF SnapshotIsSeen, ReportIsSeen
  <2>. QED BY <1>2, <2>1, <2>2 DEF ClocksAgree
<1>. QED BY <1>1, <1>2

\* A generation taken over has no clock of its own yet, and the reports on
\* their way are of generations before it.
LEMMA AdmittedClocks ==
  ASSUME Surroundings, NEW s \in HostStates, NEW x \in Request, Agree(s, x),
         s.request.handoff # None, ClocksAgree(s)
  PROVE  ClocksAgree(Admitted(s))
<1> DEFINE r == s.request
           b == r.handoff
           steps == Unwrapped(s.stats[r.handles].completed_steps,
                              s.transfers[b].snapshot_step)
           y == [r EXCEPT !.generation = r.generation + 1, !.handles = b,
                          !.status = 0, !.handoff = None,
                          !.desired_steps = Larger(r.desired_steps, steps)]
<1>1. r \in Request BY HostParts
<1>2. PICK q : q = Revised(y) OBVIOUS
<1>3. q.generation = r.generation + 1 /\ q.handles = b
  BY <1>1, <1>2 DEF Revised, Request
<1>4. PICK t : t = Admitted(s) OBVIOUS
<1>5. /\ t.request = q /\ t.snapshot = NoSnapshot
      /\ t.display = BeginGeneration(s.display, r.generation + 1)
  BY <1>2, <1>4 DEF Admitted, HostStates
<1> HIDE DEF y
<1>6. /\ s.display.generation \in Nat /\ r.generation \in Nat
      /\ s.display.generation <= r.generation /\ b \in Buffers
  BY <1>1, HostParts, DisplayParts, RequestParts DEF ClocksAgree, DisplayIsOfOne
<1>7. s.display.generation # r.generation + 1 BY <1>6
<1>8. t.display = EmptyDisplay(q.generation)
  BY <1>3, <1>5, <1>7 DEF BeginGeneration
<1>9. report # None => report.of # b
  <2>1. report # None => report.of < b /\ report.of \in Buffers
    BY ReportParts DEF Agree, ReportIsTrue
  <2>. QED BY <1>6, <2>1 DEF Buffers
<1>10. ~Copied(t) BY <1>5 DEF Copied, NoSnapshot
<1>11. t.display.generation \in Nat /\ q.generation \in Nat
  BY <1>3, <1>6, <1>8 DEF EmptyDisplay
<1>12. ClocksAgree(t) BY <1>3, <1>5, <1>8, <1>9, <1>10, <1>11, ClocksAreNew
<1>. QED BY <1>4, <1>12

\* A snapshot is decoded beside the clock it can be compared to.
LEMMA SnapshotReceivedClocks ==
  ASSUME Surroundings, NEW s \in HostStates, NEW x \in Request, Agree(s, x),
         ClocksAgree(s)
  PROVE  ClocksAgree(SnapshotReceived(s))
<1> DEFINE r == s.request
           b == r.handles
           taken == s.snapshot
           state == Decoding(taken, s.stats[b].completed_steps)
           begun == BeginGeneration(s.display, r.generation)
<1>1. PICK t : t = SnapshotReceived(s) OBVIOUS
<1>2. CASE t = s BY <1>1, <1>2
<1>3. CASE t # s
  <2>1. /\ taken.phase = "answered"
        /\ t = [s EXCEPT !.snapshot = NoSnapshot,
                         !.display = [begun EXCEPT !.state = state]]
    BY <1>1, <1>3 DEF SnapshotReceived
  <2>2. b # None /\ b \in Buffers /\ r.generation \in Nat
    BY <2>1, AgreementIsWhole, HostParts, RequestParts DEF Whole
  <2>3. Copied(s) BY <2>1 DEF Copied
  <2>4. /\ DisplayIsOfOne(s) /\ DisplayIsSeen(s, b)
        /\ SnapshotIsSeen(s, b) /\ ReportIsSeen(s, b)
    BY <2>2 DEF ClocksAgree
  <2>5. begun \in Display BY HostParts, RequestParts, BeginGenerationTyped
  <2>6. /\ begun.generation = r.generation
        /\ begun.clock # None =>
             /\ begun.clock = s.display.clock /\ s.display.clock # None
             /\ s.display.generation = r.generation
    BY DEF BeginGeneration, EmptyDisplay
  <2>7. /\ state.epoch = state.of.epoch % EpochWidth
        /\ state.of.steps = taken.steps /\ state.of.epoch = taken.epoch
    BY DEF Decoding
  <2> HIDE DEF state, begun
  <2>8. /\ t.request = r /\ t.stats = s.stats /\ t.snapshot = NoSnapshot
        /\ t.display = [begun EXCEPT !.state = state]
    BY <2>1 DEF HostStates
  <2>9. /\ t.display.generation = r.generation /\ t.display.clock = begun.clock
        /\ t.display.state = state
    BY <2>5, <2>6, <2>8 DEF Display
  <2>10. ~Copied(t) BY <2>8 DEF Copied, NoSnapshot
  <2>11. \A c : Comparable(c, taken) => Comparable(c, state.of)
    BY <2>7 DEF Comparable, Seen, Precedes
  <2>12. DisplayIsOfOne(t)
    <3>1. begun.clock # None => Comparable(ClockOf(begun.clock), state.of)
      BY <2>3, <2>4, <2>6, <2>11 DEF DisplayIsSeen
    <3>2. r.generation <= r.generation BY <2>2
    <3>. QED BY <2>7, <2>8, <2>9, <3>1, <3>2 DEF DisplayIsOfOne
  <2>13. DisplayIsSeen(t, b)
    <3>1. begun.clock # None => Seen(ClockOf(begun.clock), device[b])
      BY <2>4, <2>6 DEF DisplayIsSeen
    <3>2. Seen(state.of, device[b])
      BY <2>3, <2>4, <2>7 DEF SnapshotIsSeen, Seen
    <3>. QED BY <2>9, <2>10, <3>1, <3>2 DEF DisplayIsSeen
  <2>14. SnapshotIsSeen(t, b) BY <2>10 DEF SnapshotIsSeen
  <2>15. ReportIsSeen(t, b)
    <3>1. \A n : ToldTruly(s, b, n) => ToldTruly(t, b, n)
      BY <2>3, <2>9, <2>10, <2>11 DEF ToldTruly
    <3>. QED BY <2>4, <2>8, <3>1 DEF ReportIsSeen
  <2>. QED BY <1>1, <2>8, <2>12, <2>13, <2>14, <2>15 DEF ClocksAgree
<1>. QED BY <1>2, <1>3

\* What is settled, one of it behind another.
LEMMA SettledClocks ==
  ASSUME Surroundings, NEW s \in HostStates, NEW x \in Request, Agree(s, x),
         ClocksAgree(s)
  PROVE  ClocksAgree(Settled(s))
<1>1. PICK t : t = HandoffSettled(s) OBVIOUS
<1>2. t \in HostStates /\ Agree(t, x) BY <1>1, HandoffSettledAgrees
<1>3. ClocksAgree(t)
  BY <1>1, RefusedClocks, AdmittedClocks DEF HandoffSettled
<1>4. PICK u : u = EventSettled(t) OBVIOUS
<1>5. u \in HostStates /\ Agree(u, x) BY <1>2, <1>4, EventSettledAgrees
<1>6. ClocksAgree(u) BY <1>2, <1>3, <1>4, EventSettledClocks
<1>7. ClocksAgree(SnapshotReceived(u)) BY <1>5, <1>6, SnapshotReceivedClocks
<1>8. Settled(s) = SnapshotReceived(u) BY <1>1, <1>4 DEF Settled
<1>. QED BY <1>7, <1>8

-----------------------------------------------------------------------------
(* Every step keeps the clocks in agreement. *)

\* The agreement read of what the main world's systems make of the variables,
\* when these are that.
LEMMA ClocksNext ==
  ASSUME NEW t, ClocksAgree(t),
         request' = t.request, stats' = t.stats, display' = t.display,
         snapshot' = t.snapshot,
         device' = device, report' \in {None, report}
  PROVE  ClocksInvariant'
<1>1. /\ Host'.request = t.request /\ Host'.stats = t.stats
      /\ Host'.display = t.display /\ Host'.snapshot = t.snapshot
  BY DEF Host
<1> DEFINE b == t.request.handles
<1>2. DisplayIsOfOne(Host)'
  BY <1>1 DEF ClocksAgree, DisplayIsOfOne, Comparable, Seen, Precedes, ClockOf
<1>3. ASSUME b # None
      PROVE  /\ DisplayIsSeen(Host, Host.request.handles)'
             /\ SnapshotIsSeen(Host, Host.request.handles)'
             /\ ReportIsSeen(Host, Host.request.handles)'
  <2>1. DisplayIsSeen(t, b) /\ SnapshotIsSeen(t, b) /\ ReportIsSeen(t, b)
    BY <1>3 DEF ClocksAgree
  <2>2. DisplayIsSeen(Host, Host.request.handles)'
    BY <1>1, <2>1 DEF DisplayIsSeen, Copied, Comparable, Seen, Precedes, ClockOf
  <2>3. SnapshotIsSeen(Host, Host.request.handles)'
    BY <1>1, <2>1 DEF SnapshotIsSeen, Copied, Seen
  <2>4. ReportIsSeen(Host, Host.request.handles)'
    <3>1. CASE report' = None BY <3>1 DEF ReportIsSeen
    <3>2. CASE report' = report
      <4>1. ASSUME NEW n, ToldTruly(t, b, n)
            PROVE  ToldTruly(Host, Host.request.handles, n)'
        BY <1>1, <3>2, <4>1
        DEF ToldTruly, Told, Copied, Comparable, Seen, Precedes, Low
      <4>. QED BY <1>1, <2>1, <3>2, <4>1 DEF ReportIsSeen
    <3>. QED BY <3>1, <3>2
  <2>. QED BY <2>2, <2>3, <2>4
<1>. QED BY <1>1, <1>2, <1>3 DEF ClocksInvariant, ClocksAgree

\* What an operation leaves displayed, counted and copied.
LEMMA OperationClocks ==
  ASSUME ClocksInvariant, request'.generation = request.generation,
         request'.handles \in {None, request.handles},
         request'.handles # None =>
           stats'[request'.handles].completed_steps =
             stats[request'.handles].completed_steps,
         request'.handles # None =>
           snapshot' = snapshot \/ snapshot'.phase \notin {"taken", "answered"},
         UNCHANGED <<display, device, report>>
  PROVE  ClocksInvariant'
<1>1. PICK t : t = [request |-> request', stats |-> stats', display |-> display',
                    snapshot |-> snapshot']
  OBVIOUS
<1>2. /\ t.request = request' /\ t.stats = stats' /\ t.display = display
      /\ t.snapshot = snapshot'
  BY <1>1
<1>3. /\ Host.request = request /\ Host.stats = stats
      /\ Host.display = display /\ Host.snapshot = snapshot
  BY DEF Host
<1>4. ClocksAgree(Host) BY DEF ClocksInvariant
<1>5. ClocksAgree(t) BY <1>2, <1>3, <1>4, ClocksCarry DEF Copied
<1>. QED BY <1>2, <1>5, ClocksNext

\* None of the operations within a generation is of a clock; a generation that
\* is gone has none.
LEMMA OperationsClocks ==
  ASSUME TypeOK, ClocksInvariant,
         \/ Clear \/ WithdrawHandoff \/ QueueLiveEvent \/ ClearFailure
         \/ RequestStep \/ RequestSnapshot
  PROVE  ClocksInvariant'
<1>1. /\ request \in Request /\ stats \in [Buffers -> Stats]
      /\ request.handles # None => request.handles \in Buffers
  BY RequestsParts DEF TypeOK
<1>2. CASE Clear
  <2>1. request' = Emptied(request) /\ UNCHANGED <<display, device, report>>
    BY <1>2 DEF Clear, render
  <2>2. request'.generation = request.generation /\ request'.handles = None
    BY <1>1, <2>1, EmptiedIs, EmptiedKeeps
  <2>. QED BY <2>1, <2>2, OperationClocks
<1>3. CASE WithdrawHandoff
  <2>1. /\ request' = WithoutHandoff(request) /\ stats' = stats
        /\ snapshot' = snapshot /\ UNCHANGED <<display, device, report>>
    BY <1>3 DEF WithdrawHandoff, render
  <2>2. /\ request'.generation = request.generation
        /\ request'.handles = request.handles
    BY <1>1, <2>1 DEF WithoutHandoff, Revised, Request
  <2>. QED BY <2>1, <2>2, OperationClocks
<1>4. CASE QueueLiveEvent
  <2>1. /\ request' = Revised([request EXCEPT !.live_event =
                                 Larger(serial, Own.processed_event) + 1])
        /\ stats' = stats /\ snapshot' = snapshot
        /\ UNCHANGED <<display, device, report>>
    BY <1>4 DEF QueueLiveEvent, render
  <2>2. /\ request'.generation = request.generation
        /\ request'.handles = request.handles
    BY <1>1, <2>1 DEF Revised, Request
  <2>. QED BY <2>1, <2>2, OperationClocks
<1>5. CASE ClearFailure
  <2>1. /\ request' = Revised([request EXCEPT
                             !.desired_steps = Own.completed_steps,
                             !.cleared_failures = request.cleared_failures + 1,
                             !.status = request.status + 1])
        /\ stats' = [stats EXCEPT ![request.handles] = [Own EXCEPT !.failure = FALSE]]
        /\ request.handles # None
        /\ snapshot' = snapshot /\ UNCHANGED <<display, device, report>>
    BY <1>5 DEF ClearFailure, render, Installed
  <2>2. /\ request'.generation = request.generation
        /\ request'.handles = request.handles
    BY <1>1, <2>1 DEF Revised, Request
  <2>3. stats'[request.handles] = [Own EXCEPT !.failure = FALSE] /\ Own \in Stats
    BY <1>1, <2>1 DEF Own
  <2>4. stats'[request.handles].completed_steps = Own.completed_steps
    BY <2>3 DEF Stats
  <2>. QED BY <2>1, <2>2, <2>4, OperationClocks DEF Own
<1>6. CASE RequestStep
  <2>1. /\ request' = [request EXCEPT !.desired_steps = request.desired_steps + 1]
        /\ stats' = stats /\ snapshot' = snapshot
        /\ UNCHANGED <<display, device, report>>
    BY <1>6 DEF RequestStep, render
  <2>2. /\ request'.generation = request.generation
        /\ request'.handles = request.handles
    BY <1>1, <2>1 DEF Request
  <2>. QED BY <2>1, <2>2, OperationClocks
<1>7. CASE RequestSnapshot
  <2>1. /\ request' = request /\ stats' = stats
        /\ snapshot' = [NoSnapshot EXCEPT !.phase = "asked"]
        /\ UNCHANGED <<display, device, report>>
    BY <1>7 DEF RequestSnapshot, render
  <2>2. snapshot'.phase = "asked" BY <2>1 DEF NoSnapshot
  <2>. QED BY <2>1, <2>2, OperationClocks
<1>. QED BY <1>2, <1>3, <1>4, <1>5, <1>6, <1>7

\* A generation installed has no clock of its own yet.
LEMMA InstallClocks ==
  ASSUME AgreementInvariant, ClocksInvariant, Install
  PROVE  ClocksInvariant'
<1>1. TypeOK BY Agreed
<1>2. PICK e \in Request : e = Emptied(request) BY <1>1, EmptiedIs DEF TypeOK
<1>3. PICK r : r = Revised([e EXCEPT !.generation = request.generation + 1,
                                     !.handles = made + 1, !.status = 0])
  OBVIOUS
<1>4. r.generation = request.generation + 1 /\ r.handles = made + 1
  BY <1>2, <1>3 DEF Revised, Request
<1>5. /\ Host'.request = r /\ Host'.snapshot = NoSnapshot
      /\ Host'.display = display /\ report' = report
  BY <1>2, <1>3 DEF Install, Host
<1>6. Host.request = request /\ Host.display = display BY DEF Host
<1>7. /\ display.generation \in Nat /\ request.generation \in Nat
      /\ display.generation <= request.generation
  BY <1>1, <1>6, DisplayParts, RequestsParts
  DEF ClocksInvariant, ClocksAgree, DisplayIsOfOne, TypeOK
<1>8. display.generation <= r.generation /\ display.generation # r.generation
  BY <1>4, <1>7
<1>9. DisplayIsOfOne(Host)'
  BY <1>5, <1>6, <1>8
  DEF ClocksInvariant, ClocksAgree, DisplayIsOfOne, Comparable, Seen, Precedes, ClockOf
<1>10. DisplayIsSeen(Host, Host.request.handles)' BY <1>5, <1>8 DEF DisplayIsSeen
<1>11. SnapshotIsSeen(Host, Host.request.handles)'
  BY <1>5 DEF SnapshotIsSeen, Copied, NoSnapshot
<1>12. ReportIsSeen(Host, Host.request.handles)'
  <2>1. PICK b : b = made + 1 OBVIOUS
  <2>2. report # None => report.of # b BY <2>1, NewBuffers
  <2>. QED BY <1>4, <1>5, <2>1, <2>2 DEF ReportIsSeen
<1>. QED BY <1>9, <1>10, <1>11, <1>12 DEF ClocksInvariant, ClocksAgree

\* A handoff's buffers are of no clock.
LEMMA BeginHandoffClocks ==
  ASSUME AgreementInvariant, ClocksInvariant, BeginHandoff
  PROVE  ClocksInvariant'
<1>1. TypeOK BY Agreed
<1>2. PICK r : r = Revised([request EXCEPT !.handoff = made + 1]) OBVIOUS
<1>3. r.generation = request.generation /\ r.handles = request.handles
  BY <1>1, <1>2 DEF Revised, Request, TypeOK
<1>4. /\ request' = r /\ stats' = stats /\ display' = display
      /\ snapshot' = snapshot /\ report' = report
      /\ device' = [device EXCEPT ![made + 1] = Fresh(0)]
  BY <1>2 DEF BeginHandoff
<1>5. PICK b : b = request.handles OBVIOUS
<1>6. b # None => b # made + 1 /\ b \in Buffers
  <2>1. PICK n : n = made + 1 OBVIOUS
  <2>2. b # None => b # n BY <1>5, <2>1, NewBuffers
  <2>. QED BY <1>1, <1>5, <2>1, <2>2, RequestsParts
<1>7. b # None => device'[b] = device[b] BY <1>1, <1>4, <1>6 DEF TypeOK
<1>8. /\ Host'.request = r /\ Host'.stats = stats /\ Host'.display = display
      /\ Host'.snapshot = snapshot
      /\ Host.request = request /\ Host.stats = stats /\ Host.display = display
      /\ Host.snapshot = snapshot
  BY <1>4 DEF Host
<1>9. DisplayIsOfOne(Host)'
  BY <1>3, <1>8
  DEF ClocksInvariant, ClocksAgree, DisplayIsOfOne, Comparable, Seen, Precedes, ClockOf
<1>10. ASSUME b # None
       PROVE  /\ DisplayIsSeen(Host, Host.request.handles)'
              /\ SnapshotIsSeen(Host, Host.request.handles)'
              /\ ReportIsSeen(Host, Host.request.handles)'
  <2>1. DisplayIsSeen(Host, b) /\ SnapshotIsSeen(Host, b) /\ ReportIsSeen(Host, b)
    BY <1>5, <1>8, <1>10 DEF ClocksInvariant, ClocksAgree
  <2>2. Host'.request.handles = b BY <1>3, <1>5, <1>8
  <2>3. DisplayIsSeen(Host, Host.request.handles)'
    BY <1>3, <1>7, <1>8, <1>10, <2>1, <2>2
    DEF DisplayIsSeen, Copied, Comparable, Seen, Precedes, ClockOf
  <2>4. SnapshotIsSeen(Host, Host.request.handles)'
    BY <1>7, <1>8, <1>10, <2>1, <2>2 DEF SnapshotIsSeen, Copied, Seen
  <2>5. ASSUME NEW n, ToldTruly(Host, b, n)
        PROVE  ToldTruly(Host, Host.request.handles, n)'
    BY <1>3, <1>4, <1>7, <1>8, <1>10, <2>2, <2>5
    DEF ToldTruly, Told, Copied, Comparable, Seen, Precedes, Low
  <2>6. ReportIsSeen(Host, Host.request.handles)'
    BY <1>4, <1>7, <1>8, <1>10, <2>1, <2>2, <2>5 DEF ReportIsSeen
  <2>. QED BY <2>3, <2>4, <2>6
<1>. QED BY <1>3, <1>5, <1>8, <1>9, <1>10 DEF ClocksInvariant, ClocksAgree

\* An extraction, what it hears and what is settled of that.
LEMMA ExtractClocks ==
  ASSUME AgreementInvariant, ClocksInvariant, NEW heard,
         "report" \in heard => report # None,
         "receipt" \in heard => receipt # None,
         "snapshot" \in heard => snapshot.phase = "taken",
         Extract(heard)
  PROVE  ClocksInvariant'
<1>1. TypeOK /\ Agree(Host, extracted)
  BY DEF AgreementInvariant, TransfersInvariant
<1>2. /\ Host \in HostStates /\ Surroundings
      /\ request \in Request /\ extracted \in Request
      /\ Host.request = request /\ Host.snapshot = snapshot
  BY <1>1, HostIs
<1>3. Agree(Host, request) BY <1>1, <1>2, ExtractedAgrees
<1>4. PICK u : u = Heard(Host, heard) OBVIOUS
<1>5. u \in HostStates /\ Agree(u, request) /\ ClocksAgree(u)
  BY <1>2, <1>3, <1>4, HeardAgrees, HeardClocks DEF ClocksInvariant
<1>6. PICK t : t = Settled(u) OBVIOUS
<1>7. ClocksAgree(t) BY <1>2, <1>5, <1>6, SettledClocks
<1>8. /\ request' = t.request /\ stats' = t.stats /\ display' = t.display
      /\ snapshot' = t.snapshot
      /\ report' \in {None, report} /\ device' = device
  BY <1>4, <1>6 DEF Extract, Become
<1>. QED BY <1>7, <1>8, ClocksNext

\* A frame's work goes on from where the groups say its buffers are.
LEMMA DrawnGoesOn ==
  ASSUME AgreementInvariant, NEW ready, NEW copied \in SUBSET Copyable,
         Draw(ready, copied), extracted.handles # None
  PROVE  GoesOn(device[extracted.handles], device'[extracted.handles])
<1>x. PICK x : x = extracted OBVIOUS
<1>g. PICK g : g = Prepared(x, ready) OBVIOUS
<1>d. PICK d : d = device[x.handles] OBVIOUS
<1>1. /\ TypeOK /\ TransfersInvariant
      /\ Follows(x, request) /\ WorkIsKnown(Host, x)
  BY <1>x, Agreed
<1>2. /\ x \in Request /\ x.handles \in Buffers /\ x.handles # None /\ d \in Device
  BY <1>1, <1>x, <1>d, RequestParts DEF TypeOK
<1>3. x.handoff # None => x.handoff # x.handles
  <2>1. x.handoff # None => x.handles < x.handoff /\ x.handoff \in Buffers
    BY <1>1, <1>2, RequestParts DEF Follows, InOrder
  <2>. QED BY <1>2, <2>1 DEF Buffers
<1>4. \/ device'[x.handles] = d
      \/ \E ok \in BOOLEAN : device'[x.handles] = WaveRun(d, x, g, ok)
  BY <1>1, <1>2, <1>3, <1>x, <1>g, <1>d, DrawIs
<1>5. g \in Groups BY <1>1, <1>2, <1>x, <1>g, PreparedTyped DEF TypeOK
<1>6. /\ IsOf(g.wave, x)
      /\ \A live : EncodesOn(Host, groups.wave, x, live) =>
                     EncodesOn(Host, g.wave, x, live)
  <2>1. IsOf(groups.wave, x) /\ Host.stats = stats BY <1>1 DEF WorkIsKnown, Host
  <2>. QED BY <1>1, <1>2, <1>g, <2>1, PreparedKnows
<1>7. Known(g.wave, x) => Even(d, g.wave, x.status, x.live_event)
  <2>1. EncodesOn(Host, g.wave, x, x.live_event) BY <1>1, <1>6 DEF WorkIsKnown
  <2>. QED BY <1>2, <1>d, <2>1 DEF EncodesOn, EncodedOn, Even
<1>8. \A ok \in BOOLEAN : GoesOn(d, WaveRun(d, x, g, ok))
  BY <1>2, <1>5, <1>6, <1>7, WaveRunGoesOn
<1>9. GoesOn(d, d) BY DEF GoesOn
<1>. QED BY <1>4, <1>8, <1>9, <1>x, <1>d

\* The buffers of the request's generation go on in a frame, and a copy that is
\* taken of them is what they come to.
LEMMA DrawIsOfOne ==
  ASSUME AgreementInvariant,
         NEW ready \in SUBSET Wanted, NEW copied \in SUBSET Copyable,
         Draw(ready, copied), NEW b \in Buffers, b = request.handles
  PROVE  /\ GoesOn(device[b], device'[b])
         /\ device[b] \in Device /\ device'[b] \in Device
         /\ stats[b].completed_steps <= device[b].steps
         /\ stats[b].completed_steps \in Nat
         /\ UNCHANGED <<request, stats, display>>
         /\ \/ report' = report
            \/ report'.of # b
            \/ /\ report'.steps = Low(device'[b].steps)
               /\ report'.local = device'[b].local
               /\ report'.epoch = device'[b].epoch
         /\ \/ snapshot' = snapshot
            \/ snapshot' = SnapshotOf(device'[b]) /\ ~Copied(Host)
<1>x. PICK x : x = extracted OBVIOUS
<1>1. /\ TypeOK /\ TransfersInvariant /\ OfAGeneration(Host, x)
      /\ TransfersAreKnown(Host, x) /\ Follows(x, request) /\ CountsAreClose(Host)
  BY <1>x, Agreed
<1>2. /\ x \in Request /\ request \in Request /\ b # None
      /\ x.handles # None => x.handles \in Buffers
      /\ x.handoff # None => x.handoff \in Buffers
      /\ x.generation \in Nat /\ request.generation \in Nat
  BY <1>1, <1>x, RequestParts, NoneIsNoBuffer DEF TypeOK
<1>3. x.handoff # None => x.handoff # x.handles
  <2>1. x.handoff # None => x.handles # None /\ x.handles < x.handoff
    BY <1>1 DEF Follows, InOrder
  <2>. QED BY <1>2, <2>1 DEF Buffers
<1>4. /\ UNCHANGED <<request, stats, display>>
      /\ b # x.handles =>
           \/ device'[b] = device[b]
           \/ b = x.handoff /\ ~transfers[b].submitted
      /\ \/ report' = report
         \/ x.handles # None /\ report' = ReportOf(x, device'[x.handles])
      /\ \/ snapshot' = snapshot
         \/ /\ x.handles # None /\ snapshot.phase = "known"
            /\ snapshot' = SnapshotOf(device'[x.handles])
  BY <1>1, <1>3, <1>x, DrawIs
<1>5. device[b] \in Device /\ device'[b] \in Device
  <2>1. TypeOK' BY <1>1, DrawTransfers DEF TransfersInvariant
  <2>. QED BY <1>1, <2>1 DEF TypeOK
<1>6. GoesOn(device[b], device'[b])
  <2>1. CASE b = x.handles BY <1>2, <1>x, <2>1, DrawnGoesOn
  <2>2. CASE b # x.handles
    <3>1. b = x.handoff => transfers[b].submitted
      BY <1>1, <1>2 DEF TransfersAreKnown, Host
    <3>2. device'[b] = device[b] BY <1>4, <2>2, <3>1
    <3>. QED BY <3>2 DEF GoesOn
  <2>. QED BY <2>1, <2>2
<1>7. \/ report' = report
      \/ report'.of # b
      \/ /\ report'.steps = Low(device'[b].steps)
         /\ report'.local = device'[b].local
         /\ report'.epoch = device'[b].epoch
  BY <1>4 DEF ReportOf
<1>8. \/ snapshot' = snapshot
      \/ snapshot' = SnapshotOf(device'[b]) /\ ~Copied(Host)
  <2>1. ASSUME snapshot.phase = "known" PROVE x.handles = b /\ ~Copied(Host)
    <3>1. x.handles # None /\ x.generation = request.generation
      BY <1>1, <2>1 DEF OfAGeneration, Host
    <3>2. x.handles = request.handles BY <1>1, <1>2, <3>1 DEF Follows
    <3>. QED BY <2>1, <3>2 DEF Copied, Host
  <2>. QED BY <1>4, <2>1
<1>9. /\ stats[b].completed_steps <= device[b].steps
      /\ stats[b].completed_steps \in Nat
  <2>1. PICK base \in 0..StartStep : Within(Host, base) BY <1>1 DEF CountsAreClose
  <2>2. Host \in HostStates /\ Surroundings /\ Host.stats = stats BY <1>1, HostIs
  <2>. QED BY <1>2, <2>1, <2>2, SetParts DEF Within, Host
<1>. QED BY <1>4, <1>5, <1>6, <1>7, <1>8, <1>9

\* A frame of the render world leaves the clocks in agreement: what was seen
\* of the buffers is before what is copied of them now.
LEMMA DrawClocks ==
  ASSUME AgreementInvariant, ClocksInvariant,
         NEW ready \in SUBSET Wanted, NEW copied \in SUBSET Copyable, Draw(ready, copied)
  PROVE  ClocksInvariant'
<1>1. TypeOK /\ ReportIsTrue(Host, extracted) BY Agreed
<1>2. UNCHANGED <<request, stats, display>> BY DEF Draw
<1>3. /\ Host'.request = request /\ Host'.stats = stats /\ Host'.display = display
      /\ Host'.snapshot = snapshot'
      /\ Host.request = request /\ Host.stats = stats /\ Host.display = display
      /\ Host.snapshot = snapshot
  BY <1>2 DEF Host
<1>4. DisplayIsOfOne(Host)'
  BY <1>3
  DEF ClocksInvariant, ClocksAgree, DisplayIsOfOne, Comparable, Seen, Precedes, ClockOf
<1>5. ASSUME request.handles # None
      PROVE  /\ DisplayIsSeen(Host, Host.request.handles)'
             /\ SnapshotIsSeen(Host, Host.request.handles)'
             /\ ReportIsSeen(Host, Host.request.handles)'
  <2>b. PICK b \in Buffers : b = request.handles BY <1>1, <1>5, RequestsParts
  <2>d. PICK d : d = device[b] OBVIOUS
  <2>e. PICK e : e = device'[b] OBVIOUS
  <2>1. /\ GoesOn(d, e) /\ d \in Device /\ e \in Device
        /\ stats[b].completed_steps <= d.steps
        /\ stats[b].completed_steps \in Nat
        /\ \/ report' = report
           \/ report'.of # b
           \/ /\ report'.steps = Low(e.steps)
              /\ report'.local = e.local /\ report'.epoch = e.epoch
        /\ \/ snapshot' = snapshot
           \/ snapshot' = SnapshotOf(e) /\ ~Copied(Host)
    BY <2>b, <2>d, <2>e, DrawIsOfOne
  <2>2. /\ d.steps \in Nat /\ d.local \in Nat /\ d.epoch \in Nat
        /\ e.steps \in Nat /\ e.local \in Nat /\ e.epoch \in Nat
    BY <2>1, DeviceParts
  <2>3. DisplayIsSeen(Host, b) /\ SnapshotIsSeen(Host, b) /\ ReportIsSeen(Host, b)
    BY <1>3, <1>5, <2>b DEF ClocksInvariant, ClocksAgree
  <2>4. /\ display.clock # None => /\ ClockOf(display.clock).steps \in Nat
                                   /\ ClockOf(display.clock).epoch \in Nat
        /\ display.state # None => /\ display.state.of.steps \in Nat
                                   /\ display.state.of.epoch \in Nat
        /\ snapshot.steps \in Nat /\ snapshot.epoch \in Nat
    BY <1>1, DisplayParts, SightsAreCounts DEF TypeOK
  <2>5. /\ SnapshotOf(e).steps = e.steps /\ SnapshotOf(e).epoch = e.epoch
    BY DEF SnapshotOf
  <2>6. Copied(Host)' => \/ Copied(Host) /\ snapshot' = snapshot
                         \/ snapshot' = SnapshotOf(e)
    BY <1>3, <2>1 DEF Copied
  <2>7. DisplayIsSeen(Host, b)'
    <3>1. SUFFICES ASSUME display.generation = request.generation
                   PROVE  /\ display.clock # None =>
                               /\ Seen(ClockOf(display.clock), e)
                               /\ Copied(Host)' =>
                                    Comparable(ClockOf(display.clock), snapshot')
                          /\ display.state # None => Seen(display.state.of, e)
      BY <1>3, <2>e DEF DisplayIsSeen, Seen, Comparable, Precedes, ClockOf
    <3>2. /\ display.clock # None =>
               /\ Seen(ClockOf(display.clock), d)
               /\ Copied(Host) => Comparable(ClockOf(display.clock), snapshot)
          /\ display.state # None => Seen(display.state.of, d)
      BY <1>3, <2>3, <2>d, <3>1 DEF DisplayIsSeen
    <3>3. /\ display.clock # None => Seen(ClockOf(display.clock), e)
          /\ display.state # None => Seen(display.state.of, e)
      BY <2>1, <2>4, <3>2, SeenGoesOn
    <3>4. display.clock # None => Comparable(ClockOf(display.clock), SnapshotOf(e))
      BY <2>2, <2>4, <2>5, <3>3, SeenPrecedes
    <3>. QED BY <2>6, <3>2, <3>3, <3>4
  <2>8. SnapshotIsSeen(Host, b)'
    <3>1. Copied(Host) => Seen(snapshot, e)
      BY <1>3, <2>1, <2>3, <2>4, <2>d, SeenGoesOn DEF SnapshotIsSeen
    <3>2. Seen(SnapshotOf(e), e) BY <2>2, <2>5, SeenNow
    <3>3. Copied(Host)' => Seen(snapshot', e) BY <2>6, <3>1, <3>2
    <3>. QED BY <1>3, <2>e, <3>3 DEF SnapshotIsSeen, Seen
  <2>9. ReportIsSeen(Host, b)'
    <3>. SUFFICES ASSUME report' # None, report'.of = b
                  PROVE  \E n \in stats[b].completed_steps..e.steps :
                           ToldTruly(Host, b, n)'
      BY <1>3, <2>e DEF ReportIsSeen
    <3>t. PICK told : told = [n \in Nat |-> Told(n)'] OBVIOUS
    <3>s. ASSUME NEW n \in Nat
          PROVE  /\ told[n].steps = n /\ told[n].local = report'.local
                 /\ told[n].epoch = report'.epoch
      BY <3>t DEF Told
    <3>h. ASSUME NEW n \in Nat,
                 report'.steps = Low(n), Seen(told[n], e),
                 Copied(Host)' => Comparable(told[n], snapshot'),
                 display.generation = request.generation /\ display.state # None =>
                   Comparable(told[n], display.state.of)
          PROVE  ToldTruly(Host, b, n)'
      <4>1. told[n] = Told(n)' BY <3>t
      <4>. QED
        BY <1>3, <2>e, <3>h, <4>1
        DEF ToldTruly, Seen, Comparable, Precedes, Low
    <3>1. CASE report' = report
      <4>1. PICK n \in stats[b].completed_steps..d.steps : ToldTruly(Host, b, n)
        BY <1>3, <2>3, <2>d, <3>1 DEF ReportIsSeen
      <4>2. n \in Nat /\ n \in stats[b].completed_steps..e.steps
        <5>1. d.steps <= e.steps BY <2>1, <2>2 DEF GoesOn
        <5>. QED BY <2>1, <2>2, <5>1
      <4>3. told[n] = Told(n) BY <3>1, <3>t, <4>2 DEF Told
      <4>4. /\ report'.steps = Low(n) /\ Seen(told[n], d)
            /\ Copied(Host) => Comparable(told[n], snapshot)
            /\ display.generation = request.generation /\ display.state # None =>
                 Comparable(told[n], display.state.of)
        BY <1>3, <2>d, <3>1, <4>1, <4>3 DEF ToldTruly
      <4>5. report.epoch \in Nat
        <5>1. Surroundings BY <1>1, HostIs
        <5>. QED BY <3>1, <5>1, ReportParts
      <4>6. told[n].steps \in Nat /\ told[n].epoch \in Nat
        BY <3>1, <3>s, <4>2, <4>5
      <4>7. Seen(told[n], e) BY <2>1, <4>4, <4>6, SeenGoesOn
      <4>8. Comparable(told[n], SnapshotOf(e))
        BY <2>2, <2>5, <4>6, <4>7, SeenPrecedes
      <4>9. Copied(Host)' => Comparable(told[n], snapshot') BY <2>6, <4>4, <4>8
      <4>. QED BY <3>h, <4>2, <4>4, <4>7, <4>9
    <3>2. CASE /\ report'.steps = Low(e.steps)
               /\ report'.local = e.local /\ report'.epoch = e.epoch
      <4>1. /\ told[e.steps].steps = e.steps /\ told[e.steps].local = e.local
            /\ told[e.steps].epoch = e.epoch
        BY <2>2, <3>2, <3>s
      <4>2. \A o : Seen(o, e) => Comparable(told[e.steps], o)
        BY <4>1 DEF Comparable, Seen
      <4>3. Seen(told[e.steps], e) BY <2>2, <4>1, SeenNow
      <4>4. Copied(Host)' => Comparable(told[e.steps], snapshot')
        <5>1. Copied(Host) => Seen(snapshot, e)
          BY <1>3, <2>1, <2>3, <2>4, <2>d, SeenGoesOn DEF SnapshotIsSeen
        <5>2. Seen(SnapshotOf(e), e) BY <2>2, <2>5, SeenNow
        <5>. QED BY <2>6, <4>2, <5>1, <5>2
      <4>5. display.generation = request.generation /\ display.state # None =>
              Comparable(told[e.steps], display.state.of)
        <5>1. display.generation = request.generation /\ display.state # None =>
                Seen(display.state.of, d)
          BY <1>3, <2>3, <2>d DEF DisplayIsSeen
        <5>. QED BY <2>1, <2>4, <4>2, <5>1, SeenGoesOn
      <4>6. stats[b].completed_steps <= e.steps
        <5>1. d.steps <= e.steps BY <2>1, <2>2 DEF GoesOn
        <5>. QED BY <2>1, <2>2, <5>1
      <4>7. e.steps \in stats[b].completed_steps..e.steps BY <2>1, <2>2, <4>6
      <4>. QED BY <2>2, <3>2, <3>h, <4>3, <4>4, <4>5, <4>7
    <3>. QED BY <2>1, <3>1, <3>2
  <2>10. Host'.request.handles = b BY <1>3, <2>b
  <2>. QED
    BY <2>7, <2>8, <2>9, <2>10
    DEF DisplayIsSeen, SnapshotIsSeen, ReportIsSeen, ToldTruly, Told, Seen, Comparable,
        Precedes, ClockOf, Low
<1>6. Host'.request = request BY <1>3
<1>. QED BY <1>4, <1>5, <1>6 DEF ClocksInvariant, ClocksAgree

-----------------------------------------------------------------------------
(* The behaviours' clocks. *)

\* The first generation has shown, copied and told nothing yet.
LEMMA InitClocks == Init => ClocksInvariant
<1>. SUFFICES ASSUME Init PROVE ClocksInvariant OBVIOUS
<1>1. /\ Host.display = EmptyDisplay(1) /\ Host.snapshot = NoSnapshot
      /\ Host.request.generation = 1 /\ report = None
  BY DEF Init, Host, FirstRequest
<1>2. ~Copied(Host) BY <1>1 DEF Copied, NoSnapshot
<1>3. Host.display.generation = 1 BY <1>1 DEF EmptyDisplay
<1>. QED BY <1>1, <1>2, <1>3, ClocksAreNew DEF ClocksInvariant

\* Every step keeps the clocks in agreement.
LEMMA StepClocks ==
  AgreementInvariant /\ ClocksInvariant /\ [Next]_vars => ClocksInvariant'
<1>. SUFFICES ASSUME AgreementInvariant, ClocksInvariant, [Next]_vars
              PROVE  ClocksInvariant'
  OBVIOUS
<1>1. TypeOK BY Agreed
<1>2. CASE UNCHANGED vars
  <2>1. UNCHANGED <<request, stats, display, snapshot, device, report>>
    BY <1>2 DEF vars, host, render
  <2>. QED BY <2>1, OperationClocks
<1>3. ASSUME NEW heard \in SUBSET Arrived, Extract(heard)
      PROVE  ClocksInvariant'
  BY <1>3, ArrivedIs, ExtractClocks
<1>4. ASSUME NEW heard \in SUBSET Arrived, ExtractUnmapped(heard)
      PROVE  ClocksInvariant'
  <2>1. Extract(heard \cup {"unmapped"}) BY <1>4 DEF ExtractUnmapped
  <2>2. PICK all : all = heard \cup {"unmapped"} OBVIOUS
  <2>3. /\ "report" \in all => report # None
        /\ "receipt" \in all => receipt # None
        /\ "snapshot" \in all => snapshot.phase = "taken"
    BY <1>4, <2>2, ArrivedIs
  <2>. QED BY <2>1, <2>2, <2>3, ExtractClocks
<1>5. ASSUME NEW ready \in SUBSET Wanted, NEW copied \in SUBSET Copyable,
             Draw(ready, copied)
      PROVE  ClocksInvariant'
  BY <1>5, DrawClocks
<1>6. CASE Next
  BY <1>1, <1>3, <1>4, <1>5, <1>6, OperationsClocks, InstallClocks, BeginHandoffClocks
  DEF Next
<1>. QED BY <1>2, <1>6

\* An epoch has other low digits than the next.
LEMMA NextEpochDiffers ==
  ASSUME NEW n \in Nat
  PROVE  n % EpochWidth # (n + 1) % EpochWidth
<1>w. PICK w \in Nat : w = EpochWidth /\ w > 1 BY Bounds
<1>d. ASSUME NEW m \in Nat
      PROVE  m \div w \in Int /\ m = w * (m \div w) + (m % w)
  BY <1>w
<1>1. PICK q \in Int : n = w * q + (n % w) BY <1>d
<1>2. PICK p \in Int : n + 1 = w * p + ((n + 1) % w)
  <2>1. n + 1 \in Nat OBVIOUS
  <2>. QED BY <1>d, <2>1
<1>3. SUFFICES ASSUME n % w = (n + 1) % w PROVE FALSE BY <1>w
<1>4. w * p = w * q + 1 BY <1>1, <1>2, <1>3, <1>w
<1>5. CASE p <= q
  <2>1. w * p <= w * q BY <1>5, <1>w
  <2>. QED BY <1>4, <1>w, <2>1
<1>6. CASE p >= q + 1
  <2>1. w * p >= w * (q + 1) BY <1>6, <1>w
  <2>2. w * (q + 1) = w * q + w BY <1>w
  <2>. QED BY <1>4, <1>w, <2>1, <2>2
<1>. QED BY <1>5, <1>6

\* A snapshot that is accepted is of the clock's epoch: an epoch it may be
\* behind by would hold a step, which the clock's local step leaves no room for.
LEMMA AcceptedIsOfItsEpoch ==
  ASSUME AgreementInvariant, ClocksInvariant
  PROVE  DecodedInItsEpoch
<1>. SUFFICES ASSUME Accepted PROVE display.state.of.epoch = display.clock.epoch
  BY DEF DecodedInItsEpoch
<1> DEFINE c == display.clock
           z == display.state
<1>1. c # None /\ z # None BY DEF Accepted
<1>2. c \in Clock /\ z \in Decoded BY <1>1, Agreed, DisplayParts DEF TypeOK
<1>3. /\ c.epoch \in Nat /\ c.step_in_epoch \in Nat /\ c.accepted_steps \in Nat
      /\ z.steps \in Nat /\ z.of.epoch \in Nat /\ z.of.steps \in Nat
  BY <1>2 DEF Clock, Decoded
<1>4. /\ z.steps = z.of.steps /\ z.epoch = z.of.epoch % EpochWidth
      /\ Comparable(ClockOf(c), z.of)
  BY <1>1, Agreed DEF DecodedExactly, ClocksInvariant, ClocksAgree, DisplayIsOfOne, Host
<1>5. /\ c.accepted_steps >= z.steps
      /\ c.step_in_epoch >= c.accepted_steps - z.steps
      /\ z.epoch = c.epoch % EpochWidth
  BY DEF Accepted
<1>6. /\ ClockOf(c).steps = c.accepted_steps /\ ClockOf(c).local = c.step_in_epoch
      /\ ClockOf(c).epoch = c.epoch
  BY DEF ClockOf
<1> HIDE DEF c, z
<1>7. CASE Seen(z.of, ClockOf(c))
  <2>1. z.of.epoch <= c.epoch /\ ~(z.of.epoch + 1 < c.epoch)
    BY <1>3, <1>4, <1>5, <1>6, <1>7 DEF Seen
  <2>2. c.epoch = z.of.epoch \/ c.epoch = z.of.epoch + 1 BY <1>3, <2>1
  <2>. QED BY <1>3, <1>4, <1>5, <2>2, NextEpochDiffers DEF c, z
<1>8. CASE Precedes(ClockOf(c), z.of)
  <2>1. c.epoch <= z.of.epoch /\ ~(c.epoch + 1 < z.of.epoch)
    BY <1>3, <1>4, <1>5, <1>6, <1>8 DEF Precedes
  <2>2. z.of.epoch = c.epoch \/ z.of.epoch = c.epoch + 1 BY <1>3, <2>1
  <2>. QED BY <1>3, <1>4, <1>5, <2>2, NextEpochDiffers DEF c, z
<1>. QED BY <1>4, <1>7, <1>8 DEF Comparable

\* A snapshot's material is decoded against the clock of its own epoch, for
\* every width of its epoch's digits and of the device's counts.
THEOREM SnapshotsAreOfTheirEpoch == Spec => []DecodedInItsEpoch
<1>1. Init => ClocksInvariant BY InitClocks
<1>2. AgreementInvariant /\ ClocksInvariant /\ [Next]_vars => ClocksInvariant'
  BY StepClocks
<1>3. AgreementInvariant /\ ClocksInvariant => DecodedInItsEpoch
  BY AcceptedIsOfItsEpoch
<1>. QED BY <1>1, <1>2, <1>3, AgreementIsInvariant, PTL DEF Spec

=============================================================================
