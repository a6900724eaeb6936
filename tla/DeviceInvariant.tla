---------------------------- MODULE DeviceInvariant ----------------------------
(***************************************************************************)
(* What every step of DeviceEncoding keeps, and its safety properties      *)
(* follow from.  It is stated of what the main world's systems work on,    *)
(* `s`, and of a request the render world has, `x`: an extraction hands    *)
(* the one's request to the other, and the systems then change the one.    *)
(***************************************************************************)
EXTENDS DeviceEncoding

\* What is asked of a generation goes with it, and a copied snapshot is of the
\* generation both worlds have.
OfAGeneration(s, x) ==
  /\ s.request.handles = None => /\ s.request.live_event = None
                                 /\ s.request.handoff = None
                                 /\ s.snapshot.phase = "none"
  /\ s.snapshot.phase \notin {"none", "asked"} =>
       x.handles # None /\ x.generation = s.request.generation

\* A transfer ran where it was submitted, and only into buffers that are made;
\* the handoff's groups, while they are of the request's revision, know which.
TransfersAreKnown(s, x) ==
  /\ s.request.handoff # None => s.request.handoff <= made
  /\ x.handoff # None => x.handoff <= made
  /\ x.revision <= s.request.revision
  /\ x.revision = s.request.revision => x.handoff = s.request.handoff
  /\ \A b \in Buffers :
       /\ ran[b] = IF s.transfers[b].submitted THEN 1 ELSE 0
       /\ b > made => ran[b] = 0
       /\ device[b].receipt # None => s.transfers[b].submitted
  /\ groups.handoff # None =>
       /\ groups.handoff.revision <= x.revision
       /\ x.handoff # None /\ groups.handoff.revision = x.revision =>
            groups.handoff.encoded = s.transfers[x.handoff].submitted
  /\ x.handoff # None /\ x.handoff = s.request.handles =>
       s.transfers[x.handoff].submitted

\* Buffers are handed on in the order they are made, and no live event is
\* beside a handoff.
InOrder(r) ==
  /\ r.handles # None => r.handles <= made
  /\ r.handoff # None => /\ r.handles # None /\ r.handles < r.handoff
                         /\ r.live_event = None
  /\ r.live_event # None => r.handles # None

\* The render world's request is an earlier one of the main world's; within a
\* generation they differ by what was cleared, asked and queued since.
Follows(x, r) ==
  /\ InOrder(x) /\ InOrder(r)
  /\ x.generation <= r.generation /\ x.cleared_failures <= r.cleared_failures
  /\ x.revision = r.revision => x.cleared_failures = r.cleared_failures
  /\ x.handles # None /\ r.handoff # None => x.handles < r.handoff
  /\ x.handoff # None /\ x.handoff = r.handoff => x.generation = r.generation
  /\ r.live_event # None => r.live_event <= serial
  /\ r.handles # None =>
       IF x.generation = r.generation
       THEN /\ x.handles = r.handles
            /\ x.status <= r.status
            /\ x.cleared_failures = r.cleared_failures =>
                 x.status = r.status /\ x.desired_steps <= r.desired_steps
            /\ x.cleared_failures # r.cleared_failures => x.status < r.status
            /\ x.live_event # None =>
                 /\ x.live_event <= serial
                 /\ r.live_event # None => x.live_event <= r.live_event
       ELSE x.handles # None => x.handles < r.handles

\* A wave's groups are of what x asks, though its revision may have moved.
Known(wave, x) ==
  /\ wave # None
  /\ wave.generation = x.generation
  /\ wave.cleared_failures = x.cleared_failures

\* The buffers b have done no more than their counters say, which is all that
\* is on its way too.
CaughtUpOn(s, b, live) ==
  /\ device[b].steps = s.stats[b].completed_steps
  /\ device[b].local = s.stats[b].local_step
  /\ live # None /\ device[b].processed = live => s.stats[b].processed_event = live
  /\ report # None /\ report.of = b =>
       /\ report.steps = Low(device[b].steps)
       /\ report.local = device[b].local
       /\ report.processed = device[b].processed

\* The buffers b have failed, or done what the groups encoded.
EncodedOn(wave, x, b, live) ==
  \/ Stopped(device[b], x.status)
  \/ /\ device[b].steps = wave.encoded_steps
     /\ device[b].local = wave.encoded_local_step
     /\ live # None /\ device[b].processed = live => wave.encoded_live_event = live

\* What the render world will encode on is what its buffers have done.
EncodesOn(s, wave, x, live) ==
  x.handles # None =>
    IF Known(wave, x) THEN EncodedOn(wave, x, x.handles, live)
    ELSE CaughtUpOn(s, x.handles, live)

\* Groups are of no later request.
IsOf(wave, x) ==
  wave # None =>
    /\ wave.generation <= x.generation /\ wave.revision <= x.revision
    /\ wave.cleared_failures <= x.cleared_failures
    /\ wave.revision = x.revision => wave.cleared_failures = x.cleared_failures

\* What the render world encodes on is what its buffers have done, and the same
\* of what it will be asked next: another generation's work, or work after a
\* failure, where nothing runs until it is asked.
WorkIsKnown(s, x) ==
  LET r == s.request
      b == r.handles
      Same == x.generation = r.generation
      Cleared == x.cleared_failures # r.cleared_failures
  IN  /\ IsOf(groups.wave, x)
      /\ EncodesOn(s, groups.wave, x, x.live_event)
      /\ b # None =>
           /\ Same /\ ~Cleared => EncodesOn(s, groups.wave, x, r.live_event)
           /\ ~Same => CaughtUpOn(s, b, r.live_event)
           /\ Same /\ Cleared =>
                CaughtUpOn(s, b, r.live_event) /\ Stopped(device[b], x.status)
           /\ s.stats[b].failure =>
                /\ Same /\ x.status = r.status
                /\ CaughtUpOn(s, b, r.live_event) /\ Stopped(device[b], r.status)

\* A report on its way is between what was heard and what was done; one of a
\* failure is the last word.
ReportIsTrue(s, x) ==
  LET r == s.request
      b == report.of
  IN  report # None =>
        /\ b <= made
        /\ r.handoff # None => b < r.handoff
        /\ b = r.handles =>
             /\ x.generation = r.generation /\ report.status <= x.status
             /\ \E c \in s.stats[b].completed_steps..device[b].steps :
                  report.steps = Low(c)
             /\ report.failed /\ report.status = r.status =>
                  /\ Stopped(device[b], r.status)
                  /\ report.steps = Low(device[b].steps)
                  /\ report.local = device[b].local
                  /\ report.processed = device[b].processed

\* What is heard of a handoff is its target's receipt, and a good one is the
\* state its target is in.
ReceiptIsTrue(s) ==
  LET b == s.request.handoff
      answer == device[b].receipt
      heard == s.transfers[b]
  IN  /\ receipt # None => receipt.of <= made
      /\ b # None =>
        /\ receipt # None /\ receipt.of = b =>
             receipt.answer = answer /\ answer # None
        /\ heard.completed => /\ answer # None
                              /\ heard.failure = answer.failed
                              /\ heard.snapshot_step = Low(answer.steps)
                              /\ heard.snapshot_local_step = answer.local
        /\ answer # None /\ ~answer.failed =>
             /\ device[b].steps = answer.steps
             /\ device[b].local = 0 /\ answer.local = 0
             /\ device[b].processed <= serial

\* All that is counted of a generation and its handoff is at most the steps
\* asked for ahead of where they began.
Within(s, base) ==
  LET r == s.request
      answer == device[r.handoff].receipt
  IN  r.handles # None =>
        /\ base <= s.stats[r.handles].completed_steps
        /\ s.stats[r.handles].completed_steps <= device[r.handles].steps
        /\ device[r.handles].steps <= r.desired_steps
        /\ r.desired_steps <= base + asked
        /\ r.handoff # None /\ answer # None /\ ~answer.failed =>
             base <= answer.steps /\ answer.steps <= base + asked
        /\ s.snapshot.phase \in {"taken", "answered"} =>
             base <= s.snapshot.steps /\ s.snapshot.steps <= base + asked

CountsAreClose(s) == \E base \in 0..StartStep : Within(s, base)

DecodedExactly(s) ==
  s.display.state # None => s.display.state.steps = s.display.state.of.steps

\* An event changed the field once, and then it is among the processed; the
\* one that waits is not before these.
EventsInOrder(s, x) ==
  LET r == s.request
  IN  /\ \A b \in Buffers, e \in Serials :
           /\ device[b].applied[e] <= 1
           /\ device[b].applied[e] = 1 => e <= device[b].processed
      /\ x.live_event # None => device[x.handles].processed <= x.live_event
      /\ r.live_event # None => device[r.handles].processed <= r.live_event
      /\ r.handles # None => device[r.handles].processed <= serial

\* The main world and the render world agree.
Agree(s, x) ==
  /\ OfAGeneration(s, x)
  /\ TransfersAreKnown(s, x)
  /\ Follows(x, s.request)
  /\ WorkIsKnown(s, x)
  /\ ReportIsTrue(s, x)
  /\ ReceiptIsTrue(s)
  /\ CountsAreClose(s)
  /\ DecodedExactly(s)
  /\ EventsInOrder(s, x)

\* What every step keeps: what the host has heard, what the groups encoded and
\* what the device has done are of one generation's work, each within what the
\* next may do.
InductiveInvariant == TypeOK /\ Agree(Host, extracted) /\ LocalInEpoch

-----------------------------------------------------------------------------
(* The clocks of a generation: what was displayed, copied and snapshot of it. *)

\* `d` was at `o`, or comes after it in its epoch or a later one.  An epoch is
\* begun ahead of a step, after one at least: so that of the epochs since `o`
\* each holds a step, but for the last when the step failed.
Seen(o, d) ==
  /\ o.steps <= d.steps /\ o.epoch <= d.epoch
  /\ o.epoch < d.epoch => o.steps + d.local <= d.steps
  /\ o.epoch + 1 < d.epoch => o.steps + d.local < d.steps

\* A clock is of before `o`, which has no local step.
Precedes(clock, o) ==
  /\ clock.steps <= o.steps /\ clock.epoch <= o.epoch
  /\ clock.epoch + 1 < o.epoch => clock.steps < o.steps

\* A clock and a snapshot of one set of buffers.
Comparable(clock, o) == Seen(o, clock) \/ Precedes(clock, o)

\* The displayed clock, and the clock a report tells of with a count of steps.
ClockOf(c) == [steps |-> c.accepted_steps, local |-> c.step_in_epoch, epoch |-> c.epoch]
Told(steps) == [steps |-> steps, local |-> report.local, epoch |-> report.epoch]

Copied(s) == s.snapshot.phase \in {"taken", "answered"}

\* A decoded snapshot has the low digits of its epoch, and is of the buffers
\* that the clock beside it is of.
DisplayIsOfOne(s) ==
  LET d == s.display
  IN  /\ d.generation <= s.request.generation
      /\ d.state # None => d.state.epoch = d.state.of.epoch % EpochWidth
      /\ d.clock # None /\ d.state # None => Comparable(ClockOf(d.clock), d.state.of)

\* What is displayed of the request's own generation is of its buffers `b`, as
\* a snapshot on its way is.
DisplayIsSeen(s, b) ==
  LET d == s.display
  IN  d.generation = s.request.generation =>
        /\ d.clock # None =>
             /\ Seen(ClockOf(d.clock), device[b])
             /\ Copied(s) => Comparable(ClockOf(d.clock), s.snapshot)
        /\ d.state # None => Seen(d.state.of, device[b])

SnapshotIsSeen(s, b) == Copied(s) => Seen(s.snapshot, device[b])

\* So is a report on its way, once its count is told.
ToldTruly(s, b, steps) ==
  LET d == s.display
  IN  /\ report.steps = Low(steps)
      /\ Seen(Told(steps), device[b])
      /\ Copied(s) => Comparable(Told(steps), s.snapshot)
      /\ d.generation = s.request.generation /\ d.state # None =>
           Comparable(Told(steps), d.state.of)

ReportIsSeen(s, b) ==
  report # None /\ report.of = b =>
    \E steps \in s.stats[b].completed_steps..device[b].steps : ToldTruly(s, b, steps)

\* What the host decodes, and what it will, is of one set of buffers, none of
\* it two epochs from another but by a step of its own.
ClocksAgree(s) ==
  LET b == s.request.handles
  IN  /\ DisplayIsOfOne(s)
      /\ b # None => DisplayIsSeen(s, b) /\ SnapshotIsSeen(s, b) /\ ReportIsSeen(s, b)

\* What every step keeps beside InductiveInvariant.
ClocksInvariant == ClocksAgree(Host)

=============================================================================
