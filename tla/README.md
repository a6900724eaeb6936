# Verification of funfern

funfern is an interactive wave simulator in Rust: a document of curves and
materials is edited live while a field is stepped on the GPU over a mesh made
from it. This directory holds TLA+ models of the parts of it whose behaviour
depends on the order things happen in, the TLC configurations that check them,
and proofs of their main invariants for the TLAPS proof system.

## The system

| Component | Source | State | Operations | What makes it hard |
|---|---|---|---|---|
| Protocol decisions | `crates/funfern-protocol/src/decisions.rs` | none | how a candidate is carried, when an upload begins and how it settles, whether a request is due, what a failure does | called by the app's runtime and by the protocol's model: both act on the answer |
| Protocol | `crates/funfern-protocol/src/lib.rs` | `Protocol`: document, host and device | `step`: a host frame, the device's readbacks, handoff and event answers, a failure, edits, Reset, pulses | every answer arrives in an order of its own; three kinds of transaction wait for each other |
| Settling | `Protocol::settle`, `src/proofs.rs` | none | rounds of a fair suffix until `at_rest` | everything waiting on everything |
| Session | `funfern-app/src/ui/session.rs`, `sharing.rs`, `recovery.rs`, `stopped.rs` | document, debounce, copy kept for a page that leaves, the autosave, the address's link | edit, autosave, hide, close, crash, reopen | writes fail, a page leaves between frames, and two places to reopen from |
| Topology runtime, workers | `topology_runtime.rs`, `ui/workers.rs`, `ui/coordinator.rs` | preparation in flight, ready and active topology, last error | request, settle, commit, reject; a worker thread's messages | late results, cancelled jobs, a worker that dies |
| Frame loop | `ui/runtime.rs`, `ui/probes.rs` | the coordinator's flags and queues | `refresh_runtime`, once a frame | what the protocol crate models |
| GPU device | `canonical_gpu.rs`, `wave_gpu.rs` | generation, handoff, live event, clock, snapshots | install, hand off, queue, settle, clear a failure; encode a frame | the render world reads a request frames after it was made |
| Readbacks and picture | `paced_readback.rs`, `picture_playout.rs` | slots in flight, staging buffers, a queue of copies | claim, encode, map, deliver; push, release | a slot is claimed in one world and released in another; maps fail |
| Adaptive meshing | `ui/amr.rs`, `adaptation.rs` | estimate and mesh in flight, history | estimate, mesh, accept or revert | an edit arrives in the middle |
| Pacing | `ui/pacing.rs`, `drawn_pacing.rs` | budgets and measured rates | how many steps a frame takes | measured times, floating point |
| Editor | `topology_editor.rs`, `document.rs` | document, draft, undo and redo | edits, gestures, undo, validation a frame at a time | a gesture under way while history moves |
| Capture | `recording.rs`, `capture.rs` | the recorder's state | start, stop, frames | platform callbacks |
| Meshing, topology, solver, transfer | `crates/funfern-core` | numerical | | sequential floating-point algorithms |
| Interface | `ui.rs`, `ui/*` | what is open and selected | panels, painting | drawing over the others' state |

How they interact. The editor moves the document's revision. Once a frame the
runtime asks for a preparation of the document, which a worker makes a ready
topology of; the runtime packs it and installs it on the device or hands the
running field off to it, or sends only a source patch; the device answers
through readbacks some frames later; the runtime publishes the topology or
rejects it. Pulses, Switch presses and source patches are live events on the
running generation. Adaptation asks for the running topology on another mesh.
The session writes the document beside all of this.

What each should keep:

- *Protocol*: the host's active topology is the one the device runs; a handoff
  on the device is the one the host waits for; no live event crosses a handoff;
  what is published is never older than what it replaces; a replaced scene
  leaves nothing; everything comes to rest, and at rest nothing is asked for.
- *Session*: what reopens is the document as it was left, unless the user was
  told otherwise; a stop says saved only where it is.
- *Runtime and workers*: one preparation a request, none forgotten when its
  worker dies, no result of a cancelled one taken.
- *Device*: a transfer, an event and a step run once, however often the bind
  groups are built again; short counts and moving epochs are decoded exactly;
  whatever is asked is answered.
- *Readbacks*: the count in flight is the copies in flight, within the depth; a
  staging buffer has one copy at a time; the picture never goes back.
- *Adaptation*: an adapted mesh belongs to the topology it is published for.
- *Editor*: undo returns the document before a gesture, whatever was under way.

## The modules

| Module | Models |
|---|---|
| `Decisions` | the functions of `decisions.rs` |
| `GenerationProtocol` | `Protocol` and its `step`; the assertions of `check`, `at_rest`, and the properties of a step |
| `GenerationInvariant` | the inductive invariant of the protocol, and the one of the revisions asked for |
| `GenerationProtocol_proofs` | its proof, and the theorems that follow |
| `GenerationOrder_proofs` | that what runs never goes back, that a replaced scene leaves nothing, and that rest asks for nothing |
| `GenerationSettling` | the fair suffix, as the rounds of `Protocol::settle` with the bound of `proofs.rs`, and as steps apart in any order |
| `PreparationWorker` | the topology runtime's requests, the worker's thread and channels, and the frame of the host that asks, listens and carries |
| `PreparationPromise` | the promise: the latest request alone is settled, once, and carried |
| `PreparationWorker_proofs` | that the preparation's invariant holds, and that its steps keep the promise |
| `DeviceEncoding` | what the render world encodes of a request, what its buffers make of it, and what the host hears and settles |
| `DeviceInvariant` | the inductive invariant of the device, and the one of its clocks that rests on it |
| `DeviceEncoding_proofs` | the proof of its part about types and transfers, and that counts are unwrapped exactly |
| `DeviceAgreement_proofs` | the proof of the rest, and the theorems that follow |
| `Autosave` | the session's autosave, the slot a leaving page writes from, the address's link, a stop's words; its properties and inductive invariant |
| `Autosave_proofs` | that the invariant holds, and the theorems that follow |
| `PacedReadback` | the readbacks' slots, copies and staging buffers over the frames of the render world; their invariant, and the promise they keep |
| `CopyStream` | the promise: copies of each source, in order, at extractions |
| `PictureStream` | the state readbacks of successive generations, the display, the snapshots and the playout, over `CopyStream` |
| `PictureStream_proofs` | that its invariant holds, and that the picture never goes back once it plays |
| `MCPacedReadback` | the sizes of small instances |
| `PacedReadback_proofs` | that the readbacks' invariant holds, that the pool stays bounded, and that `PacedReadback` implements `CopyStream` |

### The protocol and the code

The state is `editor`, `host` and `device`, with the fields of `Protocol` under
their names (`device` of the code is `device.running` here). A token of the
code indexes `requests` and `fresh_tokens`; here a *candidate* is the record of
its token with the revision and inputs it was requested at and whether it
starts from zero, so the two arrays are gone and a candidate on the device
still says what was asked. Inputs and mesh edges are named by content, as in
the code, and are model values.

`Frame` runs the blocks of `refresh_runtime` in their order and is one step, as
in the code, where nothing interleaves with a frame. Each block is an operator
on the whole state, from a state to the set of states it may leave, and is made
of operators of the host's or the device's record alone. What the app computes
for a frame (`struct Frame`: whether the validation finishes, what the
preparation comes to, how a candidate is found to be carried) is a choice made
by the block that reads it. The early return of a packed candidate that is no
longer the ready one (`PackAbandoned`) cannot be taken after `DropStalePack`,
in the code as here; it is kept where the code has it.

The other steps are `Protocol::step`'s, one action each: `Readbacks`,
`AdmitHandoff` and `RefuseHandoff`, `Settle`, `Fault`, `Validate`, `Edit`,
`Edge`, `Remesh`, `Replace`, `Reset`, `Speed`, `Run`, `StepOnce`, `Pulse`,
`Switch`. A step on a device with nothing to act on, which changes nothing in
the code, is not enabled here.

Differences. The revision is a natural number where `Protocol` has a wrapping
`u8`, standing for the app's `u64`. The generation counter wraps past zero at
`Generations`, as `wrapping_add(1).max(1)` does. Pulses and presses saturate at
`MaxPulses` and `MaxSwitches` in place of 255.

### The preparation worker and the code

`PreparationWorker` is two threads. The host's frame is `refresh_runtime`'s
blocks about requests in their order, in three steps between which the worker
may end a job or die: `Begin` settles a source patch, drops a replaced scene and
asks for what is due; `Hear` and `HearNothing` are `drain`, an
event at a time and then the end of the channel, where alone a death is found;
`End` hands the job over (`submit`) or advances a slice of it on the host,
carries what is ready, packs, uploads, settles and applies a Reset. The thread
is `TakeNewest`, `Finish` and `Die`. Between frames the user and adaptation act:
`Edit`, `ReplaceScene`, `Remesh`, `Reset`, `Adapt`.

`coordinator`, `runtime`, `worker` and `thread` hold the fields of
`Coordinator`, `TopologyRuntime`, `BackgroundPreparationWorker` and of the thread
with its channels; a job is its token. What a job, the pack and the device come to is
a choice. Of the jobs sent to the worker only the newest is kept, as the loop of
`try_recv` keeps it; messages of progress are left out, no decision reading them.
A replaced worker is a new thread and new channels, or none where none is to be
had. `asked` counts requests for one action of the user and is no field of the
code.

`PreparationPromise` knows of no worker: a request is made and named as none
before it, is settled, is carried, or forgotten with its scene.
`KeepsThePromise` maps `requested` and `next` to the runtime's fields and
`outcome` to what they say of the latest request, and checks that every step is
one of the promise's or none, and that the promise's fairness follows.

### The device and the code

`request` is `CanonicalGpuRequest`; `stats` and `transfers` its shared counters
(`CanonicalGpuStats`, `CanonicalGpuHandoffStats`) by the buffers they are beside;
`display` is `CanonicalGpuDisplay`'s clock and last snapshot. `extracted` is the
render world's copy of the request, `groups` the bind-group resources it builds,
with what they have encoded, `device` the sets of buffers. `report`, `receipt` and
`snapshot` are the copies on their way. `Clear`, `Install`, `BeginHandoff`,
`WithdrawHandoff`, `QueueLiveEvent`, `ClearFailure`, `RequestStep` and
`RequestSnapshot` are the request's methods as the coordinator calls them. `Draw`
is a frame of the render world: `prepare_*` build groups again, `compute_*`
encode by them, and the copies are taken behind; which work finds its buffers
and pipelines ready is a choice (`ready`). `Extract` hands the request over,
hears the copies that arrived (`heard`), and runs the `settle_*` systems.

What is assumed, or joined, and why:

- The two worlds' frames share the counters alone, so the render world's frame
  is placed ahead of the main world's; only `ClearFailure`, which writes a
  counter, may also come before it.
- One step a frame, as nothing is heard between the steps of one; the fence on
  the steps in flight (`MAX_ENCODED_STEP_LEAD`) only makes a frame wait.
- The copies of a frame's control and status are one report, and one report and
  one receipt are in flight. Copies heard out of phase are a hazard listed
  without a property: the properties that compare the two worlds' counts say
  nothing of a failure cleared between one copy and the other.
- The `settle_*` systems are joined to the extraction ahead of them. Bevy runs
  them in no stated order; it makes no difference: no live event is beside a
  handoff, and a snapshot received ahead of an admission is dropped with the
  display's generation.
- `clear_failure` is modelled as its method allows it, with a handoff pending
  too; the coordinator withdraws that handoff first.
- The coordinator's event serial starts again at an install; in the code it does
  at the publication, ahead of the next event.
- All the steps asked for are less than half the device's 2^32
  (`WidthsAssumption`).

`ran`, `applied` and `of` are history: how often a transfer ran, how often an
event's passes ran, what a snapshot was taken of. No guard of the code
reads them; the device fails a transfer run over a receipt because its map is
consumed.

### The session and the code

`Autosave` is the app in a browser, which is the larger case: natively no launch
reads an address and no write of one is seen, and the quit that ends the loop
without a frame (`UnsavedGuard`) is `Leave`. `session` holds the playground's
fields (`autosave_observed`, `autosave_due`, `autosave_failure`,
`link_in_address`), `unsaved` the slot shared with the page's handlers,
`storage` and `address` what outlives the page. `storage.refused` is no field of
the code: it is the store's answer to the last write, which a flush throws away.
`document` outlives the page too, as what the user left.

A frame ends in `autosave()`, after whatever the user did in it, so an edit and
its observation are one step (`Edit`, `Launch`), and a write the debounce asks
for is another frame's (`DebounceOver`): a frame that observes an edit restarts
the debounce and cannot write. The clock is a choice. `autosave_now` runs in a
stop (`Announce`) and at a close or an exit (`Close`); `flush_unsaved` in `Hide`
and `Leave`; `Crash` runs nothing. A hidden page runs no frame. What is stored
is whole, by the rename of `write_atomic` and the store's `set_item`.
Documents are model values, told apart by whether a link can carry them.
Left out: a browser that refuses to move its address, the Back button over the
entries a copied link adds, and two pages over one store.

### The readbacks, the picture and the code

`PacedReadback` is `paced_readback.rs` with the device and the main world around
it. `inFlight` is the counter the two worlds share, `flight` the vectors
`Copies::requested` and `Copies::mapped` of one entity, oldest first, and
`staging` the pool, where a buffer of no size is not in it. `render` is where
the render world is in its frame: `RequestCopy` and `PassOver` are the rounds of
`request_copies`' loop, in any order; `EncodeCopies` is the frame's work and the
copies behind it, `MapCopies` asks for the maps, `DeliverCopy` is a round of
`deliver_copies`, and `FinishExtraction` its `retire_unused` and the extraction
of the entities. `Spawn` and `Despawn` are the main world's, between
extractions. The bytes of a copy are the step its source was written at.

Assumed of what is not in `src/`: maps of one readback are answered in the order
they were asked for; none is answered while an extraction runs, the render
world's thread being the one that polls; they fail only on a lost device.
A range past its buffer, which `request_copies` passes over, is none of these
readbacks'. Nothing in `paced_readback.rs` would set right maps answered out of
order: that order is the assumption and no result. What `KeepsThePromise` says
under it is that claiming, encoding, mapping and visiting the copies keeps it.

`CopyStream` is what is left of it for the main world: no frames, slots or
buffers, only copies that arrive at extractions. `KeepsThePromise` checks that
`PacedReadback` implements it, with the copies encoded as those on their way.
`PictureStream` is built on `CopyStream` and not on the pipeline: what holds of
the picture over the promise holds over any pipeline that keeps it.

In `PictureStream` a readback is the state readback of a generation; `generation`
and `snapshot` are `CanonicalGpuRequest`'s, `display` is `CanonicalGpuDisplay`
with its `PicturePlayout`, `painted` what the canvas shows. A frame of the main
world (`MainFrame`) is one step, as nothing interleaves with it: what the device
answered is settled (`HandoffFrame`, `SnapshotFrame`), the next copy is released,
the runtime installs or clears, asks for a snapshot or does not, and the frame
paints. Two of these in one frame come to one of them: an install or a handoff
drops the snapshot. The render world's frame runs beside it.

The control readback that carries the clock is taken to arrive with the state's
copy of the same frame. A handoff's target starts at the step its source is at.
The generation is a counter that does not wrap. The integrated field's stream,
which is played out by the same queue, is left out.

### What the runs show

| Run | Property | Bounds |
|---|---|---|
| `protocol` | the assertions of `Protocol::check` (`HostRunsWhatTheDeviceRuns`, `HandoffIsTheUpload`, `NoEventAcrossAHandoff`, `SourceCommitIsThePatch`); `CarriedIsTheLatestRequest`; the inductive invariant; `ReplacedSceneLeavesNothing`; `NothingOlderIsPublished` | two requests, one edit or replaced scene, one pulse, generations 1 to 3 of which two are taken |
| `settling` | `SettlesWithinItsRounds`, `ComesToRest`, `RestAsksForNothing` | any five steps, then `settle` with eight rounds; or any interleaving of the fair suffix and two disturbances |
| `preparation` | `PreparationInvariant`, `RequestIsHeld`, `WorkerOwesAnAnswer`, `AskedOnce`, `KeepsThePromise`, `ResetIsAnswered`, `ComesToRest` | three acts of the user or adaptation, two deaths |
| `device` | the inductive invariant, `TransferRunsOnce`, `EventRunsOnce`, `StepsAreAskedFor`, `LocalInEpoch`, `DecodedInItsEpoch`, `CountsAreExact`, `EverythingIsAnswered` | two sets of buffers, one event, two steps, one failure; counts modulo 8 from step 6, epochs of one step modulo 2 |
| `failed_edit` | `AdaptationLeavesAFailedEditStanding`, violated | |
| `lost_reset` | `ResetIsNeverLost`, violated | |
| `autosave` | `QuietMeansKept`, `AwayMeansKept`, the inductive invariant, `StopSaysSaved`, `LeftOpenEndsKept` | five documents, one past the link's size; four edits; any number of pages, from any store and address |
| `outgrown_link` | `NoLinkLeftBehind`, violated | |
| `readbacks` | `ReadbackInvariant`, `PoolIsBounded`, `KeepsDelivering` | two readbacks of one size, each spawned any number of times; depth 2; five buffers, one more than can be in flight; a free one kept for two frames; any loss of the device |
| `readback_promise` | `KeepsThePromise`, `UnusedIsRetired` | one readback at depth 3, four buffers, three steps |
| `picture` | `PictureInvariant` (with the type invariant), `PictureIsOfOneRun`, `PlayedOutNeverGoesBack`, `LastCopyIsShown` | two generations, a step each, three copies on their way, a queue of three |
| `snapshot_ahead` | `PaintedNeverGoesBack`, violated | as `picture`, two steps |

Two requests are what the safety properties relate: one running or on its way,
and one that overtakes it or adapts it; with a Reset between, every block of the
frame is taken in every context the invariant distinguishes, and the theorems
below carry the invariants to every bound. Presses of the Switch take the same
path as pulses and are bounded to none in `protocol`; `settling` has both, and
as many requests as its steps make. It stops one step short of the six of the
Kani harness, with the same margin of three rounds.

`RestAsksForNothing` says "on a document a request stands for" (`RequestStands`)
because `at_rest` holds in three kinds of state whose next frame asks for a
candidate: once and not in a loop. An invalid draft for which no request is on
record, its inputs having returned to what the running topology read while the
last request read others, or a retime having cleared the record. A draft
whose mesh edge was changed after its preparation failed: `at_rest` compares the
edge of what runs and not of what failed. And an invalid draft that reads what
the running topology does, as a valid edit before it did whose failure an
adaptation's has since replaced (the first disagreement below). The `settling`
run, with one edge and few steps, reaches neither of the last two; they came up
in proving the property, which had excepted the first alone.

In `preparation` the deaths are two so that the worker that replaces a dead one
may die too, and the acts three: a request that runs, one that replaces or
adapts it, and one that overtakes that. Each may fall before, between or after
any two of the frame's steps and the thread's. `AskedOnce` counts from the last
act that asks for something, `Reset` asking for nothing.

In `device` the second set of buffers is reached by a handoff, an install, or an
install over a cleared generation, with the first's copies still on their way;
the event, the failing step and either step may fall anywhere before or after
it, encoded by groups of an older revision, on a status already replaced. With
counts modulo 8 from 6 the second step wraps, and with an epoch of one step
every step that follows another rebases the clock. `EverythingIsAnswered` excepts a generation that has failed:
a failure is cleared by Run, which nobody is made to press.

In `autosave` an edit can follow a copied link, outgrow it, and return within its
size, each inside or outside the debounce, with launches from a link, a broken
one, the autosave, a broken one, or neither; the edits are counted over all
pages. `AwayMeansKept` and `StopSaysSaved` relate the document to what the next
launch would open, link ahead of autosave, and not to one field; the slot's own
copy of `link_in_address` goes stale when a link is copied after the edit, and
`LinkIsKnown` is why that is harmless: such a link is of the very document.

For the readbacks two of one size are what can disturb each other: a buffer one
gives back is the other's next. The depth is 3 in the code; at 2 a readback has
already a copy ahead of and behind another, and the promise, which is about one
readback's order, is checked at 3. `PoolIsBounded` needs the fifth buffer to
fail; the frames a buffer is kept (10 in the code) only delay. The queue holds
3 copies for the code's 4, and a standing reserve is trimmed after 2 frames for
60: at these the limit, the trim and the lone wait all happen within the three
copies a burst can bring. With a second step the safety properties hold too. The
second generation is reached from the first by all three ways, with the first's
copies still on their way.

`PlayedOutNeverGoesBack` begins at the first copy of a generation played out.
Before it the frame paints the latest copy decoded, and that the picture goes
back there too is the last disagreement below.

### Fairness

`Spec` of the protocol states none: what the user, the device and the worker do
is not promised. `GenerationSettling` assumes what `Protocol::settle` takes in
every round: validation finishes, frames run and prepare and carry what they
can, the device completes, admits and takes what it is given, and a run paused
for a failure is resumed, as its message asks the user to. Weak fairness of each
is enough: none is disabled again by another step of the suffix before it is
taken. Edits and failures are bounded instead of fair, in number and not in
when they happen. Without those assumptions nothing is promised: a device that never
answers leaves an upload waiting, in the code too.

In `PreparationWorker` the frames of a shown page and the thread of a living
worker are weakly fair. Two outcomes are strongly fair: a job advanced a slice
in each frame is done in the end (`HostAdvances`), and what is carried to the
device is published or refused (`DeviceSettles`), which is what `ComesToRest` of
the protocol says of it. In `DeviceEncoding` a frame of the render world may
find anything unprepared and a copy may be heard late, but not for ever: again
and again a frame finds all it wants ready, and an extraction hears all that was
copied. Nothing is assumed of Run after a failure.

In `Autosave` a frame is
fair while the page is shown, since a shown page keeps being drawn and each frame
reads the clock; nothing is assumed of hidden pages. In `PacedReadback` frames
are fair as long as they are drawn; a source's preparation and a map's answer are
asked about once a frame and not between, so their fairness is strong: they
cannot be put off at every frame for ever. `KeepsDelivering` asks it only of a
device that is not lost. In `PictureStream` both worlds' frames and the
extraction are fair, and copies are not: the last one may be followed by none.

### What is proved

`GenerationProtocol_proofs` proves `Spec => []InductiveInvariant` for every
value of the constants under `BoundsAssumption` (at least one request; at least
three values of the generation counter, so that the next generation is another
one) and `NoneAssumption` (the absent value is none of the values). From it
follow, as theorems, the type invariant and the five safety invariants of the
`protocol` run.

`GenerationOrder_proofs` proves the three action properties. For
`NothingOlderIsPublished` the invariant is strengthened by `Ordered`: nothing
that is prepared, ready or runs was asked for before what runs or was published,
or at an earlier revision. Each block of a frame and each other step is a
*move* (`Moves`): what is asked for, ready, published and running each goes,
stays or takes the next one's place, and a new request takes the last name at
the document's revision or, for an adaptation, at the one that runs. A move
keeps the order and never goes back; a frame chains its blocks' moves (`Since`).
That a published upload, an admitted handoff, a Reset and an adaptation are
moves is what the inductive invariant says of what runs. For
`ReplacedSceneLeavesNothing` the frame is followed from `DropReplaced`: down to
the carrying of a candidate nothing runs and all that is held is new (`Anew`);
with nothing published the upload can only install, whose answer is waited for,
and the blocks after it have nothing to do.

`RestStaysAtRest` proves `RestAsksForNothing`. At rest a valid draft is answered
by a candidate of its revision, which runs or failed; that no request is due also
takes that the request *on record* is of that revision, and a retime clears the
record. `RevisionsInvariant` relates the two: a candidate of the revision the
document is at was asked for since the draft was validated, and while names are
left the record is of that revision. A retime that clears it asks again in the
same block, unless the draft is pending, when nothing yet is of its revision
(`RequestedKnows`). Every other block of a frame brings no revision that was not
there (`Recalls`), an adaptation being of the one that was published, and an edit
leaves all of them behind. The frame at rest is then followed block by block:
each finds nothing to do (`RestCarries`, `IdleUploads`). TLC checked
`RevisionsInvariant` and the property exhaustively with two edges, three requests
and two revisions before they were proved.

Those invariants are not inductive as they stand. What the device runs *during*
an upload is not said by `check`, and the end of an upload rests on it: it is
the target, installed or admitted, under the generation the host waits for
(`RunsTarget`), or still the source while the handoff is pending or refused
(`RunsSource`). With who is on the way to the device (`OneRequest`, `OneWay`),
that a handoff and an event exclude each other (`OneTransaction`), and that the
host waits for what the device has (`PatchAwaited`, `HandoffAwaited`), this is
kept by each block of a frame by itself. The proof follows the code: a lemma for
each block, chained in the order of the frame, and a step for each other action.

`PreparationWorker_proofs` proves `Spec => []PreparationInvariant` for any number
of acts and deaths, and from it `RequestIsHeld`, `WorkerOwesAnAnswer` and
`AskedOnce`, under `TokenAssumption` (the absent value is no token). The two
claims are not inductive by themselves: that the end of a worker's job is still
to come holds only as the jobs reach it in the order they were asked for
(`JobsInOrder`), so that the newest is taken and no later end is lost behind an
earlier one; that a result is the latest request's needs tokens never made twice
(`TokensAreMade`), and that a request is settled once that nothing else has
become of the one still prepared (`LatestAlone`). `StepsKeepThePromise` proves
the safety half of the refinement: initial states map to initial states, and
every step to a step of `PreparationPromise` or to none. Its fairness is TLC's.

`DeviceEncoding_proofs` and `DeviceAgreement_proofs` prove
`Spec => []InductiveInvariant` of the device for any number of sets, events,
steps and failures, under `BoundsAssumption`, `NoneAssumption` and
`WidthsAssumption` (the last is where the steps asked for are kept below half the
range of the device's counts, and an epoch has room for a step). From it follow
`TransferRunsOnce`, `EventRunsOnce`, `StepsAreAskedFor`, `LocalInEpoch` and
`CountsAreExact`. None of them is inductive. That a step or an event is not
encoded twice rests on the groups knowing what their buffers did, or the counters
if there are no groups (`WorkIsKnown`); counters are known to be enough only where
nothing is on its way that says otherwise, which is after a failure or ahead of a
generation's first frame (`CaughtUpOn`); that a failure heard is the one the
render world still has, and not one since cleared, takes the order of requests
(`Follows`) and of reports (`ReportIsTrue`); and a handoff carries this over as its
receipt is the state its target is in (`ReceiptIsTrue`). A count is read right as
`UnwrapIsExact` needs it: what was heard and what was done are both within the
steps asked for since one base (`CountsAreClose`). The invariant is stated of what
the main world's systems work on, and proved for each of them by itself: what a
report, a receipt, a snapshot, a settled handoff and a settled event leave agreed
is then chained in the order of the frame.

`SnapshotsAreOfTheirEpoch` proves `DecodedInItsEpoch`, that the clock a snapshot's
material is decoded against is of its own epoch, from a second invariant on top of
that agreement, `ClocksInvariant`. A snapshot carries its own clock's low digits
only, and the host compares them with the clock it displays, which may be from an
earlier or a later frame: that equal digits are one epoch is not in what either of
them says. The invariant says where each clock was seen: what is displayed, copied
or told of the request's generation was seen of one set of buffers, at a step and
an epoch those buffers had then (`Seen`), so that of two of them the one with the
fewer steps has no later epoch (`Comparable`). An epoch is begun only ahead of a
step, and only after a step of the one before; two epochs apart there is therefore
a step between, and the check that the clock's step within its epoch covers the
steps since the snapshot leaves no room for it. The epochs compared differ by at most one, and
neighbours differ in their low digits. TLC checked `ClocksInvariant` on the
device's run with one set of buffers and with two before it was proved.
`EverythingIsAnswered` is TLC's.

`Autosave_proofs` proves `Spec => []AutosaveInvariant` for any documents, under
`DocumentsAssumption` (the default document is none of the examples; the absent
and the broken values are no documents and no slot), and from it
`QuietMeansKept`, `AwayMeansKept` and the action property `StopSaysSaved`. The
invariant is needed for what the two first leave open: that the slot holds the
very document while a write is due, what a write already flushed has kept, and
that a session which does not know of a link has none in its address.

`PacedReadback_proofs` proves `Spec => []ReadbackInvariant` for any readbacks,
sizes, depth and pool, under the positivity of the depth and the sizes. The
invariant is inductive as it stands because its parts need each other: that a
copy has a buffer of its own (`StagingIsACopys`) is kept by a claim only as a
free buffer is no copy's, that a delivery empties the count (`SlotsAreCopies`)
only as the count is the copies, and that a free buffer can be mapped
(`MapsAreSound`) only as a buffer is freed by the delivery of its own copy. The
lemmas are one for each system: the phases that pass leave every copy in its
place (`SamePlacesKeep`), a claim adds one at the end, a delivery takes one out.
`FlightIsBounded` follows.

`PoolStaysBounded` rests on it, and on `FiniteAssumption` (a run spawns finitely
many readbacks; a count of infinitely many would mean nothing). A buffer is
created only when none of its size is free. Each is then taken, so it is some
copy's (`StagingIsACopys`), and its copy's place, a readback of the size and a
position within the depth, tells it from the others: the pool of the size is
injected into the places (`AsManyAsCopies`). Every other step leaves a buffer its
size or takes it out of the pool (`PoolOnlyShrinks`).

`CopiesArriveInOrder` proves `Spec => KeepsThePromise`: that `PacedReadback`
implements `CopyStream`, under the mapping of `Stream`. The mapping leaves out a
copy that was asked for and not yet encoded, wherever it is, and the stream only
ever adds at the end and delivers from the head. So the invariant is strengthened
by `FlightInOrder`: what is answered comes ahead of what is not, what is not
mapped yet is the last of its readback, and a copy only asked for is of this
frame and of a readback the render world still knows. From this a delivery
takes the first copy (`DeliverInOrder`) though the code looks for the next
answered one, and what is on its way is all of the copies or all but the last
(`StepsAre`). Encoding is `Submit`, the extraction's steps are `Begin`, `Deliver`
and `Finish`; claiming, mapping and answering are no step of the stream.

`PictureStream_proofs` proves `Spec => []PictureInvariant` for any generations,
depth, steps and limits of the queue, under `PlayoutAssumption`,
`GenerationsAssumption` (generations are numbered from 1, as the counter does)
and `NoneAssumption` (the absent value is no picture and no step), and from it
`PictureIsOfOneRun` and the action property `PlayedOutNeverGoesBack`. The first
says that the queue is in order, which the next push keeps only if the copies
still on their way follow all that is queued (`CopiesAreLater`), and they do only
as copies are taken in order and never ahead of their source (`CopiesInOrder`). The
second compares what is painted with what comes next, so the invariant says that
what was painted is the copy shown, or of an earlier generation
(`PaintedIsShown`). `CopyStream` is all that is known of the readbacks. The proof
is of two kinds of step: a frame, whichever it is, paints from a display that
follows the last picture (`Follows`), and its release only goes on in the queue
(`GoesOn`); every other step leaves what the copies precede (`StillPrecedes`).

Liveness and the violated properties are checked by TLC only.

### Where the code and its documents disagree

- *A failed edit is forgotten.* An adapted preparation that fails, or whose
  handoff is refused, writes itself into `last_error` over a later revision's
  failed edit (`lib.rs:584`, `reject`). The edit is then not accounted for and
  is prepared again of itself, which AMR-04's fix says cannot happen
  (`docs/checks.md:1768`).
- *A Reset is lost.* A request made while a Reset waits takes it along as its
  candidate's `fresh`; if that preparation fails, or an edit supersedes it,
  nothing starts from zero (RT-13 of the 2026-10-20 review, not yet fixed).
- *A snapshot ahead of its clock.* `receive_canonical_snapshot` compares a
  snapshot's step with `display.clock` and does not ask which generation's clock
  that is (`canonical_gpu.rs:6236-6239`). After an install it is the discarded
  run's, and a snapshot of the new run is decoded before any copy of it; it is
  painted, and a copy of an earlier step is painted after it. The comments at
  `canonical_gpu.rs:6216` and `:6407` say it waits. It lasts a frame.
- *A link left behind.* A page hidden or left while an edit waits for the
  debounce stores the edit, and moves the link only if the scene still fits in
  it; the frame's write would have taken an outgrown link out of the address
  (`follow_link`), the flush leaves it (`session.rs:49-52`). The reload opens the
  old link ahead of the newer autosave and then writes over it, which is what
  `refresh_link`'s comment says the link's following is for
  (`session.rs:463-465`).

A stale comment only, which no run is about: the header of `paced_readback.rs`
(lines 14-15) has the staging buffer of a failed map returned to the pool. The
code drops it and destroys it, as its own comment says (`discard`, 202-210,
called by `deliver_copies`), and so does the model.

## Running

    tlc -config GenerationProtocol.cfg GenerationInvariant.tla
    tlc -config DeviceEncoding.cfg DeviceInvariant.tla
    tlapm GenerationProtocol_proofs.tla
    tlapm GenerationOrder_proofs.tla

with the module of each configuration as named in `PROJECT.json`. `settling`
turns deadlock checking off, since `settle` returns.

## Not modelled

Most of the repository is sequential computation on floating point or
geometry, or drawing, where a model checker has no order of events to explore:

- *Meshing, topology, the wave solver and its transfer* are numerical: what they
  promise is about real numbers, and their tests compare fields.
- *The adaptive meshing controller* follows measured errors and budgets. What it
  asks of the runtime is the protocol's `adapt` and the preparation's `Adapt`;
  its worker has the shape of the one modelled.
- *Pacing* is a controller over measured times: rates, not states.
- *The editor and its history* are geometric edits over a document and a stack of
  whole documents, in one thread, held by unit tests. To the rest of the system
  an undo is an edit.
- *Formats* are data, held by round-trip tests; *capture* is platform encoders
  behind a flag and a queue of frames; *panels and painting* keep no protocol.

Of the modelled parts these are left out: an install's initial event, recorders,
overlays, the fence on steps in flight, several steps in a frame and what the
buffers hold (device); what a job computes, the forced rebuild and a mesh's
options (preparation); the integrated field's stream (picture); the guide's
marker, file events, undo and recording that `session.rs` also holds (session).

Not proved, and left to TLC: liveness, and with it the fairness that
`PreparationPromise` asks of the preparation.
