-------------------------- MODULE PreparationWorker --------------------------
(***************************************************************************)
(* The preparation of candidates by a worker thread: TopologyRuntime of    *)
(* crates/funfern-app/src/topology_runtime.rs, the worker's two ends in    *)
(* ui/workers.rs, and the part of a frame of ui/runtime.rs that asks,      *)
(* hands the job over, listens, and carries what is ready to the device.   *)
(*                                                                         *)
(* The host's thread and the worker's run side by side and share two       *)
(* channels.  The host's frame asks, listens until its channel is empty,   *)
(* and hands over and carries: steps between which the worker may end a    *)
(* job, or die.  A panic in a job kills the worker; the host goes on with  *)
(* another, or without, advancing its jobs itself.  What the worker tells  *)
(* of its progress is left out, as no decision reads it, and of the jobs   *)
(* that wait for the worker only the newest is kept, as it alone is taken. *)
(***************************************************************************)
EXTENDS Integers, Sequences, Decisions

CONSTANTS
  Acts,        \* Bound: what the user and adaptation do.
  Deaths       \* Bound: the workers that die.

ASSUME ActsAssumption == Acts \in Nat /\ Deaths \in Nat

\* A request, named by the document's revision and a mesh revision of its own.
Token == [revision : Nat, mesh : Nat]

ASSUME TokenAssumption == None \notin Nat \cup Token

Option(S) == S \cup {None}

VARIABLES
  coordinator, \* The document's revision, and what the frame loop keeps.
  runtime,     \* TopologyRuntime.
  worker,      \* The host's end of the worker: whether held, and its token.
  thread,      \* The worker's thread, the job in its hands and its channels.
  frame,       \* Where the host's frame is.
  asked,       \* History: the requests made since something asked for one.
  acts,        \* What the user and adaptation have done.
  deaths       \* The workers that have died.

vars == <<coordinator, runtime, worker, thread, frame, asked, acts, deaths>>

Ends == [token : Token, ok : BOOLEAN]

Coordinator ==
  [revision : Nat, requested_revision : Option(Nat), remesh : BOOLEAN,
   reset : BOOLEAN, drop : BOOLEAN,
   carrying : {"nothing", "packing", "patching", "uploading"}]

Runtime ==
  [active : Option(Token), preparing : Option(Token), ready : Option(Token),
   requested : Option(Token), adaptation : BOOLEAN, last_error : Option(Token),
   next : Nat]

Thread ==
  [alive : BOOLEAN, job : Option(Token), waiting : Option(Token),
   events : Seq(Ends)]

\* What a frame works on.
States ==
  [coordinator : Coordinator, runtime : Runtime,
   worker : [held : BOOLEAN, token : Option(Token)], thread : Thread,
   asked : Nat]

State == [coordinator |-> coordinator, runtime |-> runtime, worker |-> worker,
          thread |-> thread, asked |-> asked]

Become(s) == /\ coordinator' = s.coordinator
             /\ runtime' = s.runtime
             /\ worker' = s.worker
             /\ thread' = s.thread
             /\ asked' = s.asked

TypeOK ==
  /\ State \in States
  /\ frame \in {"begin", "listen", "end"}
  /\ acts \in 0..Acts /\ deaths \in 0..Deaths

OnRuntime(s, r) == [s EXCEPT !.runtime = r]

OnCoordinator(s, c) == [s EXCEPT !.coordinator = c]

-----------------------------------------------------------------------------
(* TopologyRuntime. *)

NoTopology ==
  [active |-> None, preparing |-> None, ready |-> None, requested |-> None,
   adaptation |-> FALSE, last_error |-> None, next |-> 1]

RevisionOf(token) == IF token = None THEN None ELSE token.revision

\* A number of its own.  An adapted mesh has one from when it began to be made;
\* here it is numbered with its request, as the code only asks for equality.
Reserved(r, revision) == [revision |-> revision, mesh |-> r.next]

\* request_with_handoff, its job created.
RequestMade(r, token) ==
  [r EXCEPT !.next = @ + 1, !.preparing = token, !.ready = None,
            !.requested = token, !.adaptation = FALSE, !.last_error = None]

\* request_with_handoff, its job not created.
RequestRefused(r, token) ==
  [r EXCEPT !.next = @ + 1, !.preparing = None, !.ready = None,
            !.requested = token, !.adaptation = FALSE, !.last_error = token]

\* request_adapted: what runs, on another mesh.
AdaptedRequest(r, token) ==
  [r EXCEPT !.next = @ + 1, !.preparing = token, !.ready = None,
            !.requested = token, !.adaptation = TRUE,
            !.last_error = IF RevisionOf(@) = token.revision THEN None ELSE @]

\* Mutated: a result is not asked whether it is of the latest request.
SettledAnyhow(r, end) ==
  IF end.ok THEN [r EXCEPT !.ready = end.token]
  ELSE [r EXCEPT !.last_error = end.token]

\* settle: a result of any but the latest request is let go.
Settled(r, end) ==
  IF end.token # r.requested THEN r
  ELSE IF end.ok THEN [r EXCEPT !.ready = end.token]
  ELSE [r EXCEPT !.last_error = end.token]

Cleared(r) == [NoTopology EXCEPT !.next = r.next]

Committed(r) == [r EXCEPT !.ready = None, !.active = r.ready]

Rejected(r) == [r EXCEPT !.ready = None, !.last_error = r.ready]

-----------------------------------------------------------------------------
(* The host's end of the worker. *)

NoThread == [alive |-> FALSE, job |-> None, waiting |-> None, events |-> <<>>]

\* spawn, which fails where no thread is to be had.
Spawned(s) ==
  {[s EXCEPT !.worker = [held |-> up, token |-> None],
             !.thread = [NoThread EXCEPT !.alive = up]] : up \in BOOLEAN}

InProgress(s) ==
  \/ s.runtime.preparing # None
  \/ s.runtime.ready # None
  \/ s.worker.held /\ s.worker.token # None

\* Mutated: the end of any job frees the worker.
ObservedAny(w, end) == [w EXCEPT !.token = None]

\* Mutated: only a job that succeeds frees the worker.
ObservedSuccess(w, end) ==
  IF end.token = w.token /\ end.ok THEN [w EXCEPT !.token = None] ELSE w

\* observe: the end of the job the worker was given last frees it.
Observed(w, end) == IF end.token = w.token THEN [w EXCEPT !.token = None] ELSE w

Heard(s, end) ==
  [s EXCEPT !.worker = Observed(@, end), !.runtime = Settled(@, end),
            !.thread = [@ EXCEPT !.events = Tail(s.thread.events)]]

\* Mutated: a channel with nobody at its other end reads as an empty one.
StoppedUnseen(s) == {s}

\* A stopped worker fails the job it held and is replaced.
Stopped(s) ==
  IF ~s.worker.held \/ s.thread.alive THEN {s}
  ELSE Spawned(IF s.worker.token = None THEN s
               ELSE OnRuntime(s, Settled(s.runtime, [token |-> s.worker.token,
                                                     ok |-> FALSE])))

\* Mutated: a job the dead worker would not take is gone.
SubmittedAway(s) ==
  [s EXCEPT !.runtime = [@ EXCEPT !.preparing = None],
            !.worker = [held |-> s.thread.alive, token |-> s.runtime.preparing],
            !.thread = [@ EXCEPT !.waiting = IF s.thread.alive
                                             THEN s.runtime.preparing ELSE @]]

\* submit: a worker that has died since it was heard is given up, and the job
\* stays with the runtime.
Submitted(s) ==
  IF s.runtime.preparing = None THEN s
  ELSE IF s.worker.held /\ s.thread.alive
  THEN [s EXCEPT !.runtime = [@ EXCEPT !.preparing = None],
                 !.worker = [@ EXCEPT !.token = s.runtime.preparing],
                 !.thread = [@ EXCEPT !.waiting = s.runtime.preparing]]
  ELSE [s EXCEPT !.worker = [held |-> FALSE, token |-> None],
                 !.thread = NoThread]

\* Without a worker a job is advanced a slice of every frame.
Advanced(s) ==
  IF s.worker.held \/ s.runtime.preparing = None THEN {s}
  ELSE {s} \cup {OnRuntime(s, Settled([s.runtime EXCEPT !.preparing = None],
                                      [token |-> s.runtime.preparing, ok |-> ok]))
                   : ok \in BOOLEAN}

-----------------------------------------------------------------------------
(* The frame: the blocks of refresh_runtime about requests. *)

DropReplaced(s) ==
  IF ~s.coordinator.drop THEN s
  ELSE [s EXCEPT !.runtime = Cleared(@),
                 !.coordinator = [@ EXCEPT !.drop = FALSE, !.carrying = "nothing"]]

Ending(s) == {OnRuntime(s, Committed(s.runtime)), OnRuntime(s, Rejected(s.runtime))}

Carrying(s, way) == OnCoordinator(s, [s.coordinator EXCEPT !.carrying = way])

NotCarrying(S) == {Carrying(s, "nothing") : s \in S}

\* The device has settled the patch it was sent, or has not.
FinishSourceCommit(s) ==
  IF s.coordinator.carrying # "patching" THEN {s}
  ELSE {s} \cup NotCarrying(Ending(s))

Due(s) ==
  RequestDue([acceptance |-> "Valid",
              standing |-> s.coordinator.revision,
              requested |-> s.coordinator.requested_revision,
              sameEdge |-> TRUE,
              remesh |-> s.coordinator.remesh,
              inFlight |-> InProgress(s),
              active |-> RevisionOf(s.runtime.active),
              failed |-> RevisionOf(s.runtime.last_error)])

\* Mutated: a request that failed at once is not written down.
RequestFailedForgotten(c) == c

\* request_failed: a Reset is left to the next request.
RequestFailed(c) == [c EXCEPT !.requested_revision = c.revision]

\* requested: a Reset is spent on the candidate.
RequestStands(c) ==
  [c EXCEPT !.requested_revision = c.revision, !.reset = FALSE]

Asking(s) ==
  LET token == Reserved(s.runtime, s.coordinator.revision)
      c == [s.coordinator EXCEPT !.remesh = FALSE]
  IN  {[s EXCEPT !.runtime = RequestMade(@, token),
                 !.coordinator = RequestStands(c), !.asked = @ + 1],
       [s EXCEPT !.runtime = RequestRefused(@, token),
                 !.coordinator = RequestFailed(c), !.asked = @ + 1]}

RequestRuntime(s) ==
  IF s.coordinator.carrying # "nothing" \/ ~Due(s) THEN {s} ELSE Asking(s)

\* What is ready sets out: it commits in place, goes as a patch or is packed,
\* unless the device is busy or will not have it.
CarryReady(s) ==
  IF s.coordinator.carrying # "nothing" \/ s.runtime.ready = None THEN {s}
  ELSE {s} \cup Ending(s)
         \cup {Carrying(s, "patching"), Carrying(s, "packing")}

\* The pack is done and begins its upload, or will not do.
BeginUpload(s) ==
  IF s.coordinator.carrying # "packing" THEN {s}
  ELSE {s, Carrying(s, "uploading")}
         \cup NotCarrying({OnRuntime(s, Rejected(s.runtime))})

\* The upload publishes, is refused or withdrawn, or goes on.
SettleTheUpload(s) ==
  IF s.coordinator.carrying # "uploading" THEN {s}
  ELSE {s} \cup NotCarrying(Ending(s))

\* Mutated: a Reset whose plan cannot be compiled stays latched.
ResetAppliedOrLatched(c) ==
  {c, [c EXCEPT !.reset = FALSE,
                !.carrying = IF @ = "packing" THEN "nothing" ELSE @]}

\* A Reset installs, and lets a pack go, or cannot be compiled.
ResetApplied(c) ==
  {[c EXCEPT !.reset = FALSE],
   [c EXCEPT !.reset = FALSE,
             !.carrying = IF @ = "packing" THEN "nothing" ELSE @]}

ApplyReset(s) ==
  IF \/ ~s.coordinator.reset
     \/ s.coordinator.carrying \in {"patching", "uploading"}
     \/ s.runtime.active = None
  THEN {s}
  ELSE {OnCoordinator(s, c) : c \in ResetApplied(s.coordinator)}

Begin ==
  /\ frame = "begin"
  /\ frame' = "listen"
  /\ \E settled \in FinishSourceCommit(DropReplaced(State)) :
     \E requested \in RequestRuntime(settled) : Become(requested)
  /\ UNCHANGED <<acts, deaths>>

\* drain: the events in their order, and then the end of the channel.
Hear ==
  /\ frame = "listen"
  /\ thread.events # <<>>
  /\ Become(Heard(State, Head(thread.events)))
  /\ UNCHANGED <<frame, acts, deaths>>

HearNothing ==
  /\ frame = "listen"
  /\ thread.events = <<>>
  /\ frame' = "end"
  /\ \E s \in Stopped(State) : Become(s)
  /\ UNCHANGED <<acts, deaths>>

End ==
  /\ frame = "end"
  /\ frame' = "begin"
  /\ \E advanced \in Advanced(Submitted(State)) :
     \E carried \in CarryReady(advanced) :
     \E begun \in BeginUpload(carried) :
     \E settled \in SettleTheUpload(begun) :
     \E reset \in ApplyReset(settled) : Become(reset)
  /\ UNCHANGED <<acts, deaths>>

-----------------------------------------------------------------------------
(* The worker's thread. *)

\* recv and try_recv: the newest of the jobs that wait takes the place of the
\* one in hand.
TakeNewest ==
  /\ thread.alive /\ thread.waiting # None
  /\ thread' = [thread EXCEPT !.job = thread.waiting, !.waiting = None]
  /\ UNCHANGED <<coordinator, runtime, worker, frame, asked, acts, deaths>>

Finish ==
  /\ thread.alive /\ thread.job # None
  /\ \E ok \in BOOLEAN :
       thread' = [thread EXCEPT !.job = None,
                    !.events = Append(@, [token |-> thread.job, ok |-> ok])]
  /\ UNCHANGED <<coordinator, runtime, worker, frame, asked, acts, deaths>>

\* A panic in a job: both ends of both channels go, and what waits in them for
\* the worker.
Die ==
  /\ deaths < Deaths
  /\ thread.alive /\ thread.job # None
  /\ thread' = [thread EXCEPT !.alive = FALSE, !.job = None, !.waiting = None]
  /\ deaths' = deaths + 1
  /\ UNCHANGED <<coordinator, runtime, worker, frame, asked, acts>>

-----------------------------------------------------------------------------
(* The user and adaptation, between the host's frames. *)

Acting ==
  /\ frame = "begin" /\ acts < Acts
  /\ acts' = acts + 1
  /\ UNCHANGED <<worker, thread, frame, deaths>>

Edit ==
  /\ Acting
  /\ coordinator' = [coordinator EXCEPT !.revision = @ + 1]
  /\ asked' = 0
  /\ UNCHANGED runtime

ReplaceScene ==
  /\ Acting
  /\ coordinator' = [coordinator EXCEPT !.revision = @ + 1, !.drop = TRUE,
                                        !.requested_revision = None]
  /\ asked' = 0
  /\ UNCHANGED runtime

Remesh ==
  /\ Acting
  /\ coordinator' = [coordinator EXCEPT !.remesh = TRUE]
  /\ asked' = 0
  /\ UNCHANGED runtime

Reset ==
  /\ Acting
  /\ coordinator' = [coordinator EXCEPT !.reset = TRUE]
  /\ UNCHANGED <<runtime, asked>>

\* refresh_amr hands an adapted mesh over; what comes of it may take the place
\* of an edit's failure, which is then asked for again.
Adapt ==
  /\ Acting
  /\ runtime.active # None
  /\ coordinator.carrying = "nothing" /\ ~InProgress(State)
  /\ runtime' = AdaptedRequest(runtime, Reserved(runtime, runtime.active.revision))
  /\ asked' = 0
  /\ UNCHANGED coordinator

-----------------------------------------------------------------------------
Init ==
  /\ coordinator = [revision |-> 1, requested_revision |-> None,
                    remesh |-> FALSE, reset |-> FALSE, drop |-> TRUE,
                    carrying |-> "nothing"]
  /\ runtime = NoTopology
  /\ worker \in [held : BOOLEAN, token : {None}]
  /\ thread = [NoThread EXCEPT !.alive = worker.held]
  /\ frame = "begin"
  /\ asked = 0 /\ acts = 0 /\ deaths = 0

Next ==
  \/ Begin \/ Hear \/ HearNothing \/ End
  \/ TakeNewest \/ Finish \/ Die
  \/ Edit \/ ReplaceScene \/ Remesh \/ Reset \/ Adapt

\* A job advanced frame after frame is done.
HostAdvances ==
  End /\ runtime.preparing # None /\ ~worker'.held /\ runtime'.preparing = None

\* The device settles what it is sent (GenerationProtocol's ComesToRest).
DeviceSettles == (Begin \/ End) /\ runtime.ready # None /\ runtime'.ready = None

Fairness ==
  /\ WF_vars(Begin) /\ WF_vars(Hear) /\ WF_vars(HearNothing) /\ WF_vars(End)
  /\ WF_vars(TakeNewest) /\ WF_vars(Finish)
  /\ SF_vars(HostAdvances) /\ SF_vars(DeviceSettles)

Spec == Init /\ [][Next]_vars /\ Fairness

-----------------------------------------------------------------------------
(* Properties. *)

\* What has become of the latest request.
Outcome(r) ==
  IF r.requested = None THEN "none"
  ELSE IF r.requested = r.ready THEN "ready"
  ELSE IF r.requested = r.active THEN "running"
  ELSE IF r.requested = r.last_error THEN "failed"
  ELSE "preparing"

Promise == INSTANCE PreparationPromise
             WITH requested <- runtime.requested, outcome <- Outcome(runtime),
                  next <- runtime.next

\* The runtime, its worker and their channels do what TopologyRuntime promises:
\* whatever is lost, late or dead, the latest request alone is settled, once,
\* and it is, and is carried.
KeepsThePromise == Promise!PromiseSpec

\* The worker has the job, or will come to it before any other.
InHand(th, token) ==
  IF th.waiting = None THEN th.job = token ELSE th.waiting = token

\* The end of the job is on its way.
Answered(th, token) == \E i \in DOMAIN th.events : th.events[i].token = token

\* What ends the job the worker was given last, its death included.
AnswerIsComing(s) ==
  \/ InHand(s.thread, s.worker.token)
  \/ Answered(s.thread, s.worker.token)
  \/ ~s.thread.alive

Held(s) ==
  Outcome(s.runtime) = "preparing" =>
    \/ s.runtime.preparing = s.runtime.requested
    \/ /\ s.worker.held /\ s.worker.token = s.runtime.requested
       /\ AnswerIsComing(s)

Owed(s) == s.worker.token # None => AnswerIsComing(s)

\* A request that nothing has become of is somewhere: with the runtime, on its
\* way to the worker or in its hands, in an answer not yet heard, or with a
\* worker whose death is still to be heard and will fail it (RT-8).
RequestIsHeld == Held(State)

\* A preparation shown in progress, which keeps a new request from being made
\* for the same document, has something that will end it.
WorkerOwesAnAnswer == Owed(State)

\* What the user or adaptation did is asked for once, be it prepared, refused
\* when its job is created, or failed by a worker that died (RT-7).
AskedOnce == asked <= 1

\* A Reset of something that runs installs or is refused, and does not stay
\* latched for a later edit (RT-6).
ResetIsAnswered ==
  (coordinator.reset /\ runtime.active # None)
    ~> (~coordinator.reset \/ runtime.active = None)

AtRest == ~InProgress(State) /\ ~Due(State) /\ ~coordinator.drop

\* Once nobody acts, nothing is prepared or asked for: no death of a worker
\* leaves a preparation in progress for ever (RT-8).
ComesToRest == <>[]AtRest

-----------------------------------------------------------------------------
(* The inductive invariant. *)

Made(r, token) == token # None => token.mesh < r.next

\* Every token was named by a request.
TokensAreMade(s) ==
  /\ \A token \in {s.runtime.active, s.runtime.preparing, s.runtime.ready,
                   s.runtime.requested, s.runtime.last_error, s.worker.token,
                   s.thread.job, s.thread.waiting} : Made(s.runtime, token)
  /\ \A i \in DOMAIN s.thread.events : Made(s.runtime, s.thread.events[i].token)

Before(token, later) == (token # None /\ later # None) => token.mesh < later.mesh

\* The worker has its jobs in the order they were asked for, each once, and
\* the one still with the runtime is newer than all of them.
JobsInOrder(s) ==
  LET th == s.thread
      newest == s.runtime.preparing
  IN  /\ Before(th.job, th.waiting)
      /\ Before(th.job, newest) /\ Before(th.waiting, newest)
      /\ Before(s.worker.token, newest)
      /\ \A i \in DOMAIN th.events :
           /\ Before(th.events[i].token, th.job)
           /\ Before(th.events[i].token, th.waiting)
           /\ Before(th.events[i].token, newest)
           /\ \A j \in 1..(i - 1) : Before(th.events[j].token, th.events[i].token)

WithWorker(s, token) ==
  \/ s.worker.token = token
  \/ s.thread.job = token \/ s.thread.waiting = token
  \/ Answered(s.thread, token)

\* What is prepared or ready is the latest request, of which nothing else has
\* become; nothing stands for a scene that went.
LatestAlone(s) ==
  LET r == s.runtime
  IN  /\ r.preparing # None => r.preparing = r.requested
      /\ r.ready # None => r.ready = r.requested /\ r.ready # r.active
      /\ r.requested = None => r.active = None /\ r.last_error = None
      /\ (r.requested # None
            /\ (r.preparing = r.requested \/ WithWorker(s, r.requested))) =>
           Outcome(r) = "preparing"
      /\ s.coordinator.carrying # "nothing" => r.ready # None

\* No thread without its host's end, and a dead one has no job.
HostHoldsWorker(s) ==
  /\ s.thread.alive => s.worker.held
  /\ ~s.thread.alive => s.thread.job = None /\ s.thread.waiting = None
  /\ ~s.worker.held => s.worker.token = None /\ s.thread.events = <<>>

\* The request asked for stands for the document.
AskStands(s) ==
  s.asked # 0 =>
    /\ s.asked = 1
    /\ ~s.coordinator.drop /\ ~s.coordinator.remesh
    /\ s.coordinator.requested_revision = s.coordinator.revision
    /\ s.runtime.requested # None
    /\ s.runtime.requested.revision = s.coordinator.revision

Inv(s) ==
  /\ s \in States
  /\ TokensAreMade(s) /\ JobsInOrder(s) /\ LatestAlone(s)
  /\ HostHoldsWorker(s) /\ AskStands(s) /\ Held(s) /\ Owed(s)

PreparationInvariant == TypeOK /\ Inv(State)
=============================================================================
