----------------------- MODULE PreparationWorker_proofs -----------------------
(***************************************************************************)
(* That PreparationInvariant holds of every behaviour of PreparationWorker,*)
(* whatever the user does and however many workers die, and what follows.  *)
(***************************************************************************)
EXTENDS PreparationWorker, TLAPS

-----------------------------------------------------------------------------
(* Tokens and the parts of a state.                                         *)

LEMMA NoneIsNone ==
  /\ None \notin Token /\ None \notin Nat
  /\ \A token \in Token : token.revision \in Nat /\ token.mesh \in Nat
BY TokenAssumption DEF Token

\* The fields of a state have their types.
LEMMA Parts ==
    ASSUME NEW s \in States
    PROVE  /\ s.coordinator \in Coordinator /\ s.runtime \in Runtime
           /\ s.worker \in [held : BOOLEAN, token : Option(Token)]
           /\ s.thread \in Thread /\ s.asked \in Nat
BY DEF States

LEMMA RuntimeParts ==
    ASSUME NEW r \in Runtime
    PROVE  /\ r.active \in Option(Token) /\ r.preparing \in Option(Token)
           /\ r.ready \in Option(Token) /\ r.requested \in Option(Token)
           /\ r.last_error \in Option(Token) /\ r.adaptation \in BOOLEAN
           /\ r.next \in Nat
BY DEF Runtime

LEMMA CoordinatorParts ==
    ASSUME NEW c \in Coordinator
    PROVE  /\ c.revision \in Nat /\ c.requested_revision \in Option(Nat)
           /\ c.remesh \in BOOLEAN /\ c.reset \in BOOLEAN /\ c.drop \in BOOLEAN
           /\ c.carrying \in {"nothing", "packing", "patching", "uploading"}
BY DEF Coordinator

LEMMA ThreadParts ==
    ASSUME NEW th \in Thread
    PROVE  /\ th.alive \in BOOLEAN /\ th.job \in Option(Token)
           /\ th.waiting \in Option(Token) /\ th.events \in Seq(Ends)
           /\ Len(th.events) \in Nat /\ DOMAIN th.events = 1..Len(th.events)
           /\ \A i \in DOMAIN th.events : /\ th.events[i] \in Ends
                                          /\ th.events[i].token \in Token
                                          /\ th.events[i].ok \in BOOLEAN
<1>1. th.alive \in BOOLEAN /\ th.job \in Option(Token)
      /\ th.waiting \in Option(Token) /\ th.events \in Seq(Ends)
  BY DEF Thread
<1>2. Len(th.events) \in Nat /\ DOMAIN th.events = 1..Len(th.events)
  BY <1>1
<1>3. \A i \in DOMAIN th.events : th.events[i] \in Ends
  BY <1>1, <1>2
<1> QED
  BY <1>1, <1>2, <1>3 DEF Ends

\* A state with another of its parts.
LEMMA OtherParts ==
    ASSUME NEW s \in States, NEW r \in Runtime, NEW c \in Coordinator,
           NEW w \in [held : BOOLEAN, token : Option(Token)], NEW th \in Thread,
           NEW n \in Nat,
           NEW t, t = [coordinator |-> c, runtime |-> r, worker |-> w,
                       thread |-> th, asked |-> n]
    PROVE  t \in States
BY DEF States

\* A thread that has nothing yet, or is none.
LEMMA ThreadIs ==
    /\ \A up \in BOOLEAN :
         [NoThread EXCEPT !.alive = up]
           = [alive |-> up, job |-> None, waiting |-> None, events |-> <<>>]
    /\ NoThread = [NoThread EXCEPT !.alive = FALSE]
<1>1. \A up \in BOOLEAN :
        [NoThread EXCEPT !.alive = up]
          = [alive |-> up, job |-> None, waiting |-> None, events |-> <<>>]
  BY DEF NoThread
<1>2. NoThread = [alive |-> FALSE, job |-> None, waiting |-> None, events |-> <<>>]
  BY DEF NoThread
<1> QED
  BY <1>1, <1>2

LEMMA OnRuntimeIs ==
    ASSUME NEW s \in States, NEW r \in Runtime
    PROVE  LET t == OnRuntime(s, r)
           IN  /\ t.coordinator = s.coordinator /\ t.runtime = r
               /\ t.worker = s.worker /\ t.thread = s.thread
               /\ t.asked = s.asked /\ t \in States
<1> DEFINE t == OnRuntime(s, r)
<1>1. t = [coordinator |-> s.coordinator, runtime |-> r, worker |-> s.worker,
           thread |-> s.thread, asked |-> s.asked]
  BY DEF States, OnRuntime
<1> QED
  BY <1>1, Parts, OtherParts

LEMMA OnCoordinatorIs ==
    ASSUME NEW s \in States, NEW c \in Coordinator
    PROVE  LET t == OnCoordinator(s, c)
           IN  /\ t.coordinator = c /\ t.runtime = s.runtime
               /\ t.worker = s.worker /\ t.thread = s.thread
               /\ t.asked = s.asked /\ t \in States
<1> DEFINE t == OnCoordinator(s, c)
<1>1. t = [coordinator |-> c, runtime |-> s.runtime, worker |-> s.worker,
           thread |-> s.thread, asked |-> s.asked]
  BY DEF States, OnCoordinator
<1> QED
  BY <1>1, Parts, OtherParts

LEMMA CarryingIs ==
    ASSUME NEW s \in States,
           NEW way \in {"nothing", "packing", "patching", "uploading"}
    PROVE  LET t == Carrying(s, way)
           IN  /\ t.coordinator.carrying = way
               /\ t.coordinator.revision = s.coordinator.revision
               /\ t.coordinator.requested_revision = s.coordinator.requested_revision
               /\ t.coordinator.remesh = s.coordinator.remesh
               /\ t.coordinator.drop = s.coordinator.drop
               /\ t.runtime = s.runtime
               /\ t.worker = s.worker /\ t.thread = s.thread
               /\ t.asked = s.asked /\ t \in States
<1> DEFINE t == Carrying(s, way)
<1>1. [s.coordinator EXCEPT !.carrying = way] \in Coordinator
  BY Parts, CoordinatorParts DEF Coordinator
<1>2. t.coordinator = [s.coordinator EXCEPT !.carrying = way]
  BY <1>1, OnCoordinatorIs DEF Carrying
<1>3. /\ t.coordinator.carrying = way
      /\ t.coordinator.revision = s.coordinator.revision
      /\ t.coordinator.requested_revision = s.coordinator.requested_revision
      /\ t.coordinator.remesh = s.coordinator.remesh
      /\ t.coordinator.drop = s.coordinator.drop
  BY <1>2, Parts DEF Coordinator
<1> QED
  BY <1>1, <1>2, <1>3, OnCoordinatorIs DEF Carrying

LEMMA EndedIsRuntime ==
    ASSUME NEW r \in Runtime
    PROVE  Committed(r) \in Runtime /\ Rejected(r) \in Runtime
BY RuntimeParts DEF Committed, Rejected, Runtime, Option

LEMMA SettledIsRuntime ==
    ASSUME NEW r \in Runtime, NEW end \in Ends
    PROVE  Settled(r, end) \in Runtime
BY RuntimeParts DEF Settled, Runtime, Ends, Option

-----------------------------------------------------------------------------
(* The blocks of a frame keep the invariant.                                *)

LEMMA DropKeeps ==
    ASSUME NEW s, Inv(s)
    PROVE  Inv(DropReplaced(s)) /\ ~DropReplaced(s).coordinator.drop
<1> DEFINE t == DropReplaced(s)
<1>1. CASE ~s.coordinator.drop
  BY <1>1 DEF DropReplaced
<1>2. CASE s.coordinator.drop
  <2> DEFINE c == [s.coordinator EXCEPT !.drop = FALSE, !.carrying = "nothing"]
  <2>a. t = [coordinator |-> c, runtime |-> Cleared(s.runtime),
             worker |-> s.worker, thread |-> s.thread, asked |-> s.asked]
    BY <1>2 DEF DropReplaced, Inv, States
  <2>b. c \in Coordinator
    BY Parts, CoordinatorParts DEF Coordinator, Inv
  <2>c. Cleared(s.runtime) \in Runtime
    BY Parts, RuntimeParts DEF Cleared, NoTopology, Runtime, Option, Inv
  <2>0. /\ t.runtime = Cleared(s.runtime) /\ t.worker = s.worker
        /\ t.thread = s.thread /\ t.asked = s.asked /\ t.coordinator = c
        /\ t \in States
    BY <2>a, <2>b, <2>c, Parts, OtherParts DEF Inv
  <2>1. s.asked = 0
    BY <1>2, Parts, CoordinatorParts DEF Inv, AskStands
  <2>2. TokensAreMade(t)
    BY <2>0, Parts, RuntimeParts DEF Inv, TokensAreMade, Made, Cleared, NoTopology
  <2>3. LatestAlone(t) /\ Held(t) /\ Owed(t)
    BY <2>0, Parts, CoordinatorParts
       DEF Inv, LatestAlone, Outcome, Cleared, NoTopology, Held, Owed, AnswerIsComing
  <2>4. HostHoldsWorker(t) /\ AskStands(t)
    BY <2>0, <2>1 DEF Inv, HostHoldsWorker, AskStands
  <2>5. JobsInOrder(t)
    BY <2>0 DEF Inv, JobsInOrder, Before, Cleared, NoTopology
  <2> QED
    BY <2>0, <2>2, <2>3, <2>4, <2>5, Parts, CoordinatorParts DEF Inv
<1> QED
  BY <1>1, <1>2

\* What becomes of a candidate that is ready.
LEMMA EndingKeeps ==
    ASSUME NEW s, Inv(s), s.runtime.ready # None,
           NEW r \in {Committed(s.runtime), Rejected(s.runtime)}
    PROVE  Inv(Carrying(OnRuntime(s, r), "nothing"))
<1> DEFINE u == OnRuntime(s, r)
<1> DEFINE t == Carrying(u, "nothing")
<1>a. s \in States /\ r \in Runtime
  BY Parts, EndedIsRuntime DEF Inv
<1>b. /\ u.coordinator = s.coordinator /\ u.runtime = r /\ u.worker = s.worker
      /\ u.thread = s.thread /\ u.asked = s.asked /\ u \in States
  BY <1>a, OnRuntimeIs
<1>0. /\ t.runtime = r /\ t.worker = s.worker
      /\ t.thread = s.thread /\ t.asked = s.asked /\ t \in States
      /\ t.coordinator.carrying = "nothing"
      /\ t.coordinator.revision = s.coordinator.revision
      /\ t.coordinator.requested_revision = s.coordinator.requested_revision
      /\ t.coordinator.remesh = s.coordinator.remesh
      /\ t.coordinator.drop = s.coordinator.drop
  <2> HIDE DEF u
  <2> QED BY <1>b, CarryingIs
<1>1. /\ r.preparing = s.runtime.preparing /\ r.ready = None
      /\ r.requested = s.runtime.requested /\ r.next = s.runtime.next
      /\ \/ r.active = s.runtime.ready /\ r.last_error = s.runtime.last_error
         \/ r.active = s.runtime.active /\ r.last_error = s.runtime.ready
  BY Parts, RuntimeParts DEF Inv, Committed, Rejected, Runtime
<1>2. s.runtime.ready = s.runtime.requested /\ s.runtime.requested # None
      /\ Outcome(s.runtime) = "ready"
  BY DEF Inv, LatestAlone, Outcome
<1>3. ~WithWorker(s, s.runtime.requested) /\ s.runtime.preparing = None
  BY <1>2 DEF Inv, LatestAlone
<1>4. Outcome(r) # "preparing" /\ Outcome(r) # "none"
  BY <1>1, <1>2 DEF Outcome
<1>5. TokensAreMade(t)
  BY <1>0, <1>1 DEF Inv, TokensAreMade, Made
<1>6. LatestAlone(t)
  BY <1>0, <1>1, <1>2, <1>3 DEF LatestAlone, Inv, WithWorker
<1>7. Held(t) /\ Owed(t)
  BY <1>0, <1>4 DEF Inv, Held, Owed, AnswerIsComing
<1>8. JobsInOrder(t) /\ HostHoldsWorker(t) /\ AskStands(t)
  BY <1>0, <1>1 DEF Inv, JobsInOrder, HostHoldsWorker, AskStands
<1> QED
  BY <1>0, <1>5, <1>6, <1>7, <1>8 DEF Inv
\* On its way to the device the candidate stays ready.
LEMMA CarryingKeeps ==
    ASSUME NEW s, Inv(s), s.runtime.ready # None,
           NEW way \in {"packing", "patching", "uploading"}
    PROVE  Inv(Carrying(s, way))
<1> DEFINE t == Carrying(s, way)
<1>0. /\ t.runtime = s.runtime /\ t.worker = s.worker
      /\ t.thread = s.thread /\ t.asked = s.asked /\ t \in States
      /\ t.coordinator.carrying = way
      /\ t.coordinator.revision = s.coordinator.revision
      /\ t.coordinator.requested_revision = s.coordinator.requested_revision
      /\ t.coordinator.remesh = s.coordinator.remesh
      /\ t.coordinator.drop = s.coordinator.drop
  BY CarryingIs DEF Inv
<1>1. LatestAlone(t)
  BY <1>0 DEF Inv, LatestAlone, WithWorker
<1>2. AskStands(t)
  BY <1>0 DEF Inv, AskStands
<1>3. Held(t) /\ Owed(t) /\ TokensAreMade(t) /\ HostHoldsWorker(t) /\ JobsInOrder(t)
  BY <1>0 DEF Inv, Held, Owed, AnswerIsComing, TokensAreMade, HostHoldsWorker, JobsInOrder
<1> QED
  BY <1>0, <1>1, <1>2, <1>3 DEF Inv

\* Nothing is carried, or a Reset is answered.
LEMMA IdleKeeps ==
    ASSUME NEW s, Inv(s), NEW c \in Coordinator,
           c.revision = s.coordinator.revision,
           c.requested_revision = s.coordinator.requested_revision,
           c.remesh = s.coordinator.remesh, c.drop = s.coordinator.drop,
           c.carrying \in {"nothing", s.coordinator.carrying}
    PROVE  Inv(OnCoordinator(s, c))
<1> DEFINE t == OnCoordinator(s, c)
<1>0. /\ t.runtime = s.runtime /\ t.worker = s.worker
      /\ t.thread = s.thread /\ t.asked = s.asked /\ t.coordinator = c
      /\ t \in States
  BY OnCoordinatorIs DEF Inv
<1>1. LatestAlone(t)
  BY <1>0 DEF Inv, LatestAlone, WithWorker
<1>2. AskStands(t)
  BY <1>0 DEF Inv, AskStands
<1>3. Held(t) /\ Owed(t) /\ TokensAreMade(t) /\ HostHoldsWorker(t) /\ JobsInOrder(t)
  BY <1>0 DEF Inv, Held, Owed, AnswerIsComing, TokensAreMade, HostHoldsWorker, JobsInOrder
<1> QED
  BY <1>0, <1>1, <1>2, <1>3 DEF Inv

LEMMA FinishSourceCommitKeeps ==
    ASSUME NEW s, Inv(s), NEW t \in FinishSourceCommit(s)
    PROVE  Inv(t) /\ t.coordinator.drop = s.coordinator.drop
<1>1. CASE t = s
  BY <1>1
<1>2. CASE t # s
  <2>1. s.coordinator.carrying = "patching"
        /\ \E r \in {Committed(s.runtime), Rejected(s.runtime)} :
             t = Carrying(OnRuntime(s, r), "nothing")
    BY <1>2 DEF FinishSourceCommit, NotCarrying, Ending
  <2>2. PICK r \in {Committed(s.runtime), Rejected(s.runtime)} :
          t = Carrying(OnRuntime(s, r), "nothing")
    BY <2>1
  <2>3. s.runtime.ready # None
    BY <2>1 DEF Inv, LatestAlone
  <2>4. Inv(t)
    BY <2>2, <2>3, EndingKeeps
  <2>5. s \in States /\ r \in Runtime
    BY Parts, EndedIsRuntime DEF Inv
  <2> DEFINE u == OnRuntime(s, r)
  <2>6. u \in States /\ u.coordinator = s.coordinator
    BY <2>5, OnRuntimeIs
  <2> HIDE DEF u
  <2>7. t.coordinator.drop = s.coordinator.drop
    BY <2>2, <2>6, CarryingIs DEF u
  <2> QED
    BY <2>4, <2>7
<1> QED
  BY <1>1, <1>2

\* The document that was asked for is accounted for.
LEMMA AskedIsAccounted ==
    ASSUME NEW s, Inv(s), s.asked # 0
    PROVE  ~Due(s)
<1> DEFINE r == s.runtime
<1>1. /\ s.coordinator.requested_revision = s.coordinator.revision
      /\ ~s.coordinator.remesh /\ r.requested # None
      /\ r.requested.revision = s.coordinator.revision
      /\ s.coordinator.revision \in Nat
  BY Parts, CoordinatorParts DEF Inv, AskStands
<1>2. \/ InProgress(s)
      \/ RevisionOf(r.active) = s.coordinator.revision
      \/ RevisionOf(r.last_error) = s.coordinator.revision
  <2>1. CASE Outcome(r) = "preparing"
    BY <2>1, <1>1 DEF Inv, Held, InProgress
  <2>2. CASE Outcome(r) # "preparing"
    BY <2>2, <1>1 DEF Outcome, InProgress, RevisionOf
  <2> QED
    BY <2>1, <2>2
<1>3. s.coordinator.revision # None
  BY <1>1, NoneIsNone
<1> QED
  BY <1>1, <1>2, <1>3 DEF Due, RequestDue, Accounted

\* A new request's token is none that was made before it.
LEMMA ReservedIsNew ==
    ASSUME NEW s, Inv(s), NEW revision \in Nat
    PROVE  LET token == Reserved(s.runtime, revision)
           IN  /\ token \in Token /\ token # None
               /\ token.revision = revision /\ token.mesh = s.runtime.next
               /\ token \notin {s.runtime.active, s.runtime.preparing,
                                s.runtime.ready, s.runtime.requested,
                                s.runtime.last_error}
               /\ ~WithWorker(s, token)
               /\ \A old \in {s.worker.token, s.thread.job, s.thread.waiting} :
                    Before(old, token)
               /\ \A i \in DOMAIN s.thread.events :
                    Before(s.thread.events[i].token, token)
<1> DEFINE token == Reserved(s.runtime, revision)
<1>1. s.runtime.next \in Nat
  BY Parts, RuntimeParts DEF Inv
<1>2. token \in Token /\ token # None /\ token.revision = revision
      /\ token.mesh = s.runtime.next
  BY <1>1, NoneIsNone DEF Reserved, Token
<1> HIDE DEF token
<1>3. \A i \in DOMAIN s.thread.events :
        s.thread.events[i].token.mesh < s.runtime.next
  BY Parts, ThreadParts, NoneIsNone DEF Inv, TokensAreMade, Made
<1>4. \A old \in {s.runtime.active, s.runtime.preparing, s.runtime.ready,
                  s.runtime.requested, s.runtime.last_error, s.worker.token,
                  s.thread.job, s.thread.waiting} :
        old # None => old.mesh < s.runtime.next
  BY DEF Inv, TokensAreMade, Made
<1>5. /\ token \notin {s.runtime.active, s.runtime.preparing, s.runtime.ready,
                       s.runtime.requested, s.runtime.last_error, s.worker.token,
                       s.thread.job, s.thread.waiting}
      /\ \A i \in DOMAIN s.thread.events : s.thread.events[i].token # token
  BY <1>1, <1>2, <1>3, <1>4
<1>6. ~WithWorker(s, token)
  BY <1>5 DEF WithWorker, Answered
<1>7. /\ \A old \in {s.worker.token, s.thread.job, s.thread.waiting} :
           Before(old, token)
      /\ \A i \in DOMAIN s.thread.events : Before(s.thread.events[i].token, token)
  BY <1>2, <1>3, <1>4 DEF Before
<1> QED
  BY <1>2, <1>5, <1>6, <1>7 DEF token

\* The document is asked for, and the job is created or not.
LEMMA RequestKeeps ==
    ASSUME NEW s, Inv(s), ~s.coordinator.drop, NEW t \in RequestRuntime(s)
    PROVE  Inv(t)
<1>1. CASE t = s
  BY <1>1
<1>2. CASE t # s
  <2> DEFINE token == Reserved(s.runtime, s.coordinator.revision)
             c == [s.coordinator EXCEPT !.remesh = FALSE]
  <2>1. s.coordinator.carrying = "nothing" /\ Due(s) /\ t \in Asking(s)
    BY <1>2 DEF RequestRuntime
  <2>2. s.asked = 0
    BY <2>1, AskedIsAccounted
  <2>3. s \in States /\ s.coordinator.revision \in Nat
    BY Parts, CoordinatorParts DEF Inv
  <2>4. /\ token \in Token /\ token # None
        /\ token.revision = s.coordinator.revision /\ token.mesh = s.runtime.next
        /\ token \notin {s.runtime.active, s.runtime.preparing, s.runtime.ready,
                         s.runtime.requested, s.runtime.last_error}
        /\ ~WithWorker(s, token)
        /\ \A old \in {s.worker.token, s.thread.job, s.thread.waiting} :
             Before(old, token)
        /\ \A i \in DOMAIN s.thread.events : Before(s.thread.events[i].token, token)
    BY <2>3, ReservedIsNew
  <2>5. \E k \in {RequestStands(c), RequestFailed(c)},
           r \in {RequestMade(s.runtime, token), RequestRefused(s.runtime, token)} :
          t = [s EXCEPT !.runtime = r, !.coordinator = k, !.asked = @ + 1]
    BY <2>1 DEF Asking
  <2> HIDE DEF token
  <2>6. PICK k \in {RequestStands(c), RequestFailed(c)},
             r \in {RequestMade(s.runtime, token), RequestRefused(s.runtime, token)} :
          t = [s EXCEPT !.runtime = r, !.coordinator = k, !.asked = @ + 1]
    BY <2>5
  <2>7. /\ k \in Coordinator /\ k.revision = s.coordinator.revision
        /\ k.requested_revision = s.coordinator.revision
        /\ k.remesh = FALSE /\ k.drop = FALSE /\ k.carrying = "nothing"
    BY <2>1, <2>3, Parts, CoordinatorParts
       DEF RequestStands, RequestFailed, Coordinator, Option
  <2>8. /\ r \in Runtime /\ r.requested = token /\ r.ready = None
        /\ r.active = s.runtime.active /\ r.next = s.runtime.next + 1
        /\ \/ r.preparing = token /\ r.last_error = None
           \/ r.preparing = None /\ r.last_error = token
    <3>1. s.runtime \in Runtime /\ s.runtime.next + 1 \in Nat
      BY <2>3, Parts, RuntimeParts
    <3>2. CASE r = RequestMade(s.runtime, token)
      <4>1. /\ r.requested = token /\ r.ready = None
            /\ r.active = s.runtime.active /\ r.next = s.runtime.next + 1
            /\ r.preparing = token /\ r.last_error = None
        BY <3>1, <3>2 DEF RequestMade, Runtime
      <4>2. r \in Runtime
        BY <2>4, <3>1, <3>2, RuntimeParts DEF RequestMade, Runtime, Option
      <4> QED
        BY <4>1, <4>2
    <3>3. CASE r = RequestRefused(s.runtime, token)
      <4>1. /\ r.requested = token /\ r.ready = None
            /\ r.active = s.runtime.active /\ r.next = s.runtime.next + 1
            /\ r.preparing = None /\ r.last_error = token
        BY <3>1, <3>3 DEF RequestRefused, Runtime
      <4>2. r \in Runtime
        BY <2>4, <3>1, <3>3, RuntimeParts DEF RequestRefused, Runtime, Option
      <4> QED
        BY <4>1, <4>2
    <3> QED
      BY <3>2, <3>3
  <2>9. t = [coordinator |-> k, runtime |-> r, worker |-> s.worker,
             thread |-> s.thread, asked |-> s.asked + 1]
    BY <2>3, <2>6 DEF States
  <2>10. /\ t.coordinator = k /\ t.runtime = r /\ t.worker = s.worker
         /\ t.thread = s.thread /\ t.asked = 1 /\ t \in States
    <3>1. /\ t.coordinator = k /\ t.runtime = r /\ t.worker = s.worker
          /\ t.thread = s.thread /\ t.asked = 1
      BY <2>2, <2>9
    <3>2. s.worker \in [held : BOOLEAN, token : Option(Token)]
          /\ s.thread \in Thread /\ s.asked + 1 \in Nat
      BY <2>2, <2>3, Parts
    <3>3. t \in States
      BY <2>7, <2>8, <2>9, <3>2 DEF States
    <3> QED
      BY <3>1, <3>3
  <2>11. TokensAreMade(t)
    <3>1. \A old : Made(s.runtime, old) /\ old \in Option(Token) => Made(r, old)
      BY <2>8, <2>3, Parts, RuntimeParts, NoneIsNone DEF Made, Option
    <3>2. Made(r, token) /\ Made(r, None)
      BY <2>4, <2>8, <2>3, Parts, RuntimeParts DEF Made
    <3>3. \A i \in DOMAIN s.thread.events : Made(r, s.thread.events[i].token)
      BY <3>1, <2>3, Parts, ThreadParts DEF Inv, TokensAreMade, Option
    <3>4. Made(r, s.runtime.active) /\ Made(r, s.worker.token)
          /\ Made(r, s.thread.job) /\ Made(r, s.thread.waiting)
      BY <3>1, <2>3, Parts, RuntimeParts, ThreadParts DEF Inv, TokensAreMade
    <3> QED
      BY <2>8, <2>10, <3>2, <3>3, <3>4 DEF TokensAreMade
  <2>12. JobsInOrder(t)
    BY <2>4, <2>8, <2>10 DEF Inv, JobsInOrder, Before
  <2>13. LatestAlone(t) /\ Held(t)
    BY <2>4, <2>7, <2>8, <2>10 DEF LatestAlone, Held, WithWorker, Outcome
  <2>14. AskStands(t) /\ Owed(t) /\ HostHoldsWorker(t)
    BY <2>4, <2>7, <2>8, <2>10
       DEF Inv, AskStands, Owed, HostHoldsWorker, AnswerIsComing
  <2> QED
    BY <2>10, <2>11, <2>12, <2>13, <2>14 DEF Inv
<1> QED
  BY <1>1, <1>2

\* The document's blocks of a frame, before it listens.
LEMMA BeginKeeps ==
    ASSUME Inv(State), Begin
    PROVE  Inv(State')
<1>1. PICK settled \in FinishSourceCommit(DropReplaced(State)) :
        \E requested \in RequestRuntime(settled) : Become(requested)
  BY DEF Begin
<1>2. PICK requested \in RequestRuntime(settled) : Become(requested)
  BY <1>1
<1>3. Inv(settled) /\ ~settled.coordinator.drop
  BY DropKeeps, FinishSourceCommitKeeps
<1>4. Inv(requested)
  BY <1>2, <1>3, RequestKeeps
<1>5. State' = requested
  BY <1>2, <1>4 DEF Become, State, Inv, States
<1> QED
  BY <1>4, <1>5

\* The first of some events is heard.
LEMMA HearKeeps ==
    ASSUME NEW s, Inv(s), s.thread.events # <<>>, NEW t,
           t = Heard(s, Head(s.thread.events))
    PROVE  Inv(t)
<1> DEFINE events == s.thread.events
           end == Head(events)
           th == [s.thread EXCEPT !.events = Tail(events)]
           w == Observed(s.worker, end)
           r == Settled(s.runtime, end)
<1>1. /\ s \in States /\ s.runtime \in Runtime /\ s.thread \in Thread
      /\ s.worker \in [held : BOOLEAN, token : Option(Token)]
      /\ s.asked \in Nat /\ s.coordinator \in Coordinator
  BY Parts DEF Inv
<1>2. /\ events \in Seq(Ends) /\ Len(events) \in Nat \ {0} /\ 1 \in DOMAIN events
      /\ DOMAIN events = 1..Len(events)
      /\ end = events[1] /\ end \in Ends /\ end.token \in Token
      /\ end.token # None
  BY <1>1, ThreadParts, NoneIsNone
<1>3. /\ Tail(events) \in Seq(Ends)
      /\ DOMAIN Tail(events) = 1..(Len(events) - 1)
      /\ \A i \in DOMAIN Tail(events) :
           /\ Tail(events)[i] = events[i + 1] /\ i + 1 \in DOMAIN events
  BY <1>2
<1>4. /\ th \in Thread /\ th.alive = s.thread.alive /\ th.job = s.thread.job
      /\ th.waiting = s.thread.waiting /\ th.events = Tail(events)
  BY <1>1, <1>3, ThreadParts DEF Thread
<1>5. /\ w \in [held : BOOLEAN, token : Option(Token)] /\ w.held = s.worker.held
      /\ \/ end.token = s.worker.token /\ w.token = None
         \/ end.token # s.worker.token /\ w = s.worker
  BY <1>1 DEF Observed, Option
<1>6. r \in Runtime
  BY <1>1, <1>2, SettledIsRuntime
<1>7. t = [coordinator |-> s.coordinator, runtime |-> r, worker |-> w,
           thread |-> th, asked |-> s.asked]
  <2>1. t = [s EXCEPT !.worker = w, !.runtime = r, !.thread = th]
    BY DEF Heard
  <2> HIDE DEF w, r, th
  <2> QED
    BY <1>1, <2>1 DEF States
<1>8. /\ t.coordinator = s.coordinator /\ t.runtime = r /\ t.worker = w
      /\ t.thread = th /\ t.asked = s.asked
  BY <1>7
<1>9. t \in States
  <2> HIDE DEF w, r, th
  <2> QED
    BY <1>1, <1>4, <1>5, <1>6, <1>7 DEF States
<1>10. /\ r.requested = s.runtime.requested /\ r.next = s.runtime.next
       /\ r.active = s.runtime.active /\ r.preparing = s.runtime.preparing
       /\ r.ready \in {s.runtime.ready, end.token}
       /\ r.last_error \in {s.runtime.last_error, end.token}
       /\ \/ end.token # s.runtime.requested /\ r = s.runtime
          \/ /\ end.token = s.runtime.requested
             /\ \/ r.ready = s.runtime.requested /\ r.last_error = s.runtime.last_error
                \/ r.last_error = s.runtime.requested /\ r.ready = s.runtime.ready
  BY <1>1 DEF Settled, Runtime
<1> HIDE DEF th, w, r
<1>11. WithWorker(s, end.token) /\ Made(s.runtime, end.token)
  BY <1>2 DEF WithWorker, Answered, Inv, TokensAreMade
<1>12. \A i \in DOMAIN th.events :
         th.events[i] = events[i + 1] /\ i + 1 \in DOMAIN events
  BY <1>3, <1>4
<1>13. TokensAreMade(t)
  <2>1. \A i \in DOMAIN th.events : Made(s.runtime, th.events[i].token)
    BY <1>12 DEF Inv, TokensAreMade
  <2>2. Made(s.runtime, w.token)
    BY <1>5 DEF Inv, TokensAreMade, Made
  <2>3. Made(s.runtime, r.ready) /\ Made(s.runtime, r.last_error)
    BY <1>10, <1>11 DEF Inv, TokensAreMade
  <2>4. \A token : Made(s.runtime, token) => Made(r, token)
    BY <1>10 DEF Made
  <2>5. /\ Made(s.runtime, s.runtime.active) /\ Made(s.runtime, s.runtime.preparing)
        /\ Made(s.runtime, s.runtime.requested) /\ Made(s.runtime, s.thread.job)
        /\ Made(s.runtime, s.thread.waiting)
    BY DEF Inv, TokensAreMade
  <2>6. /\ Made(r, r.active) /\ Made(r, r.preparing) /\ Made(r, r.requested)
        /\ Made(r, r.ready) /\ Made(r, r.last_error) /\ Made(r, w.token)
        /\ Made(r, th.job) /\ Made(r, th.waiting)
        /\ \A i \in DOMAIN th.events : Made(r, th.events[i].token)
    BY <2>1, <2>2, <2>3, <2>4, <2>5, <1>4, <1>10
  <2> QED
    BY <2>6, <1>8 DEF TokensAreMade
<1>14. JobsInOrder(t)
  <2>1. \A i \in DOMAIN th.events : \A j \in 1..(i - 1) :
          Before(th.events[j].token, th.events[i].token)
    <3> SUFFICES ASSUME NEW i \in DOMAIN th.events, NEW j \in 1..(i - 1)
                 PROVE  Before(th.events[j].token, th.events[i].token)
      OBVIOUS
    <3>1. i \in Nat /\ j \in DOMAIN th.events /\ j + 1 \in 1..((i + 1) - 1)
      BY <1>2, <1>3, <1>4
    <3>2. Before(events[j + 1].token, events[i + 1].token)
      BY <1>12, <3>1 DEF Inv, JobsInOrder
    <3> QED
      BY <1>12, <3>1, <3>2
  <2>2. Before(w.token, r.preparing)
    BY <1>5, <1>10 DEF Inv, JobsInOrder, Before
  <2> QED
    BY <1>4, <1>8, <1>10, <1>12, <2>1, <2>2 DEF Inv, JobsInOrder
<1>15. \A token \in Token : WithWorker(t, token) =>
         WithWorker(s, token) /\ token # end.token
  <2> SUFFICES ASSUME NEW token \in Token, WithWorker(t, token)
               PROVE  WithWorker(s, token) /\ token # end.token
    OBVIOUS
  <2>1. CASE w.token = token
    BY <2>1, <1>5, NoneIsNone DEF WithWorker
  <2>2. CASE th.job = token \/ th.waiting = token
    <3>1. Before(events[1].token, th.job) /\ Before(events[1].token, th.waiting)
      BY <1>2, <1>4 DEF Inv, JobsInOrder
    <3> QED
      BY <2>2, <3>1, <1>2, <1>4, NoneIsNone DEF WithWorker, Before
  <2>3. CASE Answered(th, token)
    <3>1. PICK i \in DOMAIN th.events : th.events[i].token = token
      BY <2>3 DEF Answered
    <3>2. i + 1 \in DOMAIN events /\ events[i + 1].token = token
      BY <1>12, <3>1
    <3>3. 1 \in 1..((i + 1) - 1)
      BY <1>3, <1>4, <3>1
    <3>4. Before(events[1].token, events[i + 1].token)
      BY <3>2, <3>3 DEF Inv, JobsInOrder
    <3> QED
      BY <3>2, <3>4, <1>2, NoneIsNone DEF WithWorker, Answered, Before
  <2> QED
    BY <2>1, <2>2, <2>3, <1>8 DEF WithWorker
<1>16. CASE end.token = s.runtime.requested
  <2>1. Outcome(s.runtime) = "preparing" /\ s.runtime.requested # None
    BY <1>11, <1>16, <1>2 DEF Inv, LatestAlone
  <2>2. s.runtime.preparing # s.runtime.requested
    <3>1. Before(events[1].token, s.runtime.preparing)
      BY <1>2 DEF Inv, JobsInOrder
    <3> QED
      BY <3>1, <1>2, <1>16, NoneIsNone DEF Before
  <2>3. s.runtime.preparing = None /\ w.token = None
    BY <2>1, <2>2, <1>5, <1>16 DEF Inv, LatestAlone, Held
  <2>4. ~WithWorker(t, s.runtime.requested)
    BY <1>15, <1>16, <1>2
  <2>5. LatestAlone(t)
    BY <2>1, <2>3, <2>4, <1>8, <1>10, <1>16 DEF Inv, LatestAlone, Outcome
  <2>6. Held(t) /\ Owed(t)
    BY <2>1, <2>3, <1>8, <1>10, <1>16 DEF Held, Owed, Outcome
  <2> QED
    BY <2>5, <2>6, <1>4, <1>5, <1>8, <1>9, <1>10, <1>13, <1>14
       DEF Inv, HostHoldsWorker, AskStands
<1>17. CASE end.token # s.runtime.requested
  <2>1. r = s.runtime
    BY <1>17, <1>10
  <2>2. LatestAlone(t)
    <3>1. WithWorker(t, s.runtime.requested) /\ s.runtime.requested # None
            => WithWorker(s, s.runtime.requested)
      BY <1>15, <1>1, RuntimeParts DEF Option
    <3> QED
      BY <2>1, <3>1, <1>8 DEF Inv, LatestAlone
  <2>3. ASSUME w.token # None, AnswerIsComing(s)
        PROVE  AnswerIsComing(t)
    <3>1. w = s.worker /\ w.token # end.token
      BY <2>3, <1>5
    <3>2. ASSUME Answered(s.thread, w.token)
          PROVE  Answered(th, w.token)
      <4>1. PICK i \in DOMAIN events : events[i].token = w.token
        BY <3>2 DEF Answered
      <4>2. i # 1 /\ i - 1 \in DOMAIN Tail(events) /\ (i - 1) + 1 = i
        BY <4>1, <3>1, <1>2, <1>3
      <4>3. Tail(events)[i - 1].token = w.token
        BY <4>1, <4>2, <1>3
      <4> QED
        BY <4>2, <4>3, <1>4 DEF Answered
    <3> QED
      BY <2>3, <3>1, <3>2, <1>4, <1>8 DEF AnswerIsComing, InHand
  <2>4. Owed(t)
    BY <2>3, <1>5, <1>8 DEF Inv, Owed
  <2>5. Held(t)
    BY <2>1, <2>3, <1>5, <1>8, <1>17 DEF Inv, Held, Outcome
  <2> QED
    BY <2>1, <2>2, <2>4, <2>5, <1>4, <1>5, <1>8, <1>9, <1>13, <1>14
       DEF Inv, HostHoldsWorker, AskStands
<1> QED
  BY <1>16, <1>17

\* The worker goes, with what waits for it and what it said, and another takes
\* its place or none.
LEMMA ReplacedKeeps ==
    ASSUME NEW s, Inv(s), NEW up \in BOOLEAN, NEW r \in Runtime,
           r.active = s.runtime.active, r.preparing = s.runtime.preparing,
           r.ready = s.runtime.ready, r.requested = s.runtime.requested,
           r.next = s.runtime.next,
           \/ /\ r.last_error = s.runtime.last_error
              /\ Outcome(r) = "preparing" => r.preparing = r.requested
           \/ /\ r.last_error = r.requested /\ r.requested # None
              /\ s.worker.token = r.requested,
           NEW t, t = [coordinator |-> s.coordinator, runtime |-> r,
                       worker |-> [held |-> up, token |-> None],
                       thread |-> [NoThread EXCEPT !.alive = up],
                       asked |-> s.asked]
    PROVE  Inv(t)
<1>1. /\ s \in States /\ s.runtime \in Runtime /\ s.coordinator \in Coordinator
      /\ s.asked \in Nat
  BY Parts DEF Inv
<1> DEFINE th == [NoThread EXCEPT !.alive = up]
<1>2. th = [alive |-> up, job |-> None, waiting |-> None, events |-> <<>>]
  BY ThreadIs
<1>3. th \in Thread
  <2> DEFINE nothing == <<>>
  <2>1. nothing \in Seq(Ends)
    OBVIOUS
  <2>2. th = [alive |-> up, job |-> None, waiting |-> None, events |-> nothing]
    BY <1>2
  <2> HIDE DEF nothing, th
  <2> QED
    BY <2>1, <2>2 DEF Thread, Option
<1> HIDE DEF th
<1>4. /\ t.coordinator = s.coordinator /\ t.runtime = r /\ t.worker.held = up
      /\ t.worker.token = None /\ t.thread = th /\ t.asked = s.asked
  BY DEF th
<1>5. t \in States
  BY <1>1, <1>3 DEF States, Option, th
<1>6. /\ th.alive = up /\ th.job = None /\ th.waiting = None /\ th.events = <<>>
      /\ DOMAIN th.events = {}
  BY <1>2
<1>7. \A token \in Token : ~WithWorker(t, token)
  BY <1>4, <1>6, NoneIsNone DEF WithWorker, Answered
<1>8. TokensAreMade(t)
  <2>1. /\ Made(s.runtime, s.runtime.active) /\ Made(s.runtime, s.runtime.preparing)
        /\ Made(s.runtime, s.runtime.requested) /\ Made(s.runtime, s.runtime.ready)
        /\ Made(s.runtime, s.runtime.last_error)
    BY DEF Inv, TokensAreMade
  <2>2. /\ Made(r, r.active) /\ Made(r, r.preparing) /\ Made(r, r.requested)
        /\ Made(r, r.ready) /\ Made(r, r.last_error) /\ Made(r, None)
    BY <2>1 DEF Made
  <2> QED
    BY <2>2, <1>4, <1>6 DEF TokensAreMade
<1>9. JobsInOrder(t)
  BY <1>4, <1>6 DEF JobsInOrder, Before
<1>10. HostHoldsWorker(t) /\ AskStands(t) /\ Owed(t)
  BY <1>4, <1>6 DEF Inv, HostHoldsWorker, AskStands, Owed
<1>11. r.requested \in Token \/ r.requested = None
  BY RuntimeParts DEF Option
<1>12. CASE /\ r.last_error = s.runtime.last_error
            /\ Outcome(r) = "preparing" => r.preparing = r.requested
  <2>1. Outcome(r) = Outcome(s.runtime)
    BY <1>12 DEF Outcome
  <2>2. LatestAlone(t)
    BY <2>1, <1>4, <1>7, <1>11, <1>12 DEF Inv, LatestAlone
  <2>3. Held(t)
    BY <1>4, <1>12 DEF Held
  <2> QED
    BY <2>2, <2>3, <1>5, <1>8, <1>9, <1>10 DEF Inv
<1>13. CASE /\ r.last_error = r.requested /\ r.requested # None
            /\ s.worker.token = r.requested
  <2>1. Outcome(s.runtime) = "preparing"
    BY <1>13 DEF Inv, LatestAlone, WithWorker
  <2>2. r.preparing = None
    <3>1. Before(s.worker.token, r.preparing)
          /\ (r.preparing # None => r.preparing = r.requested)
      BY DEF Inv, JobsInOrder, LatestAlone
    <3> QED
      BY <3>1, <1>11, <1>13, NoneIsNone DEF Before
  <2>3. r.ready # r.requested /\ r.active # r.requested
    BY <2>1, <1>13 DEF Outcome
  <2>4. LatestAlone(t)
    BY <2>2, <2>3, <1>4, <1>7, <1>11, <1>13 DEF Inv, LatestAlone
  <2>5. Held(t)
    BY <2>3, <1>4, <1>13 DEF Held, Outcome
  <2> QED
    BY <2>4, <2>5, <1>5, <1>8, <1>9, <1>10 DEF Inv
<1> QED
  BY <1>12, <1>13

\* The end of the channel is heard.
LEMMA StoppedKeeps ==
    ASSUME NEW s, Inv(s), s.thread.events = <<>>, NEW t \in Stopped(s)
    PROVE  Inv(t)
<1>1. s \in States /\ s.runtime \in Runtime
  BY Parts DEF Inv
<1>2. CASE ~s.worker.held \/ s.thread.alive
  BY <1>2 DEF Stopped
<1>3. CASE s.worker.held /\ ~s.thread.alive /\ s.worker.token = None
  <2>1. t \in Spawned(s)
    BY <1>3 DEF Stopped
  <2>2. PICK up \in BOOLEAN :
          t = [s EXCEPT !.worker = [held |-> up, token |-> None],
                        !.thread = [NoThread EXCEPT !.alive = up]]
    BY <2>1 DEF Spawned
  <2>3. t = [coordinator |-> s.coordinator, runtime |-> s.runtime,
             worker |-> [held |-> up, token |-> None],
             thread |-> [NoThread EXCEPT !.alive = up], asked |-> s.asked]
    BY <2>2, <1>1 DEF States
  <2>4. Outcome(s.runtime) = "preparing" =>
          s.runtime.preparing = s.runtime.requested
    BY <1>3 DEF Inv, Held, Outcome
  <2> QED
    BY <2>3, <2>4, <1>1, ReplacedKeeps
<1>4. CASE s.worker.held /\ ~s.thread.alive /\ s.worker.token # None
  <2> DEFINE end == [token |-> s.worker.token, ok |-> FALSE]
             r == Settled(s.runtime, end)
             u == OnRuntime(s, r)
  <2>1. end \in Ends /\ end.token = s.worker.token /\ ~end.ok
    BY <1>1, <1>4, Parts DEF Ends, Option
  <2>2. r \in Runtime
    BY <2>1, <1>1, SettledIsRuntime
  <2>3. t \in Spawned(u)
    BY <1>4 DEF Stopped
  <2>4. /\ u.coordinator = s.coordinator /\ u.runtime = r /\ u.asked = s.asked
        /\ u \in States
    <3> HIDE DEF r
    <3> QED
      BY <2>2, <1>1, OnRuntimeIs
  <2>5. \/ r = s.runtime /\ s.worker.token # s.runtime.requested
        \/ /\ r = [s.runtime EXCEPT !.last_error = s.worker.token]
           /\ s.worker.token = s.runtime.requested
    BY <2>1 DEF Settled
  <2> HIDE DEF end, r, u
  <2>6. PICK up \in BOOLEAN :
          t = [u EXCEPT !.worker = [held |-> up, token |-> None],
                        !.thread = [NoThread EXCEPT !.alive = up]]
    BY <2>3 DEF Spawned
  <2>7. t = [coordinator |-> s.coordinator, runtime |-> r,
             worker |-> [held |-> up, token |-> None],
             thread |-> [NoThread EXCEPT !.alive = up], asked |-> s.asked]
    BY <2>4, <2>6 DEF States
  <2>8. CASE r = s.runtime /\ s.worker.token # s.runtime.requested
    <3>1. Outcome(r) = "preparing" => r.preparing = r.requested
      BY <2>8 DEF Inv, Held
    <3> QED
      BY <3>1, <2>2, <2>7, <2>8, ReplacedKeeps
  <2>9. CASE /\ r = [s.runtime EXCEPT !.last_error = s.worker.token]
             /\ s.worker.token = s.runtime.requested
    <3>1. /\ r.active = s.runtime.active /\ r.preparing = s.runtime.preparing
          /\ r.ready = s.runtime.ready /\ r.requested = s.runtime.requested
          /\ r.next = s.runtime.next /\ r.last_error = r.requested
          /\ r.requested # None /\ s.worker.token = r.requested
      BY <2>9, <1>1, <1>4 DEF Runtime
    <3> QED
      BY <3>1, <2>2, <2>7, ReplacedKeeps
  <2> QED
    BY <2>5, <2>8, <2>9
<1> QED
  BY <1>2, <1>3, <1>4

\* What waits with the runtime goes to the worker, or stays.
LEMMA SubmittedKeeps ==
    ASSUME NEW s, Inv(s)
    PROVE  Inv(Submitted(s))
<1> DEFINE t == Submitted(s)
           newest == s.runtime.preparing
<1>1. /\ s \in States /\ s.runtime \in Runtime /\ s.coordinator \in Coordinator
      /\ s.thread \in Thread /\ s.asked \in Nat
      /\ s.worker \in [held : BOOLEAN, token : Option(Token)]
  BY Parts DEF Inv
<1>2. CASE newest = None
  BY <1>2 DEF Submitted
<1>3. CASE newest # None /\ ~(s.worker.held /\ s.thread.alive)
  <2>1. t = [s EXCEPT !.worker = [held |-> FALSE, token |-> None],
                      !.thread = NoThread]
    BY <1>3 DEF Submitted
  <2>2. NoThread = [NoThread EXCEPT !.alive = FALSE]
    BY ThreadIs
  <2> HIDE DEF t
  <2>3. t = [coordinator |-> s.coordinator, runtime |-> s.runtime,
             worker |-> [held |-> FALSE, token |-> None],
             thread |-> [NoThread EXCEPT !.alive = FALSE], asked |-> s.asked]
    BY <2>1, <2>2, <1>1 DEF States
  <2>4. s.runtime.preparing = s.runtime.requested
    BY <1>3 DEF Inv, LatestAlone
  <2>5. Inv(t)
    BY <2>3, <2>4, <1>1, ReplacedKeeps
  <2> QED
    BY <2>5 DEF t
<1>4. CASE newest # None /\ s.worker.held /\ s.thread.alive
  <2> DEFINE r == [s.runtime EXCEPT !.preparing = None]
             w == [s.worker EXCEPT !.token = newest]
             th == [s.thread EXCEPT !.waiting = newest]
  <2>1. t = [s EXCEPT !.runtime = r, !.worker = w, !.thread = th]
    BY <1>4 DEF Submitted
  <2>2. /\ r \in Runtime /\ r.active = s.runtime.active /\ r.preparing = None
        /\ r.ready = s.runtime.ready /\ r.requested = s.runtime.requested
        /\ r.last_error = s.runtime.last_error /\ r.next = s.runtime.next
    BY <1>1 DEF Runtime, Option
  <2>3. newest \in Option(Token)
    BY <1>1, RuntimeParts
  <2>4. /\ w \in [held : BOOLEAN, token : Option(Token)]
        /\ w.held = TRUE /\ w.token = newest
    BY <1>1, <1>4, <2>3
  <2>5. /\ th \in Thread /\ th.alive = TRUE /\ th.job = s.thread.job
        /\ th.waiting = newest /\ th.events = s.thread.events
    BY <1>1, <1>4, <2>3 DEF Thread
  <2> HIDE DEF t, r, w, th
  <2>6. t = [coordinator |-> s.coordinator, runtime |-> r, worker |-> w,
             thread |-> th, asked |-> s.asked]
    BY <1>1, <2>1 DEF States
  <2>7. /\ t.coordinator = s.coordinator /\ t.runtime = r /\ t.worker = w
        /\ t.thread = th /\ t.asked = s.asked /\ t \in States
    BY <1>1, <2>2, <2>4, <2>5, <2>6 DEF States
  <2>8. newest = r.requested /\ Outcome(r) = Outcome(s.runtime)
        /\ Outcome(r) = "preparing"
    BY <1>4, <2>2 DEF Inv, LatestAlone, Outcome
  <2>9. TokensAreMade(t)
    <3>1. /\ Made(s.runtime, s.runtime.active) /\ Made(s.runtime, newest)
          /\ Made(s.runtime, s.runtime.requested) /\ Made(s.runtime, s.runtime.ready)
          /\ Made(s.runtime, s.runtime.last_error) /\ Made(s.runtime, s.thread.job)
          /\ \A i \in DOMAIN s.thread.events :
               Made(s.runtime, s.thread.events[i].token)
      BY DEF Inv, TokensAreMade
    <3>2. /\ Made(r, r.active) /\ Made(r, newest) /\ Made(r, r.preparing)
          /\ Made(r, r.requested) /\ Made(r, r.ready) /\ Made(r, r.last_error)
          /\ Made(r, s.thread.job)
          /\ \A i \in DOMAIN s.thread.events : Made(r, s.thread.events[i].token)
      BY <3>1, <2>2 DEF Made
    <3> QED
      BY <3>2, <2>4, <2>5, <2>7 DEF TokensAreMade
  <2>10. JobsInOrder(t)
    BY <2>2, <2>4, <2>5, <2>7 DEF Inv, JobsInOrder, Before
  <2>11. LatestAlone(t)
    BY <2>2, <2>7, <2>8 DEF Inv, LatestAlone
  <2>12. AnswerIsComing(t)
    BY <1>4, <2>4, <2>5, <2>7 DEF AnswerIsComing, InHand
  <2>13. Held(t) /\ Owed(t)
    BY <2>4, <2>7, <2>8, <2>12 DEF Held, Owed
  <2>14. HostHoldsWorker(t) /\ AskStands(t)
    BY <2>2, <2>4, <2>5, <2>7 DEF Inv, HostHoldsWorker, AskStands
  <2>15. Inv(t)
    BY <2>7, <2>9, <2>10, <2>11, <2>13, <2>14 DEF Inv
  <2> QED
    BY <2>15 DEF t
<1> QED
  BY <1>2, <1>3, <1>4

\* Without a worker the host's slice ends the job, or does not.
LEMMA AdvancedKeeps ==
    ASSUME NEW s, Inv(s), NEW t \in Advanced(s)
    PROVE  Inv(t)
<1>1. /\ s \in States /\ s.runtime \in Runtime /\ s.thread \in Thread
  BY Parts DEF Inv
<1>2. CASE t = s
  BY <1>2
<1>3. CASE t # s
  <2> DEFINE newest == s.runtime.preparing
             started == [s.runtime EXCEPT !.preparing = None]
  <2>1. PICK ok \in BOOLEAN :
          t = OnRuntime(s, Settled(started, [token |-> newest, ok |-> ok]))
    BY <1>3 DEF Advanced
  <2>2. ~s.worker.held /\ newest # None
    BY <1>3 DEF Advanced
  <2>3. /\ started \in Runtime /\ started.active = s.runtime.active
        /\ started.preparing = None
        /\ started.ready = s.runtime.ready
        /\ started.requested = s.runtime.requested
        /\ started.last_error = s.runtime.last_error
        /\ started.next = s.runtime.next
    BY <1>1 DEF Runtime, Option
  <2> HIDE DEF started
  <2> DEFINE end == [token |-> newest, ok |-> ok]
             r == Settled(started, end)
  <2>4. end \in Ends /\ end.token = newest
    BY <1>1, <2>2, RuntimeParts DEF Ends, Option
  <2>5. newest = s.runtime.requested /\ Outcome(s.runtime) = "preparing"
    BY <2>2 DEF Inv, LatestAlone
  <2>6. r \in Runtime
    BY <2>3, <2>4, SettledIsRuntime
  <2>7. /\ r.active = s.runtime.active /\ r.preparing = None
        /\ r.requested = newest /\ r.next = s.runtime.next
        /\ \/ r.ready = newest /\ r.last_error = s.runtime.last_error
           \/ r.ready = s.runtime.ready /\ r.last_error = newest
    BY <2>3, <2>4, <2>5 DEF Settled, Runtime
  <2>8. t = OnRuntime(s, r)
    BY <2>1
  <2> HIDE DEF r, end
  <2>9. /\ t.coordinator = s.coordinator /\ t.runtime = r /\ t.worker = s.worker
        /\ t.thread = s.thread /\ t.asked = s.asked /\ t \in States
    BY <2>6, <2>8, <1>1, OnRuntimeIs
  <2>10. /\ s.worker.token = None /\ s.thread.job = None /\ s.thread.waiting = None
         /\ s.thread.events = <<>> /\ DOMAIN s.thread.events = {}
         /\ ~s.thread.alive
    BY <2>2, <1>1, ThreadParts DEF Inv, HostHoldsWorker
  <2>11. ~WithWorker(t, newest)
    BY <2>2, <2>9, <2>10 DEF WithWorker, Answered
  <2>12. s.runtime.ready = None /\ s.runtime.active # newest
    BY <2>2, <2>5 DEF Inv, LatestAlone, Outcome
  <2>13. TokensAreMade(t)
    <3>1. /\ Made(s.runtime, s.runtime.active) /\ Made(s.runtime, newest)
          /\ Made(s.runtime, s.runtime.ready) /\ Made(s.runtime, s.runtime.last_error)
      BY DEF Inv, TokensAreMade
    <3>2. /\ Made(r, r.active) /\ Made(r, r.preparing) /\ Made(r, r.requested)
          /\ Made(r, r.ready) /\ Made(r, r.last_error) /\ Made(r, None)
      BY <3>1, <2>7 DEF Made
    <3> QED
      BY <3>2, <2>9, <2>10 DEF TokensAreMade
  <2>14. JobsInOrder(t) /\ Owed(t)
    BY <2>7, <2>9, <2>10 DEF JobsInOrder, Before, Owed
  <2>15. LatestAlone(t) /\ Held(t)
    BY <2>2, <2>5, <2>7, <2>9, <2>11, <2>12 DEF Inv, LatestAlone, Held, Outcome
  <2>16. HostHoldsWorker(t) /\ AskStands(t)
    BY <2>5, <2>7, <2>9 DEF Inv, HostHoldsWorker, AskStands
  <2> QED
    BY <2>9, <2>13, <2>14, <2>15, <2>16 DEF Inv
<1> QED
  BY <1>2, <1>3

\* To carry nothing, when nothing is carried, changes nothing.
LEMMA StillIdle ==
    ASSUME NEW s \in States, s.coordinator.carrying = "nothing"
    PROVE  Carrying(s, "nothing") = s
<1>1. [s.coordinator EXCEPT !.carrying = "nothing"] = s.coordinator
  BY Parts DEF Coordinator
<1> QED
  BY <1>1 DEF Carrying, OnCoordinator, States

LEMMA CarryReadyKeeps ==
    ASSUME NEW s, Inv(s), NEW t \in CarryReady(s)
    PROVE  Inv(t)
<1>1. CASE t = s
  BY <1>1
<1>2. CASE t # s
  <2>1. s.coordinator.carrying = "nothing" /\ s.runtime.ready # None
    BY <1>2 DEF CarryReady
  <2>2. CASE t \in Ending(s)
    <3>1. PICK r \in {Committed(s.runtime), Rejected(s.runtime)} :
            t = OnRuntime(s, r)
      BY <2>2 DEF Ending
    <3>2. s \in States /\ r \in Runtime
      BY Parts, EndedIsRuntime DEF Inv
    <3>3. t \in States /\ t.coordinator = s.coordinator
      BY <3>1, <3>2, OnRuntimeIs
    <3>4. Carrying(t, "nothing") = t
      BY <2>1, <3>3, StillIdle
    <3> QED
      BY <2>1, <3>1, <3>4, EndingKeeps
  <2>3. CASE t \in {Carrying(s, "patching"), Carrying(s, "packing")}
    BY <2>1, <2>3, CarryingKeeps
  <2> QED
    BY <1>2, <2>1, <2>2, <2>3 DEF CarryReady
<1> QED
  BY <1>1, <1>2

LEMMA BeginUploadKeeps ==
    ASSUME NEW s, Inv(s), NEW t \in BeginUpload(s)
    PROVE  Inv(t)
<1>1. CASE t = s
  BY <1>1
<1>2. CASE t # s
  <2>1. s.runtime.ready # None
    BY <1>2 DEF BeginUpload, Inv, LatestAlone
  <2>2. \/ t = Carrying(s, "uploading")
        \/ t = Carrying(OnRuntime(s, Rejected(s.runtime)), "nothing")
    BY <1>2 DEF BeginUpload, NotCarrying
  <2> QED
    BY <2>1, <2>2, CarryingKeeps, EndingKeeps
<1> QED
  BY <1>1, <1>2

LEMMA SettleTheUploadKeeps ==
    ASSUME NEW s, Inv(s), NEW t \in SettleTheUpload(s)
    PROVE  Inv(t)
<1>1. CASE t = s
  BY <1>1
<1>2. CASE t # s
  <2>1. s.runtime.ready # None
    BY <1>2 DEF SettleTheUpload, Inv, LatestAlone
  <2>2. \E r \in {Committed(s.runtime), Rejected(s.runtime)} :
          t = Carrying(OnRuntime(s, r), "nothing")
    BY <1>2 DEF SettleTheUpload, NotCarrying, Ending
  <2> QED
    BY <2>1, <2>2, EndingKeeps
<1> QED
  BY <1>1, <1>2

LEMMA ApplyResetKeeps ==
    ASSUME NEW s, Inv(s), NEW t \in ApplyReset(s)
    PROVE  Inv(t)
<1>1. CASE t = s
  BY <1>1
<1>2. CASE t # s
  <2>1. PICK c \in ResetApplied(s.coordinator) : t = OnCoordinator(s, c)
    BY <1>2 DEF ApplyReset
  <2>2. s.coordinator \in Coordinator
    BY Parts DEF Inv
  <2>3. /\ c \in Coordinator /\ c.revision = s.coordinator.revision
        /\ c.requested_revision = s.coordinator.requested_revision
        /\ c.remesh = s.coordinator.remesh /\ c.drop = s.coordinator.drop
        /\ c.carrying \in {"nothing", s.coordinator.carrying}
    <3>1. CASE c = [s.coordinator EXCEPT !.reset = FALSE]
      BY <2>2, <3>1 DEF Coordinator
    <3>2. CASE c = [s.coordinator EXCEPT !.reset = FALSE, !.carrying =
                      IF s.coordinator.carrying = "packing" THEN "nothing"
                      ELSE s.coordinator.carrying]
      BY <2>2, <3>2 DEF Coordinator
    <3> QED
      BY <2>1, <3>1, <3>2 DEF ResetApplied
  <2> QED
    BY <2>1, <2>3, IdleKeeps
<1> QED
  BY <1>1, <1>2

-----------------------------------------------------------------------------
(* The actions keep it.                                                     *)

LEMMA HearActionKeeps ==
    ASSUME Inv(State), Hear
    PROVE  Inv(State')
<1>1. Inv(Heard(State, Head(thread.events)))
  BY HearKeeps DEF Hear, State
<1> DEFINE t == Heard(State, Head(thread.events))
<1> HIDE DEF t
<1>2. t \in States /\ Become(t)
  BY <1>1 DEF Inv, Hear, t
<1>3. State' = t
  BY <1>2 DEF Become, State, States
<1> QED
  BY <1>1, <1>3 DEF t

LEMMA HearNothingKeeps ==
    ASSUME Inv(State), HearNothing
    PROVE  Inv(State')
<1>1. PICK t \in Stopped(State) : Become(t)
  BY DEF HearNothing
<1>2. Inv(t)
  BY <1>1, StoppedKeeps DEF HearNothing, State
<1>3. State' = t
  BY <1>1, <1>2 DEF Become, State, Inv, States
<1> QED
  BY <1>2, <1>3

LEMMA EndKeeps ==
    ASSUME Inv(State), End
    PROVE  Inv(State')
<1>1. PICK advanced \in Advanced(Submitted(State)) :
        \E carried \in CarryReady(advanced) :
        \E begun \in BeginUpload(carried) :
        \E settled \in SettleTheUpload(begun) :
        \E reset \in ApplyReset(settled) : Become(reset)
  BY DEF End
<1>2. Inv(advanced)
  BY SubmittedKeeps, AdvancedKeeps
<1>3. PICK carried \in CarryReady(advanced) :
        \E begun \in BeginUpload(carried) :
        \E settled \in SettleTheUpload(begun) :
        \E reset \in ApplyReset(settled) : Become(reset)
  BY <1>1
<1>4. Inv(carried)
  BY <1>2, CarryReadyKeeps
<1>5. PICK begun \in BeginUpload(carried) :
        \E settled \in SettleTheUpload(begun) :
        \E reset \in ApplyReset(settled) : Become(reset)
  BY <1>3
<1>6. Inv(begun)
  BY <1>4, BeginUploadKeeps
<1>7. PICK settled \in SettleTheUpload(begun) :
        \E reset \in ApplyReset(settled) : Become(reset)
  BY <1>5
<1>8. Inv(settled)
  BY <1>6, SettleTheUploadKeeps
<1>9. PICK reset \in ApplyReset(settled) : Become(reset)
  BY <1>7
<1>10. Inv(reset)
  BY <1>8, ApplyResetKeeps
<1>11. State' = reset
  BY <1>9, <1>10 DEF Become, State, Inv, States
<1> QED
  BY <1>10, <1>11

\* What the worker's thread does makes nothing of the host's and no job.
LEMMA WorkerKeeps ==
    ASSUME NEW s, Inv(s), NEW th \in Thread, NEW t,
           t = [coordinator |-> s.coordinator, runtime |-> s.runtime,
                worker |-> s.worker, thread |-> th, asked |-> s.asked],
           th.alive => s.thread.alive, s.worker.held,
           ~th.alive => th.job = None /\ th.waiting = None,
           \A token \in Token : WithWorker(t, token) => WithWorker(s, token),
           JobsInOrder(t),
           s.worker.token # None /\ AnswerIsComing(s) => AnswerIsComing(t)
    PROVE  Inv(t)
<1>1. /\ t.coordinator = s.coordinator /\ t.runtime = s.runtime
      /\ t.worker = s.worker /\ t.thread = th /\ t.asked = s.asked
  OBVIOUS
<1>2. t \in States
  BY Parts DEF Inv, States
<1>3. s.runtime \in Runtime /\ s.worker \in [held : BOOLEAN, token : Option(Token)]
  BY Parts DEF Inv
<1>4. \A token \in Token : WithWorker(s, token) => Made(s.runtime, token)
  BY NoneIsNone DEF Inv, TokensAreMade, WithWorker, Answered
<1>5. TokensAreMade(t)
  <2>1. Made(s.runtime, th.job) /\ Made(s.runtime, th.waiting)
    BY <1>1, <1>4, ThreadParts DEF WithWorker, Option, Made
  <2>2. \A i \in DOMAIN th.events : Made(s.runtime, th.events[i].token)
    BY <1>1, <1>4, ThreadParts DEF WithWorker, Answered
  <2> QED
    BY <1>1, <2>1, <2>2 DEF Inv, TokensAreMade
<1>6. LatestAlone(t)
  <2>1. s.runtime.requested # None /\ WithWorker(t, s.runtime.requested)
          => WithWorker(s, s.runtime.requested)
    BY <1>3, RuntimeParts DEF Option
  <2> QED
    BY <1>1, <2>1 DEF Inv, LatestAlone
<1>7. Held(t) /\ Owed(t)
  BY <1>1 DEF Inv, Held, Owed, Outcome
<1>8. HostHoldsWorker(t) /\ AskStands(t)
  BY <1>1 DEF Inv, HostHoldsWorker, AskStands
<1> QED
  BY <1>2, <1>5, <1>6, <1>7, <1>8 DEF Inv

LEMMA TakeNewestKeeps ==
    ASSUME Inv(State), TakeNewest
    PROVE  Inv(State')
<1> DEFINE s == State
           th == [thread EXCEPT !.job = thread.waiting, !.waiting = None]
           t == [coordinator |-> s.coordinator, runtime |-> s.runtime,
                 worker |-> s.worker, thread |-> th, asked |-> s.asked]
<1>1. /\ s.thread = thread /\ s.runtime = runtime /\ s.worker = worker
      /\ thread \in Thread /\ State' = t
  BY Parts DEF State, TakeNewest, Inv
<1>2. /\ th \in Thread /\ th.alive = thread.alive /\ th.job = thread.waiting
      /\ th.waiting = None /\ th.events = thread.events
      /\ thread.alive = TRUE /\ thread.waiting # None
  BY <1>1, ThreadParts DEF Thread, Option, TakeNewest
<1>3. t.runtime = s.runtime /\ t.worker = s.worker /\ t.thread = th
  OBVIOUS
<1> HIDE DEF s, th, t
<1>4. \A token \in Token : WithWorker(t, token) => WithWorker(s, token)
  BY <1>1, <1>2, <1>3, NoneIsNone DEF WithWorker, Answered
<1>5. JobsInOrder(t)
  BY <1>1, <1>2, <1>3 DEF Inv, JobsInOrder, Before, s
<1>6. s.worker.token # None /\ AnswerIsComing(s) => AnswerIsComing(t)
  BY <1>1, <1>2, <1>3 DEF AnswerIsComing, InHand, Answered
<1>7. s.worker.held
  BY <1>1, <1>2 DEF Inv, HostHoldsWorker, s
<1>8. Inv(t)
  BY <1>1, <1>2, <1>4, <1>5, <1>6, <1>7, WorkerKeeps DEF s, t
<1> QED
  BY <1>1, <1>8

LEMMA FinishKeeps ==
    ASSUME Inv(State), Finish
    PROVE  Inv(State')
<1>0. PICK ok \in BOOLEAN :
        thread' = [thread EXCEPT !.job = None,
                     !.events = Append(@, [token |-> thread.job, ok |-> ok])]
  BY DEF Finish
<1> DEFINE s == State
           end == [token |-> thread.job, ok |-> ok]
           th == [thread EXCEPT !.job = None,
                    !.events = Append(thread.events, end)]
           t == [coordinator |-> s.coordinator, runtime |-> s.runtime,
                 worker |-> s.worker, thread |-> th, asked |-> s.asked]
<1>1. /\ s.thread = thread /\ s.runtime = runtime /\ s.worker = worker
      /\ thread \in Thread /\ State' = t
  BY <1>0, Parts DEF State, Finish, Inv
<1>2. thread.alive = TRUE /\ thread.job # None /\ thread.job \in Token
  BY <1>1, ThreadParts DEF Option, Finish
<1>3. end \in Ends /\ end.token = thread.job
  BY <1>2 DEF Ends
<1> HIDE DEF end
<1>4. /\ Append(thread.events, end) \in Seq(Ends)
      /\ DOMAIN Append(thread.events, end) = 1..(Len(thread.events) + 1)
      /\ Append(thread.events, end)[Len(thread.events) + 1] = end
      /\ \A i \in DOMAIN thread.events :
           Append(thread.events, end)[i] = thread.events[i]
      /\ DOMAIN thread.events = 1..Len(thread.events) /\ Len(thread.events) \in Nat
  BY <1>1, <1>3, ThreadParts
<1>5. /\ th \in Thread /\ th.alive = TRUE /\ th.job = None
      /\ th.waiting = thread.waiting /\ th.events = Append(thread.events, end)
  BY <1>1, <1>2, <1>4, ThreadParts DEF Thread, Option
<1>6. t.runtime = s.runtime /\ t.worker = s.worker /\ t.thread = th
  OBVIOUS
<1> HIDE DEF s, th, t
<1>7. \A token : Answered(th, token) <=> Answered(thread, token) \/ token = thread.job
  <2> SUFFICES ASSUME NEW token
               PROVE  Answered(th, token)
                        <=> Answered(thread, token) \/ token = thread.job
    OBVIOUS
  <2>1. ASSUME Answered(th, token)
        PROVE  Answered(thread, token) \/ token = thread.job
    <3>1. PICK i \in DOMAIN th.events : th.events[i].token = token
      BY <2>1 DEF Answered
    <3>2. i \in DOMAIN thread.events \/ i = Len(thread.events) + 1
      BY <3>1, <1>4, <1>5
    <3> QED
      BY <3>1, <3>2, <1>3, <1>4, <1>5 DEF Answered
  <2>2. ASSUME Answered(thread, token)
        PROVE  Answered(th, token)
    <3>1. PICK i \in DOMAIN thread.events : thread.events[i].token = token
      BY <2>2 DEF Answered
    <3>2. i \in DOMAIN th.events /\ th.events[i] = thread.events[i]
      BY <3>1, <1>4, <1>5
    <3> QED
      BY <3>1, <3>2 DEF Answered
  <2>3. Answered(th, thread.job)
    <3>1. Len(thread.events) + 1 \in DOMAIN th.events
      BY <1>4, <1>5
    <3> QED
      BY <3>1, <1>3, <1>4, <1>5 DEF Answered
  <2> QED
    BY <2>1, <2>2, <2>3
<1>8. \A token \in Token : WithWorker(t, token) => WithWorker(s, token)
  BY <1>1, <1>5, <1>6, <1>7, NoneIsNone DEF WithWorker
<1>9. JobsInOrder(t)
  <2>1. \A i \in DOMAIN th.events :
          \/ i \in DOMAIN thread.events /\ th.events[i] = thread.events[i]
          \/ i = Len(thread.events) + 1 /\ th.events[i] = end
    BY <1>4, <1>5
  <2>2. /\ Before(thread.job, thread.waiting) /\ Before(thread.job, runtime.preparing)
        /\ Before(thread.waiting, runtime.preparing)
        /\ Before(worker.token, runtime.preparing)
        /\ \A i \in DOMAIN thread.events :
             /\ Before(thread.events[i].token, thread.job)
             /\ Before(thread.events[i].token, thread.waiting)
             /\ Before(thread.events[i].token, runtime.preparing)
             /\ \A j \in 1..(i - 1) :
                  Before(thread.events[j].token, thread.events[i].token)
    BY <1>1 DEF Inv, JobsInOrder, s
  <2>3. \A i \in DOMAIN th.events :
          /\ Before(th.events[i].token, thread.waiting)
          /\ Before(th.events[i].token, runtime.preparing)
    BY <2>1, <2>2, <1>3
  <2>4. ASSUME NEW i \in DOMAIN th.events, NEW j \in 1..(i - 1)
        PROVE  Before(th.events[j].token, th.events[i].token)
    <3>1. j \in DOMAIN thread.events /\ th.events[j] = thread.events[j]
      BY <1>4, <1>5, <2>1
    <3> QED
      BY <3>1, <2>1, <2>2, <1>3
  <2>5. /\ Before(None, thread.waiting) /\ Before(None, runtime.preparing)
        /\ \A token : Before(token, None)
    BY DEF Before
  <2> QED
    BY <2>2, <2>3, <2>4, <2>5, <1>1, <1>5, <1>6 DEF JobsInOrder
<1>10. s.worker.token # None /\ AnswerIsComing(s) => AnswerIsComing(t)
  BY <1>1, <1>2, <1>5, <1>6, <1>7 DEF AnswerIsComing, InHand
<1>11. s.worker.held
  BY <1>1, <1>2 DEF Inv, HostHoldsWorker, s
<1>12. Inv(t)
  BY <1>1, <1>2, <1>5, <1>8, <1>9, <1>10, <1>11, WorkerKeeps DEF s, t
<1> QED
  BY <1>1, <1>12

LEMMA DieKeeps ==
    ASSUME Inv(State), Die
    PROVE  Inv(State')
<1> DEFINE s == State
           th == [thread EXCEPT !.alive = FALSE, !.job = None, !.waiting = None]
           t == [coordinator |-> s.coordinator, runtime |-> s.runtime,
                 worker |-> s.worker, thread |-> th, asked |-> s.asked]
<1>1. /\ s.thread = thread /\ s.runtime = runtime /\ s.worker = worker
      /\ thread \in Thread /\ State' = t
  BY Parts DEF State, Die, Inv
<1>2. /\ th \in Thread /\ th.alive = FALSE /\ th.job = None
      /\ th.waiting = None /\ th.events = thread.events /\ thread.alive = TRUE
  BY <1>1, ThreadParts DEF Thread, Option, Die
<1>3. t.runtime = s.runtime /\ t.worker = s.worker /\ t.thread = th
  OBVIOUS
<1> HIDE DEF s, th, t
<1>4. \A token \in Token : WithWorker(t, token) => WithWorker(s, token)
  BY <1>1, <1>2, <1>3, NoneIsNone DEF WithWorker, Answered
<1>5. JobsInOrder(t)
  BY <1>1, <1>2, <1>3 DEF Inv, JobsInOrder, Before, s
<1>6. AnswerIsComing(t)
  BY <1>2, <1>3 DEF AnswerIsComing
<1>7. s.worker.held
  BY <1>1, <1>2 DEF Inv, HostHoldsWorker, s
<1>8. Inv(t)
  BY <1>1, <1>2, <1>4, <1>5, <1>6, <1>7, WorkerKeeps DEF s, t
<1> QED
  BY <1>1, <1>8

\* Who acts asks anew.
LEMMA ActKeeps ==
    ASSUME NEW s, Inv(s), NEW c \in Coordinator,
           c.carrying = s.coordinator.carrying,
           NEW t, t = [coordinator |-> c, runtime |-> s.runtime,
                       worker |-> s.worker, thread |-> s.thread, asked |-> 0]
    PROVE  Inv(t)
<1>1. /\ t.coordinator = c /\ t.runtime = s.runtime
      /\ t.worker = s.worker /\ t.thread = s.thread /\ t.asked = 0
  OBVIOUS
<1>2. t \in States
  BY Parts DEF Inv, States
<1>3. LatestAlone(t)
  BY <1>1 DEF Inv, LatestAlone, WithWorker
<1>4. Held(t) /\ Owed(t) /\ TokensAreMade(t) /\ HostHoldsWorker(t) /\ JobsInOrder(t)
  BY <1>1 DEF Inv, Held, Owed, AnswerIsComing, TokensAreMade, HostHoldsWorker, JobsInOrder
<1>5. AskStands(t)
  BY <1>1 DEF AskStands
<1> QED
  BY <1>2, <1>3, <1>4, <1>5 DEF Inv

LEMMA UserKeeps ==
    ASSUME Inv(State), Edit \/ ReplaceScene \/ Remesh \/ Reset
    PROVE  Inv(State')
<1>1. /\ State.coordinator = coordinator /\ State.runtime = runtime
      /\ State.worker = worker /\ State.thread = thread /\ State.asked = asked
      /\ coordinator \in Coordinator
  BY Parts DEF State, Inv
<1>2. State' = [coordinator |-> coordinator', runtime |-> State.runtime,
                worker |-> State.worker, thread |-> State.thread,
                asked |-> asked']
  BY <1>1 DEF State, Edit, ReplaceScene, Remesh, Reset, Acting
<1>3. coordinator' \in Coordinator /\ coordinator'.carrying = coordinator.carrying
  <2>0. coordinator.revision + 1 \in Nat
    BY <1>1, CoordinatorParts
  <2>1. CASE Edit
    <3>1. coordinator' = [coordinator EXCEPT !.revision = coordinator.revision + 1]
      BY <2>1 DEF Edit
    <3> QED
      BY <1>1, <2>0, <3>1 DEF Coordinator
  <2>2. CASE ReplaceScene
    <3> DEFINE c == coordinator
    <3>1. coordinator' = [revision |-> c.revision + 1, requested_revision |-> None,
                          remesh |-> c.remesh, reset |-> c.reset, drop |-> TRUE,
                          carrying |-> c.carrying]
      BY <1>1, <2>2 DEF Coordinator, ReplaceScene
    <3>2. coordinator'.carrying = c.carrying
      BY <3>1
    <3>3. coordinator' \in Coordinator
      BY <1>1, <2>0, <3>1, CoordinatorParts DEF Coordinator, Option
    <3> QED
      BY <3>2, <3>3
  <2>3. CASE Remesh
    BY <1>1, <2>3, CoordinatorParts DEF Coordinator, Remesh, Option
  <2>4. CASE Reset
    BY <1>1, <2>4, CoordinatorParts DEF Coordinator, Reset, Option
  <2> QED
    BY <2>1, <2>2, <2>3, <2>4
<1>4. CASE asked' = 0
  BY <1>1, <1>2, <1>3, <1>4, ActKeeps
<1>5. CASE Reset
  <2>1. /\ coordinator'.revision = coordinator.revision
        /\ coordinator'.requested_revision = coordinator.requested_revision
        /\ coordinator'.remesh = coordinator.remesh
        /\ coordinator'.drop = coordinator.drop
    BY <1>1, <1>5 DEF Coordinator, Reset
  <2>2. Inv(OnCoordinator(State, coordinator'))
    BY <1>1, <1>3, <2>1, IdleKeeps
  <2>3. OnCoordinator(State, coordinator')
          = [coordinator |-> coordinator', runtime |-> State.runtime,
             worker |-> State.worker, thread |-> State.thread,
             asked |-> State.asked]
    BY DEF OnCoordinator, States, Inv
  <2>4. asked' = State.asked
    BY <1>1, <1>5 DEF Reset
  <2> QED
    BY <1>2, <2>2, <2>3, <2>4
<1> QED
  BY <1>4, <1>5 DEF Edit, ReplaceScene, Remesh

LEMMA AdaptKeeps ==
    ASSUME Inv(State), Adapt
    PROVE  Inv(State')
<1> DEFINE s == State
           token == Reserved(runtime, runtime.active.revision)
           r == AdaptedRequest(runtime, token)
           t == State'
<1>1. /\ s.coordinator = coordinator /\ s.runtime = runtime
      /\ s.worker = worker /\ s.thread = thread /\ s.asked = asked
      /\ s \in States /\ runtime \in Runtime /\ thread \in Thread
      /\ worker \in [held : BOOLEAN, token : Option(Token)]
      /\ coordinator \in Coordinator
  BY Parts DEF State, Inv
<1>2. /\ t.coordinator = coordinator /\ t.runtime = r
      /\ t.worker = worker /\ t.thread = thread /\ t.asked = 0
      /\ t = [coordinator |-> coordinator, runtime |-> r, worker |-> worker,
              thread |-> thread, asked |-> 0]
  BY DEF State, Adapt, Acting
<1>3. /\ runtime.active # None /\ runtime.active.revision \in Nat
      /\ coordinator.carrying = "nothing"
      /\ runtime.preparing = None /\ runtime.ready = None
      /\ worker.held => worker.token = None
  BY <1>1, RuntimeParts, NoneIsNone DEF Adapt, InProgress, Option
<1>4. worker.token = None
  BY <1>1, <1>3 DEF Inv, HostHoldsWorker
<1>5. /\ token \in Token /\ token # None /\ token.mesh = runtime.next
      /\ token \notin {runtime.active, runtime.preparing, runtime.ready,
                       runtime.requested, runtime.last_error}
      /\ ~WithWorker(s, token)
      /\ \A old \in {worker.token, thread.job, thread.waiting} : Before(old, token)
      /\ \A i \in DOMAIN thread.events : Before(thread.events[i].token, token)
  BY <1>1, <1>3, ReservedIsNew
<1> HIDE DEF token
<1>6. /\ r.requested = token /\ r.ready = None /\ r.preparing = token
      /\ r.active = runtime.active /\ r.next = runtime.next + 1
      /\ r.last_error \in {None, runtime.last_error}
  BY <1>1 DEF AdaptedRequest, Runtime
<1>7. r \in Runtime
  <2>1. runtime.next + 1 \in Nat /\ r.next = runtime.next + 1 /\ r.adaptation = TRUE
    BY <1>1, RuntimeParts DEF AdaptedRequest, Runtime
  <2>2. r = [active |-> r.active, preparing |-> r.preparing, ready |-> r.ready,
             requested |-> r.requested, adaptation |-> r.adaptation,
             last_error |-> r.last_error, next |-> r.next]
    <3>1. PICK error : r = [runtime EXCEPT !.next = @ + 1, !.preparing = token,
                              !.ready = None, !.requested = token,
                              !.adaptation = TRUE, !.last_error = error]
      BY DEF AdaptedRequest
    <3> HIDE DEF r
    <3> QED
      BY <1>1, <3>1 DEF Runtime
  <2>3. /\ r.active \in Option(Token) /\ r.preparing \in Option(Token)
        /\ r.ready \in Option(Token) /\ r.requested \in Option(Token)
        /\ r.last_error \in Option(Token)
    BY <1>1, <1>5, <1>6, RuntimeParts DEF Option
  <2>4. r.next \in Nat /\ r.adaptation \in BOOLEAN
    BY <2>1
  <2> HIDE DEF r
  <2> QED
    BY <2>2, <2>3, <2>4 DEF Runtime
<1> HIDE DEF r, s, t
<1>8. t \in States
  BY <1>1, <1>2, <1>7 DEF States
<1>9. TokensAreMade(t)
  <2>1. \A old : Made(runtime, old) /\ old \in Option(Token) => Made(r, old)
    BY <1>1, <1>6, RuntimeParts, NoneIsNone DEF Made, Option
  <2>2. Made(r, token) /\ Made(r, None)
    BY <1>1, <1>5, <1>6, RuntimeParts DEF Made
  <2>3. \A i \in DOMAIN thread.events : Made(r, thread.events[i].token)
    BY <1>1, <2>1, ThreadParts DEF Inv, TokensAreMade, Option, s
  <2>4. Made(r, runtime.active) /\ Made(r, runtime.last_error)
        /\ Made(r, thread.job) /\ Made(r, thread.waiting)
    BY <1>1, <2>1, RuntimeParts, ThreadParts DEF Inv, TokensAreMade, s
  <2>5. Made(r, r.last_error)
    BY <1>6, <2>2, <2>4
  <2> QED
    BY <1>2, <1>4, <1>6, <2>2, <2>3, <2>4, <2>5 DEF TokensAreMade
<1>10. JobsInOrder(t)
  BY <1>1, <1>2, <1>4, <1>5, <1>6 DEF Inv, JobsInOrder, Before, s
<1>11. LatestAlone(t) /\ Held(t)
  BY <1>2, <1>3, <1>5, <1>6 DEF LatestAlone, Held, Outcome
<1>12. AskStands(t) /\ Owed(t)
  BY <1>2, <1>4 DEF AskStands, Owed
<1>13. HostHoldsWorker(t)
  BY <1>1, <1>2 DEF Inv, HostHoldsWorker, s
<1> QED
  BY <1>8, <1>9, <1>10, <1>11, <1>12, <1>13 DEF Inv, t

LEMMA InitHolds ==
    ASSUME Init
    PROVE  Inv(State)
<1> DEFINE s == State
<1>1. /\ s.coordinator = coordinator /\ s.runtime = runtime
      /\ s.worker = worker /\ s.thread = thread /\ s.asked = asked
      /\ s = [coordinator |-> coordinator, runtime |-> runtime,
              worker |-> worker, thread |-> thread, asked |-> asked]
  BY DEF State
<1>2. /\ coordinator \in Coordinator /\ coordinator.carrying = "nothing"
      /\ asked = 0
  BY DEF Init, Coordinator, Option
<1>3. /\ runtime \in Runtime /\ runtime.active = None /\ runtime.preparing = None
      /\ runtime.ready = None /\ runtime.requested = None
      /\ runtime.last_error = None
  BY DEF Init, NoTopology, Runtime, Option
<1>4. /\ worker \in [held : BOOLEAN, token : Option(Token)] /\ worker.token = None
      /\ worker.held \in BOOLEAN
  BY DEF Init, Option
<1>5. thread = [alive |-> worker.held, job |-> None, waiting |-> None, events |-> <<>>]
  BY <1>4, ThreadIs DEF Init
<1>6. /\ thread \in Thread /\ thread.alive = worker.held /\ thread.job = None
      /\ thread.waiting = None /\ thread.events = <<>> /\ DOMAIN thread.events = {}
  <2> DEFINE nothing == <<>>
  <2>1. nothing \in Seq(Ends) /\ DOMAIN nothing = {}
    OBVIOUS
  <2>2. thread = [alive |-> worker.held, job |-> None, waiting |-> None,
                  events |-> nothing]
    BY <1>5
  <2> HIDE DEF nothing
  <2>3. thread \in Thread /\ thread.events = nothing
    BY <1>4, <2>1, <2>2 DEF Thread, Option
  <2> QED
    BY <2>1, <2>2, <2>3 DEF nothing
<1>7. s \in States
  BY <1>1, <1>2, <1>3, <1>4, <1>6 DEF States
<1> HIDE DEF s
<1>8. TokensAreMade(s) /\ JobsInOrder(s)
  BY <1>1, <1>3, <1>4, <1>6 DEF TokensAreMade, JobsInOrder, Made, Before
<1>9. LatestAlone(s) /\ Held(s) /\ Owed(s)
  BY <1>1, <1>2, <1>3, <1>4 DEF LatestAlone, Held, Owed, Outcome
<1>10. HostHoldsWorker(s) /\ AskStands(s)
  BY <1>1, <1>2, <1>4, <1>6 DEF HostHoldsWorker, AskStands
<1> QED
  BY <1>7, <1>8, <1>9, <1>10 DEF Inv, s

-----------------------------------------------------------------------------
(* The theorems.                                                            *)

\* Whatever the user does and whenever workers die, a frame finds the runtime,
\* its worker and their channels as PreparationInvariant says: one latest
\* request, its job in one place, and the others older and without effect.
THEOREM PreparationIsInvariant == Spec => []PreparationInvariant
<1>1. Init => PreparationInvariant
  <2> SUFFICES ASSUME Init PROVE PreparationInvariant
    OBVIOUS
  <2>1. Inv(State)
    BY InitHolds
  <2>2. frame \in {"begin", "listen", "end"} /\ acts \in 0..Acts /\ deaths \in 0..Deaths
    BY ActsAssumption DEF Init
  <2> QED
    BY <2>1, <2>2 DEF PreparationInvariant, TypeOK, Inv
<1>2. PreparationInvariant /\ [Next]_vars => PreparationInvariant'
  <2> SUFFICES ASSUME PreparationInvariant, [Next]_vars
               PROVE  PreparationInvariant'
    OBVIOUS
  <2>1. Inv(State)
    BY DEF PreparationInvariant
  <2>2. Inv(State')
    <3>1. CASE Begin
      BY <2>1, <3>1, BeginKeeps
    <3>2. CASE Hear
      BY <2>1, <3>2, HearActionKeeps
    <3>3. CASE HearNothing
      BY <2>1, <3>3, HearNothingKeeps
    <3>4. CASE End
      BY <2>1, <3>4, EndKeeps
    <3>5. CASE TakeNewest
      BY <2>1, <3>5, TakeNewestKeeps
    <3>6. CASE Finish
      BY <2>1, <3>6, FinishKeeps
    <3>7. CASE Die
      BY <2>1, <3>7, DieKeeps
    <3>8. CASE Edit \/ ReplaceScene \/ Remesh \/ Reset
      BY <2>1, <3>8, UserKeeps
    <3>9. CASE Adapt
      BY <2>1, <3>9, AdaptKeeps
    <3>10. CASE UNCHANGED vars
      BY <2>1, <3>10 DEF vars, State
    <3> QED
      BY <3>1, <3>2, <3>3, <3>4, <3>5, <3>6, <3>7, <3>8, <3>9, <3>10 DEF Next
  <2>3. /\ frame' = frame \/ frame' \in {"begin", "listen", "end"}
        /\ acts' = acts \/ (acts < Acts /\ acts' = acts + 1)
        /\ deaths' = deaths \/ (deaths < Deaths /\ deaths' = deaths + 1)
    <3>1. CASE Begin \/ Hear \/ HearNothing \/ End
      BY <3>1 DEF Begin, Hear, HearNothing, End
    <3>2. CASE TakeNewest \/ Finish \/ Die
      BY <3>2 DEF TakeNewest, Finish, Die
    <3>3. CASE Edit \/ ReplaceScene \/ Remesh \/ Reset \/ Adapt
      BY <3>3 DEF Edit, ReplaceScene, Remesh, Reset, Adapt, Acting
    <3> QED
      BY <3>1, <3>2, <3>3 DEF Next, vars
  <2>4. frame' \in {"begin", "listen", "end"} /\ acts' \in 0..Acts
        /\ deaths' \in 0..Deaths
    BY <2>3, ActsAssumption DEF PreparationInvariant, TypeOK
  <2> QED
    BY <2>2, <2>3, <2>4 DEF PreparationInvariant, TypeOK, Inv
<1> QED
  BY <1>1, <1>2, PTL DEF Spec

\* A request nothing has become of is with the runtime or with a worker that
\* answers or is dead, so that no death loses it.
THEOREM NoRequestIsLost == Spec => []RequestIsHeld
<1>1. PreparationInvariant => RequestIsHeld
  BY DEF PreparationInvariant, Inv, RequestIsHeld
<1> QED
  BY <1>1, PreparationIsInvariant, PTL

\* A preparation that keeps new requests waiting has an answer to come.
THEOREM NoWaitIsForNothing == Spec => []WorkerOwesAnAnswer
<1>1. PreparationInvariant => WorkerOwesAnAnswer
  BY DEF PreparationInvariant, Inv, WorkerOwesAnAnswer
<1> QED
  BY <1>1, PreparationIsInvariant, PTL

\* No failure is asked for again until somebody acts.
THEOREM NothingIsAskedTwice == Spec => []AskedOnce
<1>1. PreparationInvariant => AskedOnce
  <2> SUFFICES ASSUME PreparationInvariant PROVE AskedOnce
    OBVIOUS
  <2>1. AskStands(State) /\ State.asked = asked
    BY DEF PreparationInvariant, Inv, State
  <2> QED
    BY <2>1 DEF AskStands, AskedOnce
<1> QED
  BY <1>1, PreparationIsInvariant, PTL

-----------------------------------------------------------------------------
(* The promise: how what the latest request has become of may go on.         *)

Progress(r, q) ==
  /\ q.requested = r.requested /\ q.next = r.next
  /\ \/ Outcome(q) = Outcome(r)
     \/ Outcome(r) = "preparing" /\ Outcome(q) \in {"ready", "failed", "running"}
     \/ Outcome(r) = "ready" /\ Outcome(q) \in {"failed", "running"}

LEMMA ProgressComposes ==
    ASSUME NEW r, NEW q, NEW p, Progress(r, q), Progress(q, p)
    PROVE  Progress(r, p)
BY DEF Progress

LEMMA EndingProgresses ==
    ASSUME NEW s, Inv(s), s.runtime.ready # None,
           NEW r \in {Committed(s.runtime), Rejected(s.runtime)}
    PROVE  Progress(s.runtime, r)
<1>1. /\ r.preparing = s.runtime.preparing /\ r.ready = None
      /\ r.requested = s.runtime.requested /\ r.next = s.runtime.next
      /\ \/ r.active = s.runtime.ready /\ r.last_error = s.runtime.last_error
         \/ r.active = s.runtime.active /\ r.last_error = s.runtime.ready
  BY Parts, RuntimeParts DEF Inv, Committed, Rejected, Runtime
<1>2. s.runtime.ready = s.runtime.requested /\ s.runtime.requested # None
      /\ s.runtime.active # s.runtime.requested
  BY DEF Inv, LatestAlone
<1> QED
  BY <1>1, <1>2 DEF Progress, Outcome

\* What has nothing more to do than carry a candidate carries it or ends it.
LEMMA CarryingProgresses ==
    ASSUME NEW s, Inv(s), NEW way \in {"nothing", "packing", "patching", "uploading"},
           NEW t,
           \/ t \in {s, Carrying(s, way)}
           \/ /\ s.runtime.ready # None
              /\ \E r \in {Committed(s.runtime), Rejected(s.runtime)} :
                   t \in {OnRuntime(s, r), Carrying(OnRuntime(s, r), "nothing")}
    PROVE  Progress(s.runtime, t.runtime)
<1>1. s \in States
  BY DEF Inv
<1>2. CASE t \in {s, Carrying(s, way)}
  <2>1. t.runtime = s.runtime
    BY <1>1, <1>2, CarryingIs
  <2> QED
    BY <2>1 DEF Progress
<1>3. CASE /\ s.runtime.ready # None
           /\ \E r \in {Committed(s.runtime), Rejected(s.runtime)} :
                t \in {OnRuntime(s, r), Carrying(OnRuntime(s, r), "nothing")}
  <2>1. PICK r \in {Committed(s.runtime), Rejected(s.runtime)} :
          t \in {OnRuntime(s, r), Carrying(OnRuntime(s, r), "nothing")}
    BY <1>3
  <2>2. r \in Runtime
    BY <1>1, Parts, EndedIsRuntime
  <2> DEFINE u == OnRuntime(s, r)
  <2>3. u \in States /\ u.runtime = r
    BY <1>1, <2>2, OnRuntimeIs
  <2> HIDE DEF u
  <2>4. t.runtime = r
    BY <2>1, <2>3, CarryingIs DEF u
  <2> QED
    BY <1>3, <2>4, EndingProgresses
<1> QED
  BY <1>2, <1>3

\* An answer to the latest request finds it in preparation.
LEMMA SettledProgresses ==
    ASSUME NEW s, Inv(s), NEW r \in Runtime, NEW end \in Ends,
           r.requested = s.runtime.requested, r.next = s.runtime.next,
           r.active = s.runtime.active, r.ready = s.runtime.ready,
           r.last_error = s.runtime.last_error,
           \/ WithWorker(s, end.token)
           \/ s.runtime.preparing = end.token
    PROVE  Progress(s.runtime, Settled(r, end))
<1>1. Outcome(r) = Outcome(s.runtime)
  BY DEF Outcome
<1>2. CASE end.token # r.requested
  BY <1>1, <1>2 DEF Progress, Settled
<1>3. CASE end.token = r.requested
  <2>1. end.token # None
    BY NoneIsNone DEF Ends
  <2>2. Outcome(s.runtime) = "preparing"
    BY <1>3, <2>1 DEF Inv, LatestAlone
  <2> DEFINE q == Settled(r, end)
  <2>3. /\ q.requested = r.requested /\ q.next = r.next /\ q.active = r.active
        /\ \/ q.ready = r.requested /\ q.last_error = r.last_error
           \/ q.ready = r.ready /\ q.last_error = r.requested
    BY <1>3 DEF Settled, Runtime
  <2> HIDE DEF q
  <2>4. Outcome(q) \in {"ready", "failed"}
    BY <1>1, <1>3, <2>1, <2>2, <2>3 DEF Outcome
  <2>5. Progress(s.runtime, q)
    BY <2>2, <2>3, <2>4 DEF Progress
  <2> QED
    BY <2>5 DEF q
<1> QED
  BY <1>2, <1>3

LEMMA HearProgresses ==
    ASSUME Inv(State), Hear
    PROVE  Progress(runtime, runtime')
<1> DEFINE end == Head(thread.events)
<1>1. /\ State.thread = thread /\ State.runtime = runtime /\ thread \in Thread
      /\ runtime \in Runtime
  BY Parts DEF State, Inv
<1>2. end \in Ends /\ 1 \in DOMAIN thread.events /\ thread.events[1] = end
  BY <1>1, ThreadParts DEF Hear
<1>3. WithWorker(State, end.token)
  BY <1>1, <1>2 DEF WithWorker, Answered
<1>4. runtime' = Settled(runtime, end)
  BY DEF Hear, Become, Heard, State
<1> QED
  BY <1>1, <1>2, <1>3, <1>4, SettledProgresses

LEMMA StoppedProgresses ==
    ASSUME NEW s, Inv(s), NEW t \in Stopped(s)
    PROVE  Progress(s.runtime, t.runtime)
<1>1. s \in States /\ s.runtime \in Runtime
      /\ s.worker \in [held : BOOLEAN, token : Option(Token)]
  BY Parts DEF Inv
<1>2. ASSUME NEW u \in States, t \in Spawned(u)
      PROVE  t.runtime = u.runtime
  BY <1>2 DEF Spawned, States
<1>3. CASE t = s
  BY <1>3 DEF Progress
<1>4. CASE t \in Spawned(s)
  BY <1>1, <1>2, <1>4 DEF Progress
<1>5. CASE t # s /\ s.worker.token # None
  <2> DEFINE end == [token |-> s.worker.token, ok |-> FALSE]
             r == Settled(s.runtime, end)
             u == OnRuntime(s, r)
  <2>1. end \in Ends /\ end.token = s.worker.token
    BY <1>1, <1>5 DEF Ends, Option
  <2>2. r \in Runtime
    BY <2>1, <1>1, SettledIsRuntime
  <2>3. WithWorker(s, end.token)
    BY <2>1 DEF WithWorker
  <2>4. Progress(s.runtime, r)
    BY <2>1, <2>3, <1>1, SettledProgresses
  <2>5. t \in Spawned(u)
    BY <1>5 DEF Stopped
  <2> HIDE DEF r, end
  <2>6. u \in States /\ u.runtime = r
    BY <2>2, <1>1, OnRuntimeIs
  <2> HIDE DEF u
  <2> QED
    BY <2>4, <2>5, <2>6, <1>2
<1> QED
  BY <1>3, <1>4, <1>5 DEF Stopped

LEMMA AdvancedProgresses ==
    ASSUME NEW s, Inv(s), NEW t \in Advanced(s)
    PROVE  Progress(s.runtime, t.runtime)
<1>1. s \in States /\ s.runtime \in Runtime
  BY Parts DEF Inv
<1>2. CASE t = s
  BY <1>2 DEF Progress
<1>3. CASE t # s
  <2> DEFINE newest == s.runtime.preparing
             r == [s.runtime EXCEPT !.preparing = None]
  <2>1. PICK ok \in BOOLEAN :
          t = OnRuntime(s, Settled(r, [token |-> newest, ok |-> ok]))
    BY <1>3 DEF Advanced
  <2> DEFINE end == [token |-> newest, ok |-> ok]
  <2>2. newest # None
    BY <1>3 DEF Advanced
  <2>3. /\ r \in Runtime /\ r.requested = s.runtime.requested
        /\ r.next = s.runtime.next /\ r.active = s.runtime.active
        /\ r.ready = s.runtime.ready /\ r.last_error = s.runtime.last_error
    BY <1>1 DEF Runtime, Option
  <2>4. end \in Ends /\ end.token = newest
    BY <1>1, <2>2, RuntimeParts DEF Ends, Option
  <2> HIDE DEF r, end
  <2>5. Progress(s.runtime, Settled(r, end))
    BY <2>3, <2>4, SettledProgresses
  <2>6. Settled(r, end) \in Runtime /\ t = OnRuntime(s, Settled(r, end))
    BY <2>1, <2>3, <2>4, SettledIsRuntime DEF end
  <2>7. t.runtime = Settled(r, end)
    <3> DEFINE q == Settled(r, end)
    <3> HIDE DEF q
    <3>1. q \in Runtime /\ t = OnRuntime(s, q)
      BY <2>6 DEF q
    <3>2. t.runtime = q
      BY <1>1, <3>1, OnRuntimeIs
    <3> QED
      BY <3>2 DEF q
  <2> QED
    BY <2>5, <2>7
<1> QED
  BY <1>2, <1>3

LEMMA SubmittedProgresses ==
    ASSUME NEW s, Inv(s)
    PROVE  Progress(s.runtime, Submitted(s).runtime)
<1>1. s \in States /\ s.runtime \in Runtime
  BY Parts DEF Inv
<1> DEFINE t == Submitted(s)
<1>2. CASE s.runtime.preparing = None
  BY <1>2 DEF Submitted, Progress
<1>3. CASE s.runtime.preparing # None /\ s.worker.held /\ s.thread.alive
  <2>1. t.runtime = [s.runtime EXCEPT !.preparing = None]
    BY <1>1, <1>3 DEF Submitted, States
  <2>2. /\ t.runtime.requested = s.runtime.requested
        /\ t.runtime.next = s.runtime.next /\ t.runtime.active = s.runtime.active
        /\ t.runtime.ready = s.runtime.ready
        /\ t.runtime.last_error = s.runtime.last_error
    BY <1>1, <2>1 DEF Runtime
  <2> HIDE DEF t
  <2>3. Progress(s.runtime, t.runtime)
    BY <2>2 DEF Progress, Outcome
  <2> QED
    BY <2>3 DEF t
<1>4. CASE s.runtime.preparing # None /\ ~(s.worker.held /\ s.thread.alive)
  <2>1. t.runtime = s.runtime
    BY <1>1, <1>4 DEF Submitted, States
  <2> QED
    BY <2>1 DEF Progress
<1> QED
  BY <1>2, <1>3, <1>4

LEMMA ResetProgresses ==
    ASSUME NEW s, Inv(s), NEW t \in ApplyReset(s)
    PROVE  Progress(s.runtime, t.runtime)
<1>1. t.runtime = s.runtime
  BY DEF ApplyReset, OnCoordinator, Inv, States
<1> QED
  BY <1>1 DEF Progress

LEMMA EndProgresses ==
    ASSUME Inv(State), End
    PROVE  Progress(runtime, runtime')
<1>1. PICK advanced \in Advanced(Submitted(State)) :
        \E carried \in CarryReady(advanced) :
        \E begun \in BeginUpload(carried) :
        \E settled \in SettleTheUpload(begun) :
        \E reset \in ApplyReset(settled) : Become(reset)
  BY DEF End
<1>2. Inv(Submitted(State)) /\ Progress(State.runtime, Submitted(State).runtime)
  BY SubmittedKeeps, SubmittedProgresses
<1>3. Inv(advanced) /\ Progress(Submitted(State).runtime, advanced.runtime)
  BY <1>2, AdvancedKeeps, AdvancedProgresses
<1>4. PICK carried \in CarryReady(advanced) :
        \E begun \in BeginUpload(carried) :
        \E settled \in SettleTheUpload(begun) :
        \E reset \in ApplyReset(settled) : Become(reset)
  BY <1>1
<1>5. Inv(carried) /\ Progress(advanced.runtime, carried.runtime)
  <2>1. Inv(carried)
    BY <1>3, CarryReadyKeeps
  <2>2. \E way \in {"patching", "packing"} :
          \/ carried \in {advanced, Carrying(advanced, way)}
          \/ /\ advanced.runtime.ready # None
             /\ \E r \in {Committed(advanced.runtime), Rejected(advanced.runtime)} :
                  carried = OnRuntime(advanced, r)
    BY DEF CarryReady, Ending
  <2> QED
    BY <1>3, <2>1, <2>2, CarryingProgresses
<1>6. PICK begun \in BeginUpload(carried) :
        \E settled \in SettleTheUpload(begun) :
        \E reset \in ApplyReset(settled) : Become(reset)
  BY <1>4
<1>7. Inv(begun) /\ Progress(carried.runtime, begun.runtime)
  <2>1. Inv(begun)
    BY <1>5, BeginUploadKeeps
  <2>2. \/ begun \in {carried, Carrying(carried, "uploading")}
        \/ /\ carried.runtime.ready # None
           /\ begun = Carrying(OnRuntime(carried, Rejected(carried.runtime)), "nothing")
    BY <1>5 DEF BeginUpload, NotCarrying, Inv, LatestAlone
  <2> QED
    BY <1>5, <2>1, <2>2, CarryingProgresses
<1>8. PICK settled \in SettleTheUpload(begun) :
        \E reset \in ApplyReset(settled) : Become(reset)
  BY <1>6
<1>9. Inv(settled) /\ Progress(begun.runtime, settled.runtime)
  <2>1. Inv(settled)
    BY <1>7, SettleTheUploadKeeps
  <2>2. \/ settled = begun
        \/ /\ begun.runtime.ready # None
           /\ \E r \in {Committed(begun.runtime), Rejected(begun.runtime)} :
                settled = Carrying(OnRuntime(begun, r), "nothing")
    BY <1>7 DEF SettleTheUpload, NotCarrying, Ending, Inv, LatestAlone
  <2> QED
    BY <1>7, <2>1, <2>2, CarryingProgresses
<1>10. PICK reset \in ApplyReset(settled) : Become(reset)
  BY <1>8
<1>11. Progress(settled.runtime, reset.runtime)
  BY <1>9, ResetProgresses
<1>12. Progress(State.runtime, reset.runtime)
  BY <1>2, <1>3, <1>5, <1>7, <1>9, <1>11, ProgressComposes
<1> QED
  BY <1>10, <1>12 DEF Become, State

\* A request made is one the promise allows.
AsksFor(r, q) ==
  /\ q.requested \in Token /\ q.requested.mesh = r.next /\ q.next = r.next + 1
  /\ Outcome(q) \in {"preparing", "failed"}

LEMMA BeginProgresses ==
    ASSUME Inv(State), Begin
    PROVE  \/ Progress(runtime, runtime')
           \/ AsksFor(runtime, runtime')
           \/ /\ runtime'.requested = None /\ Outcome(runtime') = "none"
              /\ runtime'.next = runtime.next
<1>1. PICK settled \in FinishSourceCommit(DropReplaced(State)) :
        \E requested \in RequestRuntime(settled) : Become(requested)
  BY DEF Begin
<1>2. PICK requested \in RequestRuntime(settled) : Become(requested)
  BY <1>1
<1> DEFINE dropped == DropReplaced(State)
<1>3. Inv(dropped) /\ Inv(settled) /\ ~settled.coordinator.drop
  BY DropKeeps, FinishSourceCommitKeeps
<1>4. /\ runtime' = requested.runtime /\ State.runtime = runtime
      /\ runtime \in Runtime /\ State \in States
  BY <1>2, Parts DEF Become, State, Inv
<1>5. \/ dropped.runtime = runtime
      \/ /\ dropped.runtime.requested = None /\ Outcome(dropped.runtime) = "none"
         /\ dropped.runtime.next = runtime.next
  BY <1>4 DEF DropReplaced, Cleared, NoTopology, Outcome, States
<1> HIDE DEF dropped
<1>6. Progress(dropped.runtime, settled.runtime)
  <2>1. \/ settled = dropped
        \/ /\ dropped.runtime.ready # None
           /\ \E r \in {Committed(dropped.runtime), Rejected(dropped.runtime)} :
                settled = Carrying(OnRuntime(dropped, r), "nothing")
    BY <1>3 DEF FinishSourceCommit, NotCarrying, Ending, Inv, LatestAlone, dropped
  <2> QED
    BY <1>3, <2>1, CarryingProgresses
<1>7. CASE requested = settled
  BY <1>4, <1>5, <1>6, <1>7 DEF Progress, Outcome
<1>8. CASE requested # settled
  <2> DEFINE token == Reserved(settled.runtime, settled.coordinator.revision)
  <2>1. requested \in Asking(settled)
    BY <1>8 DEF RequestRuntime
  <2>2. /\ settled \in States /\ settled.coordinator.revision \in Nat
        /\ settled.runtime \in Runtime
    BY <1>3, Parts, CoordinatorParts DEF Inv
  <2>3. /\ token \in Token /\ token # None /\ token.mesh = settled.runtime.next
        /\ token # settled.runtime.active
    BY <1>3, <2>2, ReservedIsNew
  <2> HIDE DEF token
  <2>4. requested.runtime \in {RequestMade(settled.runtime, token),
                               RequestRefused(settled.runtime, token)}
    BY <2>1, <2>2 DEF Asking, States, token
  <2>5. /\ requested.runtime.requested = token
        /\ requested.runtime.next = settled.runtime.next + 1
        /\ requested.runtime.ready = None
        /\ requested.runtime.active = settled.runtime.active
    BY <2>2, <2>4 DEF RequestMade, RequestRefused, Runtime
  <2>6. Outcome(requested.runtime) \in {"preparing", "failed"}
    BY <2>3, <2>5 DEF Outcome
  <2>7. settled.runtime.next = runtime.next
    BY <1>5, <1>6 DEF Progress
  <2> QED
    BY <1>4, <2>3, <2>5, <2>6, <2>7 DEF AsksFor
<1> QED
  BY <1>7, <1>8

LEMMA AdaptAsks ==
    ASSUME Inv(State), Adapt
    PROVE  AsksFor(runtime, runtime')
<1> DEFINE token == Reserved(runtime, runtime.active.revision)
           r == runtime'
<1>1. State.runtime = runtime /\ runtime \in Runtime
  BY Parts DEF State, Inv
<1>2. runtime.active # None /\ runtime.active.revision \in Nat
  BY <1>1, RuntimeParts, NoneIsNone DEF Adapt, Option
<1>3. /\ token \in Token /\ token # None /\ token.mesh = runtime.next
      /\ token # runtime.active /\ token # runtime.last_error
  BY <1>1, <1>2, ReservedIsNew
<1> HIDE DEF token
<1>4. /\ r.requested = token /\ r.ready = None /\ r.active = runtime.active
      /\ r.next = runtime.next + 1
  BY <1>1 DEF Adapt, AdaptedRequest, Runtime, token
<1>5. Outcome(r) \in {"preparing", "failed"}
  BY <1>3, <1>4 DEF Outcome
<1> QED
  BY <1>3, <1>4, <1>5 DEF AsksFor

\* Every step of the frame, the worker and the user is one the promise allows,
\* or none of its own: the latest request alone is settled, once, and runs only
\* once it was ready.
THEOREM StepsKeepThePromise ==
    Spec => Promise!PromiseInit /\ [][Promise!PromiseNext]_(Promise!promiseVars)
<1>1. Init => Promise!PromiseInit
  BY DEF Init, NoTopology, Promise!PromiseInit, Outcome
<1>2. PreparationInvariant /\ [Next]_vars
        => [Promise!PromiseNext]_(Promise!promiseVars)
  <2> SUFFICES ASSUME PreparationInvariant, [Next]_vars
               PROVE  [Promise!PromiseNext]_(Promise!promiseVars)
    OBVIOUS
  <2>1. Inv(State) /\ runtime \in Runtime /\ runtime.next \in Nat
    BY Parts, RuntimeParts DEF PreparationInvariant, Inv, State
  <2>2. \/ Progress(runtime, runtime')
        \/ AsksFor(runtime, runtime')
        \/ /\ runtime'.requested = None /\ Outcome(runtime') = "none"
           /\ runtime'.next = runtime.next
    <3>1. CASE Begin
      BY <2>1, <3>1, BeginProgresses
    <3>2. CASE Hear
      BY <2>1, <3>2, HearProgresses
    <3>3. CASE HearNothing
      <4>1. PICK t \in Stopped(State) : Become(t)
        BY <3>3 DEF HearNothing
      <4> QED
        BY <2>1, <4>1, StoppedProgresses DEF Become, State
    <3>4. CASE End
      BY <2>1, <3>4, EndProgresses
    <3>5. CASE Adapt
      BY <2>1, <3>5, AdaptAsks
    <3>6. CASE UNCHANGED runtime
      BY <3>6 DEF Progress
    <3> QED
      BY <3>1, <3>2, <3>3, <3>4, <3>5, <3>6
         DEF Next, vars, TakeNewest, Finish, Die, Edit, ReplaceScene, Remesh, Reset
  <2>3. CASE Progress(runtime, runtime')
    BY <2>3 DEF Progress, Promise!PromiseNext, Promise!Settle, Promise!Carry,
                Promise!promiseVars
  <2>4. CASE AsksFor(runtime, runtime')
    BY <2>1, <2>4 DEF AsksFor, Promise!PromiseNext, Promise!Ask, Promise!Token, Token
  <2>5. CASE /\ runtime'.requested = None /\ Outcome(runtime') = "none"
             /\ runtime'.next = runtime.next
    BY <2>5 DEF Promise!PromiseNext, Promise!Forget
  <2> QED
    BY <2>2, <2>3, <2>4, <2>5
<1> QED
  BY <1>1, <1>2, PreparationIsInvariant, PTL DEF Spec
=============================================================================
