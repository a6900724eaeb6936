----------------------- MODULE GenerationOrder_proofs -----------------------
(***************************************************************************)
(* That what the host publishes and the device runs never goes back, that  *)
(* a replaced scene leaves nothing behind, and that nothing is asked for   *)
(* at rest, for every value of the constants: the action properties of     *)
(* GenerationProtocol.  They are of a frame, so they are carried through   *)
(* its blocks.                                                             *)
(***************************************************************************)
EXTENDS GenerationProtocol_proofs

-----------------------------------------------------------------------------
(* The order of requests. *)

\* One candidate was asked for no earlier than another, and at no earlier
\* revision of the document.
After(c, other) == c.token >= other.token /\ c.revision >= other.revision

\* What the device runs.
Now(d) == IF d.running = None THEN None ELSE d.running.candidate

\* The candidate was asked for, at a revision the document has had.
Asked(c, s) == c.token < s.host.next /\ c.revision <= s.editor.revision

\* Nothing before the candidate `floor` runs or is on its way.
NotBefore(floor, s) ==
  /\ Asked(floor, s)
  /\ \A c \in {s.host.preparing, s.host.ready, Now(s.device)} \ {None} :
       After(c, floor)

\* Nothing runs or is on its way before what runs or was published.
Ordered(s) ==
  /\ \A c \in {s.host.preparing, s.host.ready} \ {None} : Asked(c, s)
  /\ \A c \in {s.host.active, Now(s.device)} \ {None} : NotBefore(c, s)

\* What a block does to what is asked for, ready, published and running: each
\* goes, stays or takes the next one's place, and a new request is the last.
Moves(s, t) ==
  LET h == s.host
      k == t.host
      now == Now(s.device)
      next == Now(t.device)
      New(c) == /\ c.token = h.next
                /\ \/ c.revision = s.editor.revision
                   \/ now # None /\ c.revision = now.revision
  IN  /\ t.editor.revision >= s.editor.revision
      /\ k.next >= h.next
      /\ k.ready \in {None, h.ready, h.preparing}
      /\ \/ k.preparing \in {None, h.preparing}
         \/ New(k.preparing) /\ k.next > h.next /\ next = now
      /\ next \in {None, now, h.ready}
      /\ k.active \in {None, h.active, next}

\* What was published was `published` or later, and what runs or is on its
\* way is `ran` or later.
Since(published, ran, s) ==
  /\ Good(s) /\ Ordered(s)
  /\ published # None =>
       /\ NotBefore(published, s)
       /\ s.host.active # None => After(s.host.active, published)
  /\ ran # None => NotBefore(ran, s)

\* The names and the counts of a good state.
LEMMA OrderParts ==
  ASSUME NEW s, Good(s)
  PROVE  /\ s.host.next \in Nat /\ s.editor.revision \in Nat
         /\ \A c \in {s.host.preparing, s.host.ready, s.host.active, s.host.packed,
                      Now(s.device)} : c # None => c \in Candidate
         /\ s.host.preparing = None \/ s.host.ready = None
<1>1. /\ s.host \in Host /\ s.device \in Device /\ s.editor \in Editor
      /\ Coherent(s.host, s.device)
  BY GoodParts
<1>2. s.host.next \in Nat /\ s.editor.revision \in Nat
  BY <1>1, BoundsAssumption DEF Host, Editor
<1>3. \A c \in {s.host.preparing, s.host.ready, s.host.active, s.host.packed} :
        c # None => c \in Candidate
  BY <1>1, OptionSet DEF Host
<1>4. Now(s.device) # None => Now(s.device) \in Candidate
  <2>1. s.device.running # None => s.device.running \in Running
    BY <1>1, OptionSet DEF Device
  <2>. QED BY <2>1 DEF Now, Running
<1>. QED BY <1>1, <1>2, <1>3, <1>4 DEF Coherent, OneRequest

\* A name and a revision are numbers.
LEMMA CandidateParts ==
  ASSUME NEW c \in Candidate
  PROVE  c.token \in Nat /\ c.revision \in Nat /\ After(c, c)
<1>1. c.token \in Nat /\ c.revision \in Nat BY BoundsAssumption DEF Candidate, Token
<1>. QED BY <1>1 DEF After

\* A move puts nothing before what nothing was before.
LEMMA MoveKeepsFloor ==
  ASSUME NEW s, NEW t, Good(s), Good(t), Moves(s, t), NEW floor \in Candidate,
         NotBefore(floor, s)
  PROVE  NotBefore(floor, t)
<1>1. /\ s.host.next \in Nat /\ s.editor.revision \in Nat
      /\ t.host.next \in Nat /\ t.editor.revision \in Nat
      /\ floor.token \in Nat /\ floor.revision \in Nat
  BY OrderParts, CandidateParts
<1>2. Asked(floor, s) BY DEF NotBefore
<1>3. Asked(floor, t) BY <1>1, <1>2 DEF Asked, Moves
<1>4. \A c : c \in {s.host.preparing, s.host.ready, Now(s.device)} /\ c # None =>
        After(c, floor)
  BY DEF NotBefore
<1>5. t.host.ready # None => After(t.host.ready, floor) BY <1>4 DEF Moves
<1>6. Now(t.device) # None => After(Now(t.device), floor) BY <1>4 DEF Moves
<1>7. t.host.preparing # None => After(t.host.preparing, floor)
  <2>1. CASE t.host.preparing \in {None, s.host.preparing} BY <1>4, <2>1
  <2>2. CASE /\ t.host.preparing.token = s.host.next
             /\ \/ t.host.preparing.revision = s.editor.revision
                \/ /\ Now(s.device) # None
                   /\ t.host.preparing.revision = Now(s.device).revision
    <3>1. t.host.preparing.token >= floor.token BY <1>1, <1>2, <2>2 DEF Asked
    <3>2. t.host.preparing.revision >= floor.revision
      <4>1. s.editor.revision >= floor.revision BY <1>1, <1>2 DEF Asked
      <4>2. Now(s.device) # None => Now(s.device).revision >= floor.revision
        BY <1>4 DEF After
      <4>. QED BY <2>2, <4>1, <4>2
    <3>. QED BY <3>1, <3>2 DEF After
  <2>. QED BY <2>1, <2>2 DEF Moves
<1>. QED BY <1>3, <1>5, <1>6, <1>7 DEF NotBefore

\* A move keeps the order.
LEMMA MoveKeepsOrder ==
  ASSUME NEW s, NEW t, Good(s), Good(t), Moves(s, t), Ordered(s)
  PROVE  Ordered(t)
<1>1. /\ s.host.next \in Nat /\ s.editor.revision \in Nat
      /\ t.host.next \in Nat /\ t.editor.revision \in Nat
      /\ t.editor.revision >= s.editor.revision /\ t.host.next >= s.host.next
      /\ s.host.preparing = None \/ s.host.ready = None
  BY OrderParts DEF Moves
<1>2. ASSUME NEW c \in Candidate, Asked(c, s) PROVE Asked(c, t)
  BY <1>1, <1>2, CandidateParts DEF Asked
<1>3. \A c : c \in {s.host.active, Now(s.device)} /\ c # None =>
        c \in Candidate /\ NotBefore(c, s)
  BY OrderParts DEF Ordered
<1>4. \A c : c \in {s.host.active, Now(s.device)} /\ c # None => NotBefore(c, t)
  BY <1>3, MoveKeepsFloor
<1>5. \A c : c \in {s.host.preparing, s.host.ready} /\ c # None =>
        c \in Candidate /\ Asked(c, s) /\ Asked(c, t)
  BY <1>2, OrderParts DEF Ordered
<1>6. t.host.ready # None => Asked(t.host.ready, t) BY <1>5 DEF Moves
<1>7. t.host.preparing # None => Asked(t.host.preparing, t)
  <2>1. CASE t.host.preparing \in {None, s.host.preparing} BY <1>5, <2>1
  <2>2. CASE /\ t.host.preparing.token = s.host.next /\ t.host.next > s.host.next
             /\ \/ t.host.preparing.revision = s.editor.revision
                \/ /\ Now(s.device) # None
                   /\ t.host.preparing.revision = Now(s.device).revision
    <3>1. t.host.preparing.token < t.host.next BY <1>1, <2>2
    <3>2. Now(s.device) # None => Asked(Now(s.device), t) BY <1>4 DEF NotBefore
    <3>3. t.host.preparing.revision <= t.editor.revision
      BY <1>1, <2>2, <3>2 DEF Asked
    <3>. QED BY <3>1, <3>3 DEF Asked
  <2>. QED BY <2>1, <2>2 DEF Moves
<1>8. Now(t.device) # None => NotBefore(Now(t.device), t)
  <2>1. CASE Now(t.device) \in {None, Now(s.device)} BY <1>4, <2>1
  <2>2. CASE Now(t.device) = s.host.ready /\ s.host.ready # None
                /\ Now(t.device) # Now(s.device)
    <3>1. t.host.preparing = None
      BY <1>1, <2>2 DEF Moves
    <3>2. t.host.ready \in {None, s.host.ready} BY <1>1, <2>2 DEF Moves
    <3>3. s.host.ready \in Candidate /\ Asked(s.host.ready, t) BY <1>5, <2>2
    <3>4. After(s.host.ready, s.host.ready) BY <3>3, CandidateParts
    <3>. QED BY <2>2, <3>1, <3>2, <3>3, <3>4 DEF NotBefore
  <2>. QED BY <2>1, <2>2 DEF Moves
<1>9. t.host.active # None => NotBefore(t.host.active, t)
  BY <1>4, <1>8 DEF Moves
<1>. QED BY <1>6, <1>7, <1>8, <1>9 DEF Ordered

\* A move keeps what has been so since.
LEMMA MoveKeeps ==
  ASSUME NEW published \in Option(Candidate), NEW ran \in Option(Candidate),
         NEW s, NEW t, Since(published, ran, s), Good(t), Moves(s, t)
  PROVE  Since(published, ran, t)
<1>1. Good(s) /\ Ordered(t) BY MoveKeepsOrder DEF Since
<1>2. ran # None => NotBefore(ran, t) BY <1>1, MoveKeepsFloor, OptionSet DEF Since
<1>3. published # None => NotBefore(published, t)
  BY <1>1, MoveKeepsFloor, OptionSet DEF Since
<1>4. published # None /\ t.host.active # None => After(t.host.active, published)
  BY <1>3 DEF Since, Moves, NotBefore
<1>. QED BY <1>1, <1>2, <1>3, <1>4 DEF Since

-----------------------------------------------------------------------------
(* Each block of a frame moves, or chains two moves. *)

\* Staying is a move.
LEMMA StayMoves ==
  ASSUME NEW s, Good(s)
  PROVE  Moves(s, s)
BY OrderParts DEF Moves

\* A state with another host and device is as they are.
LEMMA BothAre ==
  ASSUME NEW s, Good(s), NEW h \in Host, NEW d \in Device
  PROVE  /\ OnDevice(OnHost(s, h), d).editor = s.editor
         /\ OnDevice(OnHost(s, h), d).host = h
         /\ OnDevice(OnHost(s, h), d).device = d
<1>1. s \in States BY GoodParts
<1>2. OnHost(s, h) \in States /\ OnHost(s, h).editor = s.editor BY <1>1, OnHostIs
<1>. QED BY <1>1, <1>2, BothHost, OnDeviceIs

\* The host and the device that make a move which asks for nothing.
Carries(s, h, d) ==
  /\ h.next = s.host.next
  /\ h.ready \in {None, s.host.ready, s.host.preparing}
  /\ h.preparing \in {None, s.host.preparing}
  /\ Now(d) \in {None, Now(s.device), s.host.ready}
  /\ h.active \in {None, s.host.active, Now(d)}

\* Such a host and device make a move.
LEMMA BothMove ==
  ASSUME NEW s, Good(s), NEW h \in Host, NEW d \in Device, Carries(s, h, d)
  PROVE  Moves(s, OnDevice(OnHost(s, h), d))
BY OrderParts, BothAre DEF Carries, Moves

\* So does such a host alone.
LEMMA HostMoves ==
  ASSUME NEW s, Good(s), NEW h \in Host, Carries(s, h, s.device)
  PROVE  Moves(s, OnHost(s, h))
<1>1. s \in States BY GoodParts
<1>. QED BY <1>1, OrderParts, OnHostIs DEF Carries, Moves

\* The end of a validation is a move.
LEMMA ValidationMoves ==
  ASSUME NEW s, Good(s), NEW fair, NEW t \in ValidationShare(s, fair)
  PROVE  Moves(s, t)
<1>1. s \in States /\ s.editor \in Editor /\ s.editor.inputs \in Inputs
      /\ s.editor.revision \in Nat
  BY GoodParts DEF Editor
<1>2. ASSUME NEW inputs \in Inputs PROVE Moves(s, [s EXCEPT !.editor = Validated(@, inputs)])
  <2>1. Validated(s.editor, inputs).revision = s.editor.revision
    BY <1>1 DEF Validated, Editor
  <2>2. /\ [s EXCEPT !.editor = Validated(@, inputs)].editor = Validated(s.editor, inputs)
        /\ [s EXCEPT !.editor = Validated(@, inputs)].host = s.host
        /\ [s EXCEPT !.editor = Validated(@, inputs)].device = s.device
    BY <1>1 DEF States
  <2>. QED BY <1>1, <2>1, <2>2, OrderParts DEF Moves
<1>. QED BY <1>1, <1>2, StayMoves DEF ValidationShare, Outcomes

\* Dropping a replaced scene is a move.
LEMMA DropMoves ==
  ASSUME NEW s, Good(s)
  PROVE  Moves(s, DropReplaced(s))
<1>. DEFINE d == [Emptied(s.device) EXCEPT !.running = None]
<1>1. s.host \in Host /\ s.device \in Device BY GoodParts
<1>2. Dropped(s.host) \in Host /\ d \in Device
  <2>1. Dropped(s.host) \in Host BY <1>1, DroppedTyped
  <2>2. d \in Device BY <1>1, EmptiedTyped
  <2>. QED BY <2>1, <2>2
<1>3. /\ Dropped(s.host).next = s.host.next
      /\ Dropped(s.host).ready = None /\ Dropped(s.host).preparing = None
      /\ Dropped(s.host).active = None
  BY <1>1 DEF Host, Dropped, Abandoned
<1>4. Now(d) = None BY <1>1 DEF Device, Emptied, Now
<1>5. Moves(s, OnDevice(OnHost(s, Dropped(s.host)), d))
  BY <1>2, <1>3, <1>4, BothMove DEF Carries
<1>. QED BY <1>5, StayMoves DEF DropReplaced

\* Committing the ready candidate in place is a move.
LEMMA CommitMoves ==
  ASSUME NEW s, Good(s), NEW c \in Candidate, s.host.uploading = None,
         s.host.uploaded # None
  PROVE  Moves(s, CommitInPlace(s, c))
<1>1. s.host \in Host /\ s.device \in Device /\ Coherent(s.host, s.device)
  BY GoodParts
<1>. SUFFICES ASSUME s.host.ready = c
              PROVE  Moves(s, OnDevice(OnHost(s,
                       [s.host EXCEPT !.ready = None, !.active = c]), Named(s.device, c)))
  BY StayMoves DEF CommitInPlace
<1>. DEFINE h == [s.host EXCEPT !.ready = None, !.active = c]
<1>2. h \in Host /\ Named(s.device, c) \in Device
  BY <1>1, NamedTyped, OptionHas DEF Host
<1>3. s.device.running \in Running
  BY <1>1, OptionSet DEF Device, Coherent, Runs, RunsActive
<1>4. Named(s.device, c).running = [s.device.running EXCEPT !.candidate = c]
  BY <1>1, <1>3, NoneApart DEF Named, Device
<1>5. [s.device.running EXCEPT !.candidate = c] \in Running BY <1>3 DEF Running
<1>6. Now(Named(s.device, c)) = c BY <1>3, <1>4, <1>5, NoneApart DEF Now, Running
<1>7. /\ h.next = s.host.next /\ h.ready = None /\ h.active = c
      /\ h.preparing = s.host.preparing
  BY <1>1 DEF Host
<1>. QED BY <1>2, <1>6, <1>7, BothMove DEF Carries

\* Rejecting a candidate is a move, on a device that runs the same.
LEMMA RejectedCarries ==
  ASSUME NEW s, Good(s), NEW h \in Host, NEW d, NEW c, Now(d) = Now(s.device),
         Carries(s, h, d)
  PROVE  Carries(s, Rejected(h, c), d)
BY DEF Host, Rejected, Carries

\* The settlement of a source patch keeps what has been so since.
LEMMA FinishKeeps ==
  ASSUME NEW published \in Option(Candidate), NEW ran \in Option(Candidate),
         NEW s, Since(published, ran, s)
  PROVE  Since(published, ran, FinishSourceCommit(s))
<1>. SUFFICES ASSUME s.host.source_commit # None, s.device.patched # None
              PROVE  Since(published, ran, FinishSourceCommit(s))
  BY DEF FinishSourceCommit
<1>. DEFINE c == s.host.source_commit
            h == [s.host EXCEPT !.source_commit = None]
            d == [s.device EXCEPT !.patched = None]
            t == OnDevice(OnHost(s, h), d)
<1>0. /\ Good(s) /\ s.host \in Host /\ s.device \in Device
      /\ Coherent(s.host, s.device)
  BY GoodParts DEF Since
<1>1. c \in Candidate BY <1>0, OptionSet DEF Host
<1>2. h \in Host /\ d \in Device BY <1>0, HostStepsTyped, DeviceStepsTyped
<1>3. Coherent(h, d) BY <1>0, PatchReadCoherent
<1>4. h.uploading = None /\ h.uploaded # None
  BY <1>0, GoodParts DEF Host, Coherent, OneWay, PatchAwaited
<1>5. Now(d) = Now(s.device) BY <1>0, GoodParts DEF Now, Device
<1>6. Carries(s, h, d) BY <1>0, <1>5, GoodParts DEF Carries, Host
<1>7. Good(FinishSourceCommit(s)) BY <1>0, FinishSourceCommitGood
<1>8. CASE s.device.patched = "Taken"
  <2>1. Good(t) BY <1>0, <1>2, <1>3, GoodBoth
  <2>2. Since(published, ran, t) BY <1>0, <1>2, <1>6, <2>1, BothMove, MoveKeeps
  <2>3. t.host = h BY <1>0, <1>2, BothAre
  <2>4. Moves(t, CommitInPlace(t, c)) BY <1>1, <1>4, <2>1, <2>3, CommitMoves
  <2>5. FinishSourceCommit(s) = CommitInPlace(t, c) BY <1>8 DEF FinishSourceCommit
  <2>. QED BY <1>7, <2>2, <2>4, <2>5, MoveKeeps
<1>9. CASE s.device.patched # "Taken"
  <2>1. Rejected(h, c) \in Host BY <1>1, <1>2, RejectedTyped
  <2>2. Carries(s, Rejected(h, c), d) BY <1>0, <1>2, <1>5, <1>6, RejectedCarries
  <2>3. FinishSourceCommit(s) = OnDevice(OnHost(s, Rejected(h, c)), d)
    BY <1>9 DEF FinishSourceCommit
  <2>. QED BY <1>0, <1>2, <1>7, <2>1, <2>2, <2>3, BothMove, MoveKeeps
<1>. QED BY <1>8, <1>9

\* Clearing a failure is a move: what runs is the same.
LEMMA ClearedMoves ==
  ASSUME NEW s, Good(s), Failed(s.device)
  PROVE  Moves(s, FailureCleared(s))
<1>. DEFINE h == [s.host EXCEPT !.fault = FALSE]
<1>1. s.host \in Host /\ s.device \in Device BY GoodParts
<1>2. s.device.running # None /\ s.device.running \in Running
  BY <1>1, OptionSet DEF Failed, Device
<1>3. h \in Host /\ Cleared(s.device) \in Device BY <1>1, PausedTyped, ClearedTyped
<1>4. Cleared(s.device).running
        = [s.device.running EXCEPT !.failed = FALSE, !.ready = FALSE, !.caught_up = TRUE]
  BY <1>1 DEF Cleared, Device
<1>5. [s.device.running EXCEPT !.failed = FALSE, !.ready = FALSE, !.caught_up = TRUE]
        \in Running
  BY <1>2 DEF Running
<1>6. Now(Cleared(s.device)) = Now(s.device)
  BY <1>2, <1>4, <1>5, NoneApart DEF Now, Running
<1>7. Carries(s, h, Cleared(s.device)) BY <1>1, <1>6 DEF Carries, Host
<1>. QED BY <1>3, <1>7, BothMove DEF FailureCleared

\* Supervising a failure is a move.
LEMMA SuperviseMoves ==
  ASSUME NEW s, Good(s)
  PROVE  Moves(s, Supervise(s))
<1>1. s.host \in Host BY GoodParts
<1>2. Moves(s, OnHost(s, [s.host EXCEPT !.fault = FALSE]))
  <2>1. [s.host EXCEPT !.fault = FALSE] \in Host BY <1>1, PausedTyped
  <2>. QED BY <1>1, <2>1, HostMoves DEF Carries, Host
<1>3. Moves(s, OnHost(s, Paused(s.host)))
  <2>1. Paused(s.host) \in Host BY <1>1, PausedTyped
  <2>. QED BY <1>1, <2>1, HostMoves DEF Carries, Host, Paused
<1>. QED BY <1>2, <1>3, ClearedMoves, StayMoves DEF Supervise, SuperviseFault

\* A request is a move: the last name, at the revision the document stands at.
LEMMA RequestedMoves ==
  ASSUME NEW s, Good(s), NEW h \in Host, Carries(s, h, s.device)
  PROVE  Moves(s, OnHost(s, Requested(h, s.editor)))
<1>1. s.host \in Host /\ s.editor \in Editor /\ s \in States BY GoodParts
<1>2. CASE ~Due(h, s.editor) \/ h.next >= Tokens BY <1>2, HostMoves DEF Requested
<1>3. CASE ~(~Due(h, s.editor) \/ h.next >= Tokens)
  <2>1. Requested(h, s.editor) \in Host BY <1>1, RequestedTyped
  <2>2. /\ Requested(h, s.editor).next = s.host.next + 1
        /\ Requested(h, s.editor).ready = None
        /\ Requested(h, s.editor).active = h.active
        /\ Requested(h, s.editor).preparing.token = s.host.next
        /\ Requested(h, s.editor).preparing.revision = s.editor.revision
    BY <1>3 DEF Requested, Host, CandidateFor, Carries
  <2>3. /\ OnHost(s, Requested(h, s.editor)).editor = s.editor
        /\ OnHost(s, Requested(h, s.editor)).host = Requested(h, s.editor)
        /\ OnHost(s, Requested(h, s.editor)).device = s.device
    BY <1>1, <2>1, OnHostIs
  <2>. QED BY <2>2, <2>3, OrderParts DEF Moves, Carries
<1>. QED BY <1>2, <1>3

\* Asking for a candidate is a move.
LEMMA RequestMoves ==
  ASSUME NEW s, Good(s), NEW fair, NEW t \in RequestShare(s, fair)
  PROVE  Moves(s, t)
<1>1. s.host \in Host BY GoodParts
<1>2. Moves(s, OnHost(s, Requested(s.host, s.editor)))
  BY <1>1, RequestedMoves DEF Carries
<1>3. Moves(s, OnHost(s, Requested(Retimed(s.host), s.editor)))
  <2>1. Retimed(s.host) \in Host BY <1>1, HostStepsTyped
  <2>2. Carries(s, Retimed(s.host), s.device) BY <1>1 DEF Carries, Retimed, Host
  <2>. QED BY <2>1, <2>2, RequestedMoves
<1>. QED BY <1>2, <1>3, StayMoves DEF RequestShare, Outcomes

\* Preparation's share of a frame is a move.
LEMMA PreparationMoves ==
  ASSUME NEW s, Good(s), NEW fair, NEW t \in PreparationShare(s, fair)
  PROVE  Moves(s, t)
<1>1. s.host \in Host BY GoodParts
<1>2. Prepared(s.host) \in Host /\ Unprepared(s.host) \in Host
  BY <1>1, HostStepsTyped
<1>3. Carries(s, Prepared(s.host), s.device) /\ Carries(s, Unprepared(s.host), s.device)
  BY <1>1 DEF Carries, Prepared, Unprepared, Host
<1>4. Moves(s, OnHost(s, Prepared(s.host))) BY <1>2, <1>3, HostMoves
<1>5. Moves(s, OnHost(s, Unprepared(s.host))) BY <1>2, <1>3, HostMoves
<1>. QED BY <1>4, <1>5, StayMoves DEF PreparationShare, Outcomes

\* Packing the ready candidate, or dropping a pack, is a move.
LEMMA PackMoves ==
  ASSUME NEW s, Good(s)
  PROVE  Moves(s, OnHost(s, Packed(s.host))) /\ Moves(s, OnHost(s, Unpacked(s.host)))
<1>1. s.host \in Host BY GoodParts
<1>2. Packed(s.host) \in Host /\ Unpacked(s.host) \in Host
  BY <1>1, HostStepsTyped
<1>3. Carries(s, Packed(s.host), s.device) /\ Carries(s, Unpacked(s.host), s.device)
  BY <1>1 DEF Carries, Packed, Unpacked, Host
<1>. QED BY <1>2, <1>3, HostMoves

\* Offering a source patch is a move, whatever the answer.
LEMMA PatchMoves ==
  ASSUME NEW s, Good(s), s.host.ready # None, NEW carriage \in Carriages
  PROVE  Moves(s, PatchSources(s, carriage))
<1>1. s.host \in Host /\ s.device \in Device BY GoodParts
<1>2. s.host.ready \in Candidate BY <1>1, OptionSet DEF Host
<1>3. Moves(s, PatchSent(s))
  <2>. DEFINE h == [s.host EXCEPT !.source_commit = s.host.ready]
              d == [s.device EXCEPT
                      !.event = [kind |-> "Patch", candidate |-> s.host.ready],
                      !.patched = None]
  <2>1. h \in Host BY <1>1, HostStepsTyped
  <2>2. d \in Device BY <1>1, <1>2, PatchEventTyped, OptionHas DEF Device
  <2>3. Now(d) = Now(s.device) BY <1>1 DEF Now, Device
  <2>4. Carries(s, h, d) BY <1>1, <2>3 DEF Carries, Host
  <2>. QED BY <2>1, <2>2, <2>4, BothMove DEF PatchSent
<1>4. Moves(s, OnHost(s, Rejected(s.host, s.host.ready)))
  <2>1. Rejected(s.host, s.host.ready) \in Host BY <1>1, <1>2, RejectedTyped
  <2>2. Carries(s, s.host, s.device) BY DEF Carries
  <2>3. Carries(s, Rejected(s.host, s.host.ready), s.device)
    BY <1>1, <2>2, RejectedCarries
  <2>. QED BY <2>1, <2>3, HostMoves
<1>. QED BY <1>3, <1>4, PackMoves, StayMoves DEF PatchSources, LiveEventFallback

\* Carrying the ready candidate is a move.
LEMMA CarryMoves ==
  ASSUME NEW s, Good(s), NEW t \in CarryReady(s)
  PROVE  Moves(s, t)
<1>1. CASE ~Unoccupied(s.host) \/ s.host.ready = None
  BY <1>1, StayMoves DEF CarryReady
<1>2. CASE Unoccupied(s.host) /\ s.host.ready # None
  <2>1. PICK carriage \in Carriages : t = CarriedAs(s, carriage)
    BY <1>2 DEF CarryReady
  <2>2. s.host.ready \in Candidate BY <1>2, GoodParts, OptionSet DEF Host
  <2>3. s.host.uploaded # None => Moves(s, CommitInPlace(s, s.host.ready))
    BY <1>2, <2>2, CommitMoves DEF Unoccupied
  <2>4. Moves(s, PatchSources(s, carriage)) BY <1>2, PatchMoves
  <2>5. Moves(s, OnHost(s, Packed(s.host))) BY PackMoves
  <2>. QED BY <2>1, <2>3, <2>4, <2>5 DEF CarriedAs, Carry
<1>. QED BY <1>1, <1>2

\* A frame's first blocks keep what has been so since.
LEMMA CarriedKeeps ==
  ASSUME NEW published \in Option(Candidate), NEW ran \in Option(Candidate),
         NEW s, Since(published, ran, s), NEW fair, NEW t \in Carried(s, fair)
  PROVE  Since(published, ran, t)
<1>1. PICK v \in ValidationShare(s, fair) :
      \E r \in RequestShare(Supervise(FinishSourceCommit(DropReplaced(v))), fair) :
      \E p \in PreparationShare(r, fair) : t \in CarryReady(DropStalePack(p))
  BY DEF Carried
<1>2. PICK r \in RequestShare(Supervise(FinishSourceCommit(DropReplaced(v))), fair) :
      \E p \in PreparationShare(r, fair) : t \in CarryReady(DropStalePack(p))
  BY <1>1
<1>3. PICK p \in PreparationShare(r, fair) : t \in CarryReady(DropStalePack(p))
  BY <1>2
<1>. DEFINE Kept(u) == Since(published, ran, u)
<1>4. Kept(v)
  <2>1. Good(s) BY DEF Since
  <2>2. Good(v) /\ Moves(s, v) BY <2>1, ValidationShareGood, ValidationMoves
  <2>. QED BY <2>2, MoveKeeps
<1>5. Kept(DropReplaced(v))
  <2>1. Good(v) BY <1>4 DEF Since
  <2>2. Good(DropReplaced(v)) /\ Moves(v, DropReplaced(v))
    BY <2>1, DropReplacedGood, DropMoves
  <2>. QED BY <1>4, <2>2, MoveKeeps
<1>6. Kept(FinishSourceCommit(DropReplaced(v))) BY <1>5, FinishKeeps
<1>7. Kept(Supervise(FinishSourceCommit(DropReplaced(v))))
  <2>. DEFINE u == FinishSourceCommit(DropReplaced(v))
  <2>1. Good(u) BY <1>6 DEF Since
  <2>2. Good(Supervise(u)) /\ Moves(u, Supervise(u))
    BY <2>1, SuperviseGood, SuperviseMoves
  <2>. QED BY <1>6, <2>2, MoveKeeps
<1>8. Kept(r)
  <2>. DEFINE u == Supervise(FinishSourceCommit(DropReplaced(v)))
  <2>1. Good(u) BY <1>7 DEF Since
  <2>2. Good(r) /\ Moves(u, r) BY <2>1, RequestShareGood, RequestMoves
  <2>. QED BY <1>7, <2>2, MoveKeeps
<1>9. Kept(p)
  <2>1. Good(r) BY <1>8 DEF Since
  <2>2. Good(p) /\ Moves(r, p) BY <2>1, PreparationShareGood, PreparationMoves
  <2>. QED BY <1>8, <2>2, MoveKeeps
<1>10. Kept(DropStalePack(p))
  <2>1. Good(p) BY <1>9 DEF Since
  <2>2. Moves(p, DropStalePack(p))
    BY <2>1, PackMoves, StayMoves DEF DropStalePack
  <2>. QED BY <1>9, <2>1, <2>2, DropStalePackGood, MoveKeeps
<1>11. Kept(t)
  <2>1. Good(DropStalePack(p)) BY <1>10 DEF Since
  <2>2. Good(t) /\ Moves(DropStalePack(p), t) BY <1>3, <2>1, CarryReadyGood, CarryMoves
  <2>. QED BY <1>10, <2>2, MoveKeeps
<1>. QED BY <1>11

\* What an installed device runs is what was installed.
LEMMA InstalledRuns ==
  ASSUME NEW d \in Device, NEW c \in Candidate
  PROVE  Now(Installed(d, c)) = c
<1>. DEFINE r == [candidate |-> c, step |-> c.token,
                  ready |-> FALSE, failed |-> FALSE, caught_up |-> TRUE]
<1>1. Emptied(d) \in Device BY EmptiedTyped
<1>2. Installed(d, c).running = r BY <1>1 DEF Installed, Device
<1>3. r \in Running /\ r.candidate = c BY DEF Running, Candidate
<1>4. r # None BY <1>3, NoneApart
<1>. HIDE DEF r
<1>. QED BY <1>2, <1>3, <1>4 DEF Now

\* Beginning the upload of the packed candidate is a move.
LEMMA UploadPackedMoves ==
  ASSUME NEW s, Good(s), s.host.packed # None, NEW fair,
         NEW t \in UploadPacked(s, fair)
  PROVE  Moves(s, t)
<1>. DEFINE c == s.host.packed
            g == NextGeneration(s.device.generation)
<1>1. s.host \in Host /\ s.device \in Device /\ Coherent(s.host, s.device)
  BY GoodParts
<1>2. c \in Candidate /\ c = s.host.ready
  BY <1>1, OptionSet DEF Host, Coherent, OneWay
<1>3. g \in Generation BY <1>1, NextGenerationTyped DEF Device
<1>4. UploadOf(c, g) \in Upload /\ c.token \in Token
  BY <1>2, <1>3, UploadOfTyped DEF Candidate
<1>5. Moves(s, InstallUpload(s, c))
  <2>. DEFINE h == [s.host EXCEPT !.packed = None, !.uploaded = c.token,
                                  !.uploading = UploadOf(c, g)]
  <2>1. h \in Host BY <1>1, <1>4, OptionHas DEF Host
  <2>2. Installed(s.device, c) \in Device BY <1>1, <1>2, InstalledTyped
  <2>3. Now(Installed(s.device, c)) = s.host.ready BY <1>1, <1>2, InstalledRuns
  <2>4. /\ h.next = s.host.next /\ h.ready = s.host.ready
        /\ h.preparing = s.host.preparing /\ h.active = s.host.active
    BY <1>1 DEF Host
  <2>5. Carries(s, h, Installed(s.device, c)) BY <2>3, <2>4 DEF Carries
  <2>. QED BY <2>1, <2>2, <2>5, BothMove DEF InstallUpload
<1>6. Moves(s, HandOff(s, c))
  <2>. DEFINE h == [s.host EXCEPT !.packed = None, !.uploading = UploadOf(c, g)]
              d == [s.device EXCEPT !.handoff = c, !.refused = FALSE]
  <2>1. h \in Host BY <1>1, <1>4, OptionHas DEF Host
  <2>2. d \in Device BY <1>1, <1>2, HandedTyped
  <2>3. Now(d) = Now(s.device) BY <1>1 DEF Now, Device
  <2>4. Carries(s, h, d) BY <1>1, <2>3 DEF Carries, Host
  <2>. QED BY <2>1, <2>2, <2>4, BothMove DEF HandOff
<1>7. Moves(s, OnHost(s, Rejected(Unpacked(s.host), c)))
  <2>1. Unpacked(s.host) \in Host BY <1>1, HostStepsTyped
  <2>2. Carries(s, Unpacked(s.host), s.device) BY <1>1 DEF Carries, Unpacked, Host
  <2>3. Carries(s, Rejected(Unpacked(s.host), c), s.device)
    BY <2>1, <2>2, RejectedCarries
  <2>4. Rejected(Unpacked(s.host), c) \in Host BY <1>2, <2>1, RejectedTyped
  <2>. QED BY <2>3, <2>4, HostMoves
<1>. QED BY <1>5, <1>6, <1>7, StayMoves DEF UploadPacked, Outcomes

\* The block that begins an upload keeps what has been so since.
LEMMA BeginKeeps ==
  ASSUME NEW published \in Option(Candidate), NEW ran \in Option(Candidate),
         NEW s, Since(published, ran, s), NEW fair, NEW t \in BeginUpload(s, fair)
  PROVE  Since(published, ran, t)
<1>0. Good(s) BY DEF Since
<1>1. CASE ~PackedAtDevice(s)
  <2>1. t = s BY <1>1 DEF BeginUpload
  <2>. QED BY <2>1
<1>2. CASE PackedAtDevice(s)
  <2>. DEFINE u == ReadyForUpload(s)
  <2>1. Good(u) BY <1>0, FailureClearedGood DEF ReadyForUpload
  <2>2. Moves(s, u) BY <1>0, ClearedMoves, StayMoves DEF ReadyForUpload
  <2>3. u.host.packed # None
    <3>1. CASE Failed(s.device)
      <4>1. [s.host EXCEPT !.fault = FALSE].packed = s.host.packed
        BY <1>0, GoodParts DEF Host
      <4>2. FailureCleared(s).host = [s.host EXCEPT !.fault = FALSE]
        BY <1>0, <3>1, GoodParts, PausedTyped, ClearedTyped, BothHost
           DEF FailureCleared
      <4>. QED BY <1>2, <3>1, <4>1, <4>2 DEF ReadyForUpload, PackedAtDevice
    <3>2. CASE ~Failed(s.device) BY <1>2, <3>2 DEF ReadyForUpload, PackedAtDevice
    <3>. QED BY <3>1, <3>2
  <2>4. Since(published, ran, u) BY <2>1, <2>2, MoveKeeps
  <2>5. t \in UploadPacked(u, fair) BY <1>2 DEF BeginUpload
  <2>6. Good(t) /\ Moves(u, t) BY <2>1, <2>3, <2>5, UploadPackedGood, UploadPackedMoves
  <2>. QED BY <2>4, <2>6, MoveKeeps
<1>. QED BY <1>1, <1>2

\* Settling the upload in flight is a move: what is published runs.
LEMMA SettleMoves ==
  ASSUME NEW s, Good(s)
  PROVE  Moves(s, SettleInFlight(s))
<1>. SUFFICES ASSUME s.host.uploading # None PROVE Moves(s, Settled(s))
  BY StayMoves DEF SettleInFlight
<1>. DEFINE c == s.host.uploading.candidate
            h == UploadOver(s.host)
<1>1. s.host \in Host /\ s.device \in Device /\ Coherent(s.host, s.device)
  BY GoodParts
<1>2. c \in Candidate BY <1>1, OptionSet DEF Host, Upload
<1>3. h \in Host /\ Rejected(h, c) \in Host BY <1>1, <1>2, HostStepsTyped, RejectedTyped
<1>4. /\ h.next = s.host.next /\ h.ready = s.host.ready
      /\ h.preparing = s.host.preparing /\ h.active = s.host.active
  BY <1>1 DEF Host, UploadOver
<1>5. Withdrawn(s.device) \in Device BY <1>1, DeviceStepsTyped
<1>6. Now(Withdrawn(s.device)) = Now(s.device) BY <1>1 DEF Now, Withdrawn, Device
<1>7. Moves(s, OnDevice(OnHost(s, Rejected(h, c)), Withdrawn(s.device)))
  <2>1. Carries(s, h, Withdrawn(s.device)) BY <1>4, <1>6 DEF Carries
  <2>2. Carries(s, Rejected(h, c), Withdrawn(s.device))
    BY <1>3, <1>6, <2>1, RejectedCarries
  <2>. QED BY <1>3, <1>5, <2>2, BothMove
<1>8. Moves(s, OnHost(s, Rejected(h, c)))
  <2>1. Carries(s, h, s.device) BY <1>4 DEF Carries
  <2>2. Carries(s, Rejected(h, c), s.device) BY <1>3, <2>1, RejectedCarries
  <2>. QED BY <1>3, <2>2, HostMoves
<1>9. ASSUME ~s.device.refused, s.device.handoff = None
      PROVE  Moves(s, OnHost(s, Published(s.host, c)))
  <2>1. RunsTarget(s.host, s.device) BY <1>1, <1>9 DEF Coherent, Runs, RunsSource
  <2>2. Now(s.device) = c BY <2>1 DEF Now, RunsTarget
  <2>3. Published(s.host, c) \in Host BY <1>1, <1>2, PublishedTyped
  <2>4. Carries(s, Published(s.host, c), s.device)
    BY <1>1, <2>2 DEF Carries, Published, Host
  <2>. QED BY <2>3, <2>4, HostMoves
<1>. QED BY <1>7, <1>8, <1>9, StayMoves DEF Settled, SettleUpload

\* Reset is a move: it installs what was published, which runs.
LEMMA ResetMoves ==
  ASSUME NEW s, Good(s)
  PROVE  Moves(s, ApplyReset(s))
<1>. SUFFICES ASSUME ResetMayApply(s.host) PROVE Moves(s, ApplyReset(s))
  BY StayMoves DEF ApplyReset
<1>. DEFINE h == [s.host EXCEPT !.packed = None, !.reset = FALSE,
                                !.uploaded = s.host.active.token,
                                !.pulses = 0, !.switches = 0]
<1>1. s.host \in Host /\ s.device \in Device /\ Coherent(s.host, s.device)
  BY GoodParts
<1>2. s.host.active \in Candidate BY <1>1, OptionSet DEF Host, ResetMayApply
<1>3. h \in Host BY <1>1, <1>2, OptionHas, ZeroCounts DEF Host, Candidate
<1>4. Installed(s.device, s.host.active) \in Device
  BY <1>1, <1>2, InstalledTyped
<1>5. Now(Installed(s.device, s.host.active)) = s.host.active
  BY <1>1, <1>2, InstalledRuns
<1>6. Now(s.device) = s.host.active
  BY <1>1 DEF Now, Coherent, Runs, RunsActive, ResetMayApply
<1>7. Carries(s, h, Installed(s.device, s.host.active))
  BY <1>1, <1>5, <1>6 DEF Carries, Host
<1>. QED BY <1>3, <1>4, <1>7, BothMove DEF ApplyReset

\* Offering a waiting event is a move.
LEMMA SentMoves ==
  ASSUME NEW s, Good(s), NEW kind \in {"Pulse", "Switch"}, NEW built,
         NEW h \in Host, Carries(s, h, s.device)
  PROVE  Moves(s, Sent(s, kind, h, built))
<1>1. s.device \in Device BY GoodParts
<1>2. EventSent(s.device, kind) \in Device BY <1>1, EventSentTyped
<1>3. Now(EventSent(s.device, kind)) = Now(s.device)
  BY <1>1 DEF Now, EventSent, Device
<1>4. Carries(s, h, EventSent(s.device, kind)) BY <1>3 DEF Carries
<1>. QED BY <1>2, <1>4, BothMove, HostMoves, StayMoves DEF Sent

\* Sending a pulse, and sending a press, are moves.
LEMMA SendMoves ==
  ASSUME NEW s, Good(s), NEW fair
  PROVE  /\ \A t \in SendPulse(s, fair) : Moves(s, t)
         /\ \A t \in SendSwitch(s, fair) : Moves(s, t)
<1>1. s.host \in Host BY GoodParts
<1>2. ASSUME s.host.pulses # 0
      PROVE  \A built \in BOOLEAN :
               Moves(s, Sent(s, "Pulse", [s.host EXCEPT !.pulses = @ - 1], built))
  <2>. DEFINE h == [s.host EXCEPT !.pulses = @ - 1]
  <2>1. s.host.pulses - 1 \in Pulses BY <1>1, <1>2, BoundsAssumption DEF Host, Pulses
  <2>2. h \in Host BY <1>1, <2>1 DEF Host
  <2>3. Carries(s, h, s.device) BY <1>1 DEF Carries, Host
  <2>. QED BY <2>2, <2>3, SentMoves
<1>3. ASSUME s.host.switches # 0
      PROVE  \A built \in BOOLEAN :
               Moves(s, Sent(s, "Switch", [s.host EXCEPT !.switches = @ - 1], built))
  <2>. DEFINE h == [s.host EXCEPT !.switches = @ - 1]
  <2>1. s.host.switches - 1 \in Switches
    BY <1>1, <1>3, BoundsAssumption DEF Host, Switches
  <2>2. h \in Host BY <1>1, <2>1 DEF Host
  <2>3. Carries(s, h, s.device) BY <1>1 DEF Carries, Host
  <2>. QED BY <2>2, <2>3, SentMoves
<1>. QED BY <1>2, <1>3, StayMoves DEF SendPulse, SendSwitch, Outcomes

\* Asking for steps is a move.
LEMMA StepsMove ==
  ASSUME NEW s, Good(s), NEW fair, NEW t \in TakeSteps(s, fair)
  PROVE  Moves(s, t)
<1>1. s.host \in Host /\ s.device \in Device BY GoodParts
<1>2. Stepped(s.host) \in Host BY <1>1, HostStepsTyped
<1>3. Carries(s, Stepped(s.host), s.device) BY <1>1 DEF Carries, Stepped, Host
<1>4. ASSUME s.device.running # None
      PROVE  Moves(s, OnDevice(OnHost(s, Stepped(s.host)), LeftBehind(s.device)))
  <2>1. s.device.running \in Running BY <1>1, <1>4, OptionSet DEF Device
  <2>2. LeftBehind(s.device).running = [s.device.running EXCEPT !.caught_up = FALSE]
    BY <1>1 DEF LeftBehind, Device
  <2>3. [s.device.running EXCEPT !.caught_up = FALSE] \in Running BY <2>1 DEF Running
  <2>4. Now(LeftBehind(s.device)) = Now(s.device)
    BY <1>4, <2>1, <2>2, <2>3, NoneApart DEF Now, Running
  <2>5. Carries(s, Stepped(s.host), LeftBehind(s.device)) BY <1>3, <2>4 DEF Carries
  <2>. QED BY <1>1, <1>2, <1>4, <2>5, LeftBehindTyped, BothMove
<1>. QED BY <1>2, <1>3, <1>4, HostMoves, StayMoves DEF TakeSteps, Outcomes

\* Adaptation's request is a move: the last name, at the revision that runs.
LEMMA AdaptMoves ==
  ASSUME NEW s, Good(s), NEW fair, NEW t \in AdaptShare(s, fair)
  PROVE  Moves(s, t)
<1>. SUFFICES ASSUME MayAdapt(s.host) PROVE Moves(s, OnHost(s, Adapted(s.host)))
  BY StayMoves DEF AdaptShare, Outcomes
<1>1. s.host \in Host /\ s.device \in Device /\ Coherent(s.host, s.device)
      /\ s \in States
  BY GoodParts
<1>2. s.host.active \in Candidate BY <1>1, OptionSet DEF Host, MayAdapt
<1>3. Now(s.device) = s.host.active
  BY <1>1 DEF Now, Coherent, Runs, RunsActive, MayAdapt
<1>4. Adapted(s.host) \in Host BY <1>1, AdaptedTyped
<1>5. /\ Adapted(s.host).next = s.host.next + 1
      /\ Adapted(s.host).ready = s.host.ready
      /\ Adapted(s.host).active = s.host.active
      /\ Adapted(s.host).preparing = AdaptationOf(s.host)
  BY <1>1 DEF Adapted, Host
<1>6. /\ AdaptationOf(s.host).token = s.host.next
      /\ AdaptationOf(s.host).revision = Now(s.device).revision
      /\ Now(s.device) # None
  BY <1>2, <1>3, NoneApart DEF AdaptationOf, Candidate
<1>7. /\ OnHost(s, Adapted(s.host)).editor = s.editor
      /\ OnHost(s, Adapted(s.host)).host = Adapted(s.host)
      /\ OnHost(s, Adapted(s.host)).device = s.device
  BY <1>1, <1>4, OnHostIs
<1>. QED BY <1>5, <1>6, <1>7, OrderParts DEF Moves

\* A frame's last blocks keep what has been so since.
LEMMA UploadedKeeps ==
  ASSUME NEW published \in Option(Candidate), NEW ran \in Option(Candidate),
         NEW s, Since(published, ran, s), NEW fair, NEW t \in Uploaded(s, fair)
  PROVE  Since(published, ran, t)
<1>. DEFINE Kept(u) == Since(published, ran, u)
<1>0. Good(s) BY DEF Since
<1>1. CASE PackAbandoned(s)
  <2>1. t = OnHost(s, Unpacked(s.host)) BY <1>1 DEF Uploaded
  <2>2. Good(t) BY <1>0, <2>1, GoodParts, GoodHost, HostStepsTyped, PackedCoherent
  <2>. QED BY <1>0, <2>1, <2>2, PackMoves, MoveKeeps
<1>2. CASE ~PackAbandoned(s)
  <2>1. PICK b \in BeginUpload(s, fair) :
        \E p \in SendPulse(ApplyReset(SettleInFlight(b)), fair) :
        \E w \in SendSwitch(p, fair) : t \in TakeSteps(w, fair)
    BY <1>2 DEF Uploaded
  <2>2. PICK p \in SendPulse(ApplyReset(SettleInFlight(b)), fair) :
        \E w \in SendSwitch(p, fair) : t \in TakeSteps(w, fair)
    BY <2>1
  <2>3. PICK w \in SendSwitch(p, fair) : t \in TakeSteps(w, fair)
    BY <2>2
  <2>4. Kept(b) BY BeginKeeps
  <2>5. Kept(SettleInFlight(b))
    <3>1. Good(b) BY <2>4 DEF Since
    <3>2. Good(SettleInFlight(b)) /\ Moves(b, SettleInFlight(b))
      BY <3>1, SettledGood, SettleMoves
    <3>. QED BY <2>4, <3>2, MoveKeeps
  <2>6. Kept(ApplyReset(SettleInFlight(b)))
    <3>. DEFINE u == SettleInFlight(b)
    <3>1. Good(u) BY <2>5 DEF Since
    <3>2. Good(ApplyReset(u)) /\ Moves(u, ApplyReset(u))
      BY <3>1, ApplyResetGood, ResetMoves
    <3>. QED BY <2>5, <3>2, MoveKeeps
  <2>7. Kept(p)
    <3>. DEFINE u == ApplyReset(SettleInFlight(b))
    <3>1. Good(u) BY <2>6 DEF Since
    <3>2. Good(p) /\ Moves(u, p) BY <2>2, <3>1, SendPulseGood, SendMoves
    <3>. QED BY <2>6, <3>2, MoveKeeps
  <2>8. Kept(w)
    <3>1. Good(p) BY <2>7 DEF Since
    <3>2. Good(w) /\ Moves(p, w) BY <2>3, <3>1, SendSwitchGood, SendMoves
    <3>. QED BY <2>7, <3>2, MoveKeeps
  <2>9. Kept(t)
    <3>1. Good(w) BY <2>8 DEF Since
    <3>2. Good(t) /\ Moves(w, t) BY <2>3, <3>1, TakeStepsGood, StepsMove
    <3>. QED BY <2>8, <3>2, MoveKeeps
  <2>. QED BY <2>9
<1>. QED BY <1>1, <1>2

-----------------------------------------------------------------------------
(* Every step moves, or is a frame. *)

\* What the frame starts from: what is published, and what runs.
LEMMA SinceNow ==
  ASSUME NEW s, Good(s), Ordered(s)
  PROVE  /\ s.host.active \in Option(Candidate) /\ Now(s.device) \in Option(Candidate)
         /\ Since(s.host.active, Now(s.device), s)
<1>1. \A c \in {s.host.active, Now(s.device)} : c # None => c \in Candidate
  BY OrderParts
<1>2. s.host.active \in Option(Candidate) /\ Now(s.device) \in Option(Candidate)
  BY <1>1 DEF Option
<1>3. s.host.active # None =>
        NotBefore(s.host.active, s) /\ After(s.host.active, s.host.active)
  BY <1>1, CandidateParts DEF Ordered
<1>4. Now(s.device) # None => NotBefore(Now(s.device), s) BY DEF Ordered
<1>. QED BY <1>2, <1>3, <1>4 DEF Since

\* A frame keeps what has been so since it began.
LEMMA FrameKeeps ==
  ASSUME NEW published \in Option(Candidate), NEW ran \in Option(Candidate),
         NEW s, Since(published, ran, s), NEW fair,
         NEW c \in Carried(s, fair), NEW u \in Uploaded(c, fair),
         NEW end \in AdaptShare(u, fair)
  PROVE  Since(published, ran, end)
<1>1. Since(published, ran, c) BY CarriedKeeps
<1>2. Since(published, ran, u) BY <1>1, UploadedKeeps
<1>3. Good(u) BY <1>2 DEF Since
<1>4. Good(end) /\ Moves(u, end) BY <1>3, AdaptShareGood, AdaptMoves
<1>. QED BY <1>2, <1>4, MoveKeeps

\* The order between two states, of what is published and of what runs.
GoesOn(s, t) ==
  /\ s.host.active # None /\ t.host.active # None =>
       After(t.host.active, s.host.active)
  /\ Now(s.device) # None /\ Now(t.device) # None =>
       After(Now(t.device), Now(s.device))

\* What has been so since a state orders it with the one reached.
LEMMA SinceGoesOn ==
  ASSUME NEW s, NEW t, Since(s.host.active, Now(s.device), t)
  PROVE  Ordered(t) /\ GoesOn(s, t)
BY DEF Since, GoesOn, NotBefore

\* So does a move.
LEMMA MoveGoesOn ==
  ASSUME NEW s, NEW t, Good(s), Ordered(s), Good(t), Moves(s, t)
  PROVE  Ordered(t) /\ GoesOn(s, t)
<1>1. Since(s.host.active, Now(s.device), t) BY SinceNow, MoveKeeps
<1>. QED BY <1>1, SinceGoesOn

\* The admission of a handoff is a move: its target is the ready candidate.
LEMMA AdmitMoves ==
  ASSUME NEW s, NEW t, Good(s), t.host = s.host, t.editor = s.editor,
         s.device.handoff # None, t.device = Admitted(s.device)
  PROVE  Moves(s, t)
<1>1. s.host \in Host /\ s.device \in Device /\ Coherent(s.host, s.device)
  BY GoodParts
<1>2. s.device.handoff \in Candidate /\ s.device.handoff = s.host.ready
  BY <1>1, OptionSet DEF Device, Coherent, HandoffAwaited, OneWay
<1>. DEFINE r == [candidate |-> s.device.handoff, step |-> s.device.handoff.token,
                  ready |-> TRUE, failed |-> FALSE,
                  caught_up |-> s.device.running # None => s.device.running.caught_up]
<1>3. t.device.running = r BY <1>1 DEF Admitted, Device
<1>4. (s.device.running # None => s.device.running.caught_up) \in BOOLEAN
  OBVIOUS
<1>5. r \in Running /\ r.candidate = s.device.handoff
  BY <1>2, <1>4 DEF Running, Candidate
<1>6. r # None BY <1>5, NoneApart
<1>. HIDE DEF r
<1>7. Now(t.device) = s.host.ready BY <1>2, <1>3, <1>5, <1>6 DEF Now
<1>. QED BY <1>7, OrderParts DEF Moves

\* A step that leaves the candidates where they are, and the document no older,
\* is a move.
LEMMA QuietMoves ==
  ASSUME NEW s, NEW t, Good(s), t.editor.revision >= s.editor.revision,
         t.host.next = s.host.next, t.host.ready = s.host.ready,
         t.host.preparing = s.host.preparing, t.host.active = s.host.active,
         Now(t.device) = Now(s.device)
  PROVE  Moves(s, t)
BY OrderParts DEF Moves

\* Every step of the device is a move.
LEMMA DeviceStepMoves ==
  ASSUME InductiveInvariant, DeviceStep, NEW s, NEW t, s = State, t = State'
  PROVE  Moves(s, t)
<1>1. /\ s.host = host /\ s.device = device /\ s.editor = editor
      /\ t.host = host' /\ t.device = device' /\ t.editor = editor'
  BY DEF State
<1>2. Good(s) BY DEF InductiveInvariant
<1>3. s.host \in Host /\ s.device \in Device /\ s.editor.revision \in Nat
  BY <1>2, GoodParts, OrderParts
<1>4. s.device.running # None => s.device.running \in Running
  BY <1>3, OptionSet DEF Device
<1>5. t.host = s.host /\ t.editor = s.editor
  BY <1>1 DEF DeviceStep, Readbacks, AdmitHandoff, RefuseHandoff, Settle, Fault
<1>6. ASSUME Now(t.device) = Now(s.device) PROVE Moves(s, t)
  BY <1>2, <1>3, <1>5, <1>6, QuietMoves
<1>7. ASSUME NEW caughtUp \in BOOLEAN, Readbacks(caughtUp) PROVE Moves(s, t)
  <2>1. t.device = ReadBack(s.device, caughtUp) /\ s.device.running # None
    BY <1>1, <1>7 DEF Readbacks
  <2>2. t.device.running \in
          {s.device.running,
           [s.device.running EXCEPT !.ready = TRUE, !.caught_up = caughtUp]}
    BY <1>3, <2>1 DEF ReadBack, Device
  <2>3. [s.device.running EXCEPT !.ready = TRUE, !.caught_up = caughtUp] \in Running
    BY <1>4, <2>1 DEF Running
  <2>. QED BY <1>4, <1>6, <2>1, <2>2, <2>3, NoneApart DEF Now, Running
<1>8. ASSUME AdmitHandoff PROVE Moves(s, t)
  BY <1>1, <1>2, <1>5, <1>8, AdmitMoves DEF AdmitHandoff
<1>9. ASSUME RefuseHandoff PROVE Moves(s, t)
  BY <1>1, <1>3, <1>6, <1>9 DEF RefuseHandoff, Now, Device
<1>10. ASSUME NEW verdict \in {"Taken", "Refused"}, Settle(verdict) PROVE Moves(s, t)
  BY <1>1, <1>3, <1>6, <1>10 DEF Settle, EventSettled, Now, Device
<1>11. ASSUME Fault PROVE Moves(s, t)
  <2>1. t.device = Faulted(s.device) /\ s.device.running # None
    BY <1>1, <1>11 DEF Fault
  <2>2. t.device.running = [s.device.running EXCEPT !.failed = TRUE, !.ready = FALSE]
    BY <1>3, <2>1 DEF Faulted, Device
  <2>3. [s.device.running EXCEPT !.failed = TRUE, !.ready = FALSE] \in Running
    BY <1>4, <2>1 DEF Running
  <2>. QED BY <1>4, <1>6, <2>1, <2>2, <2>3, NoneApart DEF Now, Running
<1>. QED BY <1>7, <1>8, <1>9, <1>10, <1>11 DEF DeviceStep

\* Every step of the document and of the user is a move.
LEMMA OutsideMoves ==
  ASSUME InductiveInvariant, DocumentStep \/ UserStep, NEW s, NEW t,
         s = State, t = State'
  PROVE  Moves(s, t)
<1>1. /\ s.host = host /\ s.device = device /\ s.editor = editor
      /\ t.host = host' /\ t.device = device' /\ t.editor = editor'
  BY DEF State
<1>2. Good(s) BY DEF InductiveInvariant
<1>3. s.host \in Host /\ s.editor \in Editor /\ s.editor.revision \in Nat
  BY <1>2, GoodParts, OrderParts
<1>4. CASE DocumentStep
  <2>1. t.editor.revision >= s.editor.revision
    <3>1. editor' = editor \/ editor'.revision \in {editor.revision, editor.revision + 1}
      <4>1. ASSUME Validate PROVE editor'.revision = editor.revision
        BY <1>1, <1>3, <4>1 DEF Validate, Validated, Editor
      <4>2. ASSUME NEW inputs \in Inputs, NEW valid \in BOOLEAN, Edit(inputs, valid)
            PROVE  editor'.revision = editor.revision + 1
        BY <1>1, <1>3, <4>2 DEF Edit, Editor
      <4>3. ASSUME NEW edge \in Edges, Edge(edge)
            PROVE  editor'.revision = editor.revision
        BY <1>1, <1>3, <4>3 DEF Edge, Editor
      <4>4. ASSUME NEW inputs \in Inputs, NEW edge \in Edges, NEW valid \in BOOLEAN,
                   Replace(inputs, edge, valid)
            PROVE  editor'.revision = editor.revision + 1
        BY <4>4 DEF Replace
      <4>. QED BY <1>4, <4>1, <4>2, <4>3, <4>4 DEF DocumentStep
    <3>. QED BY <1>1, <1>3, <3>1
  <2>2. /\ t.host.next = s.host.next /\ t.host.ready = s.host.ready
        /\ t.host.preparing = s.host.preparing /\ t.host.active = s.host.active
        /\ t.device = s.device
    BY <1>1, <1>3, <1>4 DEF DocumentStep, Validate, Edit, Edge, Replace, Host
  <2>. QED BY <1>2, <2>1, <2>2, QuietMoves
<1>5. CASE UserStep
  <2>1. t.editor = s.editor /\ t.device = s.device
    BY <1>1, <1>5 DEF UserStep, Remesh, Reset, Speed, StepOnce, Pulse, Switch, Run
  <2>2. /\ t.host.next = s.host.next /\ t.host.ready = s.host.ready
        /\ t.host.preparing = s.host.preparing /\ t.host.active = s.host.active
    BY <1>1, <1>3, <1>5
       DEF UserStep, Remesh, Reset, Speed, StepOnce, Pulse, Switch, Run, Host
  <2>. QED BY <1>2, <1>3, <2>1, <2>2, QuietMoves
<1>. QED BY <1>4, <1>5

\* A frame ends in the state it becomes.
LEMMA BecomeIs ==
  ASSUME NEW end, Good(end), Become(end)
  PROVE  State' = end
<1>1. end \in States BY GoodParts
<1>. QED BY <1>1 DEF States, State, Become

\* The invariant with the order of requests.
OrderInvariant == InductiveInvariant /\ Ordered(State)

\* Every step keeps the order, and goes on from what was published and ran.
LEMMA StepGoesOn ==
  ASSUME OrderInvariant, [Next]_vars
  PROVE  OrderInvariant' /\ GoesOn(State, State')
<1>1. PICK s : s = State OBVIOUS
<1>2. PICK t : t = State' OBVIOUS
<1>3. Good(s) /\ Ordered(s) /\ InductiveInvariant
  BY <1>1 DEF OrderInvariant, InductiveInvariant
<1>4. InductiveInvariant' /\ Good(t)
  <2>1. InductiveInvariant' BY <1>3, StepGood
  <2>. QED BY <1>2, <2>1 DEF InductiveInvariant
<1>5. Ordered(t) /\ GoesOn(s, t)
  <2>1. ASSUME Moves(s, t) PROVE Ordered(t) /\ GoesOn(s, t)
    BY <1>3, <1>4, <2>1, MoveGoesOn
  <2>2. CASE UNCHANGED vars
    <3>1. t = s BY <1>1, <1>2, <2>2 DEF vars, State
    <3>. QED BY <1>3, <2>1, <3>1, StayMoves
  <2>3. CASE Frame(FALSE)
    <3>1. PICK c \in Carried(s, FALSE) :
            \E u \in Uploaded(c, FALSE) : \E end \in AdaptShare(u, FALSE) : Become(end)
      BY <1>1, <2>3 DEF Frame
    <3>2. PICK u \in Uploaded(c, FALSE) : \E end \in AdaptShare(u, FALSE) : Become(end)
      BY <3>1
    <3>3. PICK end \in AdaptShare(u, FALSE) : Become(end) BY <3>2
    <3>4. Since(s.host.active, Now(s.device), end)
      BY <1>3, <3>3, SinceNow, FrameKeeps
    <3>5. Good(end) BY <3>4 DEF Since
    <3>6. t = end BY <1>2, <3>3, <3>5, BecomeIs
    <3>. QED BY <3>4, <3>6, SinceGoesOn
  <2>4. CASE DeviceStep BY <1>1, <1>2, <1>3, <2>1, <2>4, DeviceStepMoves
  <2>5. CASE DocumentStep \/ UserStep
    BY <1>1, <1>2, <1>3, <2>1, <2>5, OutsideMoves
  <2>. QED BY <2>2, <2>3, <2>4, <2>5 DEF Next
<1>. QED BY <1>1, <1>2, <1>4, <1>5 DEF OrderInvariant

\* A scene just opened has nothing to order.
LEMMA InitOrdered == Init => OrderInvariant
<1>. SUFFICES ASSUME Init PROVE OrderInvariant OBVIOUS
<1>1. /\ State.host.preparing = None /\ State.host.ready = None
      /\ State.host.active = None /\ Now(State.device) = None
  BY DEF Init, State, Now
<1>. QED BY <1>1, InitGood DEF OrderInvariant, Ordered

\* What is published, and what the device runs, is never before what was: a
\* candidate asked for earlier, or of an earlier revision, never takes the
\* place of a later one, whatever is asked and answered in whatever order.
THEOREM NothingOlderEverRuns == Spec => NothingOlderIsPublished
<1>1. OrderInvariant /\ [Next]_vars =>
        [/\ host.active # None /\ host'.active # None =>
              /\ host'.active.token >= host.active.token
              /\ host'.active.revision >= host.active.revision
         /\ device.running # None /\ device'.running # None =>
              /\ device'.running.candidate.token >= device.running.candidate.token
              /\ device'.running.candidate.revision
                   >= device.running.candidate.revision]_vars
  <2>. SUFFICES ASSUME OrderInvariant, [Next]_vars
                PROVE  /\ host.active # None /\ host'.active # None =>
                            After(host'.active, host.active)
                       /\ device.running # None /\ device'.running # None =>
                            After(device'.running.candidate, device.running.candidate)
    BY DEF After
  <2>1. InductiveInvariant /\ InductiveInvariant' /\ GoesOn(State, State')
    BY StepGoesOn DEF OrderInvariant
  <2>2. /\ host.active # None /\ host'.active # None =>
             After(host'.active, host.active)
        /\ Now(device) # None /\ Now(device') # None =>
             After(Now(device'), Now(device))
    BY <2>1 DEF GoesOn, State
  <2>3. ASSUME NEW d \in Device, d.running # None
        PROVE  Now(d) = d.running.candidate /\ Now(d) # None
    <3>1. d.running \in Running BY <2>3, OptionSet DEF Device
    <3>. QED BY <2>3, <3>1, NoneApart DEF Now, Running
  <2>4. device \in Device /\ device' \in Device
    BY <2>1 DEF InductiveInvariant, Good, States, State
  <2>. QED BY <2>2, <2>3, <2>4
<1>2. OrderInvariant /\ [Next]_vars => OrderInvariant' BY StepGoesOn
<1>. QED BY <1>1, <1>2, InitOrdered, PTL DEF Spec, NothingOlderIsPublished

-----------------------------------------------------------------------------
(* A replaced scene leaves nothing behind. *)

\* The candidate was asked for since the name n was the next, to start from
\* zero.
IsNew(n, c) == c.token >= n /\ c.fresh

\* Nothing runs, is published or goes to the device, and whatever else the host
\* holds is new.
Anew(n, s) ==
  /\ Good(s)
  /\ s.host.next >= n
  /\ s.host.uploading = None /\ s.host.source_commit = None
  /\ s.host.active = None /\ s.host.uploaded = None
  /\ s.host.pulses = 0 /\ s.host.switches = 0
  /\ s.device.running = None /\ s.device.handoff = None
  /\ s.device.event = None /\ ~s.device.refused
  /\ \A c \in {s.host.preparing, s.host.ready, s.host.packed, s.host.last_error} :
       c # None => IsNew(n, c)

\* Nothing is left of what was held when the name n was the next.
LeavesNothing(n, s) ==
  /\ \A c \in Held(s.host, s.device) : IsNew(n, c)
  /\ s.host.pulses = 0 /\ s.host.switches = 0
  /\ s.host.uploaded = None \/ s.host.uploaded >= n

\* A state all of whose candidates are new leaves nothing of the old.
LEMMA AnewLeaves ==
  ASSUME NEW n, NEW s, Anew(n, s)
  PROVE  LeavesNothing(n, s)
BY DEF Anew, LeavesNothing, Held

\* The host of such a state, with new candidates alone, makes another.
LEMMA AnewHost ==
  ASSUME NEW n \in Nat, NEW s, Anew(n, s), NEW h \in Host, Good(OnHost(s, h)),
         h.next >= s.host.next, h.uploading = None, h.source_commit = None,
         h.active = None, h.uploaded = None, h.pulses = 0, h.switches = 0,
         \A c \in {h.preparing, h.ready, h.packed, h.last_error} :
           c # None => IsNew(n, c)
  PROVE  Anew(n, OnHost(s, h))
<1>1. Good(s) /\ s \in States /\ s.host.next \in Nat BY GoodParts, OrderParts DEF Anew
<1>2. OnHost(s, h).host = h /\ OnHost(s, h).device = s.device BY <1>1, OnHostIs
<1>3. h.next \in Nat BY BoundsAssumption DEF Host
<1>4. h.next >= n BY <1>1, <1>3 DEF Anew
<1>. QED BY <1>2, <1>4 DEF Anew

\* Dropping a replaced scene leaves nothing.
LEMMA DropAnew ==
  ASSUME NEW s, Good(s), s.host.drop
  PROVE  Anew(s.host.next, DropReplaced(s))
<1>. DEFINE d == [Emptied(s.device) EXCEPT !.running = None]
            t == OnDevice(OnHost(s, Dropped(s.host)), d)
<1>1. s.host \in Host /\ s.device \in Device /\ s.host.next \in Nat
  BY GoodParts, OrderParts
<1>2. Dropped(s.host) \in Host BY <1>1, DroppedTyped
<1>3. d \in Device BY <1>1, EmptiedTyped
<1>4. Good(t) /\ DropReplaced(s) = t
  <2>1. DropReplaced(s) = t BY DEF DropReplaced
  <2>. QED BY <2>1, DropReplacedGood
<1>5. t.host = Dropped(s.host) /\ t.device = d BY <1>2, <1>3, BothAre
<1>6. /\ Dropped(s.host).next = s.host.next
      /\ Dropped(s.host).uploading = None /\ Dropped(s.host).source_commit = None
      /\ Dropped(s.host).active = None /\ Dropped(s.host).uploaded = None
      /\ Dropped(s.host).pulses = 0 /\ Dropped(s.host).switches = 0
      /\ \A c \in {Dropped(s.host).preparing, Dropped(s.host).ready,
                   Dropped(s.host).packed, Dropped(s.host).last_error} : c = None
  BY <1>1 DEF Dropped, Abandoned, Host
<1>7. d.running = None /\ d.handoff = None /\ d.event = None /\ ~d.refused
  BY <1>1 DEF Emptied, Device
<1>. HIDE DEF d
<1>. QED BY <1>1, <1>4, <1>5, <1>6, <1>7 DEF Anew

\* Supervision finds no failure and changes no candidate.
LEMMA SuperviseAnew ==
  ASSUME NEW n \in Nat, NEW s, Anew(n, s)
  PROVE  Anew(n, Supervise(s))
<1>. DEFINE h == [s.host EXCEPT !.fault = FALSE]
<1>1. Good(s) /\ s.host \in Host /\ s.host.next \in Nat
  BY GoodParts, OrderParts DEF Anew
<1>2. Supervise(s) = OnHost(s, h)
  <2>1. ~Failed(s.device) BY DEF Anew, Failed
  <2>. QED BY <2>1 DEF Supervise, SuperviseFault
<1>3. Good(OnHost(s, h)) BY <1>1, <1>2, SuperviseGood
<1>4. h \in Host BY <1>1, PausedTyped
<1>5. /\ h.next = s.host.next /\ h.uploading = s.host.uploading
      /\ h.source_commit = s.host.source_commit /\ h.active = s.host.active
      /\ h.uploaded = s.host.uploaded /\ h.pulses = s.host.pulses
      /\ h.switches = s.host.switches /\ h.preparing = s.host.preparing
      /\ h.ready = s.host.ready /\ h.packed = s.host.packed
      /\ h.last_error = s.host.last_error
  BY <1>1 DEF Host
<1>. HIDE DEF h
<1>. QED BY <1>1, <1>2, <1>3, <1>4, <1>5, AnewHost DEF Anew

\* A request made with nothing published is new.
LEMMA RequestAnew ==
  ASSUME NEW n \in Nat, NEW s, Anew(n, s), NEW fair, NEW t \in RequestShare(s, fair)
  PROVE  Anew(n, t)
<1>1. /\ Good(s) /\ s.host \in Host /\ s.editor \in Editor /\ s.host.next \in Nat
      /\ s.host.next >= n
  BY GoodParts, OrderParts DEF Anew
<1>2. ~RetimeMayBeAsked(s.host) BY DEF Anew, RetimeMayBeAsked
<1>3. t = s \/ t = OnHost(s, Requested(s.host, s.editor))
  BY <1>2 DEF RequestShare, Outcomes
<1>4. CASE t # s
  <2>. DEFINE h == Requested(s.host, s.editor)
  <2>1. h \in Host BY <1>1, RequestedTyped
  <2>2. Good(t) BY <1>1, RequestShareGood
  <2>3. /\ h.next >= s.host.next /\ h.uploading = s.host.uploading
        /\ h.source_commit = s.host.source_commit /\ h.active = s.host.active
        /\ h.uploaded = s.host.uploaded /\ h.pulses = s.host.pulses
        /\ h.switches = s.host.switches /\ h.packed = s.host.packed
        /\ h.preparing \in {s.host.preparing, CandidateFor(s.host, s.editor)}
        /\ h.ready \in {None, s.host.ready}
        /\ h.last_error \in {None, s.host.last_error}
    BY <1>1 DEF Requested, Host
  <2>4. IsNew(n, CandidateFor(s.host, s.editor))
    BY <1>1 DEF Anew, IsNew, CandidateFor, StartsFromZero
  <2>. HIDE DEF h
  <2>5. /\ h.uploading = None /\ h.source_commit = None /\ h.active = None
        /\ h.uploaded = None /\ h.pulses = 0 /\ h.switches = 0
    BY <2>3 DEF Anew
  <2>6. \A c \in {h.preparing, h.ready, h.packed, h.last_error} :
          c # None => IsNew(n, c)
    BY <2>3, <2>4 DEF Anew
  <2>7. t = OnHost(s, h) BY <1>3, <1>4 DEF h
  <2>8. Good(OnHost(s, h)) BY <2>2, <2>7
  <2>9. Anew(n, OnHost(s, h)) BY <2>1, <2>3, <2>5, <2>6, <2>8, AnewHost
  <2>. QED BY <2>7, <2>9
<1>5. CASE t = s BY <1>5
<1>. QED BY <1>4, <1>5

\* The end of a preparation hands on what is new.
LEMMA PreparationAnew ==
  ASSUME NEW n \in Nat, NEW s, Anew(n, s), NEW fair, NEW t \in PreparationShare(s, fair)
  PROVE  Anew(n, t)
<1>1. Good(s) /\ s.host \in Host /\ s.host.next \in Nat
  BY GoodParts, OrderParts DEF Anew
<1>2. Good(t) BY <1>1, PreparationShareGood
<1>3. ASSUME NEW h \in {Prepared(s.host), Unprepared(s.host)}, t = OnHost(s, h)
      PROVE  Anew(n, t)
  <2>1. h \in Host BY <1>1, HostStepsTyped
  <2>2. /\ h.next = s.host.next /\ h.uploading = s.host.uploading
        /\ h.source_commit = s.host.source_commit /\ h.active = s.host.active
        /\ h.uploaded = s.host.uploaded /\ h.pulses = s.host.pulses
        /\ h.switches = s.host.switches /\ h.packed = s.host.packed
        /\ h.preparing = None
        /\ h.ready \in {s.host.ready, s.host.preparing}
        /\ h.last_error \in {s.host.last_error, s.host.preparing}
    BY <1>1 DEF Prepared, Unprepared, Host
  <2>. QED BY <1>1, <1>2, <1>3, <2>1, <2>2, AnewHost DEF Anew
<1>4. t \in {s, OnHost(s, Prepared(s.host)), OnHost(s, Unprepared(s.host))}
  BY DEF PreparationShare, Outcomes
<1>5. CASE t = s BY <1>5
<1>. QED BY <1>3, <1>4, <1>5

\* Packing the ready candidate, and dropping a pack, hand on what is new.
LEMMA PackAnew ==
  ASSUME NEW n \in Nat, NEW s, Anew(n, s)
  PROVE  Anew(n, OnHost(s, Packed(s.host))) /\ Anew(n, OnHost(s, Unpacked(s.host)))
<1>1. /\ Good(s) /\ s.host \in Host /\ s.host.next \in Nat
      /\ Coherent(s.host, s.device)
  BY GoodParts, OrderParts DEF Anew
<1>2. Good(OnHost(s, Unpacked(s.host)))
  <2>1. Unpacked(s.host) \in Host BY <1>1, HostStepsTyped
  <2>2. s.device \in Device BY <1>1, GoodParts
  <2>3. Coherent(Unpacked(s.host), s.device) BY <1>1, <2>2, PackedCoherent
  <2>. QED BY <1>1, <2>1, <2>3, GoodHost
<1>3. Good(OnHost(s, Packed(s.host)))
  <2>. DEFINE h == [s.host EXCEPT !.packed = s.host.ready]
  <2>1. h \in Host BY <1>1, OptionHas DEF Host
  <2>2. Coherent(h, s.device)
    BY <1>1 DEF Anew, Host, Coherent, OneRequest, OneWay, PatchAwaited,
       HandoffAwaited, Runs, RunsActive
  <2>. QED BY <1>1, <2>1, <2>2, GoodHost DEF Packed
<1>4. ASSUME NEW h \in {Packed(s.host), Unpacked(s.host)}, Good(OnHost(s, h))
      PROVE  Anew(n, OnHost(s, h))
  <2>1. h \in Host BY <1>1, HostStepsTyped
  <2>2. /\ h.next = s.host.next /\ h.uploading = s.host.uploading
        /\ h.source_commit = s.host.source_commit /\ h.active = s.host.active
        /\ h.uploaded = s.host.uploaded /\ h.pulses = s.host.pulses
        /\ h.switches = s.host.switches /\ h.preparing = s.host.preparing
        /\ h.ready = s.host.ready /\ h.last_error = s.host.last_error
        /\ h.packed \in {None, s.host.ready}
    BY <1>1 DEF Packed, Unpacked, Host
  <2>. QED BY <1>1, <1>4, <2>1, <2>2, AnewHost DEF Anew
<1>. QED BY <1>2, <1>3, <1>4

\* A frame's first blocks leave nothing of a replaced scene.
LEMMA CarriedAnew ==
  ASSUME NEW s, Good(s), s.host.drop, NEW fair, NEW t \in Carried(s, fair)
  PROVE  Anew(s.host.next, t)
<1>1. PICK v \in ValidationShare(s, fair) :
      \E r \in RequestShare(Supervise(FinishSourceCommit(DropReplaced(v))), fair) :
      \E p \in PreparationShare(r, fair) : t \in CarryReady(DropStalePack(p))
  BY DEF Carried
<1>2. PICK r \in RequestShare(Supervise(FinishSourceCommit(DropReplaced(v))), fair) :
      \E p \in PreparationShare(r, fair) : t \in CarryReady(DropStalePack(p))
  BY <1>1
<1>3. PICK p \in PreparationShare(r, fair) : t \in CarryReady(DropStalePack(p))
  BY <1>2
<1>. DEFINE n == s.host.next
<1>4. n \in Nat BY OrderParts
<1>5. Good(v) /\ v.host = s.host
  <2>1. Good(v) BY ValidationShareGood
  <2>2. s \in States BY GoodParts
  <2>3. v.host = s.host BY <2>2 DEF ValidationShare, Outcomes, States
  <2>. QED BY <2>1, <2>3
<1>6. Anew(n, DropReplaced(v)) BY <1>5, DropAnew
<1>7. Anew(n, FinishSourceCommit(DropReplaced(v)))
  BY <1>6 DEF Anew, FinishSourceCommit
<1>8. Anew(n, Supervise(FinishSourceCommit(DropReplaced(v))))
  BY <1>4, <1>7, SuperviseAnew
<1>9. Anew(n, r) BY <1>4, <1>8, RequestAnew
<1>10. Anew(n, p) BY <1>4, <1>9, PreparationAnew
<1>11. Anew(n, DropStalePack(p)) BY <1>4, <1>10, PackAnew DEF DropStalePack
<1>12. ASSUME NEW u, Anew(n, u), t \in CarryReady(u) PROVE Anew(n, t)
  <2>1. \A carriage \in Carriages : CarriedAs(u, carriage) = OnHost(u, Packed(u.host))
    BY <1>12 DEF Anew, CarriedAs, Carry
  <2>2. t = u \/ t = OnHost(u, Packed(u.host)) BY <1>12, <2>1 DEF CarryReady
  <2>. QED BY <1>4, <1>12, <2>2, PackAnew
<1>. QED BY <1>3, <1>11, <1>12

\* A new candidate installed is a run to wait for, and nothing else.
LEMMA InstallLeaves ==
  ASSUME NEW n \in Nat, NEW s, Anew(n, s), NEW c, c = s.host.packed, c # None
  PROVE  /\ LeavesNothing(n, InstallUpload(s, c))
         /\ InstallUpload(s, c).host.active = None
         /\ SettleInFlight(InstallUpload(s, c)) = InstallUpload(s, c)
<1>. DEFINE g == NextGeneration(s.device.generation)
            h == [s.host EXCEPT !.packed = None, !.uploaded = c.token,
                                !.uploading = UploadOf(c, g)]
            d == Installed(s.device, c)
            r == [candidate |-> c, step |-> c.token,
                  ready |-> FALSE, failed |-> FALSE, caught_up |-> TRUE]
<1>1. Good(s) /\ s.host \in Host /\ s.device \in Device
  BY GoodParts DEF Anew
<1>2. c \in Candidate BY <1>1, OptionSet DEF Host
<1>3. g \in Generation BY <1>1, NextGenerationTyped DEF Device
<1>4. /\ UploadOf(c, g) \in Upload /\ UploadOf(c, g) # None
      /\ UploadOf(c, g).candidate = c /\ UploadOf(c, g).generation = g
      /\ c.token \in Token
  BY <1>2, <1>3, UploadOfTyped DEF Candidate
<1>5. h \in Host BY <1>1, <1>4, OptionHas DEF Host
<1>6. d \in Device BY <1>1, <1>2, InstalledTyped
<1>7. InstallUpload(s, c).host = h /\ InstallUpload(s, c).device = d
  BY <1>1, <1>5, <1>6, BothAre DEF InstallUpload
<1>8. /\ h.uploading = UploadOf(c, g) /\ h.uploaded = c.token /\ h.packed = None
      /\ h.source_commit = s.host.source_commit /\ h.active = s.host.active
      /\ h.pulses = s.host.pulses /\ h.switches = s.host.switches
      /\ h.preparing = s.host.preparing /\ h.ready = s.host.ready
      /\ h.last_error = s.host.last_error
  BY <1>1 DEF Host
<1>9. /\ d.running = r /\ d.handoff = None /\ d.event = None /\ ~d.refused
      /\ d.generation = g
  <2>1. Emptied(s.device) \in Device BY <1>1, EmptiedTyped
  <2>2. /\ Emptied(s.device).handoff = None /\ Emptied(s.device).event = None
        /\ ~Emptied(s.device).refused
        /\ Emptied(s.device).generation = s.device.generation
    BY <1>1 DEF Emptied, Device
  <2>. QED BY <2>1, <2>2 DEF Installed, Device
<1>10. r.candidate = c /\ ~r.ready /\ ~r.failed OBVIOUS
<1>. HIDE DEF g, h, d, r
<1>11. IsNew(n, c) BY DEF Anew
<1>12. LeavesNothing(n, InstallUpload(s, c))
  <2>1. Held(h, d) \subseteq {c, s.host.preparing, s.host.ready, s.host.last_error}
    BY <1>4, <1>8, <1>9, <1>10 DEF Held, Anew
  <2>2. \A x \in Held(h, d) : x # None BY DEF Held
  <2>3. \A x \in Held(h, d) : IsNew(n, x) BY <1>11, <2>1, <2>2 DEF Anew
  <2>4. c.token >= n BY <1>11 DEF IsNew
  <2>. QED BY <1>7, <1>8, <2>3, <2>4 DEF LeavesNothing, Anew
<1>13. InstallUpload(s, c).host.active = None BY <1>7, <1>8 DEF Anew
<1>14. SettleInFlight(InstallUpload(s, c)) = InstallUpload(s, c)
  <2>1. ~Failed(d) BY <1>9, <1>10 DEF Failed
  <2>2. ~(d.running # None /\ d.running.ready) BY <1>9, <1>10
  <2>. QED BY <1>7, <1>9, <2>1, <2>2 DEF SettleInFlight, Settled, SettleUpload
<1>. QED BY <1>12, <1>13, <1>14

\* Rejecting a new candidate hands on what is new.
LEMMA RejectAnew ==
  ASSUME NEW n \in Nat, NEW s, Anew(n, s), NEW c, c = s.host.packed, c # None,
         Good(OnHost(s, Rejected(Unpacked(s.host), c)))
  PROVE  Anew(n, OnHost(s, Rejected(Unpacked(s.host), c)))
<1>. DEFINE h == Rejected(Unpacked(s.host), c)
<1>1. Good(s) /\ s.host \in Host /\ s.host.next \in Nat
  BY GoodParts, OrderParts DEF Anew
<1>2. c \in Candidate BY <1>1, OptionSet DEF Host
<1>3. h \in Host BY <1>1, <1>2, HostStepsTyped, RejectedTyped
<1>4. /\ h.next = s.host.next /\ h.uploading = s.host.uploading
      /\ h.source_commit = s.host.source_commit /\ h.active = s.host.active
      /\ h.uploaded = s.host.uploaded /\ h.pulses = s.host.pulses
      /\ h.switches = s.host.switches /\ h.preparing = s.host.preparing
      /\ h.packed = None /\ h.ready \in {None, s.host.ready}
      /\ h.last_error \in {c, s.host.last_error}
  BY <1>1 DEF Rejected, Unpacked, Host
<1>. HIDE DEF h
<1>5. Good(OnHost(s, h)) BY DEF h
<1>6. Anew(n, OnHost(s, h)) BY <1>1, <1>3, <1>4, <1>5, AnewHost DEF Anew
<1>. QED BY <1>6 DEF h

\* With nothing published, the blocks after the settlement and adaptation
\* have nothing to do.
LEMMA NothingToDo ==
  ASSUME NEW s, s.host.active = None, NEW fair
  PROVE  /\ ApplyReset(s) = s /\ SendPulse(s, fair) = {s} /\ SendSwitch(s, fair) = {s}
         /\ TakeSteps(s, fair) = {s} /\ AdaptShare(s, fair) = {s}
BY DEF ApplyReset, ResetMayApply, SendPulse, SendSwitch, MaySend, TakeSteps,
   AdaptShare, MayAdapt, Outcomes

\* A frame's last blocks leave nothing of a replaced scene.
LEMMA UploadedLeaves ==
  ASSUME NEW n \in Nat, NEW s, Anew(n, s), NEW fair, NEW t \in Uploaded(s, fair)
  PROVE  LeavesNothing(n, t) /\ t.host.active = None
<1>1. Good(s) BY DEF Anew
<1>2. CASE PackAbandoned(s)
  <2>1. Anew(n, t) BY <1>2, PackAnew DEF Uploaded
  <2>. QED BY <2>1, AnewLeaves DEF Anew
<1>3. CASE ~PackAbandoned(s)
  <2>1. PICK b \in BeginUpload(s, fair) :
        \E p \in SendPulse(ApplyReset(SettleInFlight(b)), fair) :
        \E w \in SendSwitch(p, fair) : t \in TakeSteps(w, fair)
    BY <1>3 DEF Uploaded
  <2>2. /\ LeavesNothing(n, b) /\ b.host.active = None
        /\ SettleInFlight(b) = b
    <3>1. ASSUME Anew(n, b) PROVE /\ LeavesNothing(n, b) /\ b.host.active = None
                                  /\ SettleInFlight(b) = b
      BY <3>1, AnewLeaves DEF Anew, SettleInFlight
    <3>2. CASE ~PackedAtDevice(s)
      <4>1. b = s BY <2>1, <3>2 DEF BeginUpload
      <4>. QED BY <3>1, <4>1
    <3>3. CASE PackedAtDevice(s)
      <4>. DEFINE c == s.host.packed
      <4>1. c # None BY <3>3 DEF PackedAtDevice
      <4>2. ReadyForUpload(s) = s BY DEF ReadyForUpload, Failed, Anew
      <4>3. b \in UploadPacked(s, fair) BY <2>1, <3>3, <4>2 DEF BeginUpload
      <4>4. \/ b = InstallUpload(s, c)
            \/ b = OnHost(s, Rejected(Unpacked(s.host), c))
        BY <4>3 DEF UploadPacked, UploadMayBegin, Outcomes, Anew
      <4>5. Good(b) BY <1>1, <4>1, <4>3, UploadPackedGood
      <4>6. CASE b = InstallUpload(s, c) BY <4>1, <4>6, InstallLeaves
      <4>7. CASE b = OnHost(s, Rejected(Unpacked(s.host), c))
        BY <3>1, <4>1, <4>5, <4>7, RejectAnew
      <4>. QED BY <4>4, <4>6, <4>7
    <3>. QED BY <3>2, <3>3
  <2>3. t = b BY <2>1, <2>2, NothingToDo
  <2>. QED BY <2>2, <2>3
<1>. QED BY <1>2, <1>3

\* The frame that takes a replaced scene away leaves nothing of it: every
\* candidate held on the host or the device was asked for in that frame and
\* starts from zero, and no pulse or press waits, whatever was on its way.
THEOREM ReplacedSceneIsGone == Spec => ReplacedSceneLeavesNothing
<1>1. InductiveInvariant /\ [Next]_vars =>
        [host.drop /\ ~host'.drop =>
           /\ \A candidate \in Held(host', device') :
                candidate.token >= host.next /\ candidate.fresh
           /\ host'.pulses = 0 /\ host'.switches = 0
           /\ host'.uploaded = None \/ host'.uploaded >= host.next]_vars
  <2>. SUFFICES ASSUME InductiveInvariant, Next, host.drop, ~host'.drop
                PROVE  LeavesNothing(host.next, [host |-> host', device |-> device'])
    BY DEF LeavesNothing, IsNew, vars
  <2>1. PICK s : s = State OBVIOUS
  <2>2. Good(s) /\ s.host = host BY <2>1 DEF InductiveInvariant, State
  <2>3. host.next \in Nat BY <2>2, OrderParts
  <2>4. Frame(FALSE)
    <3>1. host \in Host BY <2>2, GoodParts
    <3>2. ~DeviceStep
      BY DEF DeviceStep, Readbacks, AdmitHandoff, RefuseHandoff, Settle, Fault
    <3>3. ~DocumentStep
      BY <3>1 DEF DocumentStep, Validate, Edit, Edge, Replace, Host
    <3>4. ~UserStep
      BY <3>1
         DEF UserStep, Remesh, Reset, Speed, StepOnce, Pulse, Switch, Run, Host
    <3>. QED BY <3>2, <3>3, <3>4 DEF Next
  <2>5. PICK c \in Carried(s, FALSE) :
          \E u \in Uploaded(c, FALSE) : \E end \in AdaptShare(u, FALSE) : Become(end)
    BY <2>1, <2>4 DEF Frame
  <2>6. PICK u \in Uploaded(c, FALSE) : \E end \in AdaptShare(u, FALSE) : Become(end)
    BY <2>5
  <2>7. PICK end \in AdaptShare(u, FALSE) : Become(end) BY <2>6
  <2>8. Anew(s.host.next, c) BY <2>2, CarriedAnew
  <2>9. LeavesNothing(host.next, u) /\ u.host.active = None
    BY <2>2, <2>3, <2>8, UploadedLeaves
  <2>10. LeavesNothing(host.next, end)
    <3>1. AdaptShare(u, FALSE) = {u} BY <2>9, NothingToDo
    <3>2. end = u BY <2>7, <3>1
    <3>. QED BY <2>9, <3>2
  <2>. QED BY <2>7, <2>10 DEF LeavesNothing, Become
<1>. QED BY <1>1, Invariance, PTL DEF Spec, ReplacedSceneLeavesNothing

-----------------------------------------------------------------------------
(* What is asked for at rest. *)

\* What a block that makes no request for the document does to the host: no
\* revision is prepared, ready, published or failed that was not.
Keeps(h, k) ==
  /\ k.next >= h.next
  /\ k.requested_revision = h.requested_revision
  /\ Revisions(k) \subseteq Revisions(h)

\* The same of two states of one document.
Recalls(s, t) == t.editor = s.editor /\ Keeps(s.host, t.host)

\* A good state that knows what was asked for at the document's own revision.
Known(s) == Good(s) /\ AskedAsItStands(s.host, s.editor)

\* Such a block keeps what is known.
LEMMA RecallKeeps ==
  ASSUME NEW s, NEW t, Known(s), Good(t), Recalls(s, t)
  PROVE  Known(t)
<1>1. s.host.next \in Nat /\ t.host.next \in Nat /\ Tokens \in Nat
  BY OrderParts, BoundsAssumption DEF Known
<1>2. \A r \in Revisions(t.host) : r \in Revisions(s.host) BY DEF Recalls, Keeps
<1>3. s.host.next >= Tokens => t.host.next >= Tokens BY <1>1 DEF Recalls, Keeps
<1>. QED BY <1>2, <1>3 DEF Known, AskedAsItStands, Recalls, Keeps

\* Staying recalls.
LEMMA StayRecalls ==
  ASSUME NEW s, Good(s)
  PROVE  Recalls(s, s)
BY OrderParts DEF Recalls, Keeps

\* A host whose candidates are those of another, each where it was or elsewhere.
SameCandidates(h, k) ==
  /\ k.next = h.next /\ k.requested_revision = h.requested_revision
  /\ k.preparing \in {None, h.preparing}
  /\ k.ready \in {None, h.ready, h.preparing}
  /\ k.active \in {None, h.active, h.ready}
  /\ k.last_error \in {None, h.last_error, h.preparing, h.ready}

\* Such a host is kept.
LEMMA SameCandidatesKeep ==
  ASSUME NEW h \in Host, NEW k, SameCandidates(h, k)
  PROVE  Keeps(h, k)
<1>1. h.next \in Nat BY BoundsAssumption DEF Host
<1>2. ASSUME NEW r \in Revisions(k) PROVE r \in Revisions(h)
  <2>1. PICK c \in {k.preparing, k.ready, k.active, k.last_error} :
          c # None /\ r = c.revision
    BY DEF Revisions
  <2>2. c \in {h.preparing, h.ready, h.active, h.last_error}
    BY <2>1 DEF SameCandidates
  <2>. QED BY <2>1, <2>2 DEF Revisions
<1>. QED BY <1>1, <1>2 DEF Keeps, SameCandidates

\* The host's operators that move its candidates, or drop some, keep it.
LEMMA CandidateStepsKeep ==
  ASSUME NEW h \in Host, NEW c
  PROVE  /\ Keeps(h, Dropped(h)) /\ Keeps(h, Prepared(h)) /\ Keeps(h, Unprepared(h))
         /\ Keeps(h, Rejected(h, c))
         /\ Keeps(h, Published(h, c))
         /\ Keeps(h, Rejected(Unpacked(h), c))
         /\ Keeps(h, Rejected(UploadOver(h), c))
         /\ Keeps(h, Rejected([h EXCEPT !.source_commit = None], c))
         /\ h.ready = c => Keeps(h, [h EXCEPT !.ready = None, !.active = c])
<1>1. SameCandidates(h, Dropped(h)) BY DEF SameCandidates, Host, Dropped, Abandoned
<1>2. SameCandidates(h, Prepared(h)) BY DEF SameCandidates, Host, Prepared
<1>3. SameCandidates(h, Unprepared(h)) BY DEF SameCandidates, Host, Unprepared
<1>4. SameCandidates(h, Rejected(h, c)) BY DEF SameCandidates, Host, Rejected
<1>5. SameCandidates(h, Published(h, c)) BY DEF SameCandidates, Host, Published
<1>6. SameCandidates(h, Rejected(Unpacked(h), c))
  BY DEF SameCandidates, Host, Rejected, Unpacked
<1>7. SameCandidates(h, Rejected(UploadOver(h), c))
  BY DEF SameCandidates, Host, Rejected, UploadOver
<1>8. SameCandidates(h, Rejected([h EXCEPT !.source_commit = None], c))
  BY DEF SameCandidates, Host, Rejected
<1>9. h.ready = c => SameCandidates(h, [h EXCEPT !.ready = None, !.active = c])
  BY DEF SameCandidates, Host
<1>. QED BY <1>1, <1>2, <1>3, <1>4, <1>5, <1>6, <1>7, <1>8, <1>9, SameCandidatesKeep

\* The host of a state with another host, whatever its device.
LEMMA HostOf ==
  ASSUME NEW s \in States, NEW h, NEW d
  PROVE  /\ OnHost(s, h).host = h /\ OnHost(s, h).editor = s.editor
         /\ OnDevice(OnHost(s, h), d).host = h
         /\ OnDevice(OnHost(s, h), d).editor = s.editor
         /\ OnDevice(s, d).host = s.host /\ OnDevice(s, d).editor = s.editor
BY DEF States, OnHost, OnDevice

\* A state whose host is kept recalls, whatever its device.
LEMMA HostRecalls ==
  ASSUME NEW s, Good(s), NEW h, Keeps(s.host, h)
  PROVE  /\ Recalls(s, OnHost(s, h))
         /\ \A d : Recalls(s, OnDevice(OnHost(s, h), d))
BY GoodParts, HostOf DEF Recalls

\* Committing the ready candidate in place recalls.
LEMMA CommitRecalls ==
  ASSUME NEW s, Good(s), NEW c
  PROVE  Recalls(s, CommitInPlace(s, c))
<1>1. s.host \in Host BY GoodParts
<1>2. s.host.ready = c => Keeps(s.host, [s.host EXCEPT !.ready = None, !.active = c])
  BY <1>1, CandidateStepsKeep
<1>. QED BY <1>2, HostRecalls, StayRecalls DEF CommitInPlace

\* The end of a validation keeps what is known: the draft is no longer pending.
LEMMA ValidationKnows ==
  ASSUME NEW s, Known(s), NEW fair, NEW t \in ValidationShare(s, fair)
  PROVE  Known(t)
<1>1. Good(s) /\ s \in States /\ s.editor \in Editor /\ s.editor.inputs \in Inputs
  BY GoodParts DEF Known, Editor
<1>2. Good(t) BY <1>1, ValidationShareGood
<1>3. t = s \/ \E inputs \in Inputs : t = [s EXCEPT !.editor = Validated(@, inputs)]
  BY <1>1 DEF ValidationShare, Outcomes
<1>4. ASSUME NEW inputs \in Inputs, t = [s EXCEPT !.editor = Validated(@, inputs)]
      PROVE  Known(t)
  <2>1. t.host = s.host /\ t.editor = Validated(s.editor, inputs)
    BY <1>1, <1>4 DEF States
  <2>2. /\ Validated(s.editor, inputs).revision = s.editor.revision
        /\ s.editor.acceptance # "Pending" =>
             Validated(s.editor, inputs).acceptance # "Pending"
    BY <1>1 DEF Validated, Editor
  <2>. QED BY <1>2, <2>1, <2>2 DEF Known, AskedAsItStands
<1>. QED BY <1>3, <1>4

\* The settlement of a source patch recalls.
LEMMA FinishRecalls ==
  ASSUME NEW s, Good(s)
  PROVE  Recalls(s, FinishSourceCommit(s))
<1>1. s.host \in Host /\ s \in States /\ Coherent(s.host, s.device) BY GoodParts
<1>. SUFFICES ASSUME s.host.source_commit # None, s.device.patched # None
              PROVE  Recalls(s, FinishSourceCommit(s))
  BY StayRecalls DEF FinishSourceCommit
<1>. DEFINE c == s.host.source_commit
            h == [s.host EXCEPT !.source_commit = None]
            d == [s.device EXCEPT !.patched = None]
            t == OnDevice(OnHost(s, h), d)
<1>2. CASE s.device.patched = "Taken"
  <2>1. FinishSourceCommit(s) = CommitInPlace(t, c) BY <1>2 DEF FinishSourceCommit
  <2>2. s.device \in Device BY GoodParts
  <2>3. h \in Host /\ d \in Device BY <1>1, <2>2, HostStepsTyped, DeviceStepsTyped
  <2>4. Good(t)
    <3>1. Coherent(h, d) BY <1>1, <2>2, PatchReadCoherent
    <3>. QED BY <2>3, <3>1, GoodBoth
  <2>5. t.host = h /\ t.editor = s.editor BY <1>1, HostOf
  <2>6. Recalls(t, CommitInPlace(t, c)) BY <2>4, CommitRecalls
  <2>7. /\ h.next = s.host.next /\ h.requested_revision = s.host.requested_revision
        /\ h.preparing = s.host.preparing /\ h.ready = s.host.ready
        /\ h.active = s.host.active /\ h.last_error = s.host.last_error
    BY <1>1 DEF Host
  <2>8. Revisions(h) = Revisions(s.host) BY <2>7 DEF Revisions
  <2>. QED BY <2>1, <2>5, <2>6, <2>7, <2>8 DEF Recalls, Keeps
<1>3. CASE s.device.patched # "Taken"
  <2>1. FinishSourceCommit(s) = OnDevice(OnHost(s, Rejected(h, c)), d)
    BY <1>3 DEF FinishSourceCommit
  <2>2. Keeps(s.host, Rejected(h, c)) BY <1>1, CandidateStepsKeep
  <2>. QED BY <2>1, <2>2, HostRecalls
<1>. QED BY <1>2, <1>3

\* The host's operators that leave its candidates alone keep it.
LEMMA OtherStepsKeep ==
  ASSUME NEW h \in Host, NEW u, NEW n, NEW m
  PROVE  /\ Keeps(h, [h EXCEPT !.fault = FALSE]) /\ Keeps(h, Paused(h))
         /\ Keeps(h, Unpacked(h)) /\ Keeps(h, Packed(h)) /\ Keeps(h, Stepped(h))
         /\ Keeps(h, [h EXCEPT !.source_commit = h.ready])
         /\ Keeps(h, [h EXCEPT !.packed = None, !.uploaded = n, !.uploading = u])
         /\ Keeps(h, [h EXCEPT !.packed = None, !.uploading = u])
         /\ Keeps(h, [h EXCEPT !.packed = None, !.reset = FALSE, !.uploaded = n,
                               !.pulses = 0, !.switches = 0])
         /\ Keeps(h, [h EXCEPT !.pulses = m]) /\ Keeps(h, [h EXCEPT !.switches = m])
<1>. DEFINE Same(k) == SameCandidates(h, k)
<1>1. Same([h EXCEPT !.fault = FALSE]) BY DEF SameCandidates, Host
<1>2. Same(Paused(h)) BY DEF SameCandidates, Host, Paused
<1>3. Same(Unpacked(h)) BY DEF SameCandidates, Host, Unpacked
<1>4. Same(Packed(h)) BY DEF SameCandidates, Host, Packed
<1>5. Same(Stepped(h)) BY DEF SameCandidates, Host, Stepped
<1>6. Same([h EXCEPT !.source_commit = h.ready]) BY DEF SameCandidates, Host
<1>7. Same([h EXCEPT !.packed = None, !.uploaded = n, !.uploading = u])
  BY DEF SameCandidates, Host
<1>8. Same([h EXCEPT !.packed = None, !.uploading = u]) BY DEF SameCandidates, Host
<1>9. Same([h EXCEPT !.packed = None, !.reset = FALSE, !.uploaded = n,
                     !.pulses = 0, !.switches = 0])
  BY DEF SameCandidates, Host
<1>10. Same([h EXCEPT !.pulses = m]) /\ Same([h EXCEPT !.switches = m])
  BY DEF SameCandidates, Host
<1>. QED
  BY <1>1, <1>2, <1>3, <1>4, <1>5, <1>6, <1>7, <1>8, <1>9, <1>10, SameCandidatesKeep

\* Supervising a failure recalls.
LEMMA SuperviseRecalls ==
  ASSUME NEW s, Good(s)
  PROVE  Recalls(s, FailureCleared(s)) /\ Recalls(s, Supervise(s))
<1>1. s.host \in Host BY GoodParts
<1>2. Keeps(s.host, [s.host EXCEPT !.fault = FALSE]) /\ Keeps(s.host, Paused(s.host))
  BY <1>1, OtherStepsKeep
<1>3. Recalls(s, FailureCleared(s)) BY <1>2, HostRecalls DEF FailureCleared
<1>. QED BY <1>2, <1>3, HostRecalls, StayRecalls DEF Supervise, SuperviseFault

\* A request for the document as it stands is on record for its revision, of
\* a draft that was validated; one that clears the record makes it anew, unless
\* nothing has been asked at the revision or no name is left.
LEMMA RequestedKnows ==
  ASSUME NEW h \in Host, NEW e \in Editor, AskedAsItStands(h, e),
         NEW k \in {h, Retimed(h)}
  PROVE  AskedAsItStands(Requested(k, e), e)
<1>1. h.next \in Nat /\ Tokens \in Nat /\ e.revision \in Nat
  BY BoundsAssumption DEF Host, Editor
<1>2. k \in Host BY HostStepsTyped
<1>3. k.next = h.next /\ k.active = h.active BY DEF Host, Retimed
<1>4. Revisions(k) = Revisions(h) BY DEF Revisions, Host, Retimed
<1>5. CASE Due(k, e) /\ k.next < Tokens
  <2>. DEFINE q == Requested(k, e)
  <2>1. /\ q.preparing = CandidateFor(k, e) /\ q.ready = None /\ q.last_error = None
        /\ q.active = h.active /\ q.requested_revision = e.revision
    BY <1>1, <1>2, <1>3, <1>5 DEF Requested, Host
  <2>2. CandidateFor(k, e).revision = e.revision BY DEF CandidateFor
  <2>3. e.acceptance # "Pending" BY <1>5 DEF Due, RequestDue
  <2>4. ASSUME NEW r \in Revisions(q) PROVE r = e.revision \/ r \in Revisions(h)
    <3>. HIDE DEF q
    <3>1. PICK c \in {q.preparing, q.ready, q.active, q.last_error} :
            c # None /\ r = c.revision
      BY DEF Revisions
    <3>2. c = CandidateFor(k, e) \/ c = h.active BY <2>1, <3>1
    <3>. QED BY <2>2, <3>1, <3>2 DEF Revisions
  <2>. HIDE DEF q
  <2>. QED BY <2>1, <2>3, <2>4 DEF AskedAsItStands, q
<1>6. CASE ~(Due(k, e) /\ k.next < Tokens)
  <2>1. Requested(k, e) = k BY <1>1, <1>3, <1>6 DEF Requested
  <2>2. CASE k = h BY <2>1, <2>2
  <2>3. CASE k.next >= Tokens
    BY <1>1, <1>3, <1>4, <2>1, <2>3 DEF AskedAsItStands
  <2>4. CASE k = Retimed(h) /\ ~Due(k, e)
    <3>1. k.requested_revision = None BY <2>4 DEF Retimed, Host
    <3>2. e.acceptance = "Pending"
      BY <2>4, <3>1 DEF Due, RequestDue, Accounted
    <3>. QED BY <1>4, <2>1, <3>2 DEF AskedAsItStands
  <2>. QED BY <1>1, <1>3, <1>6, <2>2, <2>3, <2>4
<1>. QED BY <1>1, <1>3, <1>5, <1>6

\* Asking for a candidate keeps what is known.
LEMMA RequestKnows ==
  ASSUME NEW s, Known(s), NEW fair, NEW t \in RequestShare(s, fair)
  PROVE  Known(t)
<1>1. /\ Good(s) /\ s \in States /\ s.host \in Host /\ s.editor \in Editor
      /\ AskedAsItStands(s.host, s.editor)
  BY GoodParts DEF Known
<1>2. Good(t) BY <1>1, RequestShareGood
<1>3. \/ t = s
      \/ \E k \in {s.host, Retimed(s.host)} : t = OnHost(s, Requested(k, s.editor))
  BY DEF RequestShare, Outcomes
<1>4. ASSUME NEW k \in {s.host, Retimed(s.host)}, t = OnHost(s, Requested(k, s.editor))
      PROVE  Known(t)
  <2>1. t.host = Requested(k, s.editor) /\ t.editor = s.editor BY <1>1, <1>4, HostOf
  <2>2. AskedAsItStands(Requested(k, s.editor), s.editor) BY <1>1, RequestedKnows
  <2>. QED BY <1>2, <2>1, <2>2 DEF Known
<1>. QED BY <1>3, <1>4

\* Preparation's share, and dropping a stale pack, recall.
LEMMA PreparationRecalls ==
  ASSUME NEW s, Good(s)
  PROVE  /\ \A fair : \A t \in PreparationShare(s, fair) : Recalls(s, t)
         /\ Recalls(s, DropStalePack(s)) /\ Recalls(s, OnHost(s, Unpacked(s.host)))
<1>1. s.host \in Host BY GoodParts
<1>2. Keeps(s.host, Prepared(s.host)) /\ Keeps(s.host, Unprepared(s.host))
  BY <1>1, CandidateStepsKeep
<1>3. Keeps(s.host, Unpacked(s.host)) BY <1>1, OtherStepsKeep
<1>. QED BY <1>2, <1>3, HostRecalls, StayRecalls
     DEF PreparationShare, Outcomes, DropStalePack

\* Carrying the ready candidate recalls.
LEMMA CarryRecalls ==
  ASSUME NEW s, Good(s), NEW t \in CarryReady(s)
  PROVE  Recalls(s, t)
<1>1. s.host \in Host BY GoodParts
<1>2. /\ Keeps(s.host, Packed(s.host))
      /\ Keeps(s.host, [s.host EXCEPT !.source_commit = s.host.ready])
  BY <1>1, OtherStepsKeep
<1>3. Keeps(s.host, Rejected(s.host, s.host.ready)) BY <1>1, CandidateStepsKeep
<1>4. ASSUME NEW carriage \in Carriages PROVE Recalls(s, PatchSources(s, carriage))
  <2>1. Recalls(s, PatchSent(s)) BY <1>2, HostRecalls DEF PatchSent
  <2>2. Recalls(s, OnHost(s, Packed(s.host))) BY <1>2, HostRecalls
  <2>3. Recalls(s, OnHost(s, Rejected(s.host, s.host.ready))) BY <1>3, HostRecalls
  <2>. QED BY <2>1, <2>2, <2>3, StayRecalls DEF PatchSources, LiveEventFallback
<1>5. ASSUME NEW carriage \in Carriages PROVE Recalls(s, CarriedAs(s, carriage))
  <2>1. Recalls(s, OnHost(s, Packed(s.host))) BY <1>2, HostRecalls
  <2>. QED BY <1>4, <2>1, CommitRecalls DEF CarriedAs, Carry
<1>. QED BY <1>5, StayRecalls DEF CarryReady

\* A frame's first blocks keep what is known.
LEMMA CarriedKnows ==
  ASSUME NEW s, Known(s), NEW fair, NEW t \in Carried(s, fair)
  PROVE  Known(t)
<1>1. PICK v \in ValidationShare(s, fair) :
      \E r \in RequestShare(Supervise(FinishSourceCommit(DropReplaced(v))), fair) :
      \E p \in PreparationShare(r, fair) : t \in CarryReady(DropStalePack(p))
  BY DEF Carried
<1>2. PICK r \in RequestShare(Supervise(FinishSourceCommit(DropReplaced(v))), fair) :
      \E p \in PreparationShare(r, fair) : t \in CarryReady(DropStalePack(p))
  BY <1>1
<1>3. PICK p \in PreparationShare(r, fair) : t \in CarryReady(DropStalePack(p))
  BY <1>2
<1>4. Known(v) BY ValidationKnows
<1>5. Known(DropReplaced(v))
  <2>1. Good(v) /\ v.host \in Host BY <1>4, GoodParts DEF Known
  <2>2. Keeps(v.host, Dropped(v.host)) BY <2>1, CandidateStepsKeep
  <2>3. Recalls(v, DropReplaced(v))
    BY <2>1, <2>2, HostRecalls, StayRecalls DEF DropReplaced
  <2>. QED BY <1>4, <2>1, <2>3, DropReplacedGood, RecallKeeps
<1>6. Known(FinishSourceCommit(DropReplaced(v)))
  <2>. DEFINE u == DropReplaced(v)
  <2>1. Good(u) BY <1>5 DEF Known
  <2>2. Good(FinishSourceCommit(u)) /\ Recalls(u, FinishSourceCommit(u))
    BY <2>1, FinishSourceCommitGood, FinishRecalls
  <2>. QED BY <1>5, <2>2, RecallKeeps
<1>7. Known(Supervise(FinishSourceCommit(DropReplaced(v))))
  <2>. DEFINE u == FinishSourceCommit(DropReplaced(v))
  <2>1. Good(u) BY <1>6 DEF Known
  <2>2. Good(Supervise(u)) /\ Recalls(u, Supervise(u))
    BY <2>1, SuperviseGood, SuperviseRecalls
  <2>. QED BY <1>6, <2>2, RecallKeeps
<1>8. Known(r) BY <1>7, RequestKnows
<1>9. Known(p)
  <2>1. Good(r) BY <1>8 DEF Known
  <2>2. Good(p) /\ Recalls(r, p) BY <2>1, PreparationShareGood, PreparationRecalls
  <2>. QED BY <1>8, <2>2, RecallKeeps
<1>10. Known(DropStalePack(p))
  <2>1. Good(p) BY <1>9 DEF Known
  <2>2. Good(DropStalePack(p)) /\ Recalls(p, DropStalePack(p))
    BY <2>1, DropStalePackGood, PreparationRecalls
  <2>. QED BY <1>9, <2>2, RecallKeeps
<1>. DEFINE u == DropStalePack(p)
<1>11. Good(u) BY <1>10 DEF Known
<1>12. Good(t) /\ Recalls(u, t) BY <1>3, <1>11, CarryReadyGood, CarryRecalls
<1>. QED BY <1>10, <1>12, RecallKeeps

\* The block that begins an upload keeps what is known.
LEMMA BeginKnows ==
  ASSUME NEW s, Known(s), NEW fair, NEW t \in BeginUpload(s, fair)
  PROVE  Known(t)
<1>1. Good(s) /\ s.host \in Host BY GoodParts DEF Known
<1>2. CASE ~PackedAtDevice(s) BY <1>2 DEF BeginUpload
<1>3. CASE PackedAtDevice(s)
  <2>. DEFINE u == ReadyForUpload(s)
              c == u.host.packed
              g == NextGeneration(u.device.generation)
              Upload0 == UploadOf(c, g)
  <2>1. Good(t) BY <1>1, BeginUploadGood
  <2>2. Recalls(s, u) BY <1>1, SuperviseRecalls, StayRecalls DEF ReadyForUpload
  <2>3. Known(u)
    <3>1. Good(u) BY <1>1, FailureClearedGood DEF ReadyForUpload
    <3>. QED BY <2>2, <3>1, RecallKeeps
  <2>4. Good(u) /\ u.host \in Host BY <2>3, GoodParts DEF Known
  <2>5. t \in UploadPacked(u, fair) BY <1>3 DEF BeginUpload
  <2>. HIDE DEF u
  <2>6. Recalls(u, InstallUpload(u, c))
    <3>1. Keeps(u.host, [u.host EXCEPT !.packed = None, !.uploaded = c.token,
                                       !.uploading = Upload0])
      BY <2>4, OtherStepsKeep
    <3>. QED BY <2>4, <3>1, HostRecalls DEF InstallUpload
  <2>7. Recalls(u, HandOff(u, c))
    <3>1. Keeps(u.host, [u.host EXCEPT !.packed = None, !.uploading = Upload0])
      BY <2>4, OtherStepsKeep
    <3>. QED BY <2>4, <3>1, HostRecalls DEF HandOff
  <2>8. Recalls(u, OnHost(u, Rejected(Unpacked(u.host), c)))
    <3>1. Keeps(u.host, Rejected(Unpacked(u.host), c)) BY <2>4, CandidateStepsKeep
    <3>. QED BY <2>4, <3>1, HostRecalls
  <2>9. Recalls(u, t)
    BY <2>4, <2>5, <2>6, <2>7, <2>8, StayRecalls DEF UploadPacked, Outcomes
  <2>. QED BY <2>1, <2>3, <2>9, RecallKeeps
<1>. QED BY <1>1, <1>2, <1>3

\* Settling the upload in flight, and Reset, recall.
LEMMA SettleRecalls ==
  ASSUME NEW s, Good(s)
  PROVE  Recalls(s, SettleInFlight(s)) /\ Recalls(s, ApplyReset(s))
<1>1. s.host \in Host BY GoodParts
<1>. DEFINE c == s.host.uploading.candidate
<1>2. Keeps(s.host, Rejected(UploadOver(s.host), c)) /\ Keeps(s.host, Published(s.host, c))
  BY <1>1, CandidateStepsKeep
<1>3. /\ Recalls(s, OnHost(s, Rejected(UploadOver(s.host), c)))
      /\ Recalls(s, OnDevice(OnHost(s, Rejected(UploadOver(s.host), c)),
                             Withdrawn(s.device)))
      /\ Recalls(s, OnHost(s, Published(s.host, c)))
  BY <1>2, HostRecalls
<1>4. Recalls(s, SettleInFlight(s))
  BY <1>3, StayRecalls DEF SettleInFlight, Settled, SettleUpload
<1>5. Keeps(s.host, [s.host EXCEPT !.packed = None, !.reset = FALSE,
                                   !.uploaded = s.host.active.token,
                                   !.pulses = 0, !.switches = 0])
  BY <1>1, OtherStepsKeep
<1>6. Recalls(s, ApplyReset(s)) BY <1>5, HostRecalls, StayRecalls DEF ApplyReset
<1>. QED BY <1>4, <1>6

\* Sending what waits, and asking for steps, recall.
LEMMA SendRecalls ==
  ASSUME NEW s, Good(s), NEW fair
  PROVE  /\ \A t \in SendPulse(s, fair) : Recalls(s, t)
         /\ \A t \in SendSwitch(s, fair) : Recalls(s, t)
         /\ \A t \in TakeSteps(s, fair) : Recalls(s, t)
<1>1. s.host \in Host BY GoodParts
<1>2. ASSUME NEW h, Keeps(s.host, h), NEW kind, NEW built
      PROVE  Recalls(s, Sent(s, kind, h, built))
  BY <1>2, HostRecalls, StayRecalls DEF Sent
<1>3. /\ Keeps(s.host, [s.host EXCEPT !.pulses = s.host.pulses - 1])
      /\ Keeps(s.host, [s.host EXCEPT !.switches = s.host.switches - 1])
      /\ Keeps(s.host, Stepped(s.host))
  BY <1>1, OtherStepsKeep
<1>4. \A t \in SendPulse(s, fair) : Recalls(s, t)
  BY <1>2, <1>3, StayRecalls DEF SendPulse, Outcomes
<1>5. \A t \in SendSwitch(s, fair) : Recalls(s, t)
  BY <1>2, <1>3, StayRecalls DEF SendSwitch, Outcomes
<1>6. \A t \in TakeSteps(s, fair) : Recalls(s, t)
  BY <1>3, HostRecalls, StayRecalls DEF TakeSteps, Outcomes
<1>. QED BY <1>4, <1>5, <1>6

\* Adaptation's request recalls: it is of the revision that was published.
LEMMA AdaptRecalls ==
  ASSUME NEW s, Good(s), NEW fair, NEW t \in AdaptShare(s, fair)
  PROVE  Recalls(s, t)
<1>. SUFFICES ASSUME MayAdapt(s.host) PROVE Recalls(s, OnHost(s, Adapted(s.host)))
  BY StayRecalls DEF AdaptShare, Outcomes
<1>. DEFINE h == s.host
            k == Adapted(h)
<1>1. h \in Host /\ h.next \in Nat BY GoodParts, OrderParts
<1>2. h.active \in Candidate /\ h.active # None BY <1>1, OptionSet DEF Host, MayAdapt
<1>3. /\ k.next = h.next + 1 /\ k.requested_revision = h.requested_revision
      /\ k.preparing = AdaptationOf(h) /\ k.ready = h.ready /\ k.active = h.active
      /\ k.last_error \in {None, h.last_error}
  BY <1>1 DEF Adapted, Host
<1>4. AdaptationOf(h).revision = h.active.revision
  BY <1>2 DEF AdaptationOf, Candidate
<1>5. ASSUME NEW r \in Revisions(k) PROVE r \in Revisions(h)
  <2>. HIDE DEF h, k
  <2>1. PICK c \in {k.preparing, k.ready, k.active, k.last_error} :
          c # None /\ r = c.revision
    BY DEF Revisions
  <2>2. \/ c = AdaptationOf(h) \/ c \in {h.ready, h.active, h.last_error}
    BY <1>3, <2>1
  <2>. QED BY <1>2, <1>4, <2>1, <2>2 DEF Revisions
<1>6. Keeps(h, k)
  <2>. HIDE DEF h, k
  <2>. QED BY <1>1, <1>3, <1>5 DEF Keeps
<1>. QED BY <1>6, HostRecalls

\* A frame's last blocks keep what is known.
LEMMA UploadedKnows ==
  ASSUME NEW s, Known(s), NEW fair, NEW t \in Uploaded(s, fair)
  PROVE  Known(t)
<1>1. Good(s) BY DEF Known
<1>2. CASE PackAbandoned(s)
  <2>1. t = OnHost(s, Unpacked(s.host)) BY <1>2 DEF Uploaded
  <2>2. Good(t) BY <1>1, <2>1, GoodParts, GoodHost, HostStepsTyped, PackedCoherent
  <2>. QED BY <1>1, <2>1, <2>2, PreparationRecalls, RecallKeeps
<1>3. CASE ~PackAbandoned(s)
  <2>1. PICK b \in BeginUpload(s, fair) :
        \E p \in SendPulse(ApplyReset(SettleInFlight(b)), fair) :
        \E w \in SendSwitch(p, fair) : t \in TakeSteps(w, fair)
    BY <1>3 DEF Uploaded
  <2>2. PICK p \in SendPulse(ApplyReset(SettleInFlight(b)), fair) :
        \E w \in SendSwitch(p, fair) : t \in TakeSteps(w, fair)
    BY <2>1
  <2>3. PICK w \in SendSwitch(p, fair) : t \in TakeSteps(w, fair)
    BY <2>2
  <2>4. Known(b) BY BeginKnows
  <2>5. Known(SettleInFlight(b))
    <3>1. Good(b) BY <2>4 DEF Known
    <3>2. Good(SettleInFlight(b)) BY <3>1, SettledGood
    <3>. QED BY <2>4, <3>1, <3>2, SettleRecalls, RecallKeeps
  <2>6. Known(ApplyReset(SettleInFlight(b)))
    <3>. DEFINE u == SettleInFlight(b)
    <3>1. Good(u) BY <2>5 DEF Known
    <3>2. Good(ApplyReset(u)) /\ Recalls(u, ApplyReset(u))
      BY <3>1, ApplyResetGood, SettleRecalls
    <3>. QED BY <2>5, <3>2, RecallKeeps
  <2>7. Known(p)
    <3>. DEFINE u == ApplyReset(SettleInFlight(b))
    <3>1. Good(u) BY <2>6 DEF Known
    <3>2. Good(p) /\ Recalls(u, p) BY <2>2, <3>1, SendPulseGood, SendRecalls
    <3>. QED BY <2>6, <3>2, RecallKeeps
  <2>8. Known(w)
    <3>1. Good(p) BY <2>7 DEF Known
    <3>2. Good(w) /\ Recalls(p, w) BY <2>3, <3>1, SendSwitchGood, SendRecalls
    <3>. QED BY <2>7, <3>2, RecallKeeps
  <2>9. Good(w) BY <2>8 DEF Known
  <2>10. Good(t) /\ Recalls(w, t) BY <2>3, <2>9, TakeStepsGood, SendRecalls
  <2>. QED BY <2>8, <2>10, RecallKeeps
<1>. QED BY <1>2, <1>3

\* So does a frame.
LEMMA FrameKnows ==
  ASSUME NEW s, Known(s), NEW fair, NEW c \in Carried(s, fair),
         NEW u \in Uploaded(c, fair), NEW end \in AdaptShare(u, fair)
  PROVE  Known(end)
<1>1. Known(u) BY CarriedKnows, UploadedKnows
<1>2. Good(u) BY <1>1 DEF Known
<1>3. Good(end) /\ Recalls(u, end) BY <1>2, AdaptShareGood, AdaptRecalls
<1>. QED BY <1>1, <1>3, RecallKeeps

\* Every step of the document and of the user keeps what is known: an edit
\* leaves every revision asked for behind.
LEMMA OutsideKnows ==
  ASSUME InductiveInvariant, RevisionsInvariant, DocumentStep \/ UserStep
  PROVE  RevisionsInvariant'
<1>1. host \in Host /\ editor \in Editor BY StateIs, GoodParts DEF InductiveInvariant
<1>2. /\ host.next \in Nat /\ editor.revision \in Nat /\ Tokens \in Nat
      /\ \A r \in Revisions(host) : r < editor.revision \/ r = editor.revision
  BY <1>1, BoundsAssumption DEF Host, Editor, RevisionsInvariant, AskedAsItStands
<1>3. ASSUME Keeps(host, host'), editor' = editor PROVE RevisionsInvariant'
  <2>1. host.next >= Tokens => host'.next >= Tokens
    <3>1. host'.next \in Int
      <4>1. InductiveInvariant' BY StepGood DEF Next
      <4>2. host' \in Host BY <4>1 DEF InductiveInvariant, Good, States, State
      <4>. QED BY <4>2 DEF Host
    <3>. QED BY <1>2, <1>3, <3>1 DEF Keeps
  <2>2. /\ \A r \in Revisions(host') : r \in Revisions(host)
        /\ host'.requested_revision = host.requested_revision
    BY <1>3 DEF Keeps
  <2>3. ASSUME NEW r \in Revisions(host')
        PROVE  \/ r < editor.revision
               \/ /\ r = editor.revision /\ editor.acceptance # "Pending"
                  /\ \/ host'.requested_revision = editor.revision
                     \/ host'.next >= Tokens
    BY <2>1, <2>2 DEF RevisionsInvariant, AskedAsItStands
  <2>. QED BY <1>3, <2>3 DEF RevisionsInvariant, AskedAsItStands
<1>4. ASSUME Revisions(host') = Revisions(host), editor'.revision = editor.revision + 1
      PROVE  RevisionsInvariant'
  <2>1. ASSUME NEW r \in Revisions(host) PROVE r \in Nat
    <3>1. PICK c \in {host.preparing, host.ready, host.active, host.last_error} :
            c # None /\ r = c.revision
      BY DEF Revisions
    <3>2. c \in Candidate BY <1>1, <3>1, OptionSet DEF Host
    <3>. QED BY <3>1, <3>2, CandidateParts
  <2>2. ASSUME NEW r \in Revisions(host) PROVE r < editor.revision + 1
    BY <1>2, <2>1
  <2>. QED BY <1>4, <2>2 DEF RevisionsInvariant, AskedAsItStands
<1>5. CASE DocumentStep
  <2>1. ASSUME Validate PROVE RevisionsInvariant'
    <3>1. PICK inputs \in Inputs : editor' = Validated(editor, inputs)
      BY <2>1 DEF Validate
    <3>2. /\ editor'.revision = editor.revision
          /\ editor.acceptance # "Pending" => editor'.acceptance # "Pending"
      BY <1>1, <3>1 DEF Validated, Editor
    <3>3. host' = host BY <2>1 DEF Validate
    <3>. QED BY <3>2, <3>3 DEF RevisionsInvariant, AskedAsItStands
  <2>2. ASSUME NEW inputs \in Inputs, NEW valid \in BOOLEAN, Edit(inputs, valid)
        PROVE  RevisionsInvariant'
    <3>1. editor'.revision = editor.revision + 1 /\ host' = host
      BY <1>1, <2>2 DEF Edit, Editor
    <3>. QED BY <1>4, <3>1
  <2>3. ASSUME NEW edge \in Edges, Edge(edge) PROVE RevisionsInvariant'
    <3>1. /\ editor'.revision = editor.revision
          /\ editor'.acceptance = editor.acceptance /\ host' = host
      BY <1>1, <2>3 DEF Edge, Editor
    <3>. QED BY <3>1 DEF RevisionsInvariant, AskedAsItStands
  <2>4. ASSUME NEW inputs \in Inputs, NEW edge \in Edges, NEW valid \in BOOLEAN,
               Replace(inputs, edge, valid)
        PROVE  RevisionsInvariant'
    <3>1. editor'.revision = editor.revision + 1 BY <2>4 DEF Replace
    <3>2. /\ host'.preparing = host.preparing /\ host'.ready = host.ready
          /\ host'.active = host.active /\ host'.last_error = host.last_error
      BY <1>1, <2>4 DEF Replace, Host
    <3>3. Revisions(host') = Revisions(host) BY <3>2 DEF Revisions
    <3>. QED BY <1>4, <3>1, <3>3
  <2>. QED BY <1>5, <2>1, <2>2, <2>3, <2>4 DEF DocumentStep
<1>6. CASE UserStep
  <2>1. editor' = editor
    BY <1>6 DEF UserStep, Remesh, Reset, Speed, StepOnce, Pulse, Switch, Run
  <2>2. SameCandidates(host, host')
    BY <1>1, <1>6
    DEF UserStep, Remesh, Reset, Speed, StepOnce, Pulse, Switch, Run, Host,
        SameCandidates
  <2>. QED BY <1>1, <1>3, <2>1, <2>2, SameCandidatesKeep
<1>. QED BY <1>5, <1>6

\* The invariant with what is known of the revisions.
KnownInvariant == InductiveInvariant /\ RevisionsInvariant

\* It is what is known of the state.
LEMMA KnownIs == KnownInvariant <=> Known(State)
BY StateIs DEF KnownInvariant, InductiveInvariant, RevisionsInvariant, Known

\* Every step keeps what is known.
LEMMA StepKnows == KnownInvariant /\ [Next]_vars => KnownInvariant'
<1>. SUFFICES ASSUME KnownInvariant, [Next]_vars PROVE KnownInvariant' OBVIOUS
<1>1. InductiveInvariant /\ RevisionsInvariant BY DEF KnownInvariant
<1>2. InductiveInvariant' BY <1>1, StepGood
<1>3. CASE UNCHANGED vars
  <2>1. host' = host /\ editor' = editor BY <1>3 DEF vars
  <2>. QED BY <1>1, <1>2, <2>1 DEF KnownInvariant, RevisionsInvariant
<1>4. CASE Frame(FALSE)
  <2>1. PICK s : s = State OBVIOUS
  <2>2. Known(s) BY <2>1, KnownIs
  <2>3. PICK c \in Carried(s, FALSE) :
          \E u \in Uploaded(c, FALSE) : \E end \in AdaptShare(u, FALSE) : Become(end)
    BY <1>4, <2>1 DEF Frame
  <2>4. PICK u \in Uploaded(c, FALSE) : \E end \in AdaptShare(u, FALSE) : Become(end)
    BY <2>3
  <2>5. PICK end \in AdaptShare(u, FALSE) : Become(end) BY <2>4
  <2>6. Known(end) BY <2>2, FrameKnows
  <2>7. host' = end.host /\ editor' = end.editor BY <2>5 DEF Become
  <2>8. RevisionsInvariant' BY <2>6, <2>7 DEF Known, RevisionsInvariant
  <2>. QED BY <1>2, <2>8 DEF KnownInvariant
<1>5. CASE DeviceStep
  <2>1. host' = host /\ editor' = editor
    BY <1>5 DEF DeviceStep, Readbacks, AdmitHandoff, RefuseHandoff, Settle, Fault
  <2>. QED BY <1>1, <1>2, <2>1 DEF KnownInvariant, RevisionsInvariant
<1>6. CASE DocumentStep \/ UserStep
  BY <1>1, <1>2, <1>6, OutsideKnows DEF KnownInvariant
<1>. QED BY <1>3, <1>4, <1>5, <1>6 DEF Next

\* A scene just opened has asked for nothing.
LEMMA InitKnows == Init => KnownInvariant
<1>. SUFFICES ASSUME Init PROVE KnownInvariant OBVIOUS
<1>1. /\ host.preparing = None /\ host.ready = None /\ host.active = None
      /\ host.last_error = None
  BY DEF Init
<1>2. Revisions(host) = {} BY <1>1 DEF Revisions
<1>. QED BY <1>2, InitGood DEF KnownInvariant, RevisionsInvariant, AskedAsItStands

\* At rest, on a document a request stands for, no request is due: one of the
\* document's own revision is on record, if the draft is valid, because what
\* answers for it was asked for at that revision.
LEMMA RestIsNotDue ==
  ASSUME NEW s, Known(s), AtRest(s), RequestStands(s.host, s.editor)
  PROVE  ~Due(s.host, s.editor) \/ s.host.next >= Tokens
<1>. DEFINE h == s.host
            e == s.editor
            standing == StandingRevision(h, e)
<1>1. /\ h \in Host /\ e.revision \in Nat /\ e.acceptance \in Acceptances
      /\ AskedAsItStands(h, e)
  BY GoodParts DEF Known, Editor
<1>2. SUFFICES ASSUME ~(h.next >= Tokens) PROVE ~Due(h, e) OBVIOUS
<1>3. /\ standing # None /\ h.requested_edge = e.edge /\ ~h.remesh
      /\ e.acceptance = "Invalid" =>
           standing \in {RevisionOf(h.active), RevisionOf(h.last_error)}
      /\ e.acceptance # "Pending"
  BY DEF RequestStands, AtRest
<1>4. standing \in {RevisionOf(h.active), RevisionOf(h.last_error)}
  <2>1. CASE e.acceptance = "Valid"
    <3>1. \/ RevisionOf(h.last_error) = standing
          \/ h.active # None /\ h.active.revision = standing
      BY <2>1 DEF AtRest, Answered
    <3>. QED BY <3>1 DEF RevisionOf
  <2>2. CASE e.acceptance = "Invalid" BY <1>3, <2>2
  <2>. QED BY <1>1, <1>3, <2>1, <2>2 DEF Acceptances
<1>5. h.requested_revision = standing
  <2>1. CASE e.acceptance = "Valid"
    <3>1. standing = e.revision BY <2>1 DEF StandingRevision, Standing
    <3>2. e.revision \in Revisions(h)
      BY <1>3, <1>4, <3>1 DEF Revisions, RevisionOf
    <3>3. h.requested_revision = e.revision
      BY <1>1, <1>2, <3>2 DEF AskedAsItStands
    <3>. QED BY <3>1, <3>3
  <2>2. CASE e.acceptance = "Invalid"
    BY <1>3, <2>2 DEF StandingRevision, Standing
  <2>. QED BY <1>1, <1>3, <2>1, <2>2 DEF Acceptances
<1>. HIDE DEF h, e
<1>. QED BY <1>3, <1>4, <1>5 DEF Due, RequestDue, Accounted

\* Nothing is asked of the host, on its way, or waiting to be sent.
Idle(h) ==
  /\ h \in Host /\ ~h.running
  /\ Unoccupied(h) /\ h.preparing = None /\ h.ready = None
  /\ h.active = None \/ (~h.reset /\ h.switches = 0)
  /\ h.pulses = 0

\* Supervision of an idle host asks for nothing.
LEMMA SuperviseIdle ==
  ASSUME NEW s, Good(s), Idle(s.host)
  PROVE  LET k == Supervise(s).host
         IN  /\ Idle(k) /\ Supervise(s).editor = s.editor
             /\ k.next = s.host.next /\ k.retimed = s.host.retimed
             /\ k.uploaded = s.host.uploaded
             /\ Due(k, s.editor) <=> Due(s.host, s.editor)
<1>. DEFINE h == s.host
            Same(k) == /\ Idle(k)
                       /\ k.next = h.next /\ k.retimed = h.retimed
                       /\ k.uploaded = h.uploaded
                       /\ Due(k, s.editor) <=> Due(h, s.editor)
<1>1. s \in States /\ h \in Host BY GoodParts
<1>2. [h EXCEPT !.fault = FALSE] \in Host /\ Paused(h) \in Host
  BY <1>1, PausedTyped
<1>3. Same([h EXCEPT !.fault = FALSE])
  BY <1>1, <1>2 DEF Host, Idle, Unoccupied, Due, StandingRevision
<1>4. Same(Paused(h))
  BY <1>1, <1>2 DEF Host, Idle, Unoccupied, Due, StandingRevision, Paused
<1>5. Supervise(s).editor = s.editor
  BY <1>1, HostOf DEF Supervise, SuperviseFault, FailureCleared
<1>6. Supervise(s).host \in {h, [h EXCEPT !.fault = FALSE], Paused(h)}
  BY <1>1, HostOf DEF Supervise, SuperviseFault, FailureCleared
<1>. QED BY <1>3, <1>4, <1>5, <1>6

\* A frame at rest and paused, on a document a request stands for and at a step
\* retimed, comes to its uploads with what it had.
LEMMA RestCarries ==
  ASSUME NEW s, Known(s), AtRest(s), RequestStands(s.host, s.editor),
         ~s.host.running, s.host.retimed = s.host.uploaded,
         NEW fair, NEW t \in Carried(s, fair)
  PROVE  Idle(t.host) /\ t.host.next = s.host.next
<1>1. PICK v \in ValidationShare(s, fair) :
      \E r \in RequestShare(Supervise(FinishSourceCommit(DropReplaced(v))), fair) :
      \E p \in PreparationShare(r, fair) : t \in CarryReady(DropStalePack(p))
  BY DEF Carried
<1>2. PICK r \in RequestShare(Supervise(FinishSourceCommit(DropReplaced(v))), fair) :
      \E p \in PreparationShare(r, fair) : t \in CarryReady(DropStalePack(p))
  BY <1>1
<1>3. PICK p \in PreparationShare(r, fair) : t \in CarryReady(DropStalePack(p))
  BY <1>2
<1>4. Good(s) /\ s \in States /\ s.host \in Host BY GoodParts DEF Known
<1>5. Idle(s.host) BY <1>4 DEF Idle, AtRest
<1>6. v = s
  <2>1. \A inputs : [s EXCEPT !.editor = Validated(@, inputs)] = s
    BY <1>4 DEF AtRest, Validated, States
  <2>. QED BY <2>1 DEF ValidationShare, Outcomes
<1>7. FinishSourceCommit(DropReplaced(v)) = s
  BY <1>6 DEF AtRest, Unoccupied, DropReplaced, FinishSourceCommit
<1>8. PICK q : q = Supervise(s) OBVIOUS
<1>9. /\ Idle(q.host) /\ q.editor = s.editor /\ q.host.next = s.host.next
      /\ q.host.retimed = q.host.uploaded
      /\ ~Due(q.host, s.editor) \/ q.host.next >= Tokens
  BY <1>4, <1>5, <1>8, SuperviseIdle, RestIsNotDue
<1>10. q \in States BY <1>4, <1>8, SuperviseGood, GoodParts
<1>11. r = q
  <2>1. r \in RequestShare(q, fair) BY <1>2, <1>7, <1>8
  <2>2. Requested(q.host, q.editor) = q.host BY <1>9 DEF Requested
  <2>3. OnHost(q, q.host) = q BY <1>10 DEF OnHost, States
  <2>4. ~RetimeMayBeAsked(q.host) BY <1>9 DEF RetimeMayBeAsked
  <2>. QED BY <2>1, <2>2, <2>3, <2>4 DEF RequestShare, Outcomes
<1>12. p = q BY <1>3, <1>9, <1>11 DEF PreparationShare, Idle
<1>13. t = q
  BY <1>3, <1>9, <1>12 DEF DropStalePack, CarryReady, Idle, Unoccupied
<1>. QED BY <1>9, <1>13

\* The rest of such a frame uploads nothing, and asks for nothing.
LEMMA IdleUploads ==
  ASSUME NEW s, s \in States, Idle(s.host), NEW fair, NEW u \in Uploaded(s, fair),
         NEW end \in AdaptShare(u, fair)
  PROVE  end.host.next = s.host.next
<1>1. ~PackedAtDevice(s) /\ ~PackAbandoned(s)
  BY DEF Idle, Unoccupied, PackedAtDevice, PackAbandoned
<1>2. BeginUpload(s, fair) = {s} BY <1>1 DEF BeginUpload
<1>3. SettleInFlight(s) = s /\ ApplyReset(s) = s
  BY DEF Idle, Unoccupied, SettleInFlight, ApplyReset, ResetMayApply
<1>4. SendPulse(s, fair) = {s} /\ SendSwitch(s, fair) = {s}
  BY DEF Idle, SendPulse, SendSwitch, MaySend
<1>5. u \in TakeSteps(s, fair) BY <1>1, <1>2, <1>3, <1>4 DEF Uploaded
<1>6. u.host \in {s.host, Stepped(s.host)}
  <2>1. \/ u = s \/ u = OnHost(s, Stepped(s.host))
        \/ u = OnDevice(OnHost(s, Stepped(s.host)), LeftBehind(s.device))
    BY <1>5 DEF TakeSteps, Outcomes
  <2>. QED BY <2>1, HostOf
<1>7. u.host.next = s.host.next /\ ~u.host.running
  BY <1>6 DEF Idle, Host, Stepped
<1>. QED BY <1>7 DEF AdaptShare, MayAdapt, Outcomes

\* At rest and paused, on a document a request stands for, the step that asks
\* for a candidate is none: an edit that failed, and a retime that was refused,
\* are not prepared again and again (RT-11, AMR-04).
THEOREM RestStaysAtRest == Spec => RestAsksForNothing
<1>1. KnownInvariant /\ [Next]_vars =>
        [(/\ AtRest(State)
          /\ ~host.running
          /\ host.retimed = host.uploaded
          /\ RequestStands(host, editor))
         => host'.next = host.next]_vars
  <2>. SUFFICES ASSUME KnownInvariant, Next, AtRest(State), ~host.running,
                       host.retimed = host.uploaded, RequestStands(host, editor)
                PROVE  host'.next = host.next
    BY DEF vars
  <2>1. PICK s : s = State OBVIOUS
  <2>2. Known(s) /\ s.host = host /\ s.editor = editor BY <2>1, KnownIs, StateIs
  <2>3. host \in Host BY <2>2, GoodParts DEF Known
  <2>4. CASE Frame(FALSE)
    <3>1. PICK c \in Carried(s, FALSE) :
            \E u \in Uploaded(c, FALSE) : \E end \in AdaptShare(u, FALSE) : Become(end)
      BY <2>1, <2>4 DEF Frame
    <3>2. PICK u \in Uploaded(c, FALSE) : \E end \in AdaptShare(u, FALSE) : Become(end)
      BY <3>1
    <3>3. PICK end \in AdaptShare(u, FALSE) : Become(end) BY <3>2
    <3>4. Idle(c.host) /\ c.host.next = host.next BY <2>1, <2>2, RestCarries
    <3>5. c \in States BY <2>2, CarriedKnows, GoodParts DEF Known
    <3>6. end.host.next = host.next BY <3>4, <3>5, IdleUploads
    <3>. QED BY <3>3, <3>6 DEF Become
  <2>5. CASE DeviceStep
    BY <2>5 DEF DeviceStep, Readbacks, AdmitHandoff, RefuseHandoff, Settle, Fault
  <2>6. CASE DocumentStep
    BY <2>3, <2>6 DEF DocumentStep, Validate, Edit, Edge, Replace, Host
  <2>7. CASE UserStep
    BY <2>3, <2>7
    DEF UserStep, Remesh, Reset, Speed, StepOnce, Pulse, Switch, Run, Host
  <2>. QED BY <2>4, <2>5, <2>6, <2>7 DEF Next
<1>2. KnownInvariant /\ [Next]_vars => KnownInvariant' BY StepKnows
<1>. QED BY <1>1, <1>2, InitKnows, PTL DEF Spec, RestAsksForNothing

=============================================================================
