------------------------- MODULE GenerationSettling -------------------------
(***************************************************************************)
(* The fair suffix of the generation protocol, Protocol::settle of         *)
(* crates/funfern-protocol/src/lib.rs: frames that prepare and carry what  *)
(* they can, a device that completes, admits and takes what it is given,   *)
(* and a paused run resumed as its message asks.                           *)
(*                                                                         *)
(* It is taken in two ways.  As the function it is, in rounds, after any   *)
(* Prefix steps of the protocol, until the machine is at rest or           *)
(* Prefix + 3 rounds are spent, the bound of                               *)
(* crates/funfern-protocol/src/proofs.rs.  And apart, as the app takes it: *)
(* its steps in any order, and among them, whenever they like, a bounded   *)
(* number of steps of the user, a failing device and unhelpful frames.     *)
(***************************************************************************)
EXTENDS GenerationProtocol

CONSTANTS
  Prefix,         \* PREFIX: the steps taken before the rounds.
  Disturbances    \* Bound: the steps among the suffix that are not of it.

ASSUME SettlingAssumption == Prefix \in Nat /\ Disturbances \in Nat

Rounds == Prefix + 3

VARIABLES
  taken,       \* The steps taken that are not of the suffix.
  round,       \* The round of settle; zero before it is called.
  turn         \* The step of the round to take next, the answer, or "apart".

settleVars == <<vars, taken, round, turn>>

SettleInit == Init /\ taken = 0 /\ round = 0 /\ turn \in {"prefix", "apart"}

PrefixStep ==
  /\ turn = "prefix" /\ taken < Prefix
  /\ Next
  /\ taken' = taken + 1
  /\ UNCHANGED <<round, turn>>

-----------------------------------------------------------------------------
(* In rounds. *)

Call ==
  /\ turn = "prefix"
  /\ turn' = "resume"
  /\ round' = 1
  /\ UNCHANGED <<vars, taken>>

\* A run paused for a failure is resumed.
ResumePaused ==
  /\ host' = [host EXCEPT !.running = @ \/ host.fault \/ Failed(device)]
  /\ UNCHANGED <<editor, device>>

FinishValidation ==
  /\ editor' = Validated(editor, editor.inputs)
  /\ UNCHANGED <<host, device>>

\* A step of the device with nothing to act on leaves it alone.
IfAsked(asked, A) == IF asked THEN A ELSE UNCHANGED vars

Turn(at, A, next) ==
  /\ turn = at
  /\ A
  /\ turn' = next
  /\ UNCHANGED <<taken, round>>

Answer ==
  /\ turn = "answer"
  /\ IF AtRest(State) THEN turn' = "rest" /\ UNCHANGED round
     ELSE IF round = Rounds THEN turn' = "unsettled" /\ UNCHANGED round
     ELSE turn' = "resume" /\ round' = round + 1
  /\ UNCHANGED <<vars, taken>>

SettleStep ==
  \/ Turn("resume", ResumePaused, "validate")
  \/ Turn("validate", FinishValidation, "frame")
  \/ Turn("frame", Frame(TRUE), "readbacks")
  \/ Turn("readbacks", IfAsked(device.running # None, Readbacks(TRUE)), "handoff")
  \/ Turn("handoff", IfAsked(device.handoff # None, AdmitHandoff), "settle")
  \/ Turn("settle",
          IfAsked(device.event # None /\ ~device.stranded, Settle("Taken")),
          "closing")
  \/ Turn("closing", Frame(TRUE), "answer")
  \/ Answer

-----------------------------------------------------------------------------
(* Apart. *)

Disturb ==
  /\ turn = "apart" /\ taken < Disturbances
  /\ Next
  /\ taken' = taken + 1
  /\ UNCHANGED <<round, turn>>

Apart(A) == turn = "apart" /\ A /\ UNCHANGED <<taken, round, turn>>

Resume == (host.fault \/ Failed(device)) /\ Run(TRUE)

Suffix ==
  \/ Apart(FinishValidation) \/ Apart(Resume) \/ Apart(Frame(TRUE))
  \/ Apart(Readbacks(TRUE)) \/ Apart(AdmitHandoff) \/ Apart(Settle("Taken"))

-----------------------------------------------------------------------------
SettleNext == PrefixStep \/ Call \/ SettleStep \/ Disturb \/ Suffix

\* A call of settle returns, and settle takes each step in every round.
Fairness ==
  /\ WF_settleVars(SettleStep)
  /\ WF_settleVars(Apart(FinishValidation))
  /\ WF_settleVars(Apart(Resume))
  /\ WF_settleVars(Apart(Frame(TRUE)))
  /\ WF_settleVars(Apart(Readbacks(TRUE)))
  /\ WF_settleVars(Apart(AdmitHandoff))
  /\ WF_settleVars(Apart(Settle("Taken")))

SettleSpec == SettleInit /\ [][SettleNext]_settleVars /\ Fairness

-----------------------------------------------------------------------------
\* Whatever the prefix left, settle returns, and answers that nothing waits and
\* the device runs the document as it stands or an error names it
\* (the_fair_suffix_brings_any_state_to_rest).
SettlesWithinItsRounds == (turn = "resume") ~> (turn = "rest")

\* Whatever was done to it, and in whatever order it is answered, the machine
\* comes to rest and stays there: no edit, Reset, pulse, press or patch is left
\* waiting, and the device runs the document as it stands or an error names it.
ComesToRest == <>[](turn = "apart" => AtRest(State))
=============================================================================
