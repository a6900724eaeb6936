------------------------- MODULE PreparationPromise -------------------------
(***************************************************************************)
(* What TopologyRuntime of crates/funfern-app/src/topology_runtime.rs      *)
(* promises whoever asks it for a candidate, wherever it is prepared: the  *)
(* latest request stands alone, is settled once, ready or failed, and runs *)
(* only once it was ready.  A request that is replaced, or whose scene is, *)
(* is never heard of again.                                                *)
(***************************************************************************)
EXTENDS Naturals

CONSTANT None          \* The absent value of an Option.

VARIABLES
  requested,   \* The latest request's token.
  outcome,     \* What has become of it.
  next         \* The mesh revision the next request is named by.

promiseVars == <<requested, outcome, next>>

Token == [revision : Nat, mesh : Nat]

PromiseInit == requested = None /\ outcome = "none" /\ next = 1

\* A request named as none before it takes the place of the latest; its job may
\* fail to be created.
Ask ==
  /\ requested' \in Token
  /\ requested'.mesh >= next
  /\ next' > requested'.mesh
  /\ outcome' \in {"preparing", "failed"}

\* The preparation ends, and what it made may run by the end of the frame.
Settle ==
  /\ outcome = "preparing"
  /\ outcome' \in {"ready", "failed", "running"}
  /\ UNCHANGED <<requested, next>>

\* The device takes what is ready, or refuses it.
Carry ==
  /\ outcome = "ready"
  /\ outcome' \in {"running", "failed"}
  /\ UNCHANGED <<requested, next>>

\* The scene is replaced, and what was asked for it is forgotten.
Forget ==
  /\ requested' = None
  /\ outcome' = "none"
  /\ UNCHANGED next

PromiseNext == Ask \/ Settle \/ Carry \/ Forget

\* Every request that stays the latest is settled, and carried.
PromiseSpec ==
  /\ PromiseInit /\ [][PromiseNext]_promiseVars
  /\ WF_promiseVars(Settle) /\ WF_promiseVars(Carry)
=============================================================================
