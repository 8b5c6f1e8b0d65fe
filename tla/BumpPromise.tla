----------------------------- MODULE BumpPromise -----------------------------
(***************************************************************************)
(* What the daily bump job promises the people who review its pull         *)
(* requests: at most one proposal for each dependency, of a version newer  *)
(* than the released one, which only its reviewers take up or turn down.   *)
(***************************************************************************)
EXTENDS Naturals

CONSTANTS Deps, Version

VARIABLES
  version,   \* what the base branch packages of each dependency
  proposed   \* the versions its open pull request would change that to

vars == <<version, proposed>>

Init ==
  /\ version \in [Deps -> Version]
  /\ proposed = [d \in Deps |-> {}]

Open(d, v) ==
  /\ proposed[d] = {} /\ v > version[d]
  /\ proposed' = [proposed EXCEPT ![d] = {v}]
  /\ UNCHANGED version

(* Reviewers see the proposal they accept: nothing else is merged with it. *)
Accept(d, v) ==
  /\ v \in proposed[d] /\ v > version[d]
  /\ version' = [version EXCEPT ![d] = v]
  /\ proposed' = [proposed EXCEPT ![d] = {}]

Reject(d) ==
  /\ proposed[d] # {}
  /\ proposed' = [proposed EXCEPT ![d] = {}]
  /\ UNCHANGED version

Next == \E d \in Deps :
  \/ \E v \in Version : Open(d, v) \/ Accept(d, v)
  \/ Reject(d)

Spec == Init /\ [][Next]_vars
=============================================================================
