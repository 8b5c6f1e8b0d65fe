----------------------------- MODULE JobPromise -----------------------------
(***************************************************************************)
(* What the haproxy job promises to monit and to the BOSH agent, whatever  *)
(* its scripts do inside: one incarnation after the other, each of which   *)
(* goes from starting to serving, and is then drained, or crashes, or is   *)
(* stopped.  An incarnation ends by itself only when it has not started or *)
(* has crashed; a drained one waits to be stopped.  A reload weakens the   *)
(* promise: it may bring a draining HAProxy back, it lets a drained        *)
(* incarnation end by itself, and if its certificate update gives up it    *)
(* ends the incarnation at once.                                           *)
(***************************************************************************)
CONSTANTS
  MayReload,   \* bin/reload is used
  MayGiveUp    \* a certificate update may end the wrapper

VARIABLES
  phase,        \* of the current incarnation
  disturbance,  \* none, or: a reload is updating certificates, or has hit
  order         \* none, or stop: the incarnation has been asked to stop

vars == <<phase, disturbance, order>>

Init == phase = "stopped" /\ disturbance = "none" /\ order = "none"

Become(from, to) ==
  /\ phase = from /\ phase' = to
  /\ UNCHANGED <<disturbance, order>>

(* The reload is over only when HAProxy is.                                *)
Reload ==
  /\ MayReload /\ phase \in {"serving", "draining", "drained", "crashed"}
  /\ disturbance' \in {"updating", "hit"}
       \union (IF phase \in {"drained", "crashed"} THEN {"none"} ELSE {})
  /\ \/ phase' = phase
     \/ phase = "draining" /\ phase' = "serving"
  /\ UNCHANGED order

End == phase' = "stopped" /\ disturbance' = "none" /\ order' = "none"

EndByItself ==
  /\ \/ phase \in {"starting", "crashed"}
     \/ phase = "drained" /\ disturbance # "none"
     \/ phase \in {"serving", "draining"} /\ MayGiveUp /\ disturbance = "updating"
  /\ End

Ask ==
  /\ phase # "stopped" /\ order = "none"
  /\ order' = "stop"
  /\ UNCHANGED <<phase, disturbance>>

EndAsAsked == order = "stop" /\ End

Next ==
  \/ Become("stopped", "starting") \/ Become("starting", "serving")
  \/ Become("serving", "crashed") \/ Become("serving", "draining")
  \/ Become("draining", "drained")
  \/ Reload \/ EndByItself \/ Ask \/ EndAsAsked

Spec == Init /\ [][Next]_vars
=============================================================================
