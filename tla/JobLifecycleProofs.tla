------------------------- MODULE JobLifecycleProofs -------------------------
(***************************************************************************)
(* Proofs about JobLifecycle, for every set of drain scripts, every        *)
(* setting of the job's properties and every timeout.                      *)
(***************************************************************************)
EXTENDS JobLifecycle, TLAPS

(* The inductive invariant.                                                *)
IInv == TypeOK /\ Coherent /\ LockCoversDrain

USE DEF certVars, wrapperVars, haproxyVars, scriptVars

(* What the end of an incarnation leaves behind satisfies the invariant.   *)
LEMMA ExitInv ==
  ASSUME IInv, Exit, lock' \in BOOLEAN
  PROVE  IInv'
<1>1. /\ ~handler' /\ ~doomed' /\ ~reloading'
      /\ {handler', doomed', health', reloading'} \subseteq BOOLEAN
  BY DEF Exit
<1>2. TypeOK'
  BY <1>1 DEF IInv, TypeOK, Exit, WrapperPc, DrainPc
<1>3. Coherent' /\ LockCoversDrain'
  BY <1>1 DEF IInv, Coherent, LockCoversDrain, Starting, Exit
<1>4. QED
  BY <1>2, <1>3 DEF IInv

LEMMA InitInv == Init => IInv
<1> SUFFICES ASSUME Init PROVE IInv
  OBVIOUS
<1>1. /\ ~handler /\ ~doomed /\ ~reloading
      /\ {monitored, handler, doomed, health, lock, ext, reloading} \subseteq BOOLEAN
  BY DEF Init
<1>2. TypeOK
  BY <1>1 DEF Init, TypeOK, WrapperPc, DrainPc
<1>3. Coherent /\ LockCoversDrain
  BY <1>1 DEF Init, Coherent, LockCoversDrain, Starting
<1>4. QED
  BY <1>2, <1>3 DEF IInv

(* The steps of the wrapper keep the invariant.                            *)
LEMMA WrapperInv ==
  ASSUME IInv, MonitStart \/ WrapperStep \/ Start \/ StartFails \/ TermExit
  PROVE  IInv'
<1> USE ExtAssumption, FlagsAssumption
<1> USE DEF IInv, TypeOK, Coherent, LockCoversDrain, Starting, WrapperPc, DrainPc, Alive
<1>0. lock \in BOOLEAN
  OBVIOUS
<1>1. CASE MonitStart
  BY <1>1 DEF MonitStart
<1>2. CASE CertsFound
  BY <1>2 DEF CertsFound, CertsDone
<1>3. CASE CertsMissing
  BY <1>3 DEF CertsMissing
<1>4. CASE CertsRetry
  BY <1>4 DEF CertsRetry
<1>5. CASE CertsGiveUp
  <2>1. CASE Exit /\ lock' = FALSE
    BY <2>1, ExitInv
  <2>2. CASE CertsDone /\ UNCHANGED <<box, monitored, doomed, lock, ext, certVars, haproxyVars, scriptVars>>
    BY <1>5, <2>2 DEF CertsGiveUp, CertsDone
  <2>3. QED
    BY <1>5, <2>1, <2>2 DEF CertsGiveUp
<1>6. CASE Cleanup
  BY <1>6 DEF Cleanup
<1>7. CASE PipeEnds
  <2>1. CASE doomed
    <3>1. handler' /\ handler' \in BOOLEAN
      BY <1>7, <2>1 DEF PipeEnds, EnterHandler
    <3>2. QED
      BY <1>7, <2>1, <3>1 DEF PipeEnds, EnterHandler
  <2>2. CASE ~doomed
    BY <1>7, <2>2 DEF PipeEnds
  <2>3. QED
    BY <2>1, <2>2
<1>8. CASE LoopEnds \/ StartFails \/ TermExit
  BY <1>0, <1>8, ExitInv DEF LoopEnds, StartFails, TermExit
<1>9. CASE Relay
  <2>1. CASE Exit /\ UNCHANGED lock
    BY <1>0, <2>1, ExitInv
  <2>2. CASE ~(Exit /\ UNCHANGED lock)
    BY <1>9, <2>2 DEF Relay, HaproxyReload
  <2>3. QED
    BY <2>1, <2>2
<1>10. CASE AwaitEnds
  <2>1. CASE Exit /\ UNCHANGED lock
    BY <1>0, <2>1, ExitInv
  <2>2. CASE ~(Exit /\ UNCHANGED lock)
    <3>1. ~handler' /\ handler' \in BOOLEAN
      BY <1>10, <2>2 DEF AwaitEnds
    <3>2. QED
      BY <1>10, <2>2, <3>1 DEF AwaitEnds
  <2>3. QED
    BY <2>1, <2>2
<1>11. CASE Start
  BY <1>11 DEF Start
<1>12. QED
  BY <1>1, <1>2, <1>3, <1>4, <1>5, <1>6, <1>7, <1>8, <1>9, <1>10, <1>11 DEF WrapperStep

(* The steps of the drain scripts keep it: in particular, the one that     *)
(* signals the master has touched the lock in this incarnation.            *)
LEMMA DrainInv ==
  ASSUME IInv, NEW d \in Drains, DrainBegin(d) \/ DrainStep(d) \/ DrainAgain(d)
  PROVE  IInv'
<1> USE DEF IInv, TypeOK, Coherent, LockCoversDrain, Starting, WrapperPc, DrainPc, Alive, Goto, MasterOf
<1>1. CASE DrainBegin(d)
  BY <1>1 DEF DrainBegin
<1>2. CASE DrainLookup(d)
  BY <1>2 DEF DrainLookup
<1>3. CASE DrainDisable(d)
  <2>1. health' \in BOOLEAN
    BY <1>3 DEF DrainDisable
  <2>2. QED
    BY <1>3, <2>1 DEF DrainDisable
<1>4. CASE DrainTouch(d)
  BY <1>4 DEF DrainTouch
<1>5. CASE DrainKill(d)
  <2>1. health' \in BOOLEAN
    BY <1>5 DEF DrainKill
  <2>2. QED
    BY <1>5, <2>1 DEF DrainKill
<1>6. CASE DrainWait(d) \/ DrainTimesOut(d)
  BY <1>6 DEF DrainWait, DrainTimesOut
<1>7. CASE DrainAgain(d)
  BY <1>7 DEF DrainAgain
<1>8. QED
  BY <1>1, <1>2, <1>3, <1>4, <1>5, <1>6, <1>7 DEF DrainStep

(* So do bin/reload, the BOSH agent, bpm, HAProxy and the certificate      *)
(* service.                                                                *)
LEMMA OthersInv ==
  ASSUME IInv,
         ReloadLookup \/ ReloadSignal \/ AgentStop \/ AgentStart \/ BpmTimeout
           \/ BpmKill \/ HaproxyStops \/ HaproxyCrashes \/ ExtChanges
  PROVE  IInv'
<1> USE DEF IInv, TypeOK, Coherent, LockCoversDrain, Starting, WrapperPc, DrainPc, Alive
<1>1. CASE ReloadLookup
  BY <1>1 DEF ReloadLookup
<1>2. CASE ReloadSignal
  <2>1. ~reloading' /\ {reloading', health', doomed'} \subseteq BOOLEAN
    BY <1>2, FlagsAssumption DEF ReloadSignal, SignalScript, SignalPipeline, HaproxyReload
  <2>2. CASE SignalScript
    <3>1. handler' /\ handler' \in BOOLEAN
      BY <2>2 DEF SignalScript, EnterHandler
    <3>2. QED
      BY <1>2, <2>1, <2>2, <3>1 DEF ReloadSignal, SignalScript, EnterHandler
  <2>3. CASE SignalPipeline
    BY <1>2, <2>1, <2>3 DEF ReloadSignal, SignalPipeline, HaproxyReload
  <2>4. QED
    BY <1>2, <2>2, <2>3 DEF ReloadSignal
<1>3. CASE AgentStop
  BY <1>3 DEF AgentStop, AgentDone
<1>4. CASE AgentStart
  BY <1>4 DEF AgentStart, AgentDone, Goto
<1>5. CASE BpmTimeout
  BY <1>5 DEF BpmTimeout
<1>6. CASE BpmKill
  BY <1>6, ExitInv DEF BpmKill
<1>7. CASE HaproxyStops \/ HaproxyCrashes
  <2>1. health' \in BOOLEAN
    BY <1>7 DEF HaproxyStops, HaproxyCrashes
  <2>2. QED
    BY <1>7, <2>1 DEF HaproxyStops, HaproxyCrashes
<1>8. CASE ExtChanges
  BY <1>8 DEF ExtChanges
<1>9. QED
  BY <1>1, <1>2, <1>3, <1>4, <1>5, <1>6, <1>7, <1>8

LEMMA NextInv == IInv /\ [Next]_vars => IInv'
<1> SUFFICES ASSUME IInv, [Next]_vars PROVE IInv'
  OBVIOUS
<1>1. CASE UNCHANGED vars
  BY <1>1 DEF vars, IInv, TypeOK, Coherent, LockCoversDrain, Starting
<1>2. CASE Next
  BY <1>2, WrapperInv, DrainInv, OthersInv DEF Next
<1>3. QED
  BY <1>1, <1>2

THEOREM Invariance == Spec => []IInv
<1>1. QED
  BY InitInv, NextInv, PTL DEF Spec

(* Every variable keeps its type.                                          *)
THEOREM TypeCorrect == Spec => []TypeOK
<1>1. IInv => TypeOK
  BY DEF IInv
<1>2. QED
  BY <1>1, Invariance, PTL

(* A drained incarnation keeps its lock.                                   *)
THEOREM LockTheorem == Spec => []LockCoversDrain
<1>1. IInv => LockCoversDrain
  BY DEF IInv
<1>2. QED
  BY <1>1, Invariance, PTL

(* What the traps, pids and locks of an incarnation have to do with each   *)
(* other, whatever reloads and drains are under way.                       *)
THEOREM CoherentTheorem == Spec => []Coherent
<1>1. IInv => Coherent
  BY DEF IInv
<1>2. QED
  BY <1>1, Invariance, PTL

-----------------------------------------------------------------------------
(* The job keeps its promise: every step is a step of JobPromise, or       *)
(* leaves what that module sees unchanged.                                 *)

USE DEF Phase, Disturbance, Alive

LEMMA PromiseInit == Init => Promise!Init
BY DEF Init, Promise!Init

(* The wrapper may exit without having been asked to only as the promise   *)
(* allows.                                                                 *)
LEMMA PromiseExit ==
  ASSUME IInv, Exit, box # "down",
         \/ box \in {"stopping", "overdue"}
         \/ ~Alive /\ (master = "drained" => handler \/ doomed)
         \/ ExtCrtList /\ Policy = "fail" /\ wpc = "nap"
  PROVE  Promise!Next
<1> USE DEF IInv, TypeOK, Coherent, LockCoversDrain, Starting
<1>1. Promise!End
  BY DEF Exit, Promise!End
<1>2. CASE box \in {"stopping", "overdue"}
  BY <1>1, <1>2 DEF Promise!EndAsAsked, Promise!Next
<1>3. CASE box = "up"
  <2>1. Promise!EndByItself
    BY <1>1, <1>3 DEF Promise!EndByItself
  <2>2. QED
    BY <2>1 DEF Promise!Next
<1>4. QED
  BY <1>2, <1>3

(* Steps that change neither the phase nor the disturbance, nor the order. *)
LEMMA PromiseStutter ==
  ASSUME UNCHANGED <<box, master, doomed, handler>>,
         handler => (wpc \in {"certs", "nap"} <=> wpc' \in {"certs", "nap"})
  PROVE  UNCHANGED Promise!vars
BY DEF Promise!vars

(* Steps of a reload.                                                      *)
LEMMA PromiseReload ==
  ASSUME IInv, Reloads, UNCHANGED box, master # "none",
         handler' \/ doomed' \/ master \in {"drained", "crashed"},
         master' = master \/ (master = "draining" /\ master' = "up"),
         {handler', doomed'} \subseteq BOOLEAN
  PROVE  Promise!Next
<1> USE DEF IInv, TypeOK, Coherent, LockCoversDrain, Starting
<1>1. Promise!Reload
  BY DEF Promise!Reload
<1>2. QED
  BY <1>1 DEF Promise!Next

LEMMA PromiseWrapper ==
  ASSUME IInv, MonitStart \/ WrapperStep \/ Start \/ StartFails \/ TermExit
  PROVE  [Promise!Next]_(Promise!vars)
<1> USE DEF IInv, TypeOK, Coherent, LockCoversDrain, Starting
<1>1. CASE MonitStart
  <2>1. Promise!Become("stopped", "starting")
    BY <1>1 DEF MonitStart, Promise!Become
  <2>2. QED
    BY <2>1 DEF Promise!Next
<1>2. CASE CertsFound \/ CertsMissing \/ CertsRetry
  <2>1. CASE handler /\ wpc' = "relay"
    BY <1>2, <2>1, PromiseReload DEF CertsFound, CertsMissing, CertsRetry
  <2>2. CASE ~(handler /\ wpc' = "relay")
    BY <1>2, <2>2, PromiseStutter DEF CertsFound, CertsMissing, CertsRetry, CertsDone
  <2>3. QED
    BY <2>1, <2>2
<1>3. CASE CertsGiveUp
  <2>1. CASE Exit
    <3>1. Policy = "fail" /\ wpc = "nap" /\ box # "down"
      BY <1>3, <2>1, ExtAssumption DEF CertsGiveUp, CertsDone, Exit
    <3>2. QED
      BY <2>1, <3>1, PromiseExit
  <2>2. CASE CertsDone /\ UNCHANGED <<box, monitored, doomed, lock, ext, certVars, haproxyVars, scriptVars>>
    <3>1. CASE handler
      BY <2>2, <3>1, PromiseReload DEF CertsDone
    <3>2. CASE ~handler
      BY <2>2, <3>2, PromiseStutter DEF CertsDone
    <3>3. QED
      BY <3>1, <3>2
  <2>3. QED
    BY <1>3, <2>1, <2>2 DEF CertsGiveUp
<1>4. CASE Cleanup
  BY <1>4, PromiseStutter DEF Cleanup
<1>5. CASE Start
  <2>1. Promise!Become("starting", "serving")
    BY <1>5 DEF Start, Promise!Become
  <2>2. QED
    BY <2>1 DEF Promise!Next
<1>6. CASE StartFails \/ LoopEnds \/ TermExit
  BY <1>6, PromiseExit DEF StartFails, LoopEnds, TermExit
<1>7. CASE PipeEnds
  <2>1. CASE doomed
    BY <1>7, <2>1, PromiseReload DEF PipeEnds, EnterHandler
  <2>2. CASE ~doomed
    BY <1>7, <2>2, PromiseStutter DEF PipeEnds
  <2>3. QED
    BY <2>1, <2>2
<1>8. CASE Relay
  <2>1. CASE Exit
    <3>1. ~Alive /\ handler /\ box # "down"
      BY <1>8, <2>1 DEF Relay, Exit
    <3>2. QED
      BY <2>1, <3>1, PromiseExit
  <2>2. CASE ~Exit
    BY <1>8, <2>2, PromiseReload DEF Relay, HaproxyReload
  <2>3. QED
    BY <2>1, <2>2
<1>9. CASE AwaitEnds
  <2>1. CASE Exit
    BY <1>9, <2>1, PromiseExit DEF AwaitEnds
  <2>2. CASE ~Exit
    BY <1>9, <2>2, PromiseReload DEF AwaitEnds
  <2>3. QED
    BY <2>1, <2>2
<1>10. QED
  BY <1>1, <1>2, <1>3, <1>4, <1>5, <1>6, <1>7, <1>8, <1>9 DEF WrapperStep

LEMMA PromiseDrain ==
  ASSUME IInv, NEW d \in Drains, DrainBegin(d) \/ DrainStep(d) \/ DrainAgain(d)
  PROVE  [Promise!Next]_(Promise!vars)
<1> USE DEF IInv, TypeOK, Coherent, LockCoversDrain, Starting, Goto, MasterOf
<1>1. CASE DrainKill(d) /\ master = "up" /\ d \in held
  <2>1. Promise!Become("serving", "draining")
    BY <1>1 DEF DrainKill, Promise!Become
  <2>2. QED
    BY <2>1 DEF Promise!Next
<1>2. CASE DrainKill(d) /\ ~(master = "up" /\ d \in held)
  BY <1>2, PromiseStutter DEF DrainKill
<1>3. CASE DrainBegin(d) \/ DrainLookup(d) \/ DrainDisable(d) \/ DrainTouch(d)
  BY <1>3, PromiseStutter DEF DrainBegin, DrainLookup, DrainDisable, DrainTouch
<1>4. CASE DrainWait(d) \/ DrainTimesOut(d) \/ DrainAgain(d)
  BY <1>4, PromiseStutter DEF DrainWait, DrainTimesOut, DrainAgain
<1>5. QED
  BY <1>1, <1>2, <1>3, <1>4 DEF DrainStep

LEMMA PromiseOthers ==
  ASSUME IInv,
         ReloadLookup \/ ReloadSignal \/ AgentStop \/ AgentStart \/ BpmTimeout
           \/ BpmKill \/ HaproxyStops \/ HaproxyCrashes \/ ExtChanges
  PROVE  [Promise!Next]_(Promise!vars)
<1> USE DEF IInv, TypeOK, Coherent, LockCoversDrain, Starting
<1>1. CASE ReloadLookup \/ AgentStart \/ ExtChanges
  BY <1>1, PromiseStutter DEF ReloadLookup, AgentStart, ExtChanges
<1>2. CASE ReloadSignal
  <2>1. CASE SignalScript
    BY <1>2, <2>1, PromiseReload DEF ReloadSignal, SignalScript, EnterHandler
  <2>2. CASE SignalPipeline
    BY <1>2, <2>2, PromiseReload DEF ReloadSignal, SignalPipeline, HaproxyReload
  <2>3. QED
    BY <1>2, <2>1, <2>2 DEF ReloadSignal
<1>3. CASE AgentStop
  <2>1. Promise!Ask
    BY <1>3 DEF AgentStop, Promise!Ask
  <2>2. QED
    BY <2>1 DEF Promise!Next
<1>4. CASE BpmTimeout
  BY <1>4 DEF BpmTimeout, Promise!vars
<1>5. CASE BpmKill
  BY <1>5, PromiseExit DEF BpmKill
<1>6. CASE HaproxyStops
  <2>1. Promise!Become("draining", "drained")
    BY <1>6 DEF HaproxyStops, Promise!Become
  <2>2. QED
    BY <2>1 DEF Promise!Next
<1>7. CASE HaproxyCrashes
  <2>1. Promise!Become("serving", "crashed")
    BY <1>7 DEF HaproxyCrashes, Promise!Become
  <2>2. QED
    BY <2>1 DEF Promise!Next
<1>8. QED
  BY <1>1, <1>2, <1>3, <1>4, <1>5, <1>6, <1>7

LEMMA PromiseStep ==
  ASSUME IInv, [Next]_vars
  PROVE  [Promise!Next]_(Promise!vars)
<1>1. CASE UNCHANGED vars
  BY <1>1 DEF vars, Promise!vars
<1>2. CASE Next
  BY <1>2, PromiseWrapper, PromiseDrain, PromiseOthers DEF Next
<1>3. QED
  BY <1>1, <1>2

(* The job implements JobPromise.                                          *)
THEOREM Refinement == Spec => PromiseKept
<1>1. IInv /\ [Next]_vars => [Promise!Next]_(Promise!vars)
  BY PromiseStep
<1>2. QED
  BY <1>1, PromiseInit, Invariance, PTL DEF Spec, PromiseKept, Promise!Spec

(* Where nobody reloads, the wrapper of a drained HAProxy stays until it   *)
(* is asked to stop: monit has no reason to start the job again.           *)
THEOREM NoRestartAfterDrain ==
  ASSUME ~Reloads
  PROVE  Spec => DrainedStaysDown
<1>1. IInv /\ [Next]_vars => [box = "up" /\ box' = "down" => master # "drained"]_vars
  <2> SUFFICES ASSUME IInv, [Next]_vars, box = "up", box' = "down", master = "drained"
               PROVE  FALSE
    OBVIOUS
  <2>1. [Promise!Next]_(Promise!vars)
    BY PromiseStep
  <2>2. ~handler /\ ~doomed
    BY DEF IInv, Coherent
  <2>3. QED
    BY <2>1, <2>2 DEF Promise!Next, Promise!vars, Promise!Become, Promise!Reload,
      Promise!EndByItself, Promise!Ask, Promise!EndAsAsked, Promise!End
<1>2. QED
  BY <1>1, Invariance, PTL DEF Spec, DrainedStaysDown

(* Where the wrapper cannot give up on external certificates, no reload,   *)
(* however many traps it nests, ends the container under a live HAProxy.   *)
THEOREM ReloadDropsNothing ==
  ASSUME ~(ExtCrtList /\ Policy = "fail")
  PROVE  Spec => ReloadKeepsServing
<1>1. IInv /\ [Next]_vars => [box = "up" /\ Alive => box' # "down"]_vars
  <2> SUFFICES ASSUME IInv, [Next]_vars, box = "up", Alive, box' = "down"
               PROVE  FALSE
    OBVIOUS
  <2>1. [Promise!Next]_(Promise!vars)
    BY PromiseStep
  <2>2. master \in {"up", "draining"}
    OBVIOUS
  <2>3. QED
    BY <2>1, <2>2 DEF Promise!Next, Promise!vars, Promise!Become, Promise!Reload,
      Promise!EndByItself, Promise!Ask, Promise!EndAsAsked, Promise!End
<1>2. QED
  BY <1>1, Invariance, PTL DEF Spec, ReloadKeepsServing

-----------------------------------------------------------------------------
(* Why a container goes down unasked, so that monit starts the job again:  *)
(* HAProxy has not come up, or has crashed; it has been drained and then   *)
(* reloaded, or a reload's certificate update has given up.  Whatever else *)
(* drains, reloads and waits, the wrapper stays.                           *)
Reason ==
  \/ master \in {"none", "crashed"}
  \/ master = "drained" /\ (handler \/ doomed)
  \/ Alive /\ handler /\ wpc \in {"certs", "nap"} /\ ExtCrtList /\ Policy = "fail"
DownForAReason == [][box = "up" /\ box' = "down" => Reason]_vars

(* The wrapper exits only for one of these reasons, when it is not asked.  *)
THEOREM ReasonTheorem == Spec => DownForAReason
<1>1. IInv /\ [Next]_vars => [box = "up" /\ box' = "down" => Reason]_vars
  <2> SUFFICES ASSUME IInv, [Next]_vars, box = "up", box' = "down"
               PROVE  Reason
    OBVIOUS
  <2>1. [Promise!Next]_(Promise!vars)
    BY PromiseStep
  <2>2. master \in {"none", "up", "draining", "drained", "crashed"}
    BY DEF IInv, TypeOK
  <2>3. Promise!EndByItself
    BY <2>1, <2>2 DEF Promise!Next, Promise!vars, Promise!Become, Promise!Reload,
      Promise!Ask, Promise!EndAsAsked
  <2>4. QED
    BY <2>2, <2>3 DEF Promise!EndByItself, Reason
<1>2. QED
  BY <1>1, Invariance, PTL DEF Spec, DownForAReason

-----------------------------------------------------------------------------
(* Drains that only the BOSH agent runs find one incarnation and keep it,  *)
(* reloads or not.                                                         *)

AInv == IInv /\ AgentHolds

LEMMA AgentExit ==
  ASSUME AInv, Exit, lock' \in BOOLEAN
  PROVE  AInv'
<1>1. IInv'
  BY ExitInv DEF AInv
<1>2. AgentHolds'
  BY DEF AInv, AgentHolds, Exit
<1>3. QED
  BY <1>1, <1>2 DEF AInv

LEMMA AgentWrapper ==
  ASSUME AInv, MonitStart \/ WrapperStep \/ Start \/ StartFails \/ TermExit,
         Drains \subseteq {Agent}
  PROVE  AInv'
<1>1. IInv'
  BY WrapperInv DEF AInv
<1>2. CASE Exit
  <2>1. lock' \in BOOLEAN
    BY <1>1 DEF IInv, TypeOK
  <2>2. QED
    BY <1>2, <2>1, AgentExit
<1>3. CASE ~Exit
  <2> USE DEF AInv, IInv, TypeOK, Coherent, Starting, AgentHolds
  <2>1. CASE MonitStart
    BY <1>1, <2>1 DEF MonitStart
  <2>2. CASE CertsFound \/ CertsMissing \/ CertsRetry \/ CertsGiveUp
    BY <1>1, <1>3, <2>2 DEF CertsFound, CertsMissing, CertsRetry, CertsGiveUp, CertsDone
  <2>3. CASE Cleanup
    <3>1. ~lock'
      BY <2>3 DEF Cleanup
    <3>2. QED
      BY <1>1, <2>3, <3>1 DEF Cleanup
  <2>4. CASE Start
    BY <1>1, <2>4 DEF Start
  <2>5. CASE PipeEnds \/ LoopEnds \/ StartFails \/ TermExit
    BY <1>1, <1>3, <2>5 DEF PipeEnds, LoopEnds, StartFails, TermExit, EnterHandler
  <2>6. CASE Relay \/ AwaitEnds
    BY <1>1, <1>3, <2>6 DEF Relay, AwaitEnds
  <2>7. QED
    BY <2>1, <2>2, <2>3, <2>4, <2>5, <2>6 DEF WrapperStep
<1>4. QED
  BY <1>2, <1>3

LEMMA AgentDrain ==
  ASSUME AInv, NEW d \in Drains, DrainBegin(d) \/ DrainStep(d) \/ DrainAgain(d),
         Drains \subseteq {Agent}
  PROVE  AInv'
<1>1. IInv'
  BY DrainInv DEF AInv
<1>2. d = Agent
  OBVIOUS
<1> USE DEF AInv, IInv, TypeOK, Coherent, LockCoversDrain, Starting, AgentHolds,
    Goto, MasterOf, DrainPc
<1>3. CASE DrainBegin(d)
  <2>1. ~monitored'
    BY <1>2, <1>3 DEF DrainBegin
  <2>2. QED
    BY <1>1, <1>3, <2>1 DEF DrainBegin
<1>4. CASE DrainLookup(d)
  BY <1>1, <1>4 DEF DrainLookup
<1>5. CASE DrainDisable(d)
  BY <1>1, <1>5 DEF DrainDisable
<1>6. CASE DrainTouch(d)
  BY <1>1, <1>6 DEF DrainTouch
<1>7. CASE DrainKill(d)
  BY <1>1, <1>7 DEF DrainKill
<1>8. CASE DrainWait(d) \/ DrainTimesOut(d)
  BY <1>1, <1>8 DEF DrainWait, DrainTimesOut
<1>9. CASE DrainAgain(d)
  BY <1>1, <1>9 DEF DrainAgain
<1>10. QED
  BY <1>3, <1>4, <1>5, <1>6, <1>7, <1>8, <1>9 DEF DrainStep

LEMMA AgentOthers ==
  ASSUME AInv,
         ReloadLookup \/ ReloadSignal \/ AgentStop \/ AgentStart \/ BpmTimeout
           \/ BpmKill \/ HaproxyStops \/ HaproxyCrashes \/ ExtChanges,
         Drains \subseteq {Agent}
  PROVE  AInv'
<1>1. IInv'
  BY OthersInv DEF AInv
<1> USE DEF AInv, IInv, TypeOK, Coherent, LockCoversDrain, Starting, AgentHolds
<1>2. CASE ReloadLookup \/ ReloadSignal
  <2>1. wpc' # "start" /\ UNCHANGED <<box, monitored, dpc, held>>
    BY <1>2 DEF ReloadLookup, ReloadSignal, SignalScript, SignalPipeline, EnterHandler
  <2>2. QED
    BY <1>1, <2>1
<1>3. CASE AgentStop \/ BpmTimeout \/ ExtChanges
  BY <1>1, <1>3 DEF AgentStop, BpmTimeout, ExtChanges
<1>4. CASE AgentStart
  BY <1>1, <1>4 DEF AgentStart, AgentDone, Goto
<1>5. CASE BpmKill
  BY <1>5, AgentExit DEF BpmKill
<1>6. CASE HaproxyStops \/ HaproxyCrashes
  BY <1>1, <1>6 DEF HaproxyStops, HaproxyCrashes
<1>7. QED
  BY <1>2, <1>3, <1>4, <1>5, <1>6

LEMMA AgentStep ==
  ASSUME Drains \subseteq {Agent}, AInv, [Next]_vars
  PROVE  AInv'
<1>1. CASE UNCHANGED vars
  BY <1>1, NextInv DEF vars, AInv, AgentHolds
<1>2. CASE Next
  BY <1>2, AgentWrapper, AgentDrain, AgentOthers DEF Next
<1>3. QED
  BY <1>1, <1>2

LEMMA AgentInit == Init => AInv
BY InitInv DEF AInv, Init, AgentHolds

(* Where only the BOSH agent drains, the incarnation a drain has found is  *)
(* not replaced while the drain runs, whatever reloads do to it: the agent *)
(* has unmonitored the job.                                                *)
THEOREM AgentHoldsTheorem ==
  ASSUME Drains \subseteq {Agent}
  PROVE  Spec => []AgentHolds
<1>1. AInv => AgentHolds
  BY DEF AInv
<1>2. QED
  BY <1>1, AgentInit, AgentStep, PTL DEF Spec

(* Where nobody reloads either, they leave no trace on an incarnation that *)
(* serves: no step makes one appear.                                       *)
LEMMA WholeStep ==
  ASSUME Drains \subseteq {Agent}, ~Reloads, AInv, AInv', ServesWhole, Next
  PROVE  ServesWhole'
<1> USE DEF AInv, IInv, TypeOK, Coherent, LockCoversDrain, Starting, AgentHolds, ServesWhole
<1>1. CASE Exit
  BY <1>1 DEF Exit
<1>2. CASE Start
  BY <1>2 DEF Start
<1>3. CASE ~Exit /\ (MonitStart \/ WrapperStep \/ StartFails \/ TermExit)
  BY <1>3 DEF MonitStart, WrapperStep, StartFails, TermExit, CertsFound, CertsMissing,
    CertsRetry, CertsGiveUp, CertsDone, Cleanup, PipeEnds, EnterHandler, LoopEnds, Relay, AwaitEnds
<1>4. ASSUME NEW d \in Drains, DrainBegin(d) \/ DrainStep(d) \/ DrainAgain(d)
      PROVE  ServesWhole'
  <2> USE DEF Goto, MasterOf, DrainPc
  <2>1. CASE DrainBegin(d) \/ DrainLookup(d) \/ DrainTouch(d)
    BY <2>1 DEF DrainBegin, DrainLookup, DrainTouch
  <2>2. CASE DrainDisable(d)
    BY <2>2 DEF DrainDisable
  <2>3. CASE DrainKill(d) \/ DrainWait(d) \/ DrainTimesOut(d) \/ DrainAgain(d)
    BY <2>3 DEF DrainKill, DrainWait, DrainTimesOut, DrainAgain
  <2>4. QED
    BY <1>4, <2>1, <2>2, <2>3 DEF DrainStep
<1>5. CASE ReloadLookup \/ ReloadSignal
  BY <1>5 DEF ReloadLookup, ReloadSignal
<1>6. CASE AgentStop \/ BpmTimeout \/ ExtChanges
  BY <1>6 DEF AgentStop, BpmTimeout, ExtChanges
<1>7. CASE AgentStart
  BY <1>7 DEF AgentStart, AgentDone, Goto
<1>8. CASE HaproxyStops \/ HaproxyCrashes
  BY <1>8 DEF HaproxyStops, HaproxyCrashes
<1>9. QED
  BY <1>1, <1>2, <1>3, <1>4, <1>5, <1>6, <1>7, <1>8 DEF Next, BpmKill

(* Where only the BOSH agent drains and nobody reloads, an incarnation     *)
(* that serves has neither a lock nor a silent health check, except on its *)
(* way to be drained: crashes included, no drain leaves a trace.           *)
THEOREM AgentServesWhole ==
  ASSUME Drains \subseteq {Agent}, ~Reloads
  PROVE  Spec => []ServesWhole
<1>1. Init => ServesWhole
  BY DEF Init, ServesWhole
<1>2. AInv /\ ServesWhole /\ [Next]_vars => AInv' /\ ServesWhole'
  <2> SUFFICES ASSUME AInv, ServesWhole, [Next]_vars PROVE AInv' /\ ServesWhole'
    OBVIOUS
  <2>1. AInv'
    BY AgentStep
  <2>2. CASE UNCHANGED vars
    BY <2>1, <2>2 DEF vars, ServesWhole
  <2>3. CASE Next
    BY <2>1, <2>3, WholeStep
  <2>4. QED
    BY <2>1, <2>2, <2>3
<1>3. QED
  BY <1>1, <1>2, AgentInit, PTL DEF Spec

-----------------------------------------------------------------------------
(* Once a drain has disabled the health check of the incarnation it holds, *)
(* only a reload could open it again.                                      *)
HeldOff ==
  /\ health => HealthCheck
  /\ \A d \in held : dpc[d] \in {"grace", "kill"} => ~health

HInv == IInv /\ HeldOff

LEMMA HeldOffWrapper ==
  ASSUME HInv, MonitStart \/ WrapperStep \/ Start \/ StartFails \/ TermExit, ~Reloads
  PROVE  HeldOff'
<1> USE DEF HInv, IInv, TypeOK, Coherent, Starting, HeldOff
<1>1. CASE Exit
  BY <1>1 DEF Exit
<1>2. CASE Start
  <2>1. held' = {} /\ (health' => HealthCheck)
    BY <1>2 DEF Start, scriptVars
  <2>2. QED
    BY <2>1
<1>3. CASE ~Exit /\ ~Start
  <2>1. UNCHANGED <<health, dpc, held>>
    BY <1>3 DEF MonitStart, WrapperStep, StartFails, TermExit, CertsFound, CertsMissing,
      CertsRetry, CertsGiveUp, Cleanup, PipeEnds, LoopEnds, Relay, AwaitEnds,
      haproxyVars, scriptVars
  <2>2. QED
    BY <2>1
<1>4. QED
  BY <1>1, <1>2, <1>3

LEMMA HeldOffDrain ==
  ASSUME HInv, NEW d \in Drains, DrainBegin(d) \/ DrainStep(d) \/ DrainAgain(d)
  PROVE  HeldOff'
<1> USE DEF HInv, IInv, TypeOK, HeldOff, Goto, MasterOf, DrainPc, haproxyVars
<1>1. CASE DrainBegin(d)
  BY <1>1 DEF DrainBegin
<1>2. CASE DrainLookup(d)
  BY <1>2 DEF DrainLookup
<1>3. CASE DrainDisable(d)
  <2>1. (dpc' = [dpc EXCEPT ![d] = "failed"] /\ health' = health) \/ ~health'
    <3>1. \/ health' = (health /\ ~HealthCheck)
          \/ health' = health /\ dpc' = [dpc EXCEPT ![d] = "failed"]
      BY <1>3 DEF DrainDisable
    <3>2. health => HealthCheck
      OBVIOUS
    <3>3. QED
      BY <3>1, <3>2, Zenon
  <2>2. \A c \in Drains : c # d => dpc'[c] = dpc[c]
    BY <1>3 DEF DrainDisable
  <2>3. held' = held
    BY <1>3 DEF DrainDisable
  <2>4. QED
    BY <2>1, <2>2, <2>3
<1>4. CASE DrainTouch(d)
  BY <1>4 DEF DrainTouch
<1>5. CASE DrainKill(d)
  BY <1>5 DEF DrainKill
<1>6. CASE DrainWait(d) \/ DrainTimesOut(d)
  BY <1>6 DEF DrainWait, DrainTimesOut
<1>7. CASE DrainAgain(d)
  BY <1>7 DEF DrainAgain
<1>8. QED
  BY <1>1, <1>2, <1>3, <1>4, <1>5, <1>6, <1>7 DEF DrainStep

LEMMA HeldOffOthers ==
  ASSUME HInv,
         ReloadLookup \/ ReloadSignal \/ AgentStop \/ AgentStart \/ BpmTimeout
           \/ BpmKill \/ HaproxyStops \/ HaproxyCrashes \/ ExtChanges,
         ~Reloads
  PROVE  HeldOff'
<1> USE DEF HInv, IInv, TypeOK, Coherent, HeldOff
<1>1. CASE ReloadLookup \/ ReloadSignal
  BY <1>1 DEF ReloadLookup, ReloadSignal
<1>2. CASE AgentStop \/ BpmTimeout \/ ExtChanges
  BY <1>2 DEF AgentStop, BpmTimeout, ExtChanges, haproxyVars, scriptVars
<1>3. CASE AgentStart
  BY <1>3 DEF AgentStart, AgentDone, Goto, haproxyVars
<1>4. CASE BpmKill
  BY <1>4 DEF BpmKill, Exit
<1>5. CASE HaproxyStops \/ HaproxyCrashes
  BY <1>5 DEF HaproxyStops, HaproxyCrashes, scriptVars
<1>6. QED
  BY <1>1, <1>2, <1>3, <1>4, <1>5

(* Where nobody reloads, no drain, of however many at a time, closes the   *)
(* listeners while the health check is on (drain.erb:47-77).               *)
THEOREM HealthGoesFirst ==
  ASSUME ~Reloads
  PROVE  Spec => HealthFirst
<1>1. Init => HInv
  BY InitInv DEF HInv, HeldOff, Init
<1>2. HInv /\ [Next]_vars => HInv'
  <2> SUFFICES ASSUME HInv, [Next]_vars PROVE HInv'
    OBVIOUS
  <2>1. IInv'
    BY NextInv DEF HInv
  <2>2. CASE UNCHANGED vars
    BY <2>1, <2>2 DEF vars, HInv, HeldOff
  <2>3. CASE Next
    BY <2>1, <2>3, HeldOffWrapper, HeldOffDrain, HeldOffOthers DEF Next, HInv
  <2>4. QED
    BY <2>2, <2>3
<1>3. HInv /\ [Next]_vars => [master = "up" /\ master' = "draining" => ~health]_vars
  <2> SUFFICES ASSUME HInv, Next, master = "up", master' = "draining"
               PROVE  ~health
    BY DEF vars
  <2>1. PICK d \in Drains : DrainKill(d)
    BY DEF Next, MonitStart, WrapperStep, Start, StartFails, TermExit, CertsFound, CertsMissing,
      CertsRetry, CertsGiveUp, Cleanup, PipeEnds, LoopEnds, Relay, AwaitEnds, Exit,
      HaproxyReload, ReloadLookup, ReloadSignal, SignalScript, SignalPipeline, DrainBegin,
      DrainStep, DrainLookup, DrainDisable, DrainTouch, DrainWait, DrainTimesOut, DrainAgain,
      AgentStop, AgentStart, BpmTimeout, BpmKill, HaproxyStops, HaproxyCrashes, ExtChanges,
      haproxyVars
  <2>2. QED
    BY <2>1 DEF DrainKill, MasterOf, HInv, HeldOff, haproxyVars
<1>4. QED
  BY <1>1, <1>2, <1>3, PTL DEF Spec, HealthFirst
=============================================================================
