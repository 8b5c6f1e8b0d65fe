----------------------------- MODULE AcceptanceRun -----------------------------
(***************************************************************************)
(* One run of the acceptance tests: parallel ginkgo nodes, each with its   *)
(* own deployment, which it deploys anew for every spec and deletes at the *)
(* end; the bosh CLI it starts and waits for, up to a timeout; and the     *)
(* director's tasks, which go on whatever becomes of the CLI.              *)
(***************************************************************************)
EXTENDS Naturals, FiniteSets

CONSTANTS
  Nodes,
  First,       \* the node that runs the first half of SynchronizedBeforeSuite
  MaxDeploys,  \* bound: deployments each node starts
  MaxDrains    \* bound: drain goroutines of a node at one time

ASSUME FirstAssumption == First \in Nodes
ASSUME MaxAssumption == MaxDeploys \in Nat \ {0} /\ MaxDrains \in Nat

VARIABLES
  shared,  \* what the other nodes are told of the first one: nothing, config, failure
  pc,      \* where each node is
  spec,    \* what it deploys for: the suite, or a spec that expects success or not
  conf,    \* `config` holds the environment
  bad,     \* something has failed for good
  made,    \* the number of bosh tasks a node has started
  asked,   \* the last of them is delete-deployment
  cli,     \* the bosh command the node waits for
  drains,  \* drainHAProxy goroutines still running
  task,    \* the director's view of each task
  vm,      \* the deploy whose SSH key the VM has, 0 when there is no VM
  compiled \* the director has the compiled releases

nodeVars == <<shared, pc, spec, conf, bad, made, asked, cli>>
bosh == <<task, vm, compiled>>
vars == <<shared, pc, spec, conf, bad, made, asked, cli, drains, task, vm, compiled>>

Tasks == 1..(MaxDeploys + 1)
Done == {"ok", "failed"}
Held == {"compiling", "running", "applied"}
TaskStates == {"none", "queued"} \cup Held \cup Done
Over == {"passed", "failed", "crashed"}
Pcs == {"load", "wait", "idle", "deploy", "deploying", "info", "dump", "body",
        "delete", "deleting"} \cup Over

TypeOK ==
  /\ shared \in {"nothing", "config", "failure"}
  /\ pc \in [Nodes -> Pcs]
  /\ spec \in [Nodes -> {"suite", "healthy", "failing"}]
  /\ conf \in [Nodes -> BOOLEAN]
  /\ bad \in [Nodes -> BOOLEAN]
  /\ made \in [Nodes -> 0..(MaxDeploys + 1)]
  /\ asked \in [Nodes -> BOOLEAN]
  /\ cli \in [Nodes -> {"none", "running", "ok", "failed"}]
  /\ drains \in [Nodes -> 0..MaxDrains]
  /\ task \in [Nodes -> [Tasks -> TaskStates]]
  /\ vm \in [Nodes -> 0..MaxDeploys]
  /\ compiled \in BOOLEAN

Init ==
  /\ shared = "nothing"
  /\ pc = [n \in Nodes |-> IF n = First THEN "load" ELSE "wait"]
  /\ spec = [n \in Nodes |-> "suite"]
  /\ conf = [n \in Nodes |-> FALSE] /\ bad = conf /\ asked = conf
  /\ made = [n \in Nodes |-> 0] /\ drains = made /\ vm = made
  /\ cli = [n \in Nodes |-> "none"]
  /\ task = [n \in Nodes |-> [k \in Tasks |-> "none"]]
  /\ compiled \in BOOLEAN

Goto(n, there) == pc' = [pc EXCEPT ![n] = there]

(* The process is over, and its variables, children and sockets with it.   *)
End(n, verdict) ==
  /\ Goto(n, verdict)
  /\ spec' = [spec EXCEPT ![n] = "suite"] /\ cli' = [cli EXCEPT ![n] = "none"]
  /\ conf' = [conf EXCEPT ![n] = FALSE] /\ bad' = [bad EXCEPT ![n] = FALSE]
  /\ drains' = [drains EXCEPT ![n] = 0]
  /\ UNCHANGED shared

(* A failed assertion.  In the first node's BeforeSuite it fails the suite *)
(* for everybody; in a spec ginkgo tries again (--flake-attempts) or gives *)
(* the spec up.                                                            *)
Fail(n) ==
  /\ IF spec[n] = "suite"
     THEN /\ Goto(n, "delete") /\ shared' = "failure"
          /\ bad' = [bad EXCEPT ![n] = TRUE]
     ELSE /\ UNCHANGED shared
          /\ \/ made[n] < MaxDeploys /\ Goto(n, "deploy") /\ UNCHANGED bad
             \/ Goto(n, "idle") /\ bad' = [bad EXCEPT ![n] = TRUE]
  /\ UNCHANGED <<spec, conf, made, asked, cli>>

-----------------------------------------------------------------------------
(* SynchronizedBeforeSuite.                                                *)

(* Nine environment variables: the first that is missing ends it.          *)
LoadConfig ==
  /\ pc[First] = "load"
  /\ \/ /\ Goto(First, "deploy")
        /\ conf' = [conf EXCEPT ![First] = TRUE]
        /\ UNCHANGED <<shared, spec, bad, made, asked, cli>>
     \/ Fail(First)
  /\ UNCHANGED <<drains, bosh>>

ReceiveEagerly(n) ==   \* slip: BeforeSuite instead of SynchronizedBeforeSuite
  /\ pc[n] = "wait"
  /\ Goto(n, "idle") /\ conf' = [conf EXCEPT ![n] = TRUE]
  /\ UNCHANGED <<shared, spec, bad, made, asked, cli, drains, bosh>>

Receive(n) ==
  /\ pc[n] = "wait"
  /\ \/ /\ shared = "config" /\ Goto(n, "idle")
        /\ conf' = [conf EXCEPT ![n] = TRUE]
        /\ UNCHANGED bad
     \/ /\ shared = "failure" /\ Goto(n, "delete")
        /\ bad' = [bad EXCEPT ![n] = TRUE]
        /\ UNCHANGED conf
  /\ UNCHANGED <<shared, spec, made, asked, cli, drains, bosh>>

-----------------------------------------------------------------------------
(* A spec, up to its own assertions.                                       *)

TakeSpec(n) ==
  /\ pc[n] = "idle"
  /\ \/ /\ made[n] < MaxDeploys /\ Goto(n, "deploy")
        /\ spec' = [spec EXCEPT ![n] = "healthy"]
     \/ /\ made[n] < MaxDeploys /\ Goto(n, "deploy")
        /\ spec' = [spec EXCEPT ![n] = "failing"]
     \/ Goto(n, "delete") /\ UNCHANGED spec
  /\ UNCHANGED <<shared, conf, bad, made, asked, cli, drains, bosh>>

(* gexec.Start: without a configuration there is no program to start.  The *)
(* command may end before it has reached the director.                     *)
StartBosh(n) ==
  /\ made' = [made EXCEPT ![n] = @ + 1]
  /\ \/ /\ task' = [task EXCEPT ![n][made[n] + 1] = "queued"]
        /\ cli' = [cli EXCEPT ![n] = "running"]
     \/ /\ task' = [task EXCEPT ![n][made[n] + 1] = "failed"]
        /\ cli' = [cli EXCEPT ![n] = "failed"]
  /\ UNCHANGED <<vm, compiled>>

Deploy(n) ==
  /\ pc[n] = "deploy" /\ Goto(n, "deploying")
  /\ StartBosh(n)
  /\ UNCHANGED <<shared, spec, conf, bad, asked, drains>>

(* deployHAProxy waits for the exit code it expects, for twenty minutes.   *)
Expected(n) == IF spec[n] = "failing" THEN "failed" ELSE "ok"

DeployedForEver(n) ==   \* slip: an Eventually without a timeout
  /\ pc[n] = "deploying"
  /\ \/ /\ cli[n] = Expected(n) /\ Goto(n, "info")
        /\ UNCHANGED <<shared, spec, conf, bad, made, asked, cli>>
     \/ cli[n] \notin {Expected(n), "running"} /\ Fail(n)
  /\ UNCHANGED <<drains, bosh>>

Deployed(n) ==
  /\ pc[n] = "deploying"
  /\ \/ /\ cli[n] = Expected(n) /\ Goto(n, "info")
        /\ UNCHANGED <<shared, spec, conf, bad, made, asked, cli>>
     \/ cli[n] # Expected(n) /\ Fail(n)
  /\ UNCHANGED <<drains, bosh>>

(* buildHAProxyInfo: the vars store of this deploy and bosh instances.     *)
BuildInfo(n) ==
  /\ pc[n] = "info"
  /\ \/ /\ vm[n] # 0 /\ Goto(n, "dump")
        /\ UNCHANGED <<shared, spec, conf, bad, made, asked, cli>>
     \/ Fail(n)
  /\ UNCHANGED <<drains, bosh>>

(* What follows deployHAProxy: the configuration is sent to the other      *)
(* nodes, or the spec begins.                                              *)
Proceed(n) ==
  /\ IF spec[n] = "suite"
     THEN Goto(n, "idle") /\ shared' = "config"
     ELSE Goto(n, "body") /\ UNCHANGED shared
  /\ UNCHANGED <<spec, conf, bad, made, asked, cli>>

(* runOnRemote logs in with the key of this deploy, from a vars store that *)
(* was empty before it.                                                    *)
Reaches(n) == vm[n] = made[n]

DumpQuietly(n) ==   \* slip: no error of the dump counts
  /\ pc[n] = "dump"
  /\ Proceed(n)
  /\ UNCHANGED <<drains, bosh>>

DumpConfig(n) ==
  /\ pc[n] = "dump"
  /\ \/ Reaches(n) /\ Proceed(n)
     \/ Fail(n)
  /\ UNCHANGED <<drains, bosh>>

-----------------------------------------------------------------------------
(* The spec's own part.                                                    *)

BodyEnds(n) ==
  /\ pc[n] = "body"
  /\ \/ /\ Goto(n, "idle")
        /\ UNCHANGED <<shared, spec, conf, bad, made, asked, cli>>
     \/ Fail(n)
  /\ UNCHANGED <<drains, bosh>>

(* drainHAProxy, which only specs of a failing deployment call, leaves its *)
(* goroutine behind...                                                     *)
Drain(n) ==
  /\ pc[n] = "body" /\ spec[n] = "failing" /\ drains[n] < MaxDrains
  /\ drains' = [drains EXCEPT ![n] = @ + 1]
  /\ UNCHANGED <<nodeVars, bosh>>

(* ...whose assertion nobody recovers from: if it fails, the process ends. *)
DrainEnds(n) ==
  /\ drains[n] > 0 /\ pc[n] \notin Over
  /\ \/ /\ drains' = [drains EXCEPT ![n] = @ - 1]
        /\ UNCHANGED <<shared, pc, spec, conf, bad, cli>>
     \/ End(n, "crashed")
  /\ UNCHANGED <<made, asked, bosh>>

-----------------------------------------------------------------------------
(* SynchronizedAfterSuite: on every node, whatever has failed.             *)

Delete(n) ==
  /\ pc[n] = "delete"
  /\ IF conf[n]
     THEN /\ StartBosh(n)
          /\ asked' = [asked EXCEPT ![n] = TRUE] /\ Goto(n, "deleting")
          /\ UNCHANGED <<shared, spec, conf, bad, drains>>
     ELSE End(n, "failed") /\ UNCHANGED <<made, asked, bosh>>

DeletedSomehow(n) ==   \* slip: Exit() for Exit(0)
  /\ pc[n] = "deleting"
  /\ End(n, IF cli[n] # "running" /\ ~bad[n] THEN "passed" ELSE "failed")
  /\ UNCHANGED <<made, asked, bosh>>

DeletedInTheEnd(n) ==   \* slip: once more until it succeeds
  /\ pc[n] = "deleting"
  /\ \/ cli[n] = "ok" /\ End(n, IF bad[n] THEN "failed" ELSE "passed")
     \/ /\ cli[n] # "ok" /\ Goto(n, "delete")
        /\ UNCHANGED <<shared, spec, conf, bad, cli, drains>>
  /\ UNCHANGED <<made, asked, bosh>>

(* Exit(0), for ten minutes.                                               *)
Deleted(n) ==
  /\ pc[n] = "deleting"
  /\ End(n, IF cli[n] = "ok" /\ ~bad[n] THEN "passed" ELSE "failed")
  /\ UNCHANGED <<made, asked, bosh>>

-----------------------------------------------------------------------------
(* The bosh command, and the director's tasks.  A command fails when its   *)
(* task does, or when it loses the director: the task goes on then.        *)

CliEnds(n) ==
  /\ cli[n] = "running"
  /\ \/ task[n][made[n]] = "ok" /\ cli' = [cli EXCEPT ![n] = "ok"]
     \/ cli' = [cli EXCEPT ![n] = "failed"]
  /\ UNCHANGED <<shared, pc, spec, conf, bad, made, asked, drains, bosh>>

IsDelete(n, k) == asked[n] /\ k = made[n]
Become(n, k, s) == task' = [task EXCEPT ![n][k] = s]

(* Tasks of a deployment are taken in order, and hold its lock.            *)
Begin(n, k) ==
  /\ task[n][k] = "queued"
  /\ \A j \in 1..(k - 1) : task[n][j] \in Done
  /\ Become(n, k, IF compiled \/ IsDelete(n, k) THEN "running" ELSE "compiling")
  /\ UNCHANGED <<vm, compiled, nodeVars, drains>>

Refuse(n, k) ==
  /\ task[n][k] = "queued"
  /\ \E j \in 1..(k - 1) : task[n][j] \in Held
  /\ Become(n, k, "failed")
  /\ UNCHANGED <<vm, compiled, nodeVars, drains>>

Compile(n, k) ==
  /\ task[n][k] = "compiling"
  /\ Become(n, k, "running") /\ compiled' = TRUE
  /\ UNCHANGED <<vm, nodeVars, drains>>

(* The user_add job gives the VM the public key of this deploy.            *)
Apply(n, k) ==
  /\ task[n][k] = "running"
  /\ IF IsDelete(n, k)
     THEN Become(n, k, "ok") /\ vm' = [vm EXCEPT ![n] = 0]
     ELSE Become(n, k, "applied") /\ vm' = [vm EXCEPT ![n] = k]
  /\ UNCHANGED <<compiled, nodeVars, drains>>

Succeed(n, k) ==
  /\ task[n][k] = "applied"
  /\ Become(n, k, "ok")
  /\ UNCHANGED <<vm, compiled, nodeVars, drains>>

(* A task that fails half way may have taken the old VM away.              *)
FailTask(n, k) ==
  /\ task[n][k] \in Held
  /\ Become(n, k, "failed")
  /\ \/ UNCHANGED vm
     \/ task[n][k] = "running" /\ vm' = [vm EXCEPT ![n] = 0]
  /\ UNCHANGED <<compiled, nodeVars, drains>>

-----------------------------------------------------------------------------
NodeStep(n) ==
  \/ n = First /\ LoadConfig
  \/ Receive(n) \/ TakeSpec(n) \/ Deploy(n) \/ Deployed(n) \/ BuildInfo(n)
  \/ DumpConfig(n) \/ BodyEnds(n) \/ Delete(n) \/ Deleted(n)

Director(n, k) ==
  \/ Begin(n, k) \/ Refuse(n, k) \/ Compile(n, k) \/ Apply(n, k)
  \/ Succeed(n, k) \/ FailTask(n, k)

Next ==
  \/ \E n \in Nodes :
       NodeStep(n) \/ Drain(n) \/ DrainEnds(n) \/ CliEnds(n)
  \/ \E n \in Nodes, k \in Tasks : Director(n, k)

Spec == Init /\ [][Next]_vars

(* Every node runs, and its timeouts pass.  The director and the CLI may   *)
(* take for ever.                                                          *)
FairSpec == Spec /\ \A n \in Nodes : WF_vars(NodeStep(n))

-----------------------------------------------------------------------------
(* A spec's own part works on what its own deploy has made: the VM has the *)
(* key of this deploy, a spec that expects success has seen it succeed, no *)
(* task a timeout or a lost CLI has left behind will change it             *)
(* (bosh_helpers.go:146-168).                                              *)
BodyOwn == \A n \in Nodes : pc[n] = "body" =>
  /\ Reaches(n)
  /\ spec[n] = "healthy" => task[n][made[n]] = "ok"
  /\ \A k \in 1..(made[n] - 1) : task[n][k] \in Done

(* A node that passes leaves nothing behind: no VM, and no task that could *)
(* make one (acceptance_tests_suite_test.go:62-65).                        *)
CleanFinish == \A n \in Nodes : pc[n] = "passed" =>
  vm[n] = 0 /\ \A k \in 1..made[n] : task[n][k] \in Done

(* Deployments do not all start compiling the releases they share          *)
(* (acceptance_tests_suite_test.go:41-44), whatever times out or retries.  *)
(* What a single spec needs besides (another stemcell, one more package)   *)
(* is not in `compiled`.                                                   *)
CompileOnce == \A m, n \in Nodes, j, k \in Tasks :
  task[m][j] = "compiling" /\ task[n][k] = "compiling" => m = n /\ j = k

(* A run ends on every node, also when the director or the CLI hangs.      *)
SuiteEnds == <>(\A n \in Nodes : pc[n] \in Over)

(* "Clean up deployments on each thread" (acceptance_tests_suite_test.go): *)
(* a node that is over and has deployed has asked for the deletion.        *)
CleansUp == \A n \in Nodes : pc[n] \in Over /\ made[n] > 0 => asked[n]
=============================================================================
