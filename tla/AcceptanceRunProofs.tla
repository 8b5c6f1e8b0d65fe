-------------------------- MODULE AcceptanceRunProofs --------------------------
(***************************************************************************)
(* Proofs about AcceptanceRun, for any set of nodes and any number of      *)
(* specs, retries and drains.                                              *)
(***************************************************************************)
EXTENDS AcceptanceRun, TLAPS

(* What a node must have done to be where it is: only one that has the     *)
(* configuration starts a bosh command, and one that has asked for the     *)
(* deletion starts no other...                                             *)
Commands(n) ==
  /\ pc[n] \in {"load", "wait"} => made[n] = 0
  /\ pc[n] = "deploy" => made[n] < MaxDeploys
  /\ pc[n] \in {"deploying", "info", "dump", "body"} => made[n] > 0
  /\ asked[n] => pc[n] \in {"deleting"} \cup Over /\ made[n] > 0
  /\ pc[n] = "deleting" => asked[n] /\ conf[n]
  /\ ~asked[n] => made[n] <= MaxDeploys

(* ...and what it goes on from has come true.                              *)
Answers(n) ==
  /\ pc[n] \in {"deploying", "deleting"} /\ cli[n] = "ok" => task[n][made[n]] = "ok"
  /\ pc[n] \in {"info", "dump", "body"} /\ spec[n] # "failing" => task[n][made[n]] = "ok"
  /\ pc[n] = "body" => Reaches(n)
  /\ pc[n] = "passed" => asked[n] /\ task[n][made[n]] = "ok"

(* Before the first node has sent its configuration nobody else has done   *)
(* anything...                                                             *)
FirstAlone(n) ==
  /\ pc[n] \in {"load", "deploy", "deploying", "info", "dump", "body"} /\ spec[n] = "suite" =>
       n = First /\ shared = "nothing" /\ pc[n] # "body"
  /\ n # First /\ shared # "config" =>
       /\ pc[n] \in {"wait", "delete", "failed"} /\ ~conf[n]
       /\ made[n] = 0 /\ drains[n] = 0
  /\ n # First /\ shared = "nothing" => pc[n] = "wait"
  /\ spec[n] # "suite" \/ pc[n] = "idle" => shared = "config"
  /\ pc[n] \in {"load", "wait"} => drains[n] = 0

(* ...and afterwards, the releases are compiled.                           *)
Sent == shared = "config" => compiled

(* A deployment's tasks run one after the other, and the VM is what the    *)
(* last of them to get that far has made of it.                            *)
InOrder(n, k) ==
  /\ k > made[n] => task[n][k] = "none"
  /\ task[n][k] \in Held \cup {"ok"} \/ vm[n] = k => \A j \in 1..(k - 1) : task[n][j] \in Done
  /\ vm[n] = k => task[n][k] \in {"applied"} \cup Done
  /\ task[n][k] \in {"running", "applied", "ok"} => compiled \/ IsDelete(n, k)
  /\ task[n][k] = "compiling" => n = First
  /\ IsDelete(n, k) => task[n][k] \notin {"compiling", "applied"}
  /\ IsDelete(n, k) /\ task[n][k] = "ok" => vm[n] = 0

NodeInv(n) ==
  Commands(n) /\ Answers(n) /\ FirstAlone(n) /\ \A k \in Tasks : InOrder(n, k)

(* The inductive invariant.                                                *)
IInv == TypeOK /\ Sent /\ \A n \in Nodes : NodeInv(n)

USE FirstAssumption, MaxAssumption
USE DEF nodeVars, bosh, Tasks, Done, Held, TaskStates, Over, Pcs, Goto, Reaches, IsDelete, Become

LEMMA InitInv == Init => IInv
<1> SUFFICES ASSUME Init PROVE IInv
  OBVIOUS
<1>1. TypeOK
  <2>1. task \in [Nodes -> [Tasks -> TaskStates]]
    BY DEF Init
  <2>2. vm \in [Nodes -> 0..MaxDeploys] /\ drains \in [Nodes -> 0..MaxDrains]
    BY DEF Init
  <2>3. made \in [Nodes -> 0..(MaxDeploys + 1)]
    BY DEF Init
  <2>4. asked \in [Nodes -> BOOLEAN] /\ bad \in [Nodes -> BOOLEAN] /\ conf \in [Nodes -> BOOLEAN]
    BY DEF Init
  <2>5. QED
    BY <2>1, <2>2, <2>3, <2>4 DEF Init, TypeOK
<1>2. Sent
  BY DEF Init, Sent
<1>3. ASSUME NEW n \in Nodes PROVE Commands(n) /\ Answers(n) /\ FirstAlone(n)
  BY DEF Init, Commands, Answers, FirstAlone
<1>4. ASSUME NEW n \in Nodes, NEW k \in Tasks PROVE InOrder(n, k)
  BY DEF Init, InOrder
<1>5. QED
  BY <1>1, <1>2, <1>3, <1>4 DEF IInv, NodeInv

(* What a step of node n leaves alone.                                     *)
Apart(n) == \A m \in Nodes \ {n} :
  /\ pc'[m] = pc[m] /\ spec'[m] = spec[m] /\ conf'[m] = conf[m] /\ made'[m] = made[m]
  /\ asked'[m] = asked[m] /\ cli'[m] = cli[m] /\ drains'[m] = drains[m]
  /\ task'[m] = task[m] /\ vm'[m] = vm[m]

(* The other nodes' part of the invariant survives a step of node n.       *)
LEMMA Frame ==
  ASSUME IInv, NEW n \in Nodes, Apart(n), TypeOK', Sent', NodeInv(n)',
         shared' = shared \/ (n = First /\ shared = "nothing"),
         compiled => compiled'
  PROVE  IInv'
<1>1. ASSUME NEW m \in Nodes, m # n PROVE NodeInv(m)'
  <2> USE <1>1
  <2>1. /\ pc'[m] = pc[m] /\ spec'[m] = spec[m] /\ conf'[m] = conf[m] /\ made'[m] = made[m]
        /\ asked'[m] = asked[m] /\ cli'[m] = cli[m] /\ drains'[m] = drains[m]
        /\ task'[m] = task[m] /\ vm'[m] = vm[m]
    BY DEF Apart
  <2>2. NodeInv(m)
    BY DEF IInv
  <2>3. Commands(m)' /\ Answers(m)'
    BY <2>1, <2>2 DEF NodeInv, Commands, Answers
  <2>4. FirstAlone(m)'
    BY <2>1, <2>2 DEF NodeInv, FirstAlone
  <2>5. ASSUME NEW k \in Tasks PROVE InOrder(m, k)'
    BY <2>1, <2>2 DEF NodeInv, InOrder
  <2>6. QED
    BY <2>3, <2>4, <2>5 DEF NodeInv
<1>2. QED
  BY <1>1 DEF IInv

(* A step of a node that starts no bosh command and is none of the         *)
(* director's.                                                             *)
LEMMA Quiet ==
  ASSUME IInv, NEW n \in Nodes, Apart(n), TypeOK', Sent',
         shared' = shared \/ (n = First /\ shared = "nothing"),
         UNCHANGED <<made, asked, bosh>>,
         Commands(n)', Answers(n)', FirstAlone(n)'
  PROVE  IInv'
<1>1. ASSUME NEW k \in Tasks PROVE InOrder(n, k)'
  BY DEF IInv, NodeInv, InOrder
<1>2. NodeInv(n)'
  BY <1>1 DEF NodeInv
<1>3. QED
  BY <1>2, Frame

(* A failed assertion, wherever it is made.                                *)
LEMMA FailInv ==
  ASSUME IInv, NEW n \in Nodes, Fail(n), UNCHANGED <<drains, bosh>>,
         pc[n] \in {"load", "deploying", "info", "dump", "body"}
  PROVE  IInv'
<1>1. TypeOK'
  BY DEF IInv, TypeOK, Fail
<1>2. Commands(n) /\ FirstAlone(n)
  BY DEF IInv, NodeInv
<1>3. Apart(n)
  BY DEF IInv, TypeOK, Fail, Apart
<1>4. CASE spec[n] = "suite"
  <2>1. /\ n = First /\ shared = "nothing" /\ shared' = "failure" /\ pc'[n] = "delete"
        /\ UNCHANGED <<spec, conf, made, asked, cli>>
    BY <1>2, <1>4 DEF FirstAlone, Fail, IInv, TypeOK
  <2>2. Commands(n)' /\ Answers(n)' /\ FirstAlone(n)' /\ Sent'
    BY <1>2, <2>1 DEF Commands, Answers, FirstAlone, Sent
  <2>3. QED
    BY <1>1, <1>3, <2>1, <2>2, Quiet
<1>5. CASE spec[n] # "suite"
  <2>1. /\ pc'[n] \in {"deploy", "idle"} /\ (pc'[n] = "deploy" => made[n] < MaxDeploys)
        /\ UNCHANGED <<shared, spec, conf, made, asked, cli>>
    BY <1>5 DEF Fail, IInv, TypeOK
  <2>2. Commands(n)' /\ Answers(n)' /\ FirstAlone(n)' /\ Sent'
    BY <1>2, <1>5, <2>1 DEF Commands, Answers, FirstAlone, Sent, IInv
  <2>3. QED
    BY <1>1, <1>3, <2>1, <2>2, Quiet
<1>6. QED
  BY <1>4, <1>5

(* The end of a process: the deletion it has waited for has succeeded, if  *)
(* it passes.                                                              *)
LEMMA EndInv ==
  ASSUME IInv, NEW n \in Nodes, NEW verdict \in Over, End(n, verdict),
         UNCHANGED <<made, asked, bosh>>,
         pc[n] \notin {"load", "wait"},
         verdict = "passed" => pc[n] = "deleting" /\ cli[n] = "ok",
         verdict # "failed" => conf[n] \/ drains[n] > 0
  PROVE  IInv'
<1>1. TypeOK'
  BY DEF IInv, TypeOK, End
<1>2. Commands(n) /\ Answers(n) /\ FirstAlone(n)
  BY DEF IInv, NodeInv
<1>3. Apart(n)
  BY DEF IInv, TypeOK, End, Apart
<1>4. /\ pc'[n] = verdict /\ spec'[n] = "suite" /\ conf'[n] = FALSE /\ cli'[n] = "none"
      /\ drains'[n] = 0
      /\ UNCHANGED <<shared, made, asked, bosh>>
  BY DEF IInv, TypeOK, End
<1>5. Commands(n)' /\ Answers(n)'
  BY <1>2, <1>4 DEF Commands, Answers
<1>6. FirstAlone(n)'
  BY <1>2, <1>4 DEF FirstAlone
<1>7. Sent'
  BY <1>2, <1>4 DEF Sent, IInv, End, TypeOK
<1>8. QED
  BY <1>1, <1>3, <1>4, <1>5, <1>6, <1>7, Quiet

(* A step of node n after which the others are told nothing new.           *)
LEMMA Local ==
  ASSUME IInv, NEW n \in Nodes, TypeOK', Apart(n), UNCHANGED <<shared, made, asked, bosh>>,
         Commands(n)', Answers(n)', FirstAlone(n)'
  PROVE  IInv'
<1>1. Sent'
  BY DEF Sent, IInv
<1>2. QED
  BY <1>1, Quiet

(* SynchronizedBeforeSuite.                                                *)
LEMMA LoadInv == IInv /\ LoadConfig => IInv'
<1> SUFFICES ASSUME IInv, LoadConfig PROVE IInv'
  OBVIOUS
<1>1. CASE Fail(First)
  BY <1>1, FailInv DEF LoadConfig
<1>2. CASE ~Fail(First)
  <2>1. /\ pc[First] = "load" /\ pc' = [pc EXCEPT ![First] = "deploy"]
        /\ conf' = [conf EXCEPT ![First] = TRUE]
        /\ UNCHANGED <<shared, spec, bad, made, asked, cli, drains, bosh>>
    BY <1>2 DEF LoadConfig
  <2>2. TypeOK' /\ Apart(First) /\ pc'[First] = "deploy"
    BY <2>1 DEF Apart, IInv, TypeOK
  <2>3. Commands(First) /\ Answers(First) /\ FirstAlone(First)
    BY DEF IInv, NodeInv
  <2>4. Commands(First)' /\ Answers(First)' /\ FirstAlone(First)'
    BY <2>1, <2>2, <2>3 DEF Commands, Answers, FirstAlone, IInv, TypeOK
  <2>5. QED
    BY <2>1, <2>2, <2>4, Local
<1>3. QED
  BY <1>1, <1>2

LEMMA ReceiveInv == ASSUME IInv, NEW n \in Nodes, Receive(n) PROVE IInv'
<1>1. TypeOK' /\ Apart(n)
  BY DEF Receive, Apart, IInv, TypeOK
<1>2. Commands(n) /\ Answers(n) /\ FirstAlone(n)
  BY DEF IInv, NodeInv
<1>3. /\ pc[n] = "wait" /\ UNCHANGED <<shared, spec, made, asked, cli, drains, bosh>>
      /\ \/ pc'[n] = "idle" /\ shared = "config"
         \/ pc'[n] = "delete" /\ shared = "failure" /\ conf' = conf
  BY DEF Receive, IInv, TypeOK
<1>4. Commands(n)' /\ Answers(n)' /\ FirstAlone(n)'
  BY <1>2, <1>3 DEF Commands, Answers, FirstAlone
<1>5. QED
  BY <1>1, <1>3, <1>4, Local

(* What a node does between bosh commands.                                 *)
LEMMA TakeSpecInv == ASSUME IInv, NEW n \in Nodes, TakeSpec(n) PROVE IInv'
<1>1. TypeOK' /\ Apart(n)
  BY DEF TakeSpec, Apart, IInv, TypeOK
<1>2. Commands(n) /\ Answers(n) /\ FirstAlone(n)
  BY DEF IInv, NodeInv
<1>3. /\ pc[n] = "idle" /\ UNCHANGED <<shared, conf, made, asked, cli, drains, bosh>>
      /\ \/ pc'[n] = "deploy" /\ made[n] < MaxDeploys /\ spec'[n] # "suite"
         \/ pc'[n] = "delete" /\ spec' = spec
  BY DEF TakeSpec, IInv, TypeOK
<1>4. Commands(n)' /\ Answers(n)' /\ FirstAlone(n)'
  BY <1>2, <1>3 DEF Commands, Answers, FirstAlone
<1>5. QED
  BY <1>1, <1>3, <1>4, Local

LEMMA DeployedInv == ASSUME IInv, NEW n \in Nodes, Deployed(n) PROVE IInv'
<1>1. CASE Fail(n)
  BY <1>1, FailInv DEF Deployed
<1>2. CASE ~Fail(n)
  <2>1. /\ pc[n] = "deploying" /\ pc' = [pc EXCEPT ![n] = "info"] /\ cli[n] = Expected(n)
        /\ UNCHANGED <<shared, spec, conf, bad, made, asked, cli, drains, bosh>>
    BY <1>2 DEF Deployed
  <2>2. TypeOK' /\ Apart(n) /\ pc'[n] = "info"
    BY <2>1 DEF Apart, IInv, TypeOK
  <2>3. Commands(n) /\ Answers(n) /\ FirstAlone(n)
    BY DEF IInv, NodeInv
  <2>4. Commands(n)' /\ FirstAlone(n)'
    BY <2>1, <2>2, <2>3 DEF Commands, FirstAlone
  <2>5. Answers(n)'
    BY <2>1, <2>2, <2>3 DEF Answers, Expected
  <2>6. QED
    BY <2>1, <2>2, <2>4, <2>5, Local
<1>3. QED
  BY <1>1, <1>2

LEMMA BuildInfoInv == ASSUME IInv, NEW n \in Nodes, BuildInfo(n) PROVE IInv'
<1>1. CASE Fail(n)
  BY <1>1, FailInv DEF BuildInfo
<1>2. CASE ~Fail(n)
  <2>1. /\ pc[n] = "info" /\ pc' = [pc EXCEPT ![n] = "dump"]
        /\ UNCHANGED <<shared, spec, conf, bad, made, asked, cli, drains, bosh>>
    BY <1>2 DEF BuildInfo
  <2>2. TypeOK' /\ Apart(n) /\ pc'[n] = "dump"
    BY <2>1 DEF Apart, IInv, TypeOK
  <2>3. Commands(n) /\ Answers(n) /\ FirstAlone(n)
    BY DEF IInv, NodeInv
  <2>4. Commands(n)' /\ Answers(n)' /\ FirstAlone(n)'
    BY <2>1, <2>2, <2>3 DEF Commands, Answers, FirstAlone
  <2>5. QED
    BY <2>1, <2>2, <2>4, Local
<1>3. QED
  BY <1>1, <1>2

(* The first node's configuration is sent when its deployment has          *)
(* succeeded, and a delete-deployment is not that: the releases have been  *)
(* compiled.                                                               *)
LEMMA DumpConfigInv == ASSUME IInv, NEW n \in Nodes, DumpConfig(n) PROVE IInv'
<1>1. CASE Fail(n)
  BY <1>1, FailInv DEF DumpConfig
<1>2. CASE ~Fail(n)
  <2>1. /\ pc[n] = "dump" /\ Reaches(n) /\ Proceed(n) /\ UNCHANGED <<drains, bosh>>
    BY <1>2 DEF DumpConfig
  <2>2. TypeOK' /\ Apart(n)
    BY <2>1 DEF Proceed, Apart, IInv, TypeOK
  <2>3. Commands(n) /\ Answers(n) /\ FirstAlone(n)
    BY DEF IInv, NodeInv
  <2>4. CASE spec[n] = "suite"
    <3>1. pc'[n] = "idle" /\ shared' = "config" /\ UNCHANGED <<spec, conf, made, asked, cli>>
      BY <2>1, <2>4 DEF Proceed, IInv, TypeOK
    <3>2. n = First /\ shared = "nothing"
      BY <2>1, <2>3, <2>4 DEF FirstAlone
    <3>3. task[n][made[n]] = "ok" /\ made[n] \in Tasks /\ ~asked[n]
      BY <2>1, <2>3, <2>4 DEF Answers, Commands, IInv, TypeOK
    <3>4. compiled
      BY <3>3 DEF IInv, NodeInv, InOrder
    <3>5. Commands(n)' /\ Answers(n)' /\ FirstAlone(n)' /\ Sent'
      BY <2>1, <2>3, <3>1, <3>2, <3>4 DEF Commands, Answers, FirstAlone, Sent
    <3>6. QED
      BY <2>1, <2>2, <3>1, <3>2, <3>5, Quiet
  <2>5. CASE spec[n] # "suite"
    <3>1. pc'[n] = "body" /\ UNCHANGED <<shared, spec, conf, made, asked, cli>>
      BY <2>1, <2>5 DEF Proceed, IInv, TypeOK
    <3>2. Commands(n)' /\ Answers(n)' /\ FirstAlone(n)'
      BY <2>1, <2>3, <2>5, <3>1 DEF Commands, Answers, FirstAlone
    <3>3. QED
      BY <2>1, <2>2, <3>1, <3>2, Local
  <2>6. QED
    BY <2>4, <2>5
<1>3. QED
  BY <1>1, <1>2

LEMMA BodyEndsInv == ASSUME IInv, NEW n \in Nodes, BodyEnds(n) PROVE IInv'
<1>1. CASE Fail(n)
  BY <1>1, FailInv DEF BodyEnds
<1>2. CASE ~Fail(n)
  <2>1. /\ pc[n] = "body" /\ pc' = [pc EXCEPT ![n] = "idle"]
        /\ UNCHANGED <<shared, spec, conf, bad, made, asked, cli, drains, bosh>>
    BY <1>2 DEF BodyEnds
  <2>2. TypeOK' /\ Apart(n) /\ pc'[n] = "idle"
    BY <2>1 DEF Apart, IInv, TypeOK
  <2>3. Commands(n) /\ Answers(n) /\ FirstAlone(n)
    BY DEF IInv, NodeInv
  <2>4. Commands(n)' /\ Answers(n)' /\ FirstAlone(n)'
    BY <2>1, <2>2, <2>3 DEF Commands, Answers, FirstAlone
  <2>5. QED
    BY <2>1, <2>2, <2>4, Local
<1>3. QED
  BY <1>1, <1>2

LEMMA DrainInv == ASSUME IInv, NEW n \in Nodes, Drain(n) PROVE IInv'
<1>1. TypeOK' /\ Apart(n)
  BY DEF Drain, Apart, IInv, TypeOK
<1>2. Commands(n) /\ Answers(n) /\ FirstAlone(n)
  BY DEF IInv, NodeInv
<1>3. Commands(n)' /\ Answers(n)' /\ FirstAlone(n)'
  BY <1>2 DEF Drain, Commands, Answers, FirstAlone
<1>4. QED
  BY <1>1, <1>3, Local DEF Drain

LEMMA DrainEndsInv == ASSUME IInv, NEW n \in Nodes, DrainEnds(n) PROVE IInv'
<1>1. Commands(n) /\ Answers(n) /\ FirstAlone(n)
  BY DEF IInv, NodeInv
<1>2. CASE End(n, "crashed")
  <2>1. drains[n] > 0 /\ pc[n] \notin {"load", "wait"}
    BY <1>1 DEF DrainEnds, FirstAlone, IInv, TypeOK
  <2>2. QED
    BY <1>2, <2>1, EndInv DEF DrainEnds
<1>3. CASE ~End(n, "crashed")
  <2>1. /\ drains' = [drains EXCEPT ![n] = @ - 1] /\ drains[n] > 0
        /\ UNCHANGED <<shared, pc, spec, conf, bad, cli, made, asked, bosh>>
    BY <1>3 DEF DrainEnds
  <2>2. TypeOK' /\ Apart(n)
    BY <2>1 DEF Apart, IInv, TypeOK
  <2>3. Commands(n)' /\ Answers(n)' /\ FirstAlone(n)'
    BY <1>1, <2>1 DEF Commands, Answers, FirstAlone
  <2>4. QED
    BY <2>1, <2>2, <2>3, Local
<1>4. QED
  BY <1>2, <1>3

LEMMA CliEndsInv == ASSUME IInv, NEW n \in Nodes, CliEnds(n) PROVE IInv'
<1>1. TypeOK' /\ Apart(n)
  BY DEF CliEnds, Apart, IInv, TypeOK
<1>2. Commands(n) /\ Answers(n) /\ FirstAlone(n)
  BY DEF IInv, NodeInv
<1>3. /\ cli'[n] = "ok" => task[n][made[n]] = "ok"
      /\ UNCHANGED <<shared, pc, spec, conf, bad, made, asked, drains, bosh>>
  BY DEF CliEnds, IInv, TypeOK
<1>4. Commands(n)' /\ Answers(n)' /\ FirstAlone(n)'
  BY <1>2, <1>3 DEF Commands, Answers, FirstAlone
<1>5. QED
  BY <1>1, <1>3, <1>4, Local

(* The bosh commands: the new task is the last of its deployment, and      *)
(* nothing comes after a delete-deployment.                                *)
LEMMA StartInv ==
  ASSUME IInv, NEW n \in Nodes, StartBosh(n), ~asked[n], made[n] <= MaxDeploys,
         asked' \in [Nodes -> BOOLEAN]
  PROVE  /\ task' \in [Nodes -> [Tasks -> TaskStates]]
         /\ made' \in [Nodes -> 0..(MaxDeploys + 1)]
         /\ cli' \in [Nodes -> {"none", "running", "ok", "failed"}]
         /\ made'[n] = made[n] + 1 /\ cli'[n] \in {"running", "failed"}
         /\ \A m \in Nodes \ {n} :
              made'[m] = made[m] /\ cli'[m] = cli[m] /\ task'[m] = task[m]
         /\ UNCHANGED <<vm, compiled>>
         /\ \A k \in Tasks : InOrder(n, k)'
<1> USE DEF IInv, TypeOK
<1>1. PICK s \in {"queued", "failed"} : task' = [task EXCEPT ![n][made[n] + 1] = s]
  BY DEF StartBosh
<1>2. /\ made' \in [Nodes -> 0..(MaxDeploys + 1)]
      /\ cli' \in [Nodes -> {"none", "running", "ok", "failed"}]
      /\ made'[n] = made[n] + 1 /\ cli'[n] \in {"running", "failed"}
      /\ \A m \in Nodes \ {n} : made'[m] = made[m] /\ cli'[m] = cli[m]
      /\ UNCHANGED <<vm, compiled>>
  <2>1. /\ made' = [made EXCEPT ![n] = @ + 1] /\ UNCHANGED <<vm, compiled>>
        /\ \E c \in {"running", "failed"} : cli' = [cli EXCEPT ![n] = c]
    BY DEF StartBosh
  <2>2. /\ made' \in [Nodes -> 0..(MaxDeploys + 1)] /\ made'[n] = made[n] + 1
        /\ \A m \in Nodes \ {n} : made'[m] = made[m]
    BY <2>1
  <2>3. /\ cli' \in [Nodes -> {"none", "running", "ok", "failed"}]
        /\ cli'[n] \in {"running", "failed"}
        /\ \A m \in Nodes \ {n} : cli'[m] = cli[m]
    BY <2>1
  <2>4. QED
    BY <2>1, <2>2, <2>3
<1>3. /\ task' \in [Nodes -> [Tasks -> TaskStates]]
      /\ \A m \in Nodes \ {n} : task'[m] = task[m]
      /\ \A k \in Tasks : k # made[n] + 1 => task'[n][k] = task[n][k]
      /\ task'[n][made[n] + 1] = s
  BY <1>1
<1>4. \A k \in Tasks : InOrder(n, k)
  BY DEF NodeInv
<1>5. made[n] \in Nat /\ made[n] + 1 \in Tasks
  OBVIOUS
<1>6. \A k \in Tasks : k > made[n] => task[n][k] = "none"
  BY <1>4 DEF InOrder
<1>7. vm[n] # made[n] + 1
  <2>1. task[n][made[n] + 1] = "none"
    BY <1>5, <1>6
  <2>2. QED
    BY <1>4, <1>5, <2>1 DEF InOrder
<1>8. ASSUME NEW k \in Tasks PROVE InOrder(n, k)'
  <2>1. CASE k = made[n] + 1
    BY <1>2, <1>3, <1>5, <1>7, <2>1 DEF InOrder
  <2>2. CASE k > made[n] + 1
    <3>1. task[n][k] = "none" /\ task'[n][k] = "none" /\ k # made'[n] /\ vm'[n] = vm[n]
      BY <1>2, <1>3, <1>5, <1>6, <2>2
    <3>2. vm[n] # k
      BY <1>4, <3>1 DEF InOrder
    <3>3. QED
      BY <3>1, <3>2 DEF InOrder
  <2>3. CASE k <= made[n]
    <3>1. /\ task'[n][k] = task[n][k] /\ k # made'[n]
          /\ \A j \in 1..(k - 1) : task'[n][j] = task[n][j]
      BY <1>2, <1>3, <1>5, <2>3
    <3>2. /\ task[n][k] \in Held \cup {"ok"} \/ vm[n] = k => \A j \in 1..(k - 1) : task[n][j] \in Done
          /\ vm[n] = k => task[n][k] \in {"applied"} \cup Done
          /\ task[n][k] \in {"running", "applied", "ok"} => compiled
          /\ task[n][k] = "compiling" => n = First
      BY <1>4 DEF InOrder
    <3>3. ~(k > made'[n]) /\ vm'[n] = vm[n] /\ compiled' = compiled
      BY <1>2, <1>5, <2>3
    <3>4. QED
      BY <3>1, <3>2, <3>3 DEF InOrder
  <2>4. QED
    BY <1>5, <2>1, <2>2, <2>3
<1>9. QED
  BY <1>2, <1>3, <1>8

LEMMA DeployInv == ASSUME IInv, NEW n \in Nodes, Deploy(n) PROVE IInv'
<1>1. Commands(n) /\ Answers(n) /\ FirstAlone(n)
  BY DEF IInv, NodeInv
<1>2. /\ pc[n] = "deploy" /\ pc' = [pc EXCEPT ![n] = "deploying"] /\ StartBosh(n)
      /\ ~asked[n] /\ made[n] < MaxDeploys
      /\ UNCHANGED <<shared, spec, conf, bad, asked, drains>>
  BY <1>1 DEF Deploy, Commands
<1>3. /\ task' \in [Nodes -> [Tasks -> TaskStates]]
      /\ made' \in [Nodes -> 0..(MaxDeploys + 1)]
      /\ cli' \in [Nodes -> {"none", "running", "ok", "failed"}]
      /\ made'[n] = made[n] + 1 /\ cli'[n] \in {"running", "failed"}
      /\ \A m \in Nodes \ {n} :
           made'[m] = made[m] /\ cli'[m] = cli[m] /\ task'[m] = task[m]
      /\ UNCHANGED <<vm, compiled>>
      /\ \A k \in Tasks : InOrder(n, k)'
  BY <1>2, StartInv DEF IInv, TypeOK
<1>4. TypeOK' /\ pc'[n] = "deploying"
  BY <1>2, <1>3 DEF IInv, TypeOK
<1>5. Apart(n)
  BY <1>2, <1>3 DEF Apart, IInv, TypeOK
<1>6. Commands(n)' /\ Answers(n)'
  BY <1>1, <1>2, <1>3, <1>4 DEF Commands, Answers, IInv, TypeOK
<1>7. FirstAlone(n)' /\ Sent'
  BY <1>1, <1>2, <1>3, <1>4 DEF FirstAlone, Sent, IInv
<1>8. QED
  BY <1>2, <1>3, <1>4, <1>5, <1>6, <1>7, Frame DEF NodeInv

LEMMA DeleteInv == ASSUME IInv, NEW n \in Nodes, Delete(n) PROVE IInv'
<1>1. Commands(n) /\ Answers(n) /\ FirstAlone(n)
  BY DEF IInv, NodeInv
<1>2. CASE ~conf[n]
  BY <1>2, EndInv DEF Delete
<1>3. CASE conf[n]
  <2>1. /\ pc[n] = "delete" /\ pc' = [pc EXCEPT ![n] = "deleting"] /\ StartBosh(n)
        /\ ~asked[n] /\ made[n] <= MaxDeploys /\ asked' = [asked EXCEPT ![n] = TRUE]
        /\ UNCHANGED <<shared, spec, conf, bad, drains>>
    BY <1>1, <1>3 DEF Delete, Commands
  <2>2. asked' \in [Nodes -> BOOLEAN] /\ asked'[n]
    BY <2>1 DEF IInv, TypeOK
  <2>3. /\ task' \in [Nodes -> [Tasks -> TaskStates]]
        /\ made' \in [Nodes -> 0..(MaxDeploys + 1)]
        /\ cli' \in [Nodes -> {"none", "running", "ok", "failed"}]
        /\ made'[n] = made[n] + 1 /\ cli'[n] \in {"running", "failed"}
        /\ \A m \in Nodes \ {n} :
             made'[m] = made[m] /\ cli'[m] = cli[m] /\ task'[m] = task[m]
        /\ UNCHANGED <<vm, compiled>>
        /\ \A k \in Tasks : InOrder(n, k)'
    BY <2>1, <2>2, StartInv
  <2>4. TypeOK' /\ pc'[n] = "deleting"
    BY <2>1, <2>2, <2>3 DEF IInv, TypeOK
  <2>5. Apart(n)
    BY <2>1, <2>3 DEF Apart, IInv, TypeOK
  <2>6. Commands(n)' /\ Answers(n)'
    BY <1>1, <1>3, <2>1, <2>2, <2>3, <2>4 DEF Commands, Answers, IInv, TypeOK
  <2>7. FirstAlone(n)' /\ Sent'
    BY <1>1, <1>3, <2>1, <2>3, <2>4 DEF FirstAlone, Sent, IInv
  <2>8. QED
    BY <2>1, <2>3, <2>4, <2>5, <2>6, <2>7, Frame DEF NodeInv
<1>4. QED
  BY <1>2, <1>3

LEMMA DeletedInv == ASSUME IInv, NEW n \in Nodes, Deleted(n) PROVE IInv'
<1>1. PICK verdict \in {"passed", "failed"} :
        End(n, verdict) /\ (verdict = "passed" => cli[n] = "ok" /\ ~bad[n])
  BY DEF Deleted
<1>2. pc[n] = "deleting" /\ conf[n] /\ UNCHANGED <<made, asked, bosh>>
  BY DEF Deleted, Commands, IInv, NodeInv
<1>3. QED
  BY <1>1, <1>2, EndInv

-----------------------------------------------------------------------------
(* A step of the director on task k of node n: what it makes of the task   *)
(* and of the VM.                                                          *)
LEMMA TaskInv ==
  ASSUME IInv, NEW n \in Nodes, NEW k \in Tasks, TypeOK', UNCHANGED <<nodeVars, drains>>,
         compiled => compiled',
         \A m \in Nodes \ {n} : task'[m] = task[m] /\ vm'[m] = vm[m],
         \A j \in Tasks \ {k} : task'[n][j] = task[n][j],
         task[n][k] \in {"queued"} \cup Held, task'[n][k] \in Held \cup Done,
         vm'[n] \in {vm[n], 0, k}, vm[n] = k => vm'[n] = k,
         task'[n][k] \in Held \cup {"ok"} \/ vm'[n] = k =>
           \A j \in 1..(k - 1) : task[n][j] \in Done,
         vm'[n] = k => task'[n][k] \in {"applied"} \cup Done,
         task'[n][k] \in {"running", "applied", "ok"} => compiled' \/ IsDelete(n, k),
         task'[n][k] = "compiling" => n = First,
         IsDelete(n, k) => task'[n][k] \notin {"compiling", "applied"},
         IsDelete(n, k) /\ task'[n][k] = "ok" => vm'[n] = 0
  PROVE  IInv'
<1>1. Apart(n)
  BY DEF Apart
<1>2. NodeInv(n)
  BY DEF IInv
<1>3. task[n][k] \notin Done /\ task[n][k] # "none"
  OBVIOUS
<1>4. k \in Nat /\ k <= made[n] /\ made[n] \in 0..(MaxDeploys + 1)
  BY <1>2, <1>3 DEF NodeInv, InOrder, IInv, TypeOK
<1>5. Commands(n)'
  BY <1>2 DEF NodeInv, Commands
<1>6. Answers(n)'
  <2>1. made[n] \in Tasks /\ (task[n][made[n]] = "ok" => task'[n][made[n]] = "ok")
    BY <1>3, <1>4
  <2>2. Answers(n)
    BY <1>2 DEF NodeInv
  <2>3. ASSUME vm[n] = made[n] PROVE vm'[n] = made[n]
    <3>1. \A j \in 1..(made[n] - 1) : task[n][j] \in Done
      BY <1>2, <2>1, <2>3 DEF NodeInv, InOrder
    <3>2. k = made[n]
      BY <1>3, <1>4, <3>1
    <3>3. QED
      BY <2>3, <3>2
  <2>4. QED
    BY <2>1, <2>2, <2>3 DEF Answers
<1>7. FirstAlone(n)' /\ Sent'
  BY <1>2 DEF NodeInv, FirstAlone, Sent, IInv
<1>8. ASSUME NEW j \in Tasks PROVE InOrder(n, j)'
  <2>1. InOrder(n, j)
    BY <1>2 DEF NodeInv
  <2>2. CASE j = k
    <3>1. ~(j > made[n]) /\ \A i \in 1..(j - 1) : task'[n][i] = task[n][i]
      BY <1>4, <2>2
    <3>2. QED
      BY <2>2, <3>1 DEF InOrder
  <2>3. CASE j > k
    <3>1. task[n][j] \notin Held \cup {"ok"} /\ vm[n] # j
      BY <1>3, <1>4, <2>1, <2>3 DEF InOrder
    <3>2. task'[n][j] = task[n][j] /\ vm'[n] # j
      BY <1>4, <2>3, <3>1
    <3>3. QED
      BY <2>1, <3>1, <3>2 DEF InOrder
  <2>4. CASE j < k
    <3>1. /\ task'[n][j] = task[n][j] /\ \A i \in 1..(j - 1) : task'[n][i] = task[n][i]
          /\ vm'[n] = j => vm[n] = j
          /\ j # made[n] /\ ~(j > made[n])
      BY <1>4, <2>4
    <3>2. QED
      BY <2>1, <3>1 DEF InOrder
  <2>5. QED
    BY <1>4, <2>2, <2>3, <2>4
<1>9. QED
  BY <1>1, <1>5, <1>6, <1>7, <1>8, Frame DEF NodeInv

LEMMA DirectorInv ==
  ASSUME IInv, NEW n \in Nodes, NEW k \in Tasks, Director(n, k)
  PROVE  IInv'
<1> USE DEF Director
<1>1. NodeInv(n) /\ InOrder(n, k) /\ Commands(n)
  BY DEF IInv, NodeInv
<1>2. \E s \in Held \cup Done, v \in 0..MaxDeploys :
        task' = [task EXCEPT ![n][k] = s] /\ vm' = [vm EXCEPT ![n] = v]
  <2>1. vm[n] \in 0..MaxDeploys /\ vm = [vm EXCEPT ![n] = vm[n]]
    BY DEF IInv, TypeOK
  <2>2. CASE Begin(n, k) \/ Refuse(n, k) \/ Compile(n, k) \/ Succeed(n, k)
    BY <2>1, <2>2 DEF Begin, Refuse, Compile, Succeed
  <2>3. CASE Apply(n, k)
    <3>1. ~IsDelete(n, k) => k \in 0..MaxDeploys
      BY <1>1, <2>3 DEF Apply, InOrder, Commands, IInv, TypeOK
    <3>2. QED
      BY <2>3, <3>1 DEF Apply
  <2>4. CASE FailTask(n, k)
    BY <2>1, <2>4 DEF FailTask
  <2>5. QED
    BY <2>2, <2>3, <2>4
<1>3. /\ UNCHANGED <<nodeVars, drains>> /\ (compiled => compiled') /\ compiled' \in BOOLEAN
      /\ \A m \in Nodes \ {n} : task'[m] = task[m] /\ vm'[m] = vm[m]
      /\ \A j \in Tasks \ {k} : task'[n][j] = task[n][j]
      /\ TypeOK'
  <2>1. UNCHANGED <<nodeVars, drains>> /\ (compiled' = compiled \/ compiled' = TRUE)
    BY DEF Begin, Refuse, Compile, Apply, Succeed, FailTask
  <2>2. task' \in [Nodes -> [Tasks -> TaskStates]] /\ vm' \in [Nodes -> 0..MaxDeploys]
    BY <1>2 DEF IInv, TypeOK
  <2>3. /\ \A m \in Nodes \ {n} : task'[m] = task[m] /\ vm'[m] = vm[m]
        /\ \A j \in Tasks \ {k} : task'[n][j] = task[n][j]
    BY <1>2 DEF IInv, TypeOK
  <2>4. TypeOK'
    BY <2>1, <2>2 DEF IInv, TypeOK
  <2>5. QED
    BY <2>1, <2>3, <2>4 DEF IInv, TypeOK
<1>4. CASE Begin(n, k)
  <2>1. /\ task[n][k] = "queued" /\ vm'[n] = vm[n] /\ compiled' = compiled
        /\ task'[n][k] = IF compiled \/ IsDelete(n, k) THEN "running" ELSE "compiling"
        /\ \A j \in 1..(k - 1) : task[n][j] \in Done
    BY <1>4 DEF Begin, IInv, TypeOK
  <2>2. vm[n] # k
    BY <1>1, <2>1 DEF InOrder
  <2>3. n = First \/ compiled
    <3>1. k <= made[n] /\ made[n] # 0
      BY <1>1, <2>1 DEF InOrder, IInv, TypeOK
    <3>2. QED
      BY <3>1 DEF FirstAlone, NodeInv, Sent, IInv
  <2>4. QED
    BY <1>3, <2>1, <2>2, <2>3, TaskInv
<1>5. CASE Refuse(n, k)
  <2>1. task[n][k] = "queued" /\ vm'[n] = vm[n] /\ task'[n][k] = "failed"
    BY <1>5 DEF Refuse, IInv, TypeOK
  <2>2. vm[n] # k
    BY <1>1, <2>1 DEF InOrder
  <2>3. QED
    BY <1>3, <2>1, <2>2, TaskInv
<1>6. CASE Compile(n, k)
  <2>1. task[n][k] = "compiling" /\ vm'[n] = vm[n] /\ task'[n][k] = "running" /\ compiled'
    BY <1>6 DEF Compile, IInv, TypeOK
  <2>2. vm[n] # k /\ ~IsDelete(n, k) /\ \A j \in 1..(k - 1) : task[n][j] \in Done
    BY <1>1, <2>1 DEF InOrder
  <2>3. QED
    BY <1>3, <2>1, <2>2, TaskInv
<1>7. CASE Apply(n, k)
  <2>1. /\ task[n][k] = "running" /\ compiled' = compiled
        /\ IF IsDelete(n, k) THEN task'[n][k] = "ok" /\ vm'[n] = 0
                             ELSE task'[n][k] = "applied" /\ vm'[n] = k
    BY <1>7 DEF Apply, IInv, TypeOK
  <2>2. /\ vm[n] # k /\ (compiled \/ IsDelete(n, k))
        /\ \A j \in 1..(k - 1) : task[n][j] \in Done
    BY <1>1, <2>1 DEF InOrder
  <2>3. QED
    BY <1>3, <2>1, <2>2, TaskInv
<1>8. CASE Succeed(n, k)
  <2>1. /\ task[n][k] = "applied" /\ vm'[n] = vm[n] /\ compiled' = compiled
        /\ task'[n][k] = "ok"
    BY <1>8 DEF Succeed, IInv, TypeOK
  <2>2. /\ compiled /\ ~IsDelete(n, k)
        /\ \A j \in 1..(k - 1) : task[n][j] \in Done
    BY <1>1, <2>1 DEF InOrder
  <2>3. QED
    BY <1>3, <2>1, <2>2, TaskInv
<1>9. CASE FailTask(n, k)
  <2>1. /\ task[n][k] \in Held /\ task'[n][k] = "failed"
        /\ vm'[n] = vm[n] \/ (task[n][k] = "running" /\ vm'[n] = 0)
    BY <1>9 DEF FailTask, IInv, TypeOK
  <2>2. /\ vm[n] = k => task[n][k] # "running"
        /\ \A j \in 1..(k - 1) : task[n][j] \in Done
    BY <1>1, <2>1 DEF InOrder
  <2>3. QED
    BY <1>3, <2>1, <2>2, TaskInv
<1>10. QED
  BY <1>4, <1>5, <1>6, <1>7, <1>8, <1>9

-----------------------------------------------------------------------------
LEMMA NextInv == IInv /\ [Next]_vars => IInv'
<1> SUFFICES ASSUME IInv, [Next]_vars PROVE IInv'
  OBVIOUS
<1>1. ASSUME NEW n \in Nodes, NodeStep(n) PROVE IInv'
  BY <1>1, LoadInv, ReceiveInv, TakeSpecInv, DeployInv, DeployedInv, BuildInfoInv,
     DumpConfigInv, BodyEndsInv, DeleteInv, DeletedInv DEF NodeStep
<1>2. CASE UNCHANGED vars
  <2>1. TypeOK' /\ Sent'
    BY <1>2 DEF vars, IInv, TypeOK, Sent
  <2>2. ASSUME NEW n \in Nodes PROVE NodeInv(n)'
    <3>1. NodeInv(n)
      BY DEF IInv
    <3>2. Commands(n)' /\ Answers(n)' /\ FirstAlone(n)'
      BY <1>2, <3>1 DEF vars, NodeInv, Commands, Answers, FirstAlone
    <3>3. ASSUME NEW k \in Tasks PROVE InOrder(n, k)'
      BY <1>2, <3>1 DEF vars, NodeInv, InOrder
    <3>4. QED
      BY <3>2, <3>3 DEF NodeInv
  <2>3. QED
    BY <2>1, <2>2 DEF IInv
<1>3. QED
  BY <1>1, <1>2, DrainInv, DrainEndsInv, CliEndsInv, DirectorInv DEF Next

(* The inductive invariant holds in every state: what a node has still to  *)
(* do, what it has been told and what the director has made of it agree.   *)
THEOREM Invariance == Spec => []IInv
<1>1. Init => IInv
  BY InitInv
<1>2. IInv /\ [Next]_vars => IInv'
  BY NextInv
<1>3. QED
  BY <1>1, <1>2, PTL DEF Spec

(* The type invariant: in particular no node starts more than one          *)
(* delete-deployment, whatever fails or crashes.                           *)
THEOREM TypeCorrect == Spec => []TypeOK
<1>1. IInv => TypeOK
  BY DEF IInv
<1>2. QED
  BY <1>1, Invariance, PTL

(* Every spec's own part works on its own deployment                       *)
(* (bosh_helpers.go:146-168): the key that runOnRemote logs in with is the *)
(* last that has been applied, and tasks run in order, so those before it  *)
(* are over.                                                               *)
THEOREM BodyTheorem == Spec => []BodyOwn
<1>1. IInv => BodyOwn
  <2> SUFFICES ASSUME IInv, NEW n \in Nodes, pc[n] = "body"
               PROVE  /\ Reaches(n)
                      /\ spec[n] = "healthy" => task[n][made[n]] = "ok"
                      /\ \A k \in 1..(made[n] - 1) : task[n][k] \in Done
    BY DEF BodyOwn
  <2>1. Commands(n) /\ Answers(n) /\ \A k \in Tasks : InOrder(n, k)
    BY DEF IInv, NodeInv
  <2>2. made[n] \in Tasks
    BY <2>1 DEF Commands, IInv, TypeOK
  <2>3. Reaches(n) /\ (spec[n] = "healthy" => task[n][made[n]] = "ok")
    BY <2>1 DEF Answers
  <2>4. \A k \in 1..(made[n] - 1) : task[n][k] \in Done
    BY <2>1, <2>2, <2>3 DEF InOrder
  <2>5. QED
    BY <2>3, <2>4
<1>2. QED
  BY <1>1, Invariance, PTL

(* A node that passes has deleted its VM, and no task is left that could   *)
(* make another (acceptance_tests_suite_test.go:62-65).                    *)
THEOREM CleanTheorem == Spec => []CleanFinish
<1>1. IInv => CleanFinish
  <2> SUFFICES ASSUME IInv, NEW n \in Nodes, pc[n] = "passed"
               PROVE  vm[n] = 0 /\ \A k \in 1..made[n] : task[n][k] \in Done
    BY DEF CleanFinish
  <2>1. Commands(n) /\ Answers(n) /\ \A k \in Tasks : InOrder(n, k)
    BY DEF IInv, NodeInv
  <2>2. asked[n] /\ task[n][made[n]] = "ok" /\ made[n] \in Tasks
    BY <2>1 DEF Answers, Commands, IInv, TypeOK
  <2>3. InOrder(n, made[n])
    BY <2>1, <2>2
  <2>4. vm[n] = 0 /\ \A k \in 1..(made[n] - 1) : task[n][k] \in Done
    BY <2>2, <2>3 DEF InOrder
  <2>5. QED
    BY <2>2, <2>4 DEF IInv, TypeOK
<1>2. QED
  BY <1>1, Invariance, PTL

(* Only the first node's deployment ever compiles the releases that all    *)
(* share, and only one task of it at a time                                *)
(* (acceptance_tests_suite_test.go:41-44).                                 *)
THEOREM CompileTheorem == Spec => []CompileOnce
<1>1. IInv => CompileOnce
  <2> SUFFICES ASSUME IInv, NEW m \in Nodes, NEW n \in Nodes, NEW j \in Tasks, NEW k \in Tasks,
                      task[m][j] = "compiling", task[n][k] = "compiling"
               PROVE  m = n /\ j = k
    BY DEF CompileOnce
  <2>1. InOrder(m, j) /\ InOrder(n, k)
    BY DEF IInv, NodeInv
  <2>2. m = n
    BY <2>1 DEF InOrder
  <2>3. ~(j < k) /\ ~(k < j)
    BY <2>1, <2>2 DEF InOrder
  <2>4. QED
    BY <2>2, <2>3
<1>2. QED
  BY <1>1, Invariance, PTL

-----------------------------------------------------------------------------
(* Cleaning up: what a node has deployed it knows how to delete, and only  *)
(* a process that is killed does not come to it.                           *)
Asking(n) ==
  /\ pc[n] = "load" => spec[n] = "suite"
  /\ pc[n] \in {"deploy", "deploying", "info", "dump", "body", "idle"} => conf[n]
  /\ pc[n] = "delete" => conf[n] \/ made[n] = 0
  /\ pc[n] \in {"passed", "failed"} /\ made[n] > 0 => asked[n]

LEMMA FailAsking ==
  ASSUME IInv, NEW n \in Nodes, Asking(n), Fail(n),
         pc[n] \in {"load", "deploying", "info", "dump", "body"}
  PROVE  Asking(n)'
<1>1. Commands(n) /\ FirstAlone(n)
  BY DEF IInv, NodeInv
<1>2. /\ pc'[n] \in {"delete", "deploy", "idle"} /\ (pc'[n] # "delete" => spec[n] # "suite")
      /\ UNCHANGED <<conf, made>>
  BY DEF Fail, IInv, TypeOK
<1>3. QED
  BY <1>1, <1>2 DEF Asking, Commands, FirstAlone

LEMMA NodeAsking ==
  ASSUME IInv, NEW n \in Nodes, Asking(n), NodeStep(n)
  PROVE  Asking(n)'
<1>1. Commands(n)
  BY DEF IInv, NodeInv
<1>2. CASE n = First /\ LoadConfig
  <2>1. CASE Fail(n)
    BY <1>2, <2>1, FailAsking DEF LoadConfig
  <2>2. CASE ~Fail(n)
    BY <1>2, <2>2 DEF LoadConfig, Asking, IInv, TypeOK
  <2>3. QED
    BY <2>1, <2>2
<1>3. CASE Receive(n)
  BY <1>1, <1>3 DEF Receive, Asking, Commands, IInv, TypeOK
<1>4. CASE TakeSpec(n)
  BY <1>4 DEF TakeSpec, Asking, IInv, TypeOK
<1>5. CASE Deploy(n)
  BY <1>5 DEF Deploy, Asking, IInv, TypeOK
<1>6. CASE Deployed(n) \/ BuildInfo(n) \/ DumpConfig(n) \/ BodyEnds(n)
  <2>1. CASE Fail(n)
    BY <1>6, <2>1, FailAsking DEF Deployed, BuildInfo, DumpConfig, BodyEnds
  <2>2. CASE ~Fail(n)
    <3>1. /\ pc[n] \in {"deploying", "info", "dump", "body"} /\ conf' = conf
          /\ pc'[n] \in {"info", "dump", "body", "idle"}
      BY <1>6, <2>2 DEF Deployed, BuildInfo, DumpConfig, BodyEnds, Proceed, IInv, TypeOK
    <3>2. QED
      BY <3>1 DEF Asking
  <2>3. QED
    BY <2>1, <2>2
<1>7. CASE Delete(n)
  <2>1. CASE conf[n]
    BY <1>7, <2>1 DEF Delete, Asking, IInv, TypeOK
  <2>2. CASE ~conf[n]
    BY <1>7, <2>2 DEF Delete, End, Asking, IInv, TypeOK
  <2>3. QED
    BY <2>1, <2>2
<1>8. CASE Deleted(n)
  BY <1>1, <1>8 DEF Deleted, End, Asking, Commands, IInv, TypeOK
<1>9. QED
  BY <1>2, <1>3, <1>4, <1>5, <1>6, <1>7, <1>8 DEF NodeStep

(* What a node's own steps do to the others, as far as they clean up.      *)
LEMMA OthersAsking ==
  ASSUME IInv, NEW n \in Nodes, NodeStep(n) \/ DrainEnds(n), NEW m \in Nodes, m # n
  PROVE  /\ pc'[m] = pc[m] /\ spec'[m] = spec[m] /\ conf'[m] = conf[m]
         /\ made'[m] = made[m] /\ asked'[m] = asked[m]
<1> USE DEF IInv, TypeOK
<1>1. CASE n = First /\ LoadConfig
  BY <1>1 DEF LoadConfig, Fail
<1>2. CASE Receive(n) \/ TakeSpec(n) \/ DrainEnds(n)
  BY <1>2 DEF Receive, TakeSpec, DrainEnds, End
<1>3. CASE Deploy(n) \/ Delete(n) \/ Deleted(n)
  BY <1>3 DEF Deploy, StartBosh, Delete, Deleted, End
<1>4. CASE Deployed(n) \/ BuildInfo(n) \/ DumpConfig(n) \/ BodyEnds(n)
  BY <1>4 DEF Deployed, BuildInfo, DumpConfig, BodyEnds, Proceed, Fail
<1>5. QED
  BY <1>1, <1>2, <1>3, <1>4 DEF NodeStep

LEMMA AskingStep ==
  IInv /\ (\A n \in Nodes : Asking(n)) /\ [Next]_vars => (\A n \in Nodes : Asking(n))'
<1> SUFFICES ASSUME IInv, \A n \in Nodes : Asking(n), [Next]_vars, NEW m \in Nodes
             PROVE  Asking(m)'
  OBVIOUS
<1>1. CASE \E n \in Nodes : NodeStep(n)
  <2>1. PICK n \in Nodes : NodeStep(n)
    BY <1>1
  <2>2. CASE m = n
    BY <2>1, <2>2, NodeAsking
  <2>3. CASE m # n
    BY <2>1, <2>3, OthersAsking DEF Asking
  <2>4. QED
    BY <2>2, <2>3
<1>2. CASE \E n \in Nodes : DrainEnds(n)
  BY <1>2 DEF DrainEnds, End, Asking, IInv, TypeOK
<1>3. CASE (\E n \in Nodes : Drain(n) \/ CliEnds(n))
             \/ (\E n \in Nodes, k \in Tasks : Director(n, k)) \/ UNCHANGED vars
  <2>1. UNCHANGED <<pc, spec, conf, made, asked>>
    BY <1>3 DEF Drain, CliEnds, Director, Begin, Refuse, Compile, Apply, Succeed, FailTask, vars
  <2>2. QED
    BY <2>1 DEF Asking
<1>4. QED
  BY <1>1, <1>2, <1>3 DEF Next

(* A node that is over and has deployed has asked for the deletion, or its *)
(* process was killed (acceptance_tests_suite_test.go, SynchronizedAfter-  *)
(* Suite runs on every node, whatever has failed).                         *)
OnlyCrashesLeave == \A n \in Nodes :
  pc[n] \in Over /\ made[n] > 0 /\ ~asked[n] => pc[n] = "crashed"
THEOREM LeaveTheorem == Spec => []OnlyCrashesLeave
<1>1. Init => \A n \in Nodes : Asking(n)
  BY DEF Init, Asking
<1>2. (\A n \in Nodes : Asking(n)) => OnlyCrashesLeave
  BY DEF Asking, OnlyCrashesLeave
<1>3. QED
  BY <1>1, <1>2, AskingStep, Invariance, PTL DEF Spec

(* And it is the goroutines of drainHAProxy that kill it: where no spec    *)
(* drains, every node cleans up.                                           *)
THEOREM CleansUpTheorem ==
  ASSUME MaxDrains = 0
  PROVE  Spec => []CleansUp
<1> DEFINE Whole == \A n \in Nodes : pc[n] # "crashed"
<1>1. Init => Whole
  BY DEF Init
<1>2. IInv /\ Whole /\ [Next]_vars => Whole'
  <2> SUFFICES ASSUME IInv, Whole, [Next]_vars, NEW m \in Nodes PROVE pc'[m] # "crashed"
    OBVIOUS
  <2> USE DEF IInv, TypeOK
  <2>1. ASSUME NEW n \in Nodes, NodeStep(n) PROVE pc'[m] # "crashed"
    <3>1. CASE m # n
      BY <2>1, <3>1, OthersAsking
    <3>2. CASE m = n /\ n = First /\ LoadConfig
      BY <3>2 DEF LoadConfig, Fail
    <3>3. CASE m = n /\ (Receive(n) \/ TakeSpec(n) \/ Deploy(n) \/ Delete(n) \/ Deleted(n))
      BY <3>3 DEF Receive, TakeSpec, Deploy, Delete, Deleted, End
    <3>4. CASE m = n /\ (Deployed(n) \/ BuildInfo(n) \/ DumpConfig(n) \/ BodyEnds(n))
      BY <3>4 DEF Deployed, BuildInfo, DumpConfig, BodyEnds, Proceed, Fail
    <3>5. QED
      BY <2>1, <3>1, <3>2, <3>3, <3>4 DEF NodeStep
  <2>2. \A n \in Nodes : ~DrainEnds(n)
    BY DEF DrainEnds
  <2>3. CASE (\E n \in Nodes : Drain(n) \/ CliEnds(n))
               \/ (\E n \in Nodes, k \in Tasks : Director(n, k)) \/ UNCHANGED vars
    BY <2>3 DEF Drain, CliEnds, Director, Begin, Refuse, Compile, Apply, Succeed, FailTask, vars
  <2>4. QED
    BY <2>1, <2>2, <2>3 DEF Next
<1>3. Whole /\ OnlyCrashesLeave => CleansUp
  BY DEF OnlyCrashesLeave, CleansUp
<1>4. QED
  BY <1>1, <1>2, <1>3, Invariance, LeaveTheorem, PTL DEF Spec

-----------------------------------------------------------------------------
(* Why a run ends.  Of all its steps a node has fewer and fewer to go:     *)
(* each deployment it may still start is worth ten, and each place on the  *)
(* way is nearer to the end than the one before.                           *)
Place(n) ==
  CASE pc[n] \in {"load", "wait"} -> 9
    [] pc[n] = "deploying" -> 8
    [] pc[n] = "info" -> 7
    [] pc[n] = "dump" -> 6
    [] pc[n] = "body" -> 5
    [] pc[n] = "idle" -> 4
    [] pc[n] = "deploy" -> 3
    [] pc[n] = "delete" -> 2
    [] pc[n] = "deleting" -> 1
    [] OTHER -> 0
Left(n) == 10 * (MaxDeploys + 1 - made[n]) + Place(n)

LEMMA LeftNat == TypeOK => \A n \in Nodes : Left(n) \in Nat
<1> SUFFICES ASSUME TypeOK, NEW n \in Nodes PROVE Left(n) \in Nat
  OBVIOUS
<1>1. Place(n) \in 0..9
  BY DEF Place, TypeOK
<1>2. made[n] \in 0..(MaxDeploys + 1)
  BY DEF TypeOK
<1>3. QED
  BY <1>1, <1>2 DEF Left

LEMMA FailLeft ==
  ASSUME TypeOK, NEW n \in Nodes, Fail(n),
         pc[n] \in {"load", "deploying", "info", "dump", "body"}
  PROVE  Left(n)' < Left(n)
<1>1. pc'[n] \in {"delete", "deploy", "idle"} /\ made'[n] = made[n]
  BY DEF Fail, TypeOK
<1>2. Place(n)' \in 2..4 /\ Place(n) \in 5..9
  BY <1>1 DEF Place
<1>3. made[n] \in Nat
  BY DEF TypeOK
<1>4. QED
  BY <1>1, <1>2, <1>3 DEF Left

LEMMA NodeLeft ==
  ASSUME TypeOK, NEW n \in Nodes, NodeStep(n)
  PROVE  Left(n)' < Left(n)
<1>0. made[n] \in Nat /\ pc \in [Nodes -> Pcs] /\ made \in [Nodes -> 0..(MaxDeploys + 1)]
  BY DEF TypeOK
<1>1. CASE n = First /\ LoadConfig
  <2>1. CASE Fail(n)
    BY <1>1, <2>1, FailLeft DEF LoadConfig
  <2>2. CASE ~Fail(n)
    BY <1>0, <1>1, <2>2 DEF LoadConfig, Left, Place
  <2>3. QED
    BY <2>1, <2>2
<1>2. CASE Receive(n) \/ TakeSpec(n)
  <2>1. \/ pc[n] = "wait" /\ pc'[n] \in {"idle", "delete"}
        \/ pc[n] = "idle" /\ pc'[n] \in {"deploy", "delete"}
    BY <1>0, <1>2 DEF Receive, TakeSpec
  <2>2. Place(n)' < Place(n) /\ Place(n) \in Nat /\ Place(n)' \in Nat
    BY <2>1 DEF Place
  <2>3. made' = made
    BY <1>2 DEF Receive, TakeSpec
  <2>4. QED
    BY <1>0, <2>2, <2>3 DEF Left
<1>3. CASE Deploy(n)
  <2>1. pc[n] = "deploy" /\ pc'[n] = "deploying" /\ made'[n] = made[n] + 1
    BY <1>0, <1>3 DEF Deploy, StartBosh
  <2>2. QED
    BY <1>0, <2>1 DEF Left, Place
<1>4. CASE Deployed(n) \/ BuildInfo(n) \/ DumpConfig(n) \/ BodyEnds(n)
  <2>1. CASE Fail(n)
    BY <1>4, <2>1, FailLeft DEF Deployed, BuildInfo, DumpConfig, BodyEnds
  <2>2. CASE ~Fail(n)
    <3>1. /\ \/ pc[n] = "deploying" /\ pc'[n] = "info"
             \/ pc[n] = "info" /\ pc'[n] = "dump"
             \/ pc[n] = "dump" /\ pc'[n] \in {"idle", "body"}
             \/ pc[n] = "body" /\ pc'[n] = "idle"
          /\ made' = made
      BY <1>0, <1>4, <2>2 DEF Deployed, BuildInfo, DumpConfig, BodyEnds, Proceed
    <3>2. Place(n)' < Place(n) /\ Place(n) \in Nat /\ Place(n)' \in Nat
      BY <3>1 DEF Place
    <3>3. QED
      BY <1>0, <3>1, <3>2 DEF Left
  <2>3. QED
    BY <2>1, <2>2
<1>5. CASE Delete(n)
  <2>1. CASE conf[n]
    <3>1. pc[n] = "delete" /\ pc'[n] = "deleting" /\ made'[n] = made[n] + 1
      BY <1>0, <1>5, <2>1 DEF Delete, StartBosh
    <3>2. QED
      BY <1>0, <3>1 DEF Left, Place
  <2>2. CASE ~conf[n]
    <3>1. pc[n] = "delete" /\ pc'[n] = "failed" /\ made' = made
      BY <1>0, <1>5, <2>2 DEF Delete, End
    <3>2. QED
      BY <1>0, <3>1 DEF Left, Place
  <2>3. QED
    BY <2>1, <2>2
<1>6. CASE Deleted(n)
  <2>1. pc[n] = "deleting" /\ pc'[n] \in {"passed", "failed"} /\ made' = made
    BY <1>0, <1>6 DEF Deleted, End
  <2>2. QED
    BY <1>0, <2>1 DEF Left, Place
<1>7. QED
  BY <1>1, <1>2, <1>3, <1>4, <1>5, <1>6 DEF NodeStep

(* No step of anybody makes a node's way longer, and each of its own makes *)
(* it shorter: no retry, flake attempt or failed deployment repeats for    *)
(* ever (bosh_helpers.go:146-168, acceptance_tests_suite_test.go).         *)
Nearer == [][\A n \in Nodes :
  /\ Left(n) \in Nat /\ Left(n)' <= Left(n)
  /\ NodeStep(n) => Left(n)' < Left(n)]_vars
THEOREM NearerTheorem == Spec => Nearer
<1>1. (TypeOK => \A n \in Nodes : Left(n) \in Nat)'
  BY LeftNat, PTL
<1>2. IInv /\ IInv' /\ [Next]_vars =>
        [\A n \in Nodes : /\ Left(n) \in Nat /\ Left(n)' <= Left(n)
                          /\ NodeStep(n) => Left(n)' < Left(n)]_vars
  <2> SUFFICES ASSUME IInv, IInv', Next, NEW m \in Nodes
               PROVE  /\ Left(m) \in Nat /\ Left(m)' <= Left(m)
                      /\ NodeStep(m) => Left(m)' < Left(m)
    BY DEF vars
  <2>1. Left(m) \in Nat /\ Left(m)' \in Nat
    BY <1>1, LeftNat DEF IInv
  <2>2. NodeStep(m) => Left(m)' < Left(m)
    BY NodeLeft DEF IInv
  <2>3. ASSUME pc'[m] = pc[m], made'[m] = made[m] PROVE Left(m)' <= Left(m)
    <3>1. Place(m)' = Place(m)
      BY <2>3 DEF Place
    <3>2. Left(m)' = Left(m)
      BY <2>3, <3>1 DEF Left
    <3>3. QED
      BY <2>1, <3>2
  <2>4. ASSUME NEW n \in Nodes, NodeStep(n) PROVE Left(m)' <= Left(m)
    BY <2>1, <2>2, <2>3, <2>4, OthersAsking
  <2>5. ASSUME NEW n \in Nodes, DrainEnds(n) PROVE Left(m)' <= Left(m)
    <3>1. made'[m] = made[m] /\ (pc'[m] = pc[m] \/ pc'[m] = "crashed")
      BY <2>5 DEF DrainEnds, End, IInv, TypeOK
    <3>2. CASE pc'[m] = "crashed"
      <4>1. Place(m)' = 0 /\ Place(m) \in Nat
        BY <3>2 DEF Place
      <4>2. made[m] \in Nat
        BY DEF IInv, TypeOK
      <4>3. QED
        BY <3>1, <4>1, <4>2 DEF Left
    <3>3. QED
      BY <2>1, <2>3, <3>1, <3>2
  <2>6. ASSUME \/ \E n \in Nodes : Drain(n) \/ CliEnds(n)
               \/ \E n \in Nodes, k \in Tasks : Director(n, k)
        PROVE  Left(m)' <= Left(m)
    <3>1. UNCHANGED <<pc, made>>
      BY <2>6 DEF Drain, CliEnds, Director, Begin, Refuse, Compile, Apply, Succeed, FailTask
    <3>2. QED
      BY <2>1, <2>3, <3>1
  <2>7. Left(m)' <= Left(m)
    BY <2>4, <2>5, <2>6 DEF Next
  <2>8. QED
    BY <2>1, <2>2, <2>7
<1>3. QED
  BY <1>2, Invariance, PTL DEF Spec, Nearer

(* No node waits for one that does nothing: while the configuration is     *)
(* awaited, the first node is on its way to send it or to fail, and no     *)
(* goroutine is there to kill it (SynchronizedBeforeSuite).                *)
FirstWorks == shared = "nothing" =>
  pc[First] \in {"load", "deploy", "deploying", "info", "dump"} /\ drains[First] = 0

LEMMA FirstStep == IInv /\ FirstWorks /\ [Next]_vars => FirstWorks'
<1> SUFFICES ASSUME IInv, FirstWorks, [Next]_vars, shared' = "nothing"
             PROVE  FirstWorks'
  BY DEF FirstWorks
<1>1. shared = "nothing"
  BY DEF Next, NodeStep, LoadConfig, Receive, TakeSpec, Deploy, Deployed, BuildInfo, DumpConfig,
    BodyEnds, Delete, Deleted, Drain, DrainEnds, CliEnds, Director, Begin, Refuse, Compile,
    Apply, Succeed, FailTask, Proceed, Fail, End, vars, IInv, TypeOK
<1>2. /\ pc[First] \in {"load", "deploy", "deploying", "info", "dump"} /\ drains[First] = 0
      /\ spec[First] = "suite"
  BY <1>1 DEF FirstWorks, IInv, NodeInv, FirstAlone
<1> USE DEF IInv, TypeOK
<1>3. ASSUME NEW n \in Nodes, NodeStep(n) PROVE FirstWorks'
  <2>1. drains'[First] = drains[First] \/ drains'[First] = 0
    BY <1>3 DEF NodeStep, LoadConfig, Receive, TakeSpec, Deploy, Deployed, BuildInfo, DumpConfig,
      BodyEnds, Delete, Deleted, Proceed, Fail, End
  <2>2. CASE n # First
    BY <1>2, <1>3, <2>1, <2>2, OthersAsking DEF FirstWorks
  <2>3. CASE n = First
    <3>1. ~Fail(First) /\ ~(spec[First] = "suite" /\ Proceed(First))
      BY <1>2 DEF Fail, Proceed
    <3>2. pc'[First] \in {"deploy", "deploying", "info", "dump"}
      BY <1>2, <1>3, <2>3, <3>1 DEF NodeStep, LoadConfig, Receive, TakeSpec, Deploy, Deployed,
        BuildInfo, DumpConfig, BodyEnds, Delete, Deleted
    <3>3. QED
      BY <1>2, <2>1, <3>2 DEF FirstWorks
  <2>4. QED
    BY <2>2, <2>3
<1>4. ASSUME NEW n \in Nodes, Drain(n) \/ DrainEnds(n) PROVE FirstWorks'
  BY <1>2, <1>4 DEF Drain, DrainEnds, End, FirstWorks
<1>5. CASE (\E n \in Nodes : CliEnds(n))
             \/ (\E n \in Nodes, k \in Tasks : Director(n, k)) \/ UNCHANGED vars
  <2>1. UNCHANGED <<pc, drains>>
    BY <1>5 DEF CliEnds, Director, Begin, Refuse, Compile, Apply, Succeed, FailTask, vars
  <2>2. QED
    BY <1>2, <2>1 DEF FirstWorks
<1>6. QED
  BY <1>3, <1>4, <1>5 DEF Next

(* So of the nodes that are not over, some are not waiting.                *)
SomebodyMoves ==
  (\E n \in Nodes : pc[n] \notin Over) =>
    \E n \in Nodes : pc[n] \notin Over /\ (pc[n] = "wait" => shared # "nothing")
THEOREM MovesTheorem == Spec => []SomebodyMoves
<1>1. Init => FirstWorks
  BY DEF Init, FirstWorks
<1>2. FirstWorks => SomebodyMoves
  BY DEF FirstWorks, SomebodyMoves
<1>3. QED
  BY <1>1, <1>2, FirstStep, Invariance, PTL DEF Spec
=============================================================================
