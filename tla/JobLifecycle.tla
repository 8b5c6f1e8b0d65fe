---------------------------- MODULE JobLifecycle ----------------------------
(***************************************************************************)
(* The life cycle of the haproxy job on one BOSH VM: the wrapper script    *)
(* that bpm runs as the container's main program, the HAProxy master it    *)
(* starts, the drain and reload scripts that act on both from the outside, *)
(* and monit, bpm and the BOSH agent, which start and stop the container.  *)
(*                                                                         *)
(* The processes share the run directory (drain.lock, stats.sock) and      *)
(* signals; nothing else orders them.  One incarnation is one life of the  *)
(* container.  HAProxy's master keeps its pid over reloads, so the pid a   *)
(* script has looked up is good until the incarnation ends (`held` and     *)
(* `reloading` are the scripts whose pids are still good); a later process *)
(* that by chance has the same pid is not modelled.                        *)
(***************************************************************************)
EXTENDS Naturals

CONSTANTS
  Drains,       \* the possible concurrent runs of the drain script
  Agent,        \* the one of them (if any) that the BOSH agent starts
  Foreground,   \* for the manifests the job is started with: syslog_server is
                \* stdout or stderr, so that it is haproxy -db | cat -
  DrainEnable,  \* ha_proxy.drain_enable
  HealthCheck,  \* ha_proxy.enable_health_check_http
  ExtCrtList,   \* ha_proxy.ext_crt_list
  ExtTimeout,   \* ha_proxy.ext_crt_list_timeout, in sleeps of one second
  Policy,       \* ha_proxy.ext_crt_list_policy
  Crashes,      \* HAProxy may crash, or fail to start
  Reloads       \* somebody runs bin/reload

ASSUME FlagsAssumption ==
  /\ Foreground \subseteq BOOLEAN /\ Foreground # {}
  /\ {DrainEnable, HealthCheck, ExtCrtList, Crashes, Reloads} \subseteq BOOLEAN
ASSUME ExtAssumption == ExtTimeout \in Nat /\ Policy \in {"fail", "continue"}

VARIABLES
  box,        \* the bpm container: down, up, stopping (TERM was sent), or overdue
  monitored,  \* monit watches the job
  wpc,        \* where the wrapper script is
  handler,    \* the wrapper is inside reload_daemon, its USR2 trap
  retries,    \* `retries` of update_certs
  doomed,     \* a USR2 killed a command of the wrapper that it still waits for
  master,     \* the HAProxy master of this incarnation
  health,     \* the health check frontends of its current worker listen
  lock,       \* drain.lock exists
  ext,        \* the external crt-list file exists
  dpc,        \* where each drain script is
  held,       \* the drain scripts whose master pid is this incarnation's
  reloading   \* bin/reload has found this incarnation's pids, and not yet signalled

certVars == <<handler, retries>>
wrapperVars == <<box, wpc, handler, retries, doomed>>
haproxyVars == <<master, health>>
scriptVars == <<dpc, held, reloading>>
vars == <<box, monitored, wpc, handler, retries, doomed, master, health, lock,
          ext, dpc, held, reloading>>

WrapperPc == {"down", "certs", "nap", "cleanup", "start", "pipe", "loop", "relay", "await"}
DrainPc == {"idle", "lookup", "disable", "grace", "kill", "wait", "done", "failed"}

TypeOK ==
  /\ box \in {"down", "up", "stopping", "overdue"}
  /\ monitored \in BOOLEAN
  /\ wpc \in WrapperPc
  /\ handler \in BOOLEAN
  /\ retries \in Nat /\ (retries <= 1 \/ retries <= ExtTimeout)
  /\ doomed \in BOOLEAN
  /\ master \in {"none", "up", "draining", "drained", "crashed"}
  /\ health \in BOOLEAN
  /\ lock \in BOOLEAN
  /\ ext \in BOOLEAN
  /\ dpc \in [Drains -> DrainPc]
  /\ held \in SUBSET Drains
  /\ reloading \in BOOLEAN

Alive == master \in {"up", "draining"}

Init ==
  /\ box = "down" /\ monitored = TRUE
  /\ wpc = "down" /\ handler = FALSE /\ retries = 0 /\ doomed = FALSE
  /\ master = "none" /\ health = FALSE
  /\ lock = FALSE
  /\ ext \in BOOLEAN
  /\ dpc = [d \in Drains |-> "idle"] /\ held = {}
  /\ reloading = FALSE

-----------------------------------------------------------------------------
(* The wrapper script.  Its exit ends the container's init, and with it    *)
(* every process of the incarnation: HAProxy is killed where it stands.    *)

Exit ==
  /\ box' = "down"
  /\ wpc' = "down" /\ handler' = FALSE /\ retries' = 0 /\ doomed' = FALSE
  /\ master' = "none" /\ health' = FALSE
  /\ held' = {} /\ reloading' = FALSE
  /\ UNCHANGED <<monitored, ext, dpc>>

(* monit: the pid of the pidfile is gone, so `bpm start haproxy`.          *)
MonitStart ==
  /\ monitored /\ box = "down"
  /\ box' = "up" /\ wpc' = "certs" /\ retries' = 1
  /\ UNCHANGED <<monitored, handler, doomed, lock, ext, haproxyVars, scriptVars>>

(* update_certs, at start or inside reload_daemon: the loop waits for the  *)
(* external crt-list one nap at a time.  The file is looked for before a   *)
(* nap only, so one that appears during the last nap is not seen.          *)
CertsDone == wpc' = IF handler THEN "relay" ELSE "cleanup"

CertsFound ==
  /\ wpc = "certs" /\ (ExtCrtList => ext)
  /\ CertsDone
  /\ UNCHANGED <<box, monitored, doomed, lock, ext, certVars, haproxyVars, scriptVars>>

CertsMissing ==
  /\ wpc = "certs" /\ ExtCrtList /\ ~ext
  /\ wpc' = "nap"
  /\ UNCHANGED <<box, monitored, doomed, lock, ext, certVars, haproxyVars, scriptVars>>

CertsRetryOnceMore ==   \* slip: -gt for -ge
  /\ wpc = "nap" /\ retries <= ExtTimeout
  /\ wpc' = "certs" /\ retries' = retries + 1
  /\ UNCHANGED <<box, monitored, handler, doomed, lock, ext, haproxyVars, scriptVars>>

CertsRetry ==
  /\ wpc = "nap" /\ retries < ExtTimeout
  /\ wpc' = "certs" /\ retries' = retries + 1
  /\ UNCHANGED <<box, monitored, handler, doomed, lock, ext, haproxyVars, scriptVars>>

CertsGiveUp ==
  /\ wpc = "nap" /\ retries >= ExtTimeout
  /\ \/ /\ Policy = "fail"        \* cleanup_daemon; exit 1
        /\ Exit
        /\ lock' = FALSE
     \/ /\ Policy = "continue"
        /\ CertsDone
        /\ UNCHANGED <<box, monitored, doomed, lock, ext, certVars, haproxyVars, scriptVars>>

CleanupKeepsLock ==   \* slip: only the pidfile is removed
  /\ wpc = "cleanup"
  /\ wpc' = "start"
  /\ UNCHANGED <<box, monitored, doomed, lock, ext, certVars, haproxyVars, scriptVars>>

(* cleanup_daemon: the run directory is emptied.  The master a left over   *)
(* haproxy.pid names died with its incarnation, so pkill finds nothing.    *)
Cleanup ==
  /\ wpc = "cleanup"
  /\ wpc' = "start" /\ lock' = FALSE
  /\ UNCHANGED <<box, monitored, doomed, ext, certVars, haproxyVars, scriptVars>>

(* The traps are set and HAProxy is started, as a daemon or in a pipeline  *)
(* that the wrapper waits for.                                             *)
Start ==
  /\ wpc = "start"
  /\ \E foreground \in Foreground : wpc' = IF foreground THEN "pipe" ELSE "loop"
  /\ master' = "up" /\ health' = HealthCheck
  /\ UNCHANGED <<box, monitored, doomed, lock, ext, certVars, scriptVars>>

StartFails ==
  /\ Crashes /\ wpc = "start"
  /\ Exit
  /\ UNCHANGED lock

EnterHandler == wpc' = "certs" /\ handler' = TRUE /\ retries' = 1

(* Foreground: the pipeline is over when HAProxy is.  A reload has left a  *)
(* USR2 pending, whose trap now runs; its kill finds no master.            *)
PipeEnds ==
  /\ wpc = "pipe" /\ ~Alive
  /\ IF doomed THEN EnterHandler ELSE wpc' = "loop" /\ UNCHANGED certVars
  /\ UNCHANGED <<box, monitored, doomed, lock, ext, haproxyVars, scriptVars>>

LoopEndsWithHaproxy ==   \* slip: the main loop does not look at the lock
  /\ wpc = "loop" /\ ~Alive
  /\ Exit
  /\ UNCHANGED lock

(* The main loop waits while the lock exists or the master lives.          *)
LoopEnds ==
  /\ wpc = "loop" /\ ~lock /\ ~Alive
  /\ Exit
  /\ UNCHANGED lock

(* HAProxy re-executes its master.  The new worker opens every frontend    *)
(* again; a master that cannot load its configuration keeps the old one.   *)
(* A master that is draining may carry on serving with the new worker.     *)
HaproxyReload ==
  \/ master = "up" /\ master' = "up" /\ health' \in {health, HealthCheck}
  \/ master = "draining" /\ master' = "up" /\ health' = HealthCheck
  \/ master = "draining" /\ UNCHANGED haproxyVars

(* reload_daemon after update_certs: pass the signal on; a master that is  *)
(* gone makes kill fail, and set -e ends the script.                       *)
Relay ==
  /\ wpc = "relay"
  /\ \/ /\ Alive
        /\ HaproxyReload
        /\ wpc' = "await"
        /\ UNCHANGED <<box, monitored, doomed, lock, ext, certVars, scriptVars>>
     \/ /\ ~Alive
        /\ Exit
        /\ UNCHANGED lock

AwaitEndsAtOnce ==   \* slip: reload_daemon does not wait for the master
  /\ wpc = "await"
  /\ \/ /\ doomed
        /\ Exit
        /\ UNCHANGED lock
     \/ /\ ~doomed
        /\ wpc' = "loop" /\ handler' = FALSE
        /\ UNCHANGED <<box, monitored, retries, doomed, lock, ext, haproxyVars, scriptVars>>

(* reload_daemon returns when the master is gone, to a command that the    *)
(* signal may have killed: set -e then ends the script.                    *)
AwaitEnds ==
  /\ wpc = "await" /\ ~Alive
  /\ \/ /\ doomed
        /\ Exit
        /\ UNCHANGED lock
     \/ /\ ~doomed
        /\ wpc' = "loop" /\ handler' = FALSE
        /\ UNCHANGED <<box, monitored, retries, doomed, lock, ext, haproxyVars, scriptVars>>

(* TERM from bpm: the trap names a function that does not exist, so set -e *)
(* ends the script; but bash runs it only when the foreground command is   *)
(* over, which for the pipeline is when HAProxy is gone.                   *)
TermExit ==
  /\ box = "stopping" /\ ~(wpc = "pipe" /\ Alive)
  /\ Exit
  /\ UNCHANGED lock

WrapperStep ==
  CertsFound \/ CertsMissing \/ CertsRetry \/ CertsGiveUp \/ Cleanup
    \/ PipeEnds \/ LoopEnds \/ Relay \/ AwaitEnds

-----------------------------------------------------------------------------
(* bin/reload: find the wrapper and the master, then signal the wrapper's  *)
(* process group, that is the wrapper, the command it waits for and, in    *)
(* the foreground, HAProxy and cat.                                        *)

ReloadLookupBlindly ==   \* slip: an empty pgrep does not stop the script
  /\ Reloads /\ ~reloading /\ box # "down"
  /\ reloading' = TRUE
  /\ UNCHANGED <<monitored, lock, ext, dpc, held, wrapperVars, haproxyVars>>

ReloadLookup ==
  /\ Reloads /\ ~reloading /\ Alive
  /\ reloading' = TRUE
  /\ UNCHANGED <<monitored, lock, ext, dpc, held, wrapperVars, haproxyVars>>

(* The wrapper runs its trap, on top of a trap it may already be in.  The  *)
(* command the signal interrupts is a sleep that dies of it, or there is   *)
(* none; what is interrupted before its own kill -USR2 will find no master *)
(* to signal, since the inner trap only returns when the master is gone.   *)
SignalScript ==
  /\ wpc # "pipe"
  /\ doomed' \in IF wpc \in {"loop", "await"} THEN {doomed, TRUE} ELSE {TRUE}
  /\ EnterHandler
  /\ UNCHANGED haproxyVars

(* The wrapper's trap has to wait for the pipeline; HAProxy gets the       *)
(* signal itself, and cat dies of it.                                      *)
SignalPipeline ==
  /\ wpc = "pipe"
  /\ doomed' = TRUE
  /\ \/ HaproxyReload
     \/ ~Alive /\ UNCHANGED haproxyVars
  /\ UNCHANGED <<wpc, certVars>>

ReloadSignal ==
  /\ reloading /\ reloading' = FALSE
  /\ SignalScript \/ SignalPipeline
  /\ UNCHANGED <<box, monitored, lock, ext, dpc, held>>

-----------------------------------------------------------------------------
(* The drain script.                                                       *)

Goto(d, pc) == dpc' = [dpc EXCEPT ![d] = pc]

DrainBeginMonitored(d) ==   \* slip: the job stays monitored
  /\ dpc[d] = "idle"
  /\ Goto(d, IF ~DrainEnable \/ lock THEN "done" ELSE "lookup")
  /\ UNCHANGED <<monitored, lock, ext, held, reloading, wrapperVars, haproxyVars>>

(* The BOSH agent unmonitors the job before it drains it; an operator who  *)
(* runs the script does not.                                               *)
DrainBegin(d) ==
  /\ dpc[d] = "idle"
  /\ Goto(d, IF ~DrainEnable \/ lock THEN "done" ELSE "lookup")
  /\ monitored' = (monitored /\ d # Agent)
  /\ UNCHANGED <<lock, ext, held, reloading, wrapperVars, haproxyVars>>

(* No container: nothing to drain.  A container without a master: pgrep    *)
(* finds none, and set -e ends the script with an error.                   *)
DrainLookup(d) ==
  /\ dpc[d] = "lookup"
  /\ \/ box = "down" /\ Goto(d, "done") /\ UNCHANGED held
     \/ box # "down" /\ ~Alive /\ Goto(d, "failed") /\ UNCHANGED held
     \/ Alive /\ Goto(d, "disable") /\ held' = held \union {d}
  /\ UNCHANGED <<monitored, lock, ext, reloading, wrapperVars, haproxyVars>>

DrainDisableNothing(d) ==   \* slip: the health check is left on
  /\ dpc[d] = "disable"
  /\ Goto(d, "grace")
  /\ UNCHANGED <<monitored, lock, ext, held, reloading, wrapperVars, haproxyVars>>

(* Over stats.sock of whichever incarnation now listens there; a worker    *)
(* that is already stopping may have closed it.                            *)
DrainDisable(d) ==
  /\ dpc[d] = "disable"
  /\ \/ /\ HealthCheck => Alive
        /\ Goto(d, "grace")
        /\ health' = (health /\ ~HealthCheck)
     \/ /\ HealthCheck /\ master # "up"
        /\ Goto(d, "failed")
        /\ UNCHANGED health
  /\ UNCHANGED <<monitored, lock, ext, held, reloading, wrapperVars, master>>

DrainTouchNothing(d) ==   \* slip: the lock comes after the signal, if at all
  /\ dpc[d] = "grace"
  /\ Goto(d, "kill")
  /\ UNCHANGED <<monitored, lock, ext, held, reloading, wrapperVars, haproxyVars>>

(* After the grace period: touch drain.lock, then kill -USR1 the master.   *)
DrainTouch(d) ==
  /\ dpc[d] = "grace"
  /\ Goto(d, "kill") /\ lock' = TRUE
  /\ UNCHANGED <<monitored, ext, held, reloading, wrapperVars, haproxyVars>>

MasterOf(d) == d \in held /\ Alive

DrainKill(d) ==
  /\ dpc[d] = "kill"
  /\ \/ /\ MasterOf(d)
        /\ Goto(d, "wait") /\ master' = "draining" /\ health' = FALSE
     \/ /\ ~MasterOf(d)
        /\ Goto(d, "failed") /\ UNCHANGED haproxyVars
  /\ UNCHANGED <<monitored, lock, ext, held, reloading, wrapperVars>>

DrainWait(d) ==
  /\ dpc[d] = "wait" /\ ~MasterOf(d)
  /\ Goto(d, "done")
  /\ UNCHANGED <<monitored, lock, ext, held, reloading, wrapperVars, haproxyVars>>

DrainNeverTimesOut(d) ==   \* slip: drain_timeout is not honoured
  FALSE /\ UNCHANGED vars

DrainTimesOut(d) ==
  /\ dpc[d] = "wait" /\ MasterOf(d)
  /\ Goto(d, "done")
  /\ UNCHANGED <<monitored, lock, ext, held, reloading, wrapperVars, haproxyVars>>

(* An operator or the agent may run the script again.                      *)
DrainAgain(d) ==
  /\ dpc[d] = "failed" \/ (dpc[d] = "done" /\ d # Agent)
  /\ Goto(d, "idle") /\ held' = held \ {d}
  /\ UNCHANGED <<monitored, lock, ext, reloading, wrapperVars, haproxyVars>>

DrainStep(d) ==
  DrainLookup(d) \/ DrainDisable(d) \/ DrainTouch(d) \/ DrainKill(d)
    \/ DrainWait(d) \/ DrainTimesOut(d)

-----------------------------------------------------------------------------
(* The BOSH agent: `monit stop` when its drain has succeeded, then start.  *)

AgentDone == Agent \in Drains /\ dpc[Agent] = "done"

AgentStop ==
  /\ AgentDone /\ box = "up"
  /\ box' = "stopping"
  /\ UNCHANGED <<monitored, wpc, doomed, lock, ext, certVars, haproxyVars, scriptVars>>

AgentStart ==
  /\ AgentDone /\ box = "down"
  /\ Goto(Agent, "idle") /\ monitored' = TRUE /\ held' = held \ {Agent}
  /\ UNCHANGED <<lock, ext, reloading, wrapperVars, haproxyVars>>

(* bpm kills a container that has not gone some time after TERM.           *)
BpmTimeout ==
  /\ box = "stopping"
  /\ box' = "overdue"
  /\ UNCHANGED <<monitored, wpc, doomed, lock, ext, certVars, haproxyVars, scriptVars>>

BpmKill ==
  /\ box = "overdue"
  /\ Exit
  /\ UNCHANGED lock

(* HAProxy's own steps, and those of the external certificate service.     *)
HaproxyStops ==
  /\ master = "draining"
  /\ master' = "drained"
  /\ UNCHANGED <<monitored, health, lock, ext, wrapperVars, scriptVars>>

HaproxyCrashes ==
  /\ Crashes /\ master = "up"
  /\ master' = "crashed" /\ health' = FALSE
  /\ UNCHANGED <<monitored, lock, ext, wrapperVars, scriptVars>>

ExtChanges ==
  /\ ExtCrtList
  /\ ext' = ~ext
  /\ UNCHANGED <<monitored, lock, wrapperVars, haproxyVars, scriptVars>>

Next ==
  \/ MonitStart \/ WrapperStep \/ Start \/ StartFails \/ TermExit
  \/ ReloadLookup \/ ReloadSignal
  \/ \E d \in Drains : DrainBegin(d) \/ DrainStep(d) \/ DrainAgain(d)
  \/ AgentStop \/ AgentStart \/ BpmTimeout \/ BpmKill
  \/ HaproxyStops \/ HaproxyCrashes \/ ExtChanges

(* Scripts, monit and bpm run on; nobody has to drain or reload.  HAProxy  *)
(* need not finish draining, but one that is started over and over will    *)
(* come up in the end.                                                     *)
Fairness ==
  /\ WF_vars(WrapperStep) /\ WF_vars(MonitStart) /\ SF_vars(Start)
  /\ WF_vars(TermExit \/ BpmTimeout) /\ WF_vars(BpmKill)
  /\ \A d \in Drains : WF_vars(DrainStep(d))

Spec == Init /\ [][Next]_vars
FairSpec == Spec /\ Fairness
-----------------------------------------------------------------------------
(* Properties.                                                             *)

(* A drained incarnation keeps its lock as long as it lives: the lock is   *)
(* touched before the signal (drain.erb:76-77), and nothing but the next   *)
(* incarnation's clean up takes it away.  Without it the wrapper's main    *)
(* loop (haproxy_wrapper.erb:111) would end with HAProxy, and monit would  *)
(* start the job that has just been drained.                               *)
LockCoversDrain == master \in {"draining", "drained"} => lock

(* How the variables of an incarnation hang together; with the types and   *)
(* LockCoversDrain, this is inductive.  A script holds a pid only while    *)
(* there is a master, and a drain about to signal this incarnation has put *)
(* its lock where no clean up will remove it (drain.erb:40-77,             *)
(* haproxy_wrapper.erb:72-111).                                            *)
Starting ==
  wpc \in {"down", "cleanup", "start"} \/ (wpc \in {"certs", "nap"} /\ ~handler)

Coherent ==
  /\ box = "down" <=> wpc = "down"
  /\ master = "none" <=> Starting
  /\ handler => wpc \in {"certs", "nap", "relay", "await"}
  /\ wpc \in {"relay", "await"} => handler
  /\ wpc = "nap" => ExtCrtList
  /\ held # {} \/ reloading \/ doomed => master # "none"
  /\ reloading \/ handler \/ doomed => Reloads
  /\ \A d \in held : dpc[d] = "kill" => lock

(* The wrapper of a drained HAProxy does not exit unless it is asked to:   *)
(* monit would start HAProxy again (crash_test.go, "Does not restart if    *)
(* terminated by draining").                                               *)
DrainedStaysDown == [][box = "up" /\ box' = "down" => master # "drained"]_vars

(* The same of an incarnation whose last reload has come to its end in     *)
(* HAProxy, as reload_daemon waits for the master (haproxy_wrapper.erb:24) *)
(* before and while it is drained.                                         *)
DrainedStaysDownReloaded ==
  [][wpc = "await" /\ box = "up" /\ box' = "down" => master # "drained"]_vars

(* HAProxy stops accepting only after its health check has stopped, so     *)
(* that a load balancer has noticed (drain.erb:47-77; drain_test.go).      *)
HealthFirst == [][master = "up" /\ master' = "draining" => ~health]_vars

(* An incarnation that serves shows no trace of a drain, except while a    *)
(* drain of this very incarnation is on its way to signal it: a stale lock *)
(* makes the next drain a no-op (drain.erb:19-23) and the next crash       *)
(* final (haproxy_wrapper.erb:111), and a health check that stays off      *)
(* takes the VM out of its load balancer.                                  *)
ServesWhole ==
  master = "up" =>
    /\ lock => \E d \in held : dpc[d] = "kill"
    /\ HealthCheck /\ ~health => \E d \in held : dpc[d] \in {"grace", "kill"}

(* Why the agent's drains leave no trace: while one of them runs, the job  *)
(* is unmonitored, so the incarnation it has found is not replaced under   *)
(* it, and its lock is not touched between a clean up and a start          *)
(* (drain.erb:40-77, haproxy_wrapper.erb:79-108).                          *)
AgentHolds ==
  /\ \A d \in Drains : dpc[d] # "idle" => ~monitored
  /\ \A d \in Drains :
        dpc[d] \in {"disable", "grace", "kill"} /\ box # "down" => d \in held
  /\ wpc = "start" => ~lock

(* The container is not torn down under a live HAProxy unless bpm was      *)
(* asked to stop it: a reload drops no connection (docs/external_certs.md).*)
ReloadKeepsServing == [][box = "up" /\ Alive => box' # "down"]_vars

(* On TERM, the wrapper leaves no live HAProxy behind to be killed with    *)
(* the container ("ensure we shut down the daemonized process correctly on *)
(* exit", haproxy_wrapper.erb:81).                                         *)
TermStopsHaproxy == [][box = "stopping" /\ box' = "down" => ~Alive]_vars

(* A crashed HAProxy of a monitored job is up again in the end             *)
(* (crash_test.go, "Restarts if terminated by a crash").                   *)
CrashRestarts == monitored /\ master = "crashed" ~> master = "up" \/ ~monitored

(* The drain script always returns, whether or not HAProxy ever finishes.  *)
DrainReturns == \A d \in Drains : dpc[d] = "lookup" ~> dpc[d] \in {"done", "failed"}

(* The promise the job makes to monit and BOSH (JobPromise).               *)
Phase ==
  IF box = "down" THEN "stopped"
  ELSE CASE master = "none" -> "starting"
         [] master = "up"   -> "serving"
         [] OTHER           -> master
Disturbance ==
  IF handler /\ wpc \in {"certs", "nap"} THEN "updating"
  ELSE IF handler \/ doomed THEN "hit" ELSE "none"

Promise == INSTANCE JobPromise WITH
  MayReload <- Reloads, MayGiveUp <- ExtCrtList /\ Policy = "fail",
  phase <- Phase, disturbance <- Disturbance,
  order <- IF box \in {"stopping", "overdue"} THEN "stop" ELSE "none"

PromiseKept == Promise!Spec
=============================================================================
