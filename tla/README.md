# haproxy-boshrelease: a TLA+ verification project

Specifications, model checks and proofs for this BOSH release of HAProxy. The
reference is the source: the job templates that become shell scripts and an
HAProxy configuration on a VM, the scripts around them, and the programs of
the acceptance tests and the CI. `PROJECT.json` maps every definition to the
lines it stands for, and lists the runs, mutants, findings and theorems.

## The system

A BOSH deployment puts the `haproxy` job (and, for a shared virtual IP, the
`keepalived` job) on each VM. monit watches the pid file of a bpm container;
`bpm start haproxy` runs `haproxy_wrapper` as its main program, and the wrapper
unpacks certificates and CIDR lists, starts the HAProxy master, and waits.
Three more programs act on these processes from outside: `bin/drain` (run by
the BOSH agent before it stops the job, or by an operator), `bin/reload` (run
by whoever has changed the external certificates) and bpm itself.  They share
only the run directory (`haproxy.pid`, `stats.sock`, `drain.lock`) and signals.

| Component | State | Operations | Interacts through |
|---|---|---|---|
| wrapper (`haproxy_wrapper.erb`) | where it is; retries; traps | `update_certs`, `cleanup_daemon`, start, main loop, `reload_daemon`, TERM | pid file, `drain.lock`, USR2/TERM |
| HAProxy master and workers | serving, draining, gone; which frontends listen | reload, soft stop, crash, `disable frontend` | signals, `stats.sock` |
| drain (`drain.erb`) | where it is; the pid it found; the time | look up, disable health checks, grace, lock, USR1, wait | `stats.sock`, lock, signals |
| reload (`reload.erb`) | the pids and the count it found | look up, count, signal the group | USR2 |
| monit, bpm, BOSH agent | monitored or not; container up, stopping | start, stop, kill, drain | pid file, TERM/KILL |
| external certificate service | its crt-list file | write, remove | the file, `bin/reload` |
| configuration template (`haproxy.config.erb`) | properties, links | checks, frontends, backends, ACLs, rate limits | the file HAProxy loads |
| keepalived job | three pid files; interface | start, stop, find the interface | pid files, VRRP |
| acceptance-test forwarders (`remote.go`) | a listener, connections | accept, dial, copy, cancel | sockets, channels |
| acceptance-test run (suite, `bosh_helpers.go`, `config.go`) | parallel nodes; a deployment each; drain goroutines | configure, deploy, time out, retry, drain, delete | bosh CLI, the director's tasks |
| autobump (`autobump-dependencies.py`) | work tree, credentials, branches | bump one dependency after another | git, GitHub, blob store |
| release scripts (`shipit`, `update-blob`, ...) | work tree | straight-line | git, bosh |

What is hard, component by component, and what correct means:

* **Job life cycle.** Seven programs interleave, and HAProxy may crash at any
  time. Correct: a drained HAProxy stays down and a crashed one comes back,
  although the wrapper can tell the two apart only by a lock file; a drain is
  seen by the load balancer before it closes a listener; a reload closes
  nothing; no incarnation inherits anything from the one before; the drain
  script always returns.
* **Certificates and reload limit.** A file is looked for, then read, and
  processes are counted, then signalled, while both change. Correct: a reload
  never loses the certificates that are there; the limit is a limit.
* **Request pipeline, rate limits, health checks.** No concurrency, many flags.
  Correct: a header that names the client is one the proxy has set or a
  client it trusts has; every `use_backend` names a backend that exists; what a
  health check watches is what serves.
* **keepalived.** Timeouts that add up against monit's own, pids reused, and
  arithmetic on addresses. Correct: the interface found holds the address;
  stop leaves no process and no pid file.
* **Test forwarders.** Goroutines that outlive what they were started for.
  Correct: what is sent arrives unless a connection breaks, a connection that has been left cuts nothing
  off, nobody waits behind one that is over.
* **Test run.** Timeouts that give up on a command whose task goes on in the
  director, parallel nodes, retries. Correct: a spec works on its own
  deployment; a node that passes leaves none behind; the releases all share are compiled once.
* **Autobump.** A loop with state left over from the last round, over remote
  calls each of which may be the last. Correct: nothing half done is ever merged;
  each pull request changes its own dependency; each outdated one gets there.

`hazards` in `PROJECT.json` lists these at their lines.

## Plan

The modules, in the order of what they are worth to the system. Each component
that is modelled has one module, one of proofs, and an MC module where TLC
needs values a configuration cannot write.

1. `JobLifecycle` with its abstract specification `JobPromise`.
2. `Frontends`, a pipeline of rules over all manifests (`MCFrontends`).
3. `SshForwarder` with its abstract specification `PortForward`.
4. `AcceptanceRun`.
5. `Autobump` with its abstract specification `BumpPromise` (`MCAutobump`).

They are not composed with each other: a request never changes the job's life
cycle, and tests and CI see the job through the director only, so a
composition would multiply states and connect nothing.

## Modules

### JobLifecycle

One module, since its parts have no interface but what they share. One
*incarnation* is one life of the container; the variables `wpc`, `handler`,
`retries`, `doomed`, `master` and `health` belong to it and go with it.

| Variable | In the code |
|---|---|
| `box` | the container: `down`; `up`; `stopping` after TERM; `overdue` when bpm is about to kill |
| `monitored` | monit restarts the job when its pid is gone |
| `wpc` | the wrapper's line: `certs` and `nap` in `update_certs`, `cleanup`, `start`, `pipe` (foreground pipeline), `loop` (last line), `relay` and `await` (lines 22 and 24, in `reload_daemon`) |
| `handler` | the wrapper is inside its USR2 trap |
| `doomed` | a USR2 has killed a command the wrapper still waits for (or is pending while it waits for the pipeline), so its exit status will be a failure |
| `master`, `health` | the HAProxy master; whether its health frontends listen |
| `lock`, `ext` | `drain.lock` and the external crt-list exist |
| `dpc`, `held` | where each drain script is; those whose looked up pid is this incarnation's |
| `reloading` | `bin/reload` is between its `pgrep` and its `kill` |

Actions follow the scripts line by line (`map`), each a stretch between two
points where another process can matter. `Exit` is the end of the wrapper: it is
the main program of the container, so everything else in it dies too, and the
scripts' pids with it. The points worth a reader's attention:

* `update_certs` looks for the file before a nap only, `ext_crt_list_timeout`
  times, and is the same code at start and inside a reload, with the same
  `exit 1`.
* `kill -USR2 -pid` in `reload.erb` signals the *process group*: the wrapper,
  its `sleep`, and in the foreground HAProxy and `cat`. bash runs the trap when
  the command it waits for is over; when the trap returns, `set -e` sees that
  command's failure. `reload_daemon` returns only when the master has gone,
  so a second reload nests another trap.
* `trap shutdown ...` names no function: on TERM the script ends by `set -e`.
* a drain of a container whose HAProxy is not there fails (`pgrep` finds
  nothing, `set -e`), one of no container succeeds.

Abstractions: pids are not reused; HAProxy's start is one step that succeeds or
fails (other failures of start-up commands under `set -e` are `StartFails`);
`pkill` of a stale `haproxy.pid` finds no process; a reload that
`reload_max_instances` refuses is no step; a reload in HAProxy opens the health
frontend again or keeps the old worker; `monit stop` by hand is not modelled,
only the agent's; the grace period and `drain_timeout` are any length of
time. The `health` flag stands for all health check frontends together.

### JobPromise

What monit and the agent may rely on: an incarnation goes through starting,
serving, draining, drained or crashed, and ends by itself only if it has not
started or has crashed. The promise states what a reload costs: a reload may
bring a draining HAProxy back, lets a drained incarnation end by itself, and,
while it updates certificates under policy `fail`, may end a serving one.
`JobLifecycle` implements it under the mapping at the end of that module.

### Frontends

What `http-in`, `https-in` and `wss-in` do with one request. The initial state
picks a *scenario*: a manifest (`cfg`, a record of the properties under their
own names), a connection that can be made to it, and a request. Then HAProxy's
order of evaluation is followed: connection or session rules, content rules,
the http-request rules in the order of the file, redirect, `use_backend`. Each
action is one group of rules, with its three copies in the template side by
side: `conn.frontend` and `Tls` say where the copies differ.

| Variable | In the code |
|---|---|
| `cfg`, `conn`, `req` | the properties; the connection; the request as sent |
| `hdr` | for each header, who its values come from: the client, HAProxy (`proxy`), the operator's `headers` |
| `at` | the next group of rules |
| `verdict`, `backend` | refused, redirected or served, and by which backend |

Abstractions: an address list is the set of addresses it covers, and an ACL of
the operator's is an element of `Rules` that a request satisfies or does not;
`X-Forwarded-Client-Cert` and the nine `X-SSL-Client` headers, which every rule
treats alike, are one header `xfcc`; Host and SNI are classes of names; the ACL
names of `http_request_deny_conditions` are distinct. A connection that should
begin with a PROXY header and does not is dropped by HAProxy and left out, and
so are cleartext HTTP/2, raw `frontend_config`, rules on responses and the rate
limits. `Renders` keeps the template's aborts that
relate the properties of the model.

### SshForwarder, PortForward

Both functions of `remote.go` that forward ports, which differ only in the side
of the SSH connection they listen on (`reverse`). A step is what a goroutine does between
two points where it can block: the caller (`BuildClient`, `StartListening`),
the closer (`CloseListener`), the accept loop (`Accept`, `DialTarget`,
`DialFails`, `CopyTaken`) and two copies for each connection (`Copy`,
`CopyEnds`). `loop = "copy"` is the receive from `chDone` that
keeps the loop, and a copy's state `sending` its send, which only the first of the two
completes. Clients and targets connect, send, shut one direction, close or reset as they like,
and the SSH connection may be lost at any time. `peer` tells an end that has closed
after what it sent (`gone`) from one whose stream is broken (`lost`): what of the latter is
still on its way may come or not, so `Copy` and `CopyEnds` are both possible.
`LoseSsh` is the moment the loss is noticed. Abstracted: host keys,
addresses, and what bytes say; `sent` counts them, and `moved` those the
forwarder has written to the other end.

`PortForward` says what is carried for the connections that have been joined,
and when it must be (while the reader is there and the source's stream is whole); that `SshForwarder` leaves a connection and serves the next
one is invisible in it. The refinement covers both its safety (`PortForwarded`)
and its fairness (`Delivers`).

### AcceptanceRun

The suite on parallel ginkgo nodes. `pc` follows a node through
`SynchronizedBeforeSuite`, `deployHAProxy`, `buildHAProxyInfo`,
`dumpHAProxyConfig`, the body of a spec and `deleteDeployment`; `cli` is the
command it waits for, `task` the director's view of what that command has
asked for. `Deployed` is enabled with the command still running: the twenty
minutes are over. `CliEnds` may report a failure whatever the task does. A spec
whose attempt has failed is taken again or given up (`Fail`). `compiled` and
`task = "compiling"` model what `SynchronizedBeforeSuite` is there for. The
director's rules (one task of a deployment holds its lock, others are refused or
wait) are external, in six small actions. Abstracted: manifests and ops files to the SSH key
they install, which tells one deploy from another; a spec's own assertions to
one step that passes or fails.

### Autobump

The loop of `main` on one checkout, one action per remote call. `head` and
`tree` are the commit and the files of the checkout; a tree gives each
dependency's version in the packaging files and its blobs in `blobs.yml`, which is what
the script edits. `branch` and `fork` are the pull request branches and what
they were created from, for a merge is judged by both. `cred` is
`config/private.yml`. `RunFails` is an exception at any point; the next run
starts on a new checkout. Where releases are looked up, release notes and downloads are left
out (what they return is `upstream`), and with them `DRY_RUN`.
Merging by people between runs or, with `MergesDuringRun`, at any time.

### BumpPromise

What those who review the pull requests may rely on: at most one proposal for each
dependency at a time, of a version newer than the base's; a merge takes up that
version and touches no other dependency; only they take a proposal away, and the base
changes in no other way. Branches, checkouts and failed runs are invisible in it. The mapping is in
`Autobump` after its properties: `proposed[d]` is the version that the packaging file on the branch
of an open pull request gives `d`.

### Proof modules

`JobLifecycleProofs`, `FrontendsProofs`, `SshForwarderProofs`,
`AcceptanceRunProofs` and `AutobumpProofs`, below.

Operators marked `slip` in a module are deliberate mistakes (a dropped guard, a
missing touch), used to see that each property can fail; no specification uses
them.

## Runs

`Frontends` checks `MCFrontends`, the two of `Autobump` `MCAutobump`, the others
the module they are named for. Deadlock is checked except in `SshForwarder`,
`AcceptanceRun` and `DrainCrashesNode`: a forwarder whose clients have left and
whose listener is closed, and a suite all of whose nodes are over, really stop.

| Run | Instance | What it shows |
|---|---|---|
| `JobLifecycleDaemon` | agent's and an operator's drain at once, crashes, reloads, external list, 2 naps, policy fail | `TypeOK`, `Coherent`, `LockCoversDrain`; refinement of `JobPromise` |
| `JobLifecycleNoReload` | no reloads, the agent's drain only | a drained HAProxy stays down; the health check goes first; every serving incarnation is whole |
| `JobLifecycleLive` | fairness, each start in daemon mode or in the foreground, policy continue, reloads, agent's drain | refinement; a crash is repaired, a drain returns, a reload never ends the container |
| `Frontends` | four sets of scenarios, one per question | certificate and address headers as described; lists, the two ways past the TCP blocklist, fronting; backends declared and of the right protocol |
| `SshForwarder` | two clients, one byte each way, both directions; fairness | goroutines hang together, one at most is left per connection, nothing is cut off but by a broken stream; refinement of `PortForward` with its fairness; a queue stands still only behind an open connection; a cancelled forwarder ends |
| `AcceptanceRun` | two nodes, two deploys each, one drain goroutine; fairness | a spec's deployment is its own, a node that passes leaves nothing, nothing that all share is compiled twice, the run ends |
| `Autobump` | three dependencies in two packages, three versions, one event; fairness | base and pull requests build, each changes its own and none is touched while open; refinement of `BumpPromise` (so none goes back); every outdated one gets its pull request |

Two drains are enough for two to pass the lock test and interfere; a third
would only repeat a step of the second, since drains share nothing but the lock
and the master. Two naps make the first, a middle and the last look at the
external list different. Reloads are not bounded: nested traps behave
as the innermost (`EnterHandler`), so no counter is needed. Nothing else counts.
What is checked with one drain only (`DrainedStaysDown`, `HealthFirst`, the
foreground) is proved for any number of them. `Foreground` is the set of modes that
a start may find in its manifest.

The scenarios of `Frontends` are exhaustive over the properties their question
depends on: all header policies with and without mutual TLS, stripped and added
headers, and every subset of four headers sent; `accept_proxy` and
`expect_proxy_cidrs` with every combination of lists, and three addresses (a trusted client, a blocked one, a
proxy) as peer and as client; all values of `disable_domain_fronting` with hosts,
SNIs and conditions of the operator; all backend properties with
routed backends of overlapping prefixes, websockets and both HTTP versions. The
properties left at their defaults only add groups of rules that do not read what
the question is about. A request passes each group once, so steps need no bound.

Two clients are one that is served and one that waits, and after the first is
left, both at once; with one byte, everything and nothing are told apart for
each end. Two nodes are the first one and another, which are the two kinds there
are; two deploys are a spec and its retry, so that each can meet what the other has left.
Three dependencies are one with a package of its own, and two that share one, of
which the second (like hatop) has a blob `remove_current_blob` does not look for; three
versions let a project publish again over an open pull request, or
withdraw. One event is a publication, a closing or a failure; the same run with
two versions and three events passes as well. What these three check for safety is proved for
all sizes.

### Disagreements found

Each has a run that expects a violation of what a document, comment or test of
the repository says.

| Run | What happens | Said at |
|---|---|---|
| `StopAbandonsHaproxy` | TERM ends the wrapper under a live HAProxy: `shutdown` is not defined | `haproxy_wrapper.erb:81` |
| `DrainAfterReload` | a drained HAProxy that has been reloaded is started again by monit: the USR2 has killed the wrapper's `sleep`, to whose status `reload_daemon` returns | `crash_test.go:76,115` |
| `BlocklistWebsockets` | a client on the TCP blocklist is served on port 4443: `wss-in` has no rule for the list | `spec:599` |
| `DrainCrashesNode` | an assertion in `drainHAProxy`'s goroutine ends the process of the node, and its deployment stays | `acceptance_tests_suite_test.go:63` |
| `AutobumpStale` | a pull request pushes the blobs of an older checkout over what has been merged since: packaging names a blob that is not there | `autobump-dependencies.py:121` |

That is also why the positive runs of those properties switch reloads off, use
the agent's drains only, or let people merge between runs only: their instances
say where the property does hold. A drain that fails in its goroutine is part of
`AcceptanceRun`, whose properties hold in spite of it.

More boundaries of the same kind, which a reader can see by changing a
configuration:

* `CrashRestarts` with an operator's drain too: a crash between the lock and the
  signal leaves a lock that looks like a drain's, and is not repaired.
* `HealthFirst` with reloads: one in the grace period turns the health check on again.
* `DrainedStaysDown` in the instance of `DrainAfterReload`: TLC then finds a shorter
  way, a drain that overtakes a reload, whose `kill -USR2` finds no master and ends the
  wrapper. `DrainedStaysDownReloaded` is about reloads that have come through.
* `ReloadKeepsServing` with policy `fail`: without the external list a reload
  ends the wrapper, and every connection with it.
* `BlocklistHolds` fails with `expect_proxy_cidrs` too: without `accept_proxy`,
  `tcp_request_phase` stays in the connection phase, where the address is the proxy's.
  `BlocklistGaps`, which `Frontends` checks, says that this and `wss-in` are the only
  ways past the list.
* `ClientIpOn({"http-in"})`: `http-in` overwrites the client
  address header, whatever `forward_true_client_ip_header` says, so
  `ClientIpAsDocumented` is about `https-in`. `SameProtocol` is about the TLS
  frontends, because `http-in` has no rule to match the protocol.
* A forwarder serves one client at a time and is over after one failed dial, unlike
  the `ssh -L` and `ssh -R` that its comments (`remote.go:52-53,105-106`) call it
  equivalent to: hence `Busy` and `loop = "ended"` in `QueueMoves` and `CancelEnds`.
* A copy that is over has carried everything only if its source's stream was whole:
  when SSH is lost, or an end resets its connection, `io.Copy` returns with less, though
  the reader is there. `EndsWhole` and `Delivers` name that case (`lost`).
* In `Autobump`, `cred` is FALSE when a run comes to its second upload: `git
  clean -fx` has removed what `write_private_yaml` wrote once. A run opens one
  pull request at most, and `EveryBumped` holds because the job runs every day.

## Fairness

* Weak fairness of the wrapper's own steps, of each drain script, of monit's
  start and of bpm's kill: processes that are ready to run are scheduled, and
  monit polls. `TermExit` and `BpmTimeout` share one: after TERM, one or the other.
* Strong fairness of `Start`: HAProxy's start may fail any number of times
  (`StartFails` is enabled whenever `Start` is), but one that could start again
  and again does in the end. Without it a broken configuration refutes every
  claim that HAProxy comes back.
* `SshForwarder`: weak fairness of the closer, of the loop and of each copy: the
  Go scheduler. None for the test, clients, targets, or the network; and
  when two copies are ready for `chDone` either may be taken.
* `AcceptanceRun`: weak fairness of each node's steps, of which the timeouts of
  `Eventually` and `session.Wait` are part. None for director, CLI or drains: they may hang.
  The SSH steps (`buildHAProxyInfo`, `dumpHAProxyConfig`) run `session.Run` without a
  timeout: that they return is assumed, not in the code.
* `Autobump`: weak fairness of the start of a run (Concourse's daily trigger) and
  of the script's own steps: its calls return. Failures are bounded by
  `MaxEvents`, so in the end runs do not fail by accident, but still for lack of
  credentials. None for people or upstream projects.
* `Frontends` needs none: it has no liveness property, only what a request that
  is served has been through.
* None for HAProxy's end of a soft stop (connections may stay open for ever),
  its crashes, the operator, the agent's decisions, or the external service.

## Proofs

`tlapm` on each of the five proof modules.

`JobLifecycle`. Assumed: `FlagsAssumption` and `ExtAssumption`
(the properties' types, as the templates check them). Nothing is assumed of
`Drains`, `Agent`, or the timeout's size.

* `Invariance`: `IInv == TypeOK /\ Coherent /\ LockCoversDrain` is inductive.
  `LockCoversDrain` alone is not: that `DrainKill` finds the lock needs "a
  script that holds this incarnation's pid and is about to signal has a lock"
  (last conjunct of `Coherent`), and that no cleanup removes it needs "a master
  exists except while the wrapper is starting" (second conjunct), which in turn
  needs where the trap can be entered. `Exit` is treated once (`ExitInv`) for
  the six actions that end in it.
* `Refinement`: `Spec => PromiseKept`. Initial states map to initial states
  and, under `IInv`, each action to one action of `JobPromise` or a stutter;
  `LockCoversDrain` is what makes `LoopEnds` impossible for a drained master.
* `NoRestartAfterDrain` (without reloads): from the refinement's step lemma and
  `Coherent`, which then excludes `handler` and `doomed`.
* `AgentHoldsTheorem` (agent's drains only): while a drain runs the job is
  unmonitored, so the incarnation it found cannot be replaced under it, whatever
  reloads and crashes do. `AgentServesWhole` adds that nobody reloads, without which it is
  false: a reload brings a draining HAProxy back with the lock still there.
* `ReasonTheorem` (no hypothesis): an incarnation that nobody stopped ended because its
  HAProxy had not started or had crashed, because it was drained and reloaded, or because a
  reload's `update_certs` failed under policy `fail`. It says of every
  configuration what `NoRestartAfterDrain` and `ReloadDropsNothing` say of some, and
  that the list of ways the job goes down by itself is complete.
* `HealthGoesFirst` (no reloads, any drains): with `HeldOff`, a drain that holds
  the incarnation and has passed its first step has its health check off.

`Frontends`. Assumed: `InputAssumption` (scenarios are of their types, and no
prefix is the name of a router).

* `Invariance`: the properties speak of requests that are served, at the end, so
  `IInv` says what holds between two groups of rules: `HeadersInv`, what the
  headers hold before, between and after the groups that change them (and that
  `X-Cf-Proxy-Signature` is still the client's when the certificate rules read
  it, `MtlsRulesDocumented`), and `PassedInv`, what each group that has been
  passed has settled. `InputsOK` is needed because `forward_only_if_route_service`
  and `sanitize_set` write only with mutual TLS: a certificate without it is
  impossible, not merely unhandled.
* `CertificateHeaders`, `ClientAddressHeader`, `Lists`, `Fronting`,
  `BackendProtocol` and `TypeCorrect` follow. `DeclaredBackends` rests on
  `BackendsCases`: one router or both are declared, for all settings.
* `BlocklistWaysPast`, for every manifest: a client on the TCP blocklist is served by `wss-in`
  or through a proxy in `expect_proxy_cidrs` that is not on the list itself, and in no other way.
  So `Blocklist`: under the hypothesis that no manifest opens port 4443 or uses
  `expect_proxy_cidrs` nobody on the list is served; neither half can be dropped (above).
* `OutcomeTheorem`: the answer to a request is a function of the manifest, the
  connection and the request (`Outcome`), the first refusal in the order of the questions or
  a backend. It is the converse of `Lists` and `Fronting` too: nobody is refused
  whom every option lets in. Its invariant `LetInSoFar` says what a request that is
  still without an answer has been let past; the rules in between edit headers, which none
  of the questions reads.

`SshForwarder`. Assumed: `BytesAssumption`. Nothing of `Clients`.

* `Invariance`: `IInv == TypeOK /\ Coherent /\ OneGoroutineLeft /\ Ended` is
  inductive. `EndsWhole` is not: after a copy has ended its source might write
  more, so `Ended` adds that it has shut its direction, unless the reader is away or the source's
  stream broken. `TypeCorrect`,
  `OneAtATime`, `GoroutineTheorem` and `NothingCutOff` follow.
* `Refinement`: `Spec => PortForwarded`; each step is one of `PortForward`'s or
  a stutter, and a copy moves bytes only for a connection that has been joined.
* `FlowTheorem`: an answer that has arrived was sent, what was sent in answer had a request that
  arrived, and that had been sent: no byte is made up, counted twice or carried
  before the target is dialled.
* `WaitTheorem` is the safety half of `QueueMoves` and `CancelEnds`: no client is queued at a
  listener that has gone, and the accepting goroutine waits only for a client that is
  taken, a connection both sides keep open (`Busy`), or a copy that has something
  to do (`CanCopy`, which is ENABLED of `CopyStep` on the instances TLC tries) or is over.

`AcceptanceRun`. Assumed: `FirstAssumption`, `MaxAssumption`. Nothing else of
`Nodes`, which may be any set.

* `Invariance`: `NodeInv(n)` says for each node what it must have done to be
  where it is (`Commands`), that what it has been told is true (`Answers`), that
  before the first node sends its configuration nobody else has started
  anything (`FirstAlone`), and that the tasks of a deployment run in order
  (`InOrder`). A step of one node leaves the others' parts alone (`Frame`,
  `Local`), so each action is proved for its own node.
* `BodyTheorem`: a spec's own task is `ok`, so by `InOrder` all before it are done
  and none can change the VM. `CleanTheorem` likewise of the deletion.
  `CompileTheorem`: only the first node compiles what all share, and its tasks run in order.
* `LeaveTheorem`: a node that is over after a deployment has asked for its deletion, unless
  its process was ended by an assertion in a drain goroutine (`Asking`); so, with
  `MaxDrains = 0`, `CleansUpTheorem`: the goroutines are the only cause of
  the disagreement that `DrainCrashesNode` shows.
* `NearerTheorem` and `MovesTheorem` are the safety half of `SuiteEnds`: every step of a node lowers
  `Left(n)`, which nobody raises, so no retry repeats for ever; and while some node is not over,
  one of them is not waiting for the first (`FirstWorks`), so nodes do not wait for each other.

`Autobump`. Assumed: `CountAssumption`, `VersionAssumption`,
`EventsAssumption`; nothing of `Package` and `Suffixless`.

* `TypeCorrect` and `OpenTheorem` hold whenever people merge; the second needs
  that from the question to `create_pull` the dependency has no pull request.
* `Invariance` (`~MergesDuringRun`): while a run goes on its checkout is the
  base; its files are that, or that with one bump (`IsBump`); its
  branch becomes equal to them file by file (`Pushed`); and an open pull request
  is a bump of what it was created from. `MergedBuilds` shows that merging such a
  pull request, into a base that may have moved on since, keeps packaging and blobs
  together; it needs that the base never loses a blob only `add-blob` changes (`Kept`).
  `BuildsTheorem`, `OwnTheorem` and `OneWayTheorem` follow. Without the
  hypothesis `AutobumpStale` refutes the first.
* `Refinement` (`~MergesDuringRun`): `Spec => BumpsKept`. It needs that a branch still has
  the packaging of what it was created from for all but its own dependency, so that a merge
  changes one version only.
* What is left when people merge during a run: `StoredTheorem`, every blob that the base or a
  branch names is in the blob store (uploads come first), so the stale push breaks
  the agreement of two files, never a download; and `OthersTheorem`, a pull request changes
  the packaging file of its own package only.

Of `JobLifecycle`, `CoherentTheorem` states the part of the invariant that runs
check, and `ReloadDropsNothing` that a reload does not end a serving incarnation, unless
certificates are external with policy `fail`.

Model-checked only: liveness (`CrashRestarts`, `DrainReturns`, `Delivers`,
`QueueMoves`, `CancelEnds`, `SuiteEnds`, `EveryBumped`). These need fairness, so
ENABLED of an action, which the provers cannot reason about; of three the argument's
safety half is proved, as said above. `PromiseKept` and `BumpsKept` are safety
refinements and proved whole; of `PortForward` the safety is proved and the fairness
(`Delivers`) checked. Every safety property of a passing run is proved, under the
hypotheses named here; each hypothesis is needed. Where no run with a violation and no boundary above shows it,
changing a configuration does: `ServesWhole` fails in `JobLifecycleNoReload` with
`Reloads = TRUE`, `AgentHolds` in `JobLifecycleDaemon` (an operator's drain leaves the job
monitored), and `BumpsKept`, `OneWay` and `OnlyOwn` with the constants of `AutobumpStale`.

## Not modelled

* **Merge of the crt-list, reload limit.** Whether the external service replaces
  its file in one step, and how long HAProxy keeps old workers, is not in this
  repository; what depends on it is listed as hazards. `JobLifecycle` has the wait for
  the file, its timeout and both policies, and a refused reload is no step.
* **Rate limits, health check frontends.** Counters and health states are
  HAProxy's; the template writes rules for them from properties. Which listener
  a drain disables against which the template declares is a hazard.
* **keepalived.** Its control script is sequential, and what is hard in it are
  wall-clock times (25 s for each pid file, 30 s for monit) and string arithmetic
  on addresses; the election is all keepalived's.
* **Test HTTP clients and log helper** (`http.go`, `log_helpers.go`): constructors
  and a printf.
* **Raw configuration blocks, CIDR lists, pre-start, packaging, straight-line CI
  scripts**: text generation or single-process I/O with nothing to interleave.
