------------------------------- MODULE Autobump -------------------------------
(***************************************************************************)
(* The daily job that opens a pull request for every dependency with a     *)
(* newer release (ci/scripts/autobump-dependencies.py): a loop over the    *)
(* dependencies on one checkout, with calls of bosh and GitHub any of      *)
(* which may end the run; upstream projects that publish and withdraw; and *)
(* people who merge or close what it opens.                                *)
(***************************************************************************)
EXTENDS Naturals

CONSTANTS
  Count,            \* the number of dependencies; 1 is the first in main()'s list
  Package,          \* which package's files a dependency belongs to
  Suffixless,       \* dependencies whose blob is not called *.tar.gz
  Version,
  MergesDuringRun,  \* people merge while the job runs, too
  MaxEvents         \* bound: releases published or withdrawn, pull requests closed, failures

Deps == 1..Count

ASSUME CountAssumption == Count \in Nat \ {0}
ASSUME VersionAssumption == Version \subseteq Nat
ASSUME EventsAssumption == MaxEvents \in Nat /\ MergesDuringRun \in BOOLEAN

VARIABLES
  upstream,  \* the latest release of each dependency
  base,      \* the branch PR_BASE: versions in the packaging files, blobs in blobs.yml
  branch,    \* the pull request branch of each dependency, as last pushed
  fork,      \* what it was created from
  pulls,     \* dependencies with an open pull request
  store,     \* blobs in the blob store
  pc, dep, latest,  \* the script, the dependency it is at, the release it has found
  head, tree,       \* the commit it has checked out, and the files
  cred,             \* config/private.yml is there
  events

script == <<pc, dep, latest, head, tree, cred>>
remote == <<base, branch, fork, pulls, store>>
vars == <<upstream, base, branch, fork, pulls, store, pc, dep, latest, head, tree, cred, events>>

Tree == [packaging : [Deps -> Version], blobs : [Deps -> SUBSET Version]]
Pcs == {"off", "check", "pulls", "bump", "upload", "delete", "create", "packaging",
        "blobs", "pull", "clean"}

TypeOK ==
  /\ upstream \in [Deps -> Version]
  /\ base \in Tree /\ head \in Tree /\ tree \in Tree
  /\ branch \in [Deps -> Tree] /\ fork \in [Deps -> Tree]
  /\ pulls \subseteq Deps
  /\ store \subseteq Deps \X Version
  /\ pc \in Pcs /\ dep \in Deps /\ latest \in Version
  /\ cred \in BOOLEAN
  /\ events \in 0..MaxEvents

Init ==
  /\ upstream \in [Deps -> Version]
  /\ \E v \in [Deps -> Version] :
       /\ base = [packaging |-> v, blobs |-> [d \in Deps |-> {v[d]}]]
       /\ store = {<<d, v[d]>> : d \in Deps}
       /\ latest = v[1]
  /\ branch = [d \in Deps |-> base] /\ fork = branch
  /\ pulls = {}
  /\ pc = "off" /\ dep = 1 /\ cred = FALSE
  /\ head = base /\ tree = base
  /\ events = 0

-----------------------------------------------------------------------------
(* One run, on a new checkout.                                             *)

Goto(there) == pc' = there

Event == events < MaxEvents /\ events' = events + 1

WritePrivateYaml ==
  /\ pc = "off" /\ Goto("check")
  /\ head' = base /\ tree' = base
  /\ dep' = 1 /\ cred' = TRUE
  /\ UNCHANGED <<upstream, latest, remote, events>>

NextDependencyToo ==   \* slip: > for =
  IF dep > Count THEN Goto("off") /\ UNCHANGED dep
                 ELSE Goto("check") /\ dep' = dep + 1

NextDependency ==
  IF dep = Count THEN Goto("off") /\ UNCHANGED dep
                 ELSE Goto("check") /\ dep' = dep + 1

CompareAnyOther ==   \* slip: != for <=
  /\ pc = "check"
  /\ latest' = upstream[dep]
  /\ IF upstream[dep] = tree.packaging[dep]
     THEN NextDependency ELSE Goto("pulls") /\ UNCHANGED dep
  /\ UNCHANGED <<upstream, head, tree, cred, remote, events>>

Compare ==
  /\ pc = "check"
  /\ latest' = upstream[dep]
  /\ IF upstream[dep] <= tree.packaging[dep]
     THEN NextDependency ELSE Goto("pulls") /\ UNCHANGED dep
  /\ UNCHANGED <<upstream, head, tree, cred, remote, events>>

OpenPrIgnored ==   \* slip: open_pr_exists is not asked
  /\ pc = "pulls"
  /\ Goto("bump") /\ UNCHANGED dep
  /\ UNCHANGED <<upstream, latest, head, tree, cred, remote, events>>

OpenPrEndsRun ==   \* slip: break for continue
  /\ pc = "pulls"
  /\ Goto(IF dep \in pulls THEN "off" ELSE "bump") /\ UNCHANGED dep
  /\ UNCHANGED <<upstream, latest, head, tree, cred, remote, events>>

OpenPrExists ==
  /\ pc = "pulls"
  /\ IF dep \in pulls THEN NextDependency ELSE Goto("bump") /\ UNCHANGED dep
  /\ UNCHANGED <<upstream, latest, head, tree, cred, remote, events>>

(* remove_current_blob looks for <name>-<version>.tar.gz.                  *)
WithoutCurrent ==
  IF dep \in Suffixless THEN tree.blobs[dep] ELSE tree.blobs[dep] \ {tree.packaging[dep]}

BumpUnpackaged ==   \* slip: update_packaging_file is not called
  /\ pc = "bump" /\ Goto("upload")
  /\ tree' = [tree EXCEPT !.blobs[dep] = WithoutCurrent \cup {latest}]
  /\ UNCHANGED <<upstream, dep, latest, head, cred, remote, events>>

Bump ==
  /\ pc = "bump" /\ Goto("upload")
  /\ tree' = [tree EXCEPT !.packaging[dep] = latest, !.blobs[dep] = WithoutCurrent \cup {latest}]
  /\ UNCHANGED <<upstream, dep, latest, head, cred, remote, events>>

(* Without config/private.yml bosh upload-blobs fails, and the run ends.   *)
UploadBlobs ==
  /\ pc = "upload"
  /\ IF cred THEN Goto("delete") /\ store' = store \cup {<<dep, latest>>}
             ELSE Goto("off") /\ UNCHANGED store
  /\ UNCHANGED <<upstream, base, branch, fork, pulls, dep, latest, head, tree, cred, events>>

-----------------------------------------------------------------------------
(* create_pr.  A pull request whose branch is deleted is closed.           *)

DeleteBranch ==
  /\ pc = "delete" /\ Goto("create")
  /\ pulls' = pulls \ {dep}
  /\ UNCHANGED <<upstream, base, branch, fork, store, dep, latest, head, tree, cred, events>>

CreateBranch ==
  /\ pc = "create" /\ Goto("packaging")
  /\ branch' = [branch EXCEPT ![dep] = base]
  /\ fork' = [fork EXCEPT ![dep] = base]
  /\ UNCHANGED <<upstream, base, pulls, store, dep, latest, head, tree, cred, events>>

(* _update_file pushes the whole file as it is in the checkout.            *)
UpdatePackaging ==
  /\ pc = "packaging" /\ Goto("blobs")
  /\ branch' = [branch EXCEPT ![dep].packaging =
       [d \in Deps |-> IF Package[d] = Package[dep] THEN tree.packaging[d]
                       ELSE branch[dep].packaging[d]]]
  /\ UNCHANGED <<upstream, base, fork, pulls, store, dep, latest, head, tree, cred, events>>

UpdateBlobs ==
  /\ pc = "blobs" /\ Goto("pull")
  /\ branch' = [branch EXCEPT ![dep].blobs = tree.blobs]
  /\ UNCHANGED <<upstream, base, fork, pulls, store, dep, latest, head, tree, cred, events>>

CreatePull ==
  /\ pc = "pull" /\ Goto("clean")
  /\ pulls' = pulls \cup {dep}
  /\ UNCHANGED <<upstream, base, branch, fork, store, dep, latest, head, tree, cred, events>>

CleanupNothing ==   \* slip: no cleanup_local_changes
  /\ pc = "clean" /\ NextDependency
  /\ UNCHANGED <<upstream, latest, head, tree, cred, remote, events>>

(* git reset --hard and git clean -fx: files git ignores go as well.       *)
CleanupLocalChanges ==
  /\ pc = "clean" /\ NextDependency
  /\ tree' = head /\ cred' = FALSE
  /\ UNCHANGED <<upstream, latest, head, remote, events>>

(* An exception: nothing catches it.                                       *)
RunFails ==
  /\ pc # "off" /\ Goto("off") /\ Event
  /\ UNCHANGED <<upstream, dep, latest, head, tree, cred, remote>>

-----------------------------------------------------------------------------
(* The others.                                                             *)

Publish(d) ==
  /\ Event
  /\ \E v \in Version : upstream' = [upstream EXCEPT ![d] = v]
  /\ UNCHANGED <<script, remote>>

(* Files are merged line by line; what both sides have changed is refused. *)
Merged(d) ==
  [packaging |-> [e \in Deps |->
     IF branch[d].packaging[e] # fork[d].packaging[e] THEN branch[d].packaging[e]
     ELSE base.packaging[e]],
   blobs |-> [e \in Deps |->
     (base.blobs[e] \ (fork[d].blobs[e] \ branch[d].blobs[e]))
       \cup (branch[d].blobs[e] \ fork[d].blobs[e])]]

Merge(d) ==
  /\ d \in pulls /\ (pc = "off" \/ MergesDuringRun)
  /\ \A e \in Deps : base.packaging[e] # fork[d].packaging[e] =>
       branch[d].packaging[e] \in {fork[d].packaging[e], base.packaging[e]}
  /\ base' = Merged(d)
  /\ pulls' = pulls \ {d}
  /\ UNCHANGED <<upstream, branch, fork, store, script, events>>

Close(d) ==
  /\ d \in pulls /\ Event
  /\ pulls' = pulls \ {d}
  /\ UNCHANGED <<upstream, base, branch, fork, store, script>>

-----------------------------------------------------------------------------
Script ==
  \/ Compare \/ OpenPrExists \/ Bump \/ UploadBlobs
  \/ DeleteBranch \/ CreateBranch \/ UpdatePackaging \/ UpdateBlobs \/ CreatePull
  \/ CleanupLocalChanges

People == \E d \in Deps : Publish(d) \/ Merge(d) \/ Close(d)

Next == WritePrivateYaml \/ Script \/ RunFails \/ People

Spec == Init /\ [][Next]_vars

(* The job runs every day, and its calls return.                           *)
FairSpec == Spec /\ WF_vars(WritePrivateYaml) /\ WF_vars(Script)

-----------------------------------------------------------------------------
Builds(t) == \A d \in Deps :
  /\ <<d, t.packaging[d]>> \in store
  /\ t.packaging[d] \in t.blobs[d]
  /\ d \notin Suffixless => t.blobs[d] = {t.packaging[d]}

(* The version in a packaging file "Should always be identical to the      *)
(* version in blobs.yml" (:121), and its blob is there to be fetched: on   *)
(* the base branch and in every pull request, whatever failed half way.    *)
(* No blob of an older version is left beside it, but of a Suffixless      *)
(* dependency: remove_current_blob does not find those.                    *)
AlwaysBuilds == Builds(base) /\ \A d \in pulls : Builds(branch[d])

(* A pull request changes the dependency it is named for and no other, so  *)
(* merging or closing it says nothing about the others.                    *)
OnlyOwn == \A d \in pulls : \A e \in Deps \ {d} :
  /\ branch[d].packaging[e] = fork[d].packaging[e]
  /\ branch[d].blobs[e] = fork[d].blobs[e]

(* No merge takes a dependency back to an older version, also after an     *)
(* upstream project has withdrawn a release.                               *)
OneWay == [][\A d \in Deps : base'.packaging[d] >= base.packaging[d]]_vars

(* What reviewers see of it: one proposal for each dependency at a time,   *)
(* newer than what is released, as it was made until they accept or reject *)
(* it (BumpPromise), wherever the runs fail (:516-518).                    *)
BP == INSTANCE BumpPromise WITH
  version <- base.packaging,
  proposed <- [d \in Deps |-> IF d \in pulls THEN {branch[d].packaging[d]} ELSE {}]
BumpsKept == BP!Spec

(* The job closes no pull request: an open one stays as people see it      *)
(* until they merge or close it (:516-518).                                *)
OpenStays == [][pc' # pc => /\ pulls \subseteq pulls'
                            /\ \A d \in pulls : branch'[d] = branch[d]]_vars

(* "A new PR is created for each updated dependency" (ci/README.md:88),    *)
(* some day, although a run that has opened a pull request has no          *)
(* credentials left to open another.                                          *)
Outdated(d) == upstream[d] > base.packaging[d]
EveryBumped == \A d \in Deps : Outdated(d) ~> (d \in pulls \/ ~Outdated(d))
=============================================================================
