---------------------------- MODULE AutobumpProofs ----------------------------
(***************************************************************************)
(* Proofs about Autobump, for any list of dependencies, any packages and   *)
(* any versions.                                                           *)
(***************************************************************************)
EXTENDS Autobump, TLAPS

(* From the question to create_pull the dependency has no pull request.    *)
Unopened ==
  pc \in {"bump", "upload", "delete", "create", "packaging", "blobs", "pull"} => dep \notin pulls

(* t is f with d bumped, and nothing else.                                 *)
IsBump(t, f, d) ==
  /\ t.packaging[d] > f.packaging[d]
  /\ d \in Suffixless => f.blobs[d] \subseteq t.blobs[d]
  /\ \A e \in Deps \ {d} : t.packaging[e] = f.packaging[e] /\ t.blobs[e] = f.blobs[e]

(* A pull request bumps its own dependency, from what the base was then    *)
(* and is still; the base has not lost a blob that only add-blob changes.  *)
Kept(d) == \A e \in Suffixless \cap Deps : fork[d].blobs[e] \subseteq base.blobs[e]
PullInv(d) ==
  /\ Builds(branch[d]) /\ Builds(fork[d])
  /\ IsBump(branch[d], fork[d], d)
  /\ base.packaging[d] = fork[d].packaging[d]
  /\ Kept(d)

(* The script's files are the base's, then the base's with a bump...       *)
Fresh == pc \in {"check", "pulls", "bump"} => tree = head
Newer == pc \in {"pulls", "bump"} => latest > tree.packaging[dep]
Working == {"upload", "delete", "create", "packaging", "blobs", "pull", "clean"}
Bumped == pc \in Working =>
  /\ IsBump(tree, head, dep)
  /\ tree.packaging[dep] = latest /\ latest \in tree.blobs[dep]
  /\ dep \notin Suffixless => tree.blobs[dep] = {latest}
Uploaded == pc \in Working \ {"upload"} => <<dep, latest>> \in store

(* ...and its branch becomes the same, one file after the other.           *)
Pushed ==
  /\ pc \in {"packaging", "blobs", "pull"} => fork[dep] = head
  /\ pc = "packaging" => branch[dep] = head
  /\ pc = "blobs" => branch[dep] = [head EXCEPT !.packaging = tree.packaging]
  /\ pc = "pull" => branch[dep] = tree

(* The inductive invariant of runs nobody merges into.                     *)
Current == pc # "off" => head = base
IInv ==
  /\ TypeOK /\ Unopened
  /\ Builds(base) /\ \A d \in pulls : PullInv(d)
  /\ Current /\ Fresh /\ Newer /\ Bumped /\ Uploaded /\ Pushed

USE CountAssumption, VersionAssumption, EventsAssumption
USE DEF Deps, Tree, Pcs, Goto, Event, WithoutCurrent, script, remote

-----------------------------------------------------------------------------
(* Types and Unopened.                                                     *)

LEMMA MergedType ==
  ASSUME TypeOK, NEW d \in Deps
  PROVE  Merged(d) \in Tree
BY DEF TypeOK, Merged

LEMMA NextType ==
  ASSUME dep \in Deps, NextDependency
  PROVE  dep' \in Deps /\ pc' \in {"off", "check"}
BY DEF NextDependency

LEMMA TypeStep == TypeOK /\ [Next]_vars => TypeOK'
<1> SUFFICES ASSUME TypeOK, [Next]_vars PROVE TypeOK'
  OBVIOUS
<1>1. CASE WritePrivateYaml
  BY <1>1 DEF TypeOK, WritePrivateYaml
<1>2. CASE Compare
  BY <1>2, NextType DEF TypeOK, Compare
<1>3. CASE OpenPrExists
  BY <1>3, NextType DEF TypeOK, OpenPrExists
<1>4. CASE Bump
  <2>1. tree' \in Tree
    BY <1>4 DEF TypeOK, Bump
  <2> QED
    BY <1>4, <2>1 DEF TypeOK, Bump
<1>5. CASE UploadBlobs
  BY <1>5 DEF TypeOK, UploadBlobs
<1>6. CASE DeleteBranch
  BY <1>6 DEF TypeOK, DeleteBranch
<1>7. CASE CreateBranch
  BY <1>7 DEF TypeOK, CreateBranch
<1>8. CASE UpdatePackaging
  <2>1. branch[dep] \in Tree /\ tree \in Tree /\ branch \in [Deps -> Tree] /\ dep \in Deps
    BY DEF TypeOK
  <2> DEFINE p == [d \in Deps |-> IF Package[d] = Package[dep] THEN tree.packaging[d]
                                    ELSE branch[dep].packaging[d]]
  <2>3. p \in [Deps -> Version]
    BY <2>1
  <2>4. branch' = [branch EXCEPT ![dep].packaging = p]
    BY <1>8 DEF UpdatePackaging
  <2>5. branch' \in [Deps -> Tree]
    BY <2>1, <2>3, <2>4
  <2> QED
    BY <1>8, <2>5 DEF TypeOK, UpdatePackaging
<1>9. CASE UpdateBlobs
  <2>1. branch' \in [Deps -> Tree]
    BY <1>9 DEF TypeOK, UpdateBlobs
  <2> QED
    BY <1>9, <2>1 DEF TypeOK, UpdateBlobs
<1>10. CASE CreatePull
  BY <1>10 DEF TypeOK, CreatePull
<1>11. CASE CleanupLocalChanges
  BY <1>11, NextType DEF TypeOK, CleanupLocalChanges
<1>12. CASE RunFails
  BY <1>12 DEF TypeOK, RunFails
<1>13. CASE People
  <2>1. PICK d \in Deps : Publish(d) \/ Merge(d) \/ Close(d)
    BY <1>13 DEF People
  <2>2. CASE Publish(d)
    BY <2>2 DEF TypeOK, Publish
  <2>3. CASE Merge(d)
    BY <2>3, MergedType DEF TypeOK, Merge
  <2>4. CASE Close(d)
    BY <2>4 DEF TypeOK, Close
  <2> QED
    BY <2>1, <2>2, <2>3, <2>4
<1>14. CASE UNCHANGED vars
  BY <1>14 DEF TypeOK, vars
<1> QED
  BY <1>1, <1>2, <1>3, <1>4, <1>5, <1>6, <1>7, <1>8, <1>9, <1>10, <1>11, <1>12, <1>13, <1>14
     DEF Next, Script

LEMMA UnopenedStep == TypeOK /\ Unopened /\ [Next]_vars => Unopened'
<1> SUFFICES ASSUME TypeOK, Unopened, [Next]_vars PROVE Unopened'
  OBVIOUS
<1>1. CASE WritePrivateYaml \/ Bump \/ UploadBlobs
  BY <1>1 DEF Unopened, WritePrivateYaml, Bump, UploadBlobs
<1>5. CASE Compare
  BY <1>5, NextType DEF TypeOK, Unopened, Compare
<1>6. CASE OpenPrExists
  BY <1>6, NextType DEF TypeOK, Unopened, OpenPrExists
<1>2. CASE DeleteBranch \/ CreateBranch \/ UpdatePackaging \/ UpdateBlobs \/ CreatePull
  BY <1>2 DEF Unopened, DeleteBranch, CreateBranch, UpdatePackaging, UpdateBlobs, CreatePull
<1>3. CASE CleanupLocalChanges \/ RunFails \/ UNCHANGED vars
  BY <1>3, NextType DEF TypeOK, Unopened, CleanupLocalChanges, RunFails, vars
<1>4. CASE People
  BY <1>4 DEF Unopened, People, Publish, Merge, Close
<1> QED
  BY <1>1, <1>2, <1>3, <1>4, <1>5, <1>6 DEF Next, Script

LEMMA StartTypes == Init => TypeOK /\ Unopened
<1> SUFFICES ASSUME Init PROVE TypeOK /\ Unopened
  OBVIOUS
<1>1. PICK v \in [Deps -> Version] :
        /\ base = [packaging |-> v, blobs |-> [d \in Deps |-> {v[d]}]]
        /\ store = {<<d, v[d]>> : d \in Deps}
        /\ latest = v[1]
  BY DEF Init
<1>2. store \subseteq Deps \X Version /\ 1 \in Deps /\ latest \in Version
  BY <1>1
<1>3. [d \in Deps |-> {v[d]}] \in [Deps -> SUBSET Version]
  OBVIOUS
<1>4. base \in Tree
  BY <1>1, <1>3
<1>5. branch \in [Deps -> Tree] /\ fork \in [Deps -> Tree] /\ head \in Tree /\ tree \in Tree
  BY <1>4 DEF Init
<1>6. 0 \in 0..MaxEvents
  OBVIOUS
<1>7. upstream \in [Deps -> Version] /\ pulls = {} /\ pc = "off" /\ dep = 1
        /\ cred = FALSE /\ events = 0
  BY DEF Init
<1> HIDE DEF Tree, Deps
<1> QED
  BY <1>2, <1>4, <1>5, <1>6, <1>7 DEF TypeOK, Unopened

(* Types are kept, whoever merges when.                                    *)
THEOREM TypeCorrect == Spec => []TypeOK
<1>1. Init => TypeOK
  BY StartTypes
<1> QED
  BY <1>1, TypeStep, PTL DEF Spec

(* The job touches no open pull request, whoever merges when.              *)
THEOREM OpenTheorem == Spec => OpenStays
<1>1. TypeOK /\ Unopened /\ [Next]_vars =>
        [pc' # pc => /\ pulls \subseteq pulls'
                     /\ \A d \in pulls : branch'[d] = branch[d]]_vars
  <2> SUFFICES ASSUME TypeOK, Unopened, [Next]_vars, pc' # pc
               PROVE  pulls \subseteq pulls' /\ \A d \in pulls : branch'[d] = branch[d]
    BY DEF vars
  <2>1. CASE WritePrivateYaml \/ Compare \/ OpenPrExists \/ Bump \/ UploadBlobs
    BY <2>1 DEF WritePrivateYaml, Compare, OpenPrExists, Bump, UploadBlobs
  <2>2. CASE DeleteBranch \/ CreateBranch \/ UpdatePackaging \/ UpdateBlobs \/ CreatePull
    BY <2>2 DEF TypeOK, Unopened, DeleteBranch, CreateBranch, UpdatePackaging, UpdateBlobs,
                CreatePull
  <2>3. CASE CleanupLocalChanges \/ RunFails \/ UNCHANGED vars
    BY <2>3 DEF CleanupLocalChanges, RunFails, vars
  <2>4. CASE People
    BY <2>4 DEF People, Publish, Merge, Close
  <2> QED
    BY <2>1, <2>2, <2>3, <2>4 DEF Next, Script
<1>2. Spec => [](TypeOK /\ Unopened)
  BY StartTypes, TypeStep, UnopenedStep, PTL DEF Spec
<1> QED
  BY <1>1, <1>2, PTL DEF Spec, OpenStays

-----------------------------------------------------------------------------
(* What is left when somebody does merge during a run.                     *)

(* Every version and every blob that t names is in the blob store...       *)
Stored(t) == \A d \in Deps :
  <<d, t.packaging[d]>> \in store /\ \A v \in t.blobs[d] : <<d, v>> \in store

(* ...that of the bump excepted, until it has been uploaded.               *)
StoredBut(t, e) == \A d \in Deps, v \in Version :
  (v = t.packaging[d] \/ v \in t.blobs[d]) /\ <<d, v>> # e => <<d, v>> \in store

StoreInv ==
  /\ Stored(base) /\ Stored(head)
  /\ \A d \in Deps : Stored(branch[d]) /\ Stored(fork[d])
  /\ pc = "upload" => StoredBut(tree, <<dep, latest>>)
  /\ pc \notin {"off", "upload"} => Stored(tree)

LEMMA MergedStored ==
  ASSUME TypeOK, StoreInv, NEW d \in Deps
  PROVE  Stored(Merged(d))
BY DEF TypeOK, StoreInv, Stored, Merged

LEMMA StoreStep == TypeOK /\ StoreInv /\ [Next]_vars => StoreInv'
<1> SUFFICES ASSUME TypeOK, StoreInv, [Next]_vars PROVE StoreInv'
  OBVIOUS
<1>1. CASE WritePrivateYaml
  BY <1>1 DEF WritePrivateYaml, StoreInv, Stored
<1>2. CASE Compare \/ OpenPrExists \/ CleanupLocalChanges
  <2>1. /\ pc # "off" /\ pc # "upload" /\ pc' # "upload" /\ tree' \in {tree, head}
        /\ UNCHANGED <<remote, head>>
    BY <1>2 DEF Compare, OpenPrExists, CleanupLocalChanges, NextDependency
  <2> QED
    BY <2>1 DEF StoreInv, Stored
<1>3. CASE Bump
  <2>1. /\ tree \in Tree /\ dep \in Deps /\ Stored(tree)
        /\ pc' = "upload" /\ UNCHANGED <<dep, latest, head, remote>>
    BY <1>3 DEF Bump, TypeOK, StoreInv
  <2>2. /\ tree'.packaging = [tree.packaging EXCEPT ![dep] = latest]
        /\ tree'.blobs = [tree.blobs EXCEPT ![dep] = WithoutCurrent \cup {latest}]
    BY <1>3, <2>1 DEF Bump
  <2>3. /\ tree'.packaging[dep] = latest /\ tree'.blobs[dep] \subseteq tree.blobs[dep] \cup {latest}
        /\ \A d \in Deps \ {dep} : tree'.packaging[d] = tree.packaging[d] /\ tree'.blobs[d] = tree.blobs[d]
    BY <2>1, <2>2
  <2>4. ASSUME NEW d \in Deps, NEW v \in Version, v = tree'.packaging[d] \/ v \in tree'.blobs[d],
               <<d, v>> # <<dep, latest>>
        PROVE  <<d, v>> \in store
    BY <2>1, <2>3, <2>4 DEF Stored
  <2>5. StoredBut(tree, <<dep, latest>>)'
    BY <2>1, <2>4 DEF StoredBut
  <2> QED
    BY <2>1, <2>5 DEF StoreInv, Stored
<1>4. CASE UploadBlobs
  <2>1. CASE cred
    <3>1. /\ store' = store \cup {<<dep, latest>>} /\ pc' = "delete"
          /\ UNCHANGED <<base, branch, fork, head, tree>> /\ tree \in Tree
          /\ StoredBut(tree, <<dep, latest>>)
      BY <1>4, <2>1 DEF UploadBlobs, StoreInv, TypeOK
    <3>2. Stored(tree)'
      BY <3>1 DEF Stored, StoredBut
    <3>3. Stored(base)' /\ Stored(head)' /\ \A d \in Deps : Stored(branch[d])' /\ Stored(fork[d])'
      BY <3>1 DEF StoreInv, Stored
    <3> QED
      BY <3>1, <3>2, <3>3 DEF StoreInv
  <2>2. CASE ~cred
    BY <1>4, <2>2 DEF UploadBlobs, StoreInv, Stored
  <2> QED
    BY <2>1, <2>2
<1>5. CASE DeleteBranch \/ CreatePull
  BY <1>5 DEF DeleteBranch, CreatePull, StoreInv, Stored
<1>6. CASE CreateBranch
  BY <1>6 DEF CreateBranch, StoreInv, Stored, TypeOK
<1>7. CASE UpdatePackaging
  <2> DEFINE p == [d \in Deps |-> IF Package[d] = Package[dep] THEN tree.packaging[d]
                                  ELSE branch[dep].packaging[d]]
  <2>1. /\ dep \in Deps /\ branch \in [Deps -> Tree] /\ Stored(tree) /\ Stored(branch[dep])
        /\ branch' = [branch EXCEPT ![dep].packaging = p] /\ pc' = "blobs"
        /\ UNCHANGED <<base, fork, store, dep, head, tree>>
    BY <1>7 DEF UpdatePackaging, StoreInv, TypeOK
  <2>2. branch'[dep].packaging = p /\ branch'[dep].blobs = branch[dep].blobs
    BY <2>1
  <2>3. Stored(branch[dep])'
    BY <2>1, <2>2 DEF Stored
  <2>4. \A d \in Deps \ {dep} : branch'[d] = branch[d]
    BY <2>1
  <2>5. ASSUME NEW d \in Deps PROVE Stored(branch[d])'
    <3>1. CASE d = dep
      BY <2>1, <2>3, <3>1 DEF Stored
    <3>2. CASE d # dep
      BY <2>1, <2>4, <3>2 DEF StoreInv, Stored
    <3> QED
      BY <3>1, <3>2
  <2> QED
    BY <2>1, <2>5 DEF StoreInv, Stored
<1>8. CASE UpdateBlobs
  <2>1. /\ dep \in Deps /\ branch \in [Deps -> Tree] /\ Stored(tree) /\ Stored(branch[dep])
        /\ branch' = [branch EXCEPT ![dep].blobs = tree.blobs] /\ pc' = "pull"
        /\ UNCHANGED <<base, fork, store, dep, head, tree>>
    BY <1>8 DEF UpdateBlobs, StoreInv, TypeOK
  <2>2. branch'[dep].packaging = branch[dep].packaging /\ branch'[dep].blobs = tree.blobs
    BY <2>1
  <2>3. Stored(branch[dep])'
    BY <2>1, <2>2 DEF Stored
  <2>4. \A d \in Deps \ {dep} : branch'[d] = branch[d]
    BY <2>1
  <2>5. ASSUME NEW d \in Deps PROVE Stored(branch[d])'
    <3>1. CASE d = dep
      BY <2>1, <2>3, <3>1 DEF Stored
    <3>2. CASE d # dep
      BY <2>1, <2>4, <3>2 DEF StoreInv, Stored
    <3> QED
      BY <3>1, <3>2
  <2> QED
    BY <2>1, <2>5 DEF StoreInv, Stored
<1>9. CASE RunFails \/ UNCHANGED vars
  BY <1>9 DEF RunFails, vars, StoreInv, Stored, StoredBut
<1>10. CASE People
  <2>1. PICK d \in Deps : Publish(d) \/ Merge(d) \/ Close(d)
    BY <1>10 DEF People
  <2>2. CASE Publish(d) \/ Close(d)
    BY <2>2 DEF Publish, Close, StoreInv, Stored, StoredBut
  <2>3. CASE Merge(d)
    <3>1. base' = Merged(d) /\ Stored(Merged(d)) /\ UNCHANGED <<branch, fork, store, script>>
      BY <2>3, MergedStored DEF Merge
    <3>2. Stored(base)'
      BY <3>1 DEF Stored
    <3> QED
      BY <3>1, <3>2 DEF StoreInv, Stored, StoredBut
  <2> QED
    BY <2>1, <2>2, <2>3
<1> QED
  BY <1>1, <1>2, <1>3, <1>4, <1>5, <1>6, <1>7, <1>8, <1>9, <1>10 DEF Next, Script

(* Whoever merges when, and wherever runs fail: what the base or any       *)
(* branch names can be fetched from the blob store, also when blobs.yml    *)
(* and a packaging file name different versions (the finding on :247).     *)
AlwaysStored == Stored(base) /\ \A d \in Deps : Stored(branch[d])
THEOREM StoredTheorem == Spec => []AlwaysStored
<1>1. Init => StoreInv
  <2> SUFFICES ASSUME Init PROVE StoreInv
    OBVIOUS
  <2>1. Stored(base)
    BY DEF Init, Stored
  <2> QED
    BY <2>1 DEF Init, StoreInv, Stored
<1>2. Init => TypeOK
  BY StartTypes
<1>3. StoreInv => AlwaysStored
  BY DEF StoreInv, AlwaysStored
<1> QED
  BY <1>1, <1>2, <1>3, TypeStep, StoreStep, PTL DEF Spec

(* Files of other packages are never in a pull request's changes.          *)
Aside(d) == \A e \in Deps :
  Package[e] # Package[d] => branch[d].packaging[e] = fork[d].packaging[e]
AsideInv ==
  /\ \A d \in pulls : Aside(d)
  /\ pc \in {"packaging", "blobs", "pull"} => Aside(dep)

LEMMA AsideStep == TypeOK /\ Unopened /\ AsideInv /\ [Next]_vars => AsideInv'
<1> SUFFICES ASSUME TypeOK, Unopened, AsideInv, [Next]_vars PROVE AsideInv'
  OBVIOUS
<1>1. CASE WritePrivateYaml \/ Compare \/ OpenPrExists \/ Bump \/ UploadBlobs
             \/ DeleteBranch \/ CleanupLocalChanges
  <2>1. pulls' \subseteq pulls /\ UNCHANGED <<branch, fork>>
          /\ pc' \notin {"packaging", "blobs", "pull"}
    BY <1>1 DEF WritePrivateYaml, Compare, OpenPrExists, Bump, UploadBlobs, DeleteBranch,
                CleanupLocalChanges, NextDependency
  <2> QED
    BY <2>1 DEF AsideInv, Aside
<1>2. CASE CreateBranch
  BY <1>2 DEF CreateBranch, TypeOK, Unopened, AsideInv, Aside
<1>3. CASE UpdatePackaging
  <2> DEFINE p == [d \in Deps |-> IF Package[d] = Package[dep] THEN tree.packaging[d]
                                  ELSE branch[dep].packaging[d]]
  <2>1. /\ dep \in Deps \ pulls /\ pulls \subseteq Deps /\ branch \in [Deps -> Tree] /\ Aside(dep)
        /\ branch' = [branch EXCEPT ![dep].packaging = p] /\ UNCHANGED <<fork, pulls, dep>>
    BY <1>3 DEF UpdatePackaging, TypeOK, Unopened, AsideInv
  <2>2. branch'[dep].packaging = p /\ \A d \in pulls : branch'[d] = branch[d]
    BY <2>1
  <2>3. Aside(dep)'
    BY <2>1, <2>2 DEF Aside
  <2> QED
    BY <2>1, <2>2, <2>3 DEF AsideInv, Aside
<1>4. CASE UpdateBlobs
  <2>1. /\ dep \in Deps \ pulls /\ pulls \subseteq Deps /\ branch \in [Deps -> Tree] /\ Aside(dep)
        /\ branch' = [branch EXCEPT ![dep].blobs = tree.blobs] /\ UNCHANGED <<fork, pulls, dep>>
    BY <1>4 DEF UpdateBlobs, TypeOK, Unopened, AsideInv
  <2>2. \A d \in Deps : branch'[d].packaging = branch[d].packaging
    BY <2>1
  <2> QED
    BY <2>1, <2>2 DEF AsideInv, Aside
<1>5. CASE CreatePull
  BY <1>5 DEF CreatePull, AsideInv, Aside
<1>6. CASE RunFails \/ UNCHANGED vars
  BY <1>6 DEF RunFails, vars, AsideInv, Aside
<1>7. CASE People
  BY <1>7 DEF People, Publish, Merge, Close, AsideInv, Aside
<1> QED
  BY <1>1, <1>2, <1>3, <1>4, <1>5, <1>6, <1>7 DEF Next, Script

(* Whoever merges when, a pull request changes no packaging file but that  *)
(* of its dependency's package (_update_file's one path, :246-250).        *)
OtherPackages == \A d \in pulls : Aside(d)
THEOREM OthersTheorem == Spec => []OtherPackages
<1>1. Init => AsideInv
  BY DEF Init, AsideInv
<1>2. AsideInv => OtherPackages
  BY DEF AsideInv, OtherPackages
<1> QED
  BY <1>1, <1>2, StartTypes, TypeStep, UnopenedStep, AsideStep, PTL DEF Spec

-----------------------------------------------------------------------------
(* The inductive invariant, when nobody merges during a run.               *)

Run == Current /\ Fresh /\ Newer /\ Bumped /\ Uploaded /\ Pushed
Pulls == Builds(base) /\ \A d \in pulls : PullInv(d)

LEMMA Parts == IInv <=> TypeOK /\ Unopened /\ Pulls /\ Run
BY DEF IInv, Pulls, Run

(* Most steps touch neither the base nor an open pull request.             *)
LEMMA PullsKept ==
  ASSUME TypeOK, Pulls, UNCHANGED base, store \subseteq store', pulls' \subseteq pulls,
         \A d \in pulls' : branch'[d] = branch[d] /\ fork'[d] = fork[d]
  PROVE  Pulls'
<1>1. Builds(base)'
  BY DEF Pulls, Builds
<1>2. ASSUME NEW d \in pulls' PROVE PullInv(d)'
  <2>1. d \in pulls /\ PullInv(d) /\ branch'[d] = branch[d] /\ fork'[d] = fork[d]
    BY <1>2 DEF Pulls
  <2>2. Builds(branch[d])' /\ Builds(fork[d])'
    BY <2>1 DEF PullInv, Builds
  <2>3. IsBump(branch[d], fork[d], d)' /\ Kept(d)'
          /\ base'.packaging[d] = fork'[d].packaging[d]
    BY <2>1 DEF PullInv, IsBump, Kept
  <2> QED
    BY <2>2, <2>3 DEF PullInv
<1> QED
  BY <1>1, <1>2 DEF Pulls

LEMMA StartInv == Init => IInv
<1> SUFFICES ASSUME Init PROVE IInv
  OBVIOUS
<1>1. PICK v \in [Deps -> Version] :
        /\ base = [packaging |-> v, blobs |-> [d \in Deps |-> {v[d]}]]
        /\ store = {<<d, v[d]>> : d \in Deps}
  BY DEF Init
<1>2. Pulls
  BY <1>1 DEF Init, Pulls, Builds
<1>3. Run
  BY DEF Init, Run, Current, Fresh, Newer, Bumped, Uploaded, Pushed, Working
<1> QED
  BY <1>2, <1>3, StartTypes, Parts

(* At "off" and at "check" little is known of the run.                     *)
LEMMA RunBegins ==
  ASSUME pc' \in {"off", "check"}, pc' = "check" => head' = base' /\ tree' = head'
  PROVE  Run'
BY DEF Run, Current, Fresh, Newer, Bumped, Uploaded, Pushed, Working

LEMMA WritePrivateYamlInv == Pulls /\ TypeOK /\ WritePrivateYaml => Pulls' /\ Run'
<1> SUFFICES ASSUME Pulls, TypeOK, WritePrivateYaml PROVE Pulls' /\ Run'
  OBVIOUS
<1>1. Pulls'
  BY PullsKept DEF WritePrivateYaml
<1>2. Run'
  BY RunBegins DEF WritePrivateYaml
<1> QED
  BY <1>1, <1>2

LEMMA CompareInv == IInv /\ Compare => Pulls' /\ Run'
<1> SUFFICES ASSUME IInv, Compare PROVE Pulls' /\ Run'
  OBVIOUS
<1> USE DEF IInv
<1>1. Pulls'
  BY PullsKept, Parts DEF Compare
<1>2. head' = base' /\ tree' = head' /\ upstream[dep] \in Nat /\ tree.packaging[dep] \in Nat
  BY DEF Compare, Current, Fresh, TypeOK
<1>3. CASE upstream[dep] <= tree.packaging[dep]
  <2>1. NextDependency /\ dep \in Deps
    BY <1>3 DEF Compare, TypeOK
  <2>2. pc' \in {"off", "check"}
    BY <2>1, NextType
  <2> QED
    BY <1>1, <1>2, <2>2, RunBegins
<1>4. CASE ~(upstream[dep] <= tree.packaging[dep])
  <2>1. pc' = "pulls" /\ dep' = dep /\ latest' = upstream[dep] /\ tree' = tree
    BY <1>4 DEF Compare
  <2>2. latest' > tree'.packaging[dep']
    BY <1>2, <1>4, <2>1
  <2> HIDE DEF IInv
  <2> QED
    BY <1>1, <1>2, <2>1, <2>2 DEF Run, Current, Fresh, Newer, Bumped, Uploaded, Pushed, Working
<1> QED
  BY <1>1, <1>3, <1>4

LEMMA OpenPrExistsInv == IInv /\ OpenPrExists => Pulls' /\ Run'
<1> SUFFICES ASSUME IInv, OpenPrExists PROVE Pulls' /\ Run'
  OBVIOUS
<1> USE DEF IInv
<1>1. Pulls'
  BY PullsKept, Parts DEF OpenPrExists
<1>2. head' = base' /\ tree' = head'
  BY DEF OpenPrExists, Current, Fresh
<1>3. CASE dep \in pulls
  BY <1>1, <1>2, <1>3, NextType, RunBegins DEF OpenPrExists, TypeOK
<1>4. CASE dep \notin pulls
  <2>1. pc' = "bump" /\ dep' = dep /\ latest' = latest /\ tree' = tree
    BY <1>4 DEF OpenPrExists
  <2>2. latest' > tree'.packaging[dep']
    BY <2>1 DEF Newer, OpenPrExists
  <2> QED
    BY <1>1, <1>2, <2>1, <2>2 DEF Run, Current, Fresh, Newer, Bumped, Uploaded, Pushed, Working
<1> QED
  BY <1>3, <1>4

LEMMA BumpInv == IInv /\ Bump => Pulls' /\ Run'
<1> SUFFICES ASSUME IInv, Bump PROVE Pulls' /\ Run'
  OBVIOUS
<1> USE DEF IInv
<1>1. Pulls'
  BY PullsKept, Parts DEF Bump
<1>2. tree = head /\ head = base /\ tree \in Tree /\ dep \in Deps /\ latest \in Version
        /\ latest > tree.packaging[dep]
  BY DEF Bump, Fresh, Current, Newer, TypeOK
<1>3. pc' = "upload" /\ dep' = dep /\ latest' = latest /\ head' = head /\ base' = base
  BY DEF Bump
<1>4. /\ tree'.packaging = [tree.packaging EXCEPT ![dep] = latest]
      /\ tree'.blobs = [tree.blobs EXCEPT ![dep] = WithoutCurrent \cup {latest}]
  BY <1>2 DEF Bump
<1>5. dep \notin Suffixless => WithoutCurrent = {}
  BY <1>2 DEF Builds
<1>6. IsBump(tree, head, dep)'
  BY <1>2, <1>3, <1>4 DEF IsBump
<1>7. Bumped'
  BY <1>2, <1>3, <1>4, <1>5, <1>6 DEF Bumped
<1> QED
  BY <1>1, <1>2, <1>3, <1>7 DEF Run, Current, Fresh, Newer, Uploaded, Pushed, Working

LEMMA UploadBlobsInv == IInv /\ UploadBlobs => Pulls' /\ Run'
<1> SUFFICES ASSUME IInv, UploadBlobs PROVE Pulls' /\ Run'
  OBVIOUS
<1> USE DEF IInv
<1>1. Pulls'
  BY PullsKept, Parts DEF UploadBlobs
<1>2. CASE cred
  <2>1. pc' = "delete" /\ <<dep, latest>> \in store' /\ head' = base' /\ UNCHANGED <<dep, latest, tree, head>>
    BY <1>2 DEF UploadBlobs, Current
  <2>2. Bumped'
    BY <2>1 DEF UploadBlobs, Bumped, IsBump, Working
  <2> QED
    BY <1>1, <2>1, <2>2 DEF Run, Current, Fresh, Newer, Uploaded, Pushed, Working
<1>3. CASE ~cred
  BY <1>1, <1>3, RunBegins DEF UploadBlobs
<1> QED
  BY <1>2, <1>3

(* create_pr: the branch belongs to no open pull request yet.              *)
Creating == pc \in {"delete", "create", "packaging", "blobs", "pull"}

LEMMA RunGoesOn ==
  ASSUME IInv, Creating, pc' \in Working \ {"upload"}, UNCHANGED <<base, head, tree, dep, latest>>,
         store' = store, Pushed'
  PROVE  Run'
<1>1. Bumped' /\ Uploaded' /\ Current'
  BY DEF IInv, Creating, Working, Bumped, IsBump, Uploaded, Current
<1> QED
  BY <1>1 DEF Run, Fresh, Newer, Working

LEMMA DeleteBranchInv == IInv /\ DeleteBranch => Pulls' /\ Run'
<1> SUFFICES ASSUME IInv, DeleteBranch PROVE Pulls' /\ Run'
  OBVIOUS
<1>1. Pulls'
  BY PullsKept, Parts DEF DeleteBranch
<1>2. Pushed'
  BY DEF DeleteBranch, Pushed
<1> QED
  BY <1>1, <1>2, RunGoesOn DEF DeleteBranch, Creating, Working

LEMMA CreateBranchInv == IInv /\ CreateBranch => Pulls' /\ Run'
<1> SUFFICES ASSUME IInv, CreateBranch PROVE Pulls' /\ Run'
  OBVIOUS
<1>1. dep \notin pulls /\ pulls \subseteq Deps /\ dep \in Deps /\ head = base
        /\ branch \in [Deps -> Tree] /\ fork \in [Deps -> Tree]
  BY DEF IInv, TypeOK, Unopened, Current, CreateBranch
<1>2. Pulls'
  BY <1>1, PullsKept, Parts DEF CreateBranch
<1>3. Pushed'
  BY <1>1 DEF CreateBranch, Pushed
<1> QED
  BY <1>2, <1>3, RunGoesOn DEF CreateBranch, Creating, Working

LEMMA UpdatePackagingInv == IInv /\ UpdatePackaging => Pulls' /\ Run'
<1> SUFFICES ASSUME IInv, UpdatePackaging PROVE Pulls' /\ Run'
  OBVIOUS
<1>1. dep \notin pulls /\ pulls \subseteq Deps /\ dep \in Deps /\ branch \in [Deps -> Tree]
        /\ head \in Tree /\ tree \in Tree
  BY DEF IInv, TypeOK, Unopened, UpdatePackaging
<1>2. Pulls'
  BY <1>1, PullsKept, Parts DEF UpdatePackaging
<1>3. fork[dep] = head /\ branch[dep] = head
        /\ \A e \in Deps \ {dep} : tree.packaging[e] = head.packaging[e]
  BY DEF IInv, UpdatePackaging, Pushed, Bumped, IsBump, Working
<1> DEFINE p == [d \in Deps |-> IF Package[d] = Package[dep] THEN tree.packaging[d]
                                ELSE branch[dep].packaging[d]]
<1>4. p = tree.packaging
  BY <1>1, <1>3
<1>5. branch' = [branch EXCEPT ![dep].packaging = p]
  BY DEF UpdatePackaging
<1>6. branch'[dep] = [head EXCEPT !.packaging = tree.packaging]
  BY <1>1, <1>3, <1>4, <1>5
<1>7. Pushed'
  BY <1>3, <1>6 DEF UpdatePackaging, Pushed
<1> QED
  BY <1>2, <1>7, RunGoesOn DEF UpdatePackaging, Creating, Working

LEMMA UpdateBlobsInv == IInv /\ UpdateBlobs => Pulls' /\ Run'
<1> SUFFICES ASSUME IInv, UpdateBlobs PROVE Pulls' /\ Run'
  OBVIOUS
<1>1. dep \notin pulls /\ pulls \subseteq Deps /\ dep \in Deps /\ branch \in [Deps -> Tree]
        /\ head \in Tree /\ tree \in Tree
  BY DEF IInv, TypeOK, Unopened, UpdateBlobs
<1>2. Pulls'
  BY <1>1, PullsKept, Parts DEF UpdateBlobs
<1>3. fork[dep] = head /\ branch[dep] = [head EXCEPT !.packaging = tree.packaging]
  BY DEF IInv, UpdateBlobs, Pushed
<1>4. branch'[dep] = tree
  <2>1. branch' = [branch EXCEPT ![dep].blobs = tree.blobs]
    BY DEF UpdateBlobs
  <2>2. branch'[dep] = [branch[dep] EXCEPT !.blobs = tree.blobs]
    BY <1>1, <2>1
  <2>3. branch'[dep] = [packaging |-> tree.packaging, blobs |-> tree.blobs]
    BY <1>1, <1>3, <2>2
  <2>4. tree = [packaging |-> tree.packaging, blobs |-> tree.blobs]
    BY <1>1
  <2> QED
    BY <2>3, <2>4
<1>5. Pushed'
  BY <1>3, <1>4 DEF UpdateBlobs, Pushed
<1> QED
  BY <1>2, <1>5, RunGoesOn DEF UpdateBlobs, Creating, Working

LEMMA CreatePullInv == IInv /\ CreatePull => Pulls' /\ Run'
<1> SUFFICES ASSUME IInv, CreatePull PROVE Pulls' /\ Run'
  OBVIOUS
<1>1. branch[dep] = tree /\ fork[dep] = base /\ head = base /\ dep \in Deps
  BY DEF IInv, TypeOK, Pushed, Current, CreatePull
<1>2. /\ IsBump(tree, base, dep) /\ <<dep, latest>> \in store
      /\ tree.packaging[dep] = latest /\ latest \in tree.blobs[dep]
      /\ dep \notin Suffixless => tree.blobs[dep] = {latest}
  BY <1>1 DEF IInv, CreatePull, Bumped, Uploaded, Working
<1>3. Builds(base) /\ Builds(tree)
  BY <1>2 DEF IInv, Builds, IsBump
<1>4. PullInv(dep)
  BY <1>1, <1>2, <1>3 DEF PullInv, Kept
<1>5. \A d \in pulls' : PullInv(d)
  BY <1>4 DEF IInv, CreatePull
<1>6. Pulls'
  <2>1. Builds(base)'
    BY <1>3 DEF Builds, CreatePull
  <2>2. \A d \in pulls' : PullInv(d)'
    BY <1>5 DEF PullInv, Builds, IsBump, Kept, CreatePull
  <2> QED
    BY <2>1, <2>2 DEF Pulls
<1>7. Pushed'
  BY DEF CreatePull, Pushed
<1> QED
  BY <1>6, <1>7, RunGoesOn DEF CreatePull, Creating, Working

LEMMA CleanupLocalChangesInv == IInv /\ CleanupLocalChanges => Pulls' /\ Run'
<1> SUFFICES ASSUME IInv, CleanupLocalChanges PROVE Pulls' /\ Run'
  OBVIOUS
<1>1. Pulls'
  BY PullsKept, Parts DEF CleanupLocalChanges
<1>2. Run'
  BY RunBegins, NextType DEF IInv, TypeOK, Current, CleanupLocalChanges
<1> QED
  BY <1>1, <1>2

LEMMA RunFailsInv == IInv /\ RunFails => Pulls' /\ Run'
<1> SUFFICES ASSUME IInv, RunFails PROVE Pulls' /\ Run'
  OBVIOUS
<1>1. Pulls'
  BY PullsKept, Parts DEF RunFails
<1> QED
  BY <1>1, RunBegins DEF RunFails

(* What a person does leaves the run alone.                                *)
LEMMA RunKept == Run /\ UNCHANGED <<pc, dep, latest, head, tree, base, branch, fork, store>> => Run'
BY DEF Run, Current, Fresh, Newer, Bumped, IsBump, Uploaded, Pushed

(* Merging adds the blob it bumps to, and takes away what it bumps from.   *)
LEMMA MergedBuilds ==
  ASSUME TypeOK, NEW d \in pulls, PullInv(d), Builds(base), Merge(d)
  PROVE  /\ Builds(base)' /\ base'.packaging[d] = branch[d].packaging[d]
         /\ \A e \in Deps \ {d} : base'.packaging[e] = base.packaging[e]
                                  /\ base'.blobs[e] = base.blobs[e]
         /\ d \in Suffixless => base.blobs[d] \subseteq base'.blobs[d]
<1> DEFINE b == branch[d]
           f == fork[d]
<1>1. d \in Deps /\ b \in Tree /\ f \in Tree /\ base \in Tree
  BY DEF TypeOK
<1>2. \A e \in Deps \ {d} : b.packaging[e] = f.packaging[e] /\ b.blobs[e] = f.blobs[e]
  BY DEF PullInv, IsBump
<1>3. b.packaging[d] > f.packaging[d] /\ b.packaging[d] \in Nat /\ f.packaging[d] \in Nat
  BY <1>1 DEF PullInv, IsBump
<1>4. /\ base'.packaging = [e \in Deps |-> IF b.packaging[e] # f.packaging[e]
                                           THEN b.packaging[e] ELSE base.packaging[e]]
      /\ base'.blobs = [e \in Deps |-> (base.blobs[e] \ (f.blobs[e] \ b.blobs[e]))
                                         \cup (b.blobs[e] \ f.blobs[e])]
  BY DEF Merge, Merged
<1>5. \A e \in Deps \ {d} : base'.packaging[e] = base.packaging[e] /\ base'.blobs[e] = base.blobs[e]
  BY <1>2, <1>4
<1>6. base'.packaging[d] = b.packaging[d]
  BY <1>1, <1>3, <1>4
<1>7. base'.blobs[d] = (base.blobs[d] \ (f.blobs[d] \ b.blobs[d])) \cup (b.blobs[d] \ f.blobs[d])
  BY <1>1, <1>4
<1>8. CASE d \in Suffixless
  <2>1. f.blobs[d] \subseteq b.blobs[d] /\ f.blobs[d] \subseteq base.blobs[d]
    BY <1>1, <1>8 DEF PullInv, IsBump, Kept
  <2>2. base.blobs[d] \subseteq base'.blobs[d] /\ b.blobs[d] \subseteq base'.blobs[d]
    BY <1>7, <2>1
  <2> QED
    BY <1>1, <1>5, <1>6, <1>8, <2>2 DEF PullInv, Builds, Merge
<1>9. CASE d \notin Suffixless
  <2>1. /\ b.blobs[d] = {b.packaging[d]} /\ f.blobs[d] = {f.packaging[d]}
        /\ base.blobs[d] = {base.packaging[d]}
    BY <1>1, <1>9 DEF PullInv, Builds
  <2>2. base.packaging[d] \in {f.packaging[d], b.packaging[d]}
    BY <1>1, <1>3 DEF Merge
  <2>3. base'.blobs[d] = {b.packaging[d]}
    BY <1>3, <1>7, <2>1, <2>2
  <2> QED
    BY <1>1, <1>5, <1>6, <1>9, <2>3 DEF PullInv, Builds, Merge
<1> QED
  BY <1>8, <1>9

LEMMA PeopleInv ==
  ASSUME ~MergesDuringRun, IInv, People
  PROVE  Pulls' /\ Run'
<1>1. PICK d \in Deps : Publish(d) \/ Merge(d) \/ Close(d)
  BY DEF People
<1>2. CASE Publish(d)
  <2>1. Pulls'
    BY <1>2, PullsKept, Parts DEF Publish
  <2> QED
    BY <1>2, <2>1, RunKept, Parts DEF Publish
<1>3. CASE Merge(d)
  <2>1. pc' = "off"
    BY <1>3 DEF Merge
  <2>2. Run'
    BY <2>1, RunBegins
  <2>3. d \in pulls /\ PullInv(d) /\ Builds(base) /\ TypeOK
    BY <1>3 DEF Merge, IInv
  <2>4. ASSUME NEW c \in pulls' PROVE PullInv(c)'
    <3>1. c \in pulls /\ PullInv(c) /\ UNCHANGED <<branch, fork, store>>
      BY <1>3, <2>4 DEF Merge, IInv
    <3>2. \A e \in Suffixless \cap Deps : base.blobs[e] \subseteq base'.blobs[e]
      BY <1>3, <2>3, MergedBuilds
    <3>3. Kept(c)'
      BY <3>1, <3>2 DEF PullInv, Kept
    <3>4. c # d /\ c \in Deps
      BY <1>3, <2>3, <2>4 DEF Merge, TypeOK
    <3>5. base'.packaging[c] = fork'[c].packaging[c]
      BY <1>3, <2>3, <3>1, <3>4, MergedBuilds DEF PullInv
    <3> QED
      BY <3>1, <3>3, <3>5 DEF PullInv, Builds, IsBump
  <2> QED
    BY <1>3, <2>2, <2>3, <2>4, MergedBuilds DEF Pulls
<1>4. CASE Close(d)
  <2>1. Pulls'
    BY <1>4, PullsKept, Parts DEF Close
  <2> QED
    BY <1>4, <2>1, RunKept, Parts DEF Close
<1> QED
  BY <1>1, <1>2, <1>3, <1>4

LEMMA StepInv == ~MergesDuringRun /\ IInv /\ [Next]_vars => IInv'
<1> SUFFICES ASSUME ~MergesDuringRun, IInv, [Next]_vars PROVE IInv'
  OBVIOUS
<1>1. TypeOK' /\ Unopened'
  BY TypeStep, UnopenedStep, Parts
<1>2. CASE UNCHANGED vars
  <2>1. Pulls'
    BY <1>2, PullsKept, Parts DEF vars
  <2>2. Run'
    BY <1>2, RunKept, Parts DEF vars
  <2> QED
    BY <1>1, <2>1, <2>2 DEF IInv, Pulls, Run
<1>3. CASE Next
  <2>1. Pulls' /\ Run'
    BY <1>3, Parts, WritePrivateYamlInv, CompareInv, OpenPrExistsInv, BumpInv, UploadBlobsInv,
       DeleteBranchInv, CreateBranchInv, UpdatePackagingInv, UpdateBlobsInv, CreatePullInv,
       CleanupLocalChangesInv, RunFailsInv, PeopleInv DEF Next, Script
  <2> QED
    BY <1>1, <2>1 DEF IInv, Pulls, Run
<1> QED
  BY <1>2, <1>3

(* The inductive invariant, for runs nobody merges into.                   *)
THEOREM Invariance ==
  ASSUME ~MergesDuringRun
  PROVE  Spec => []IInv
<1>1. IInv /\ [Next]_vars => IInv'
  BY StepInv
<1> QED
  BY <1>1, StartInv, PTL DEF Spec

(* Base and pull requests build, wherever runs fail.                       *)
THEOREM BuildsTheorem ==
  ASSUME ~MergesDuringRun
  PROVE  Spec => []AlwaysBuilds
<1>1. IInv => AlwaysBuilds
  BY DEF IInv, PullInv, AlwaysBuilds
<1> QED
  BY <1>1, Invariance, PTL

(* A pull request changes its own dependency only.                         *)
THEOREM OwnTheorem ==
  ASSUME ~MergesDuringRun
  PROVE  Spec => []OnlyOwn
<1>1. IInv => OnlyOwn
  BY DEF IInv, PullInv, IsBump, OnlyOwn
<1> QED
  BY <1>1, Invariance, PTL

-----------------------------------------------------------------------------
(* BumpPromise: of all the script does, only create_pull is seen.          *)

Proposed == [d \in Deps |-> IF d \in pulls THEN {branch[d].packaging[d]} ELSE {}]

(* Nothing changes for reviewers while the base and the branches of open   *)
(* pull requests stay as they are.                                         *)
LEMMA Unseen ==
  ASSUME UNCHANGED <<base, pulls>>, \A d \in pulls : branch'[d] = branch[d]
  PROVE  UNCHANGED BP!vars
BY DEF BP!vars

LEMMA Seen ==
  ASSUME TypeOK, NEW d \in Deps, NEW v \in Version, branch[d].packaging[d] = v
  PROVE  /\ pulls' = pulls \cup {d} /\ branch' = branch /\ d \notin pulls =>
              Proposed' = [Proposed EXCEPT ![d] = {v}]
         /\ pulls' = pulls \ {d} /\ branch' = branch =>
              Proposed' = [Proposed EXCEPT ![d] = {}]
BY DEF Proposed

LEMMA StepRefines ==
  ASSUME ~MergesDuringRun, IInv, [Next]_vars
  PROVE  BP!Next \/ UNCHANGED BP!vars
<1> USE DEF IInv
<1>1. CASE WritePrivateYaml \/ Compare \/ OpenPrExists \/ Bump \/ UploadBlobs
  BY <1>1, Unseen DEF WritePrivateYaml, Compare, OpenPrExists, Bump, UploadBlobs
<1>2. CASE DeleteBranch \/ CreateBranch \/ UpdatePackaging \/ UpdateBlobs
  <2>1. dep \notin pulls /\ pulls \subseteq Deps /\ dep \in Deps /\ branch \in [Deps -> Tree]
    BY <1>2 DEF TypeOK, Unopened, DeleteBranch, CreateBranch, UpdatePackaging, UpdateBlobs
  <2>2. UNCHANGED <<base, pulls>> /\ \A d \in pulls : branch'[d] = branch[d]
    BY <1>2, <2>1 DEF DeleteBranch, CreateBranch, UpdatePackaging, UpdateBlobs
  <2> QED
    BY <2>2, Unseen
<1>3. CASE CreatePull
  <2>1. /\ dep \in Deps /\ dep \notin pulls /\ latest \in Version
        /\ branch[dep].packaging[dep] = latest /\ latest > base.packaging[dep]
    BY <1>3 DEF CreatePull, TypeOK, Unopened, Pushed, Bumped, IsBump, Current, Working
  <2>2. PICK d \in Deps, v \in Version : d = dep /\ v = latest
    BY <2>1
  <2>3. Proposed' = [Proposed EXCEPT ![d] = {v}]
    BY <1>3, <2>1, <2>2, Seen DEF CreatePull
  <2>4. BP!Open(d, v)
    BY <1>3, <2>1, <2>2, <2>3 DEF CreatePull, BP!Open, Proposed
  <2> QED
    BY <2>4 DEF BP!Next
<1>4. CASE CleanupLocalChanges \/ RunFails \/ UNCHANGED vars
  BY <1>4, Unseen DEF CleanupLocalChanges, RunFails, vars
<1>5. CASE People
  <2>1. PICK d \in Deps : Publish(d) \/ Merge(d) \/ Close(d)
    BY <1>5 DEF People
  <2>2. CASE Publish(d)
    BY <2>2, Unseen DEF Publish
  <2>3. CASE Merge(d)
    <3>1. d \in pulls /\ PullInv(d) /\ branch[d] \in Tree /\ base \in Tree
      BY <2>3 DEF Merge, TypeOK
    <3>2. PICK v \in Version : v = branch[d].packaging[d] /\ v > base.packaging[d]
      BY <3>1 DEF PullInv, IsBump
    <3>3. /\ base'.packaging[d] = v
          /\ \A e \in Deps \ {d} : base'.packaging[e] = base.packaging[e]
      BY <2>3, <3>1, <3>2, MergedBuilds
    <3>4. base' \in Tree
      BY <2>3, MergedType DEF Merge
    <3>5. base'.packaging = [base.packaging EXCEPT ![d] = v]
      BY <3>1, <3>3, <3>4
    <3>6. Proposed' = [Proposed EXCEPT ![d] = {}]
      BY <2>3, <3>2, Seen DEF Merge
    <3>7. BP!Accept(d, v)
      BY <3>1, <3>2, <3>5, <3>6 DEF BP!Accept, Proposed
    <3> QED
      BY <3>2, <3>7 DEF BP!Next
  <2>4. CASE Close(d)
    <3>1. branch[d].packaging[d] \in Version
      BY DEF TypeOK
    <3>2. Proposed' = [Proposed EXCEPT ![d] = {}]
      BY <2>4, <3>1, Seen DEF Close
    <3>3. BP!Reject(d)
      BY <2>4, <3>2 DEF Close, BP!Reject, Proposed
    <3> QED
      BY <3>3 DEF BP!Next
  <2> QED
    BY <2>1, <2>2, <2>3, <2>4
<1> QED
  BY <1>1, <1>2, <1>3, <1>4, <1>5 DEF Next, Script

(* Wherever runs fail, and whatever upstream projects withdraw, reviewers  *)
(* have one newer version of each dependency before them at a time, and    *)
(* only they take it away, unless somebody merges during a run.            *)
THEOREM Refinement ==
  ASSUME ~MergesDuringRun
  PROVE  Spec => BumpsKept
<1>1. Init => BP!Init
  <2> SUFFICES ASSUME Init PROVE BP!Init
    OBVIOUS
  <2>1. base.packaging \in [Deps -> Version] /\ pulls = {}
    BY StartTypes DEF Init, TypeOK
  <2> QED
    BY <2>1 DEF BP!Init
<1>2. IInv /\ [Next]_vars => [BP!Next]_BP!vars
  BY StepRefines
<1> QED
  BY Invariance, <1>1, <1>2, PTL DEF Spec, BumpsKept, BP!Spec

(* No merge takes a dependency back.                                       *)
THEOREM OneWayTheorem ==
  ASSUME ~MergesDuringRun
  PROVE  Spec => OneWay
<1>1. IInv /\ [Next]_vars => [\A d \in Deps : base'.packaging[d] >= base.packaging[d]]_vars
  <2> SUFFICES ASSUME IInv, [Next]_vars, NEW e \in Deps
               PROVE  base'.packaging[e] >= base.packaging[e]
    OBVIOUS
  <2>1. base.packaging[e] \in Nat
    BY DEF IInv, TypeOK
  <2>2. CASE UNCHANGED base
    BY <2>1, <2>2
  <2>3. ASSUME NEW d \in Deps, Merge(d) PROVE base'.packaging[e] >= base.packaging[e]
    <3>1. d \in pulls /\ PullInv(d) /\ Builds(base) /\ TypeOK
      BY <2>3 DEF Merge, IInv
    <3>2. CASE e # d
      BY <2>1, <2>3, <3>1, <3>2, MergedBuilds
    <3>3. CASE e = d
      <4>1. base'.packaging[d] = branch[d].packaging[d]
        BY <2>3, <3>1, MergedBuilds
      <4>2. branch[d].packaging[d] > fork[d].packaging[d]
              /\ branch[d].packaging[d] \in Nat /\ fork[d].packaging[d] \in Nat
        <5>1. branch[d] \in Tree /\ fork[d] \in Tree
          BY <3>1 DEF TypeOK
        <5> QED
          BY <3>1, <5>1 DEF PullInv, IsBump
      <4>3. base.packaging[d] \in {fork[d].packaging[d], branch[d].packaging[d]}
        BY <2>3, <4>2 DEF Merge
      <4> QED
        BY <3>3, <4>1, <4>2, <4>3
    <3> QED
      BY <3>2, <3>3
  <2>4. UNCHANGED base \/ \E d \in Deps : Merge(d)
    BY DEF Next, Script, People, WritePrivateYaml, Compare, OpenPrExists, Bump, UploadBlobs,
           DeleteBranch, CreateBranch, UpdatePackaging, UpdateBlobs, CreatePull,
           CleanupLocalChanges, RunFails, Publish, Close, vars
  <2> QED
    BY <2>2, <2>3, <2>4
<1> QED
  BY <1>1, Invariance, PTL DEF Spec, OneWay
=============================================================================
