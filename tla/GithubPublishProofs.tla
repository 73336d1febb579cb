------------------------ MODULE GithubPublishProofs ------------------------
(***************************************************************************)
(* What GithubPublish promises, proved for any number of workers,          *)
(* executions, paths, pushes and lost attempts and any batch limit.        *)
(***************************************************************************)
EXTENDS GithubPublish, FiniteSetTheorems, TLAPS

USE ExecutionAssumption, ModifiesAssumption, LimitAssumption, BoundsAssumption, SentinelAssumption

-----------------------------------------------------------------------------
(***************************************************************************)
(* Type correctness: inductive together with what each stage has at hand.  *)
(***************************************************************************)
WithCommit ==
  { "recheck_base", "preflight", "create_branch", "reconcile_branch",
    "verify_push", "create_pr", "find_pr" }

Stages ==
  \A w \in Worker :
    /\ pc[w] # "idle" => job[w] \in Execution
    /\ pc[w] \in WithCommit => commit[w] \in Commit
    /\ pc[w] = "record" => result[w] \in Row

TypeInv == TypeOK /\ Stages

LEMMA OutcomeRows ==
  /\ \A k \in Category : Failed(k) \in Row
  /\ \A c \in Commit : Published(c) \in Row
  BY DEF Failed, Published, Row

LEMMA StageNames == WithCommit \subseteq Stage /\ {"idle", "record"} \subseteq Stage
  BY DEF WithCommit, Stage

\* The attempt's outcome is settled.
LEMMA ConcludeType ==
  ASSUME TypeInv, NEW w \in Worker, pc[w] # "idle",
         NEW o \in Row, Conclude(w, o),
         UNCHANGED << job, commit >>
  PROVE  pc' \in [Worker -> Stage] /\ result' \in [Worker -> Row \cup {None}] /\ Stages'
  BY StageNames DEF TypeInv, TypeOK, Stages, Conclude, Goto, WithCommit

LEMMA EndAttemptType ==
  ASSUME TypeInv, NEW w \in Worker, EndAttempt(w)
  PROVE  /\ pc' \in [Worker -> Stage]
         /\ job' \in [Worker -> Execution \cup {None}]
         /\ unverified' \in [Worker -> SUBSET Path]
         /\ baseSha' \in [Worker -> Nat]
         /\ overwrites' \in [Worker -> SUBSET Path]
         /\ commit' \in [Worker -> Commit \cup {None}]
         /\ result' \in [Worker -> Row \cup {None}]
         /\ Stages'
  BY StageNames DEF TypeInv, TypeOK, Stages, EndAttempt, Goto, WithCommit

LEMMA TypeStep == ASSUME TypeInv, [Next]_vars PROVE TypeInv'
<1> USE DEF github, gates, attempt, local, Fail, Category
<1>1. ASSUME NEW w \in Worker, BeginPass(w) PROVE TypeInv'
  BY <1>1 DEF BeginPass, Batch, Succeeded, TypeInv, TypeOK, Stages
<1>2. ASSUME NEW w \in Worker, NEW e \in Execution, AlreadyPublished(w, e)
      PROVE  TypeInv'
  BY <1>2 DEF AlreadyPublished, TypeInv, TypeOK, Stages
<1>3. ASSUME NEW w \in Worker, NEW e \in Execution, Examine(w, e)
      PROVE  TypeInv'
  BY <1>3 DEF Examine, Goto, TypeInv, TypeOK, Stages, Stage, WithCommit
<1>4. ASSUME NEW w \in Worker, CheckEligibility(w) PROVE TypeInv'
  <2>1. CASE EndAttempt(w)
    BY <1>4, <2>1, EndAttemptType DEF CheckEligibility, TypeInv, TypeOK
  <2>2. CASE Goto(w, "authorize") /\ UNCHANGED << job, attempt >>
    BY <1>4, <2>2 DEF CheckEligibility, Goto, TypeInv, TypeOK, Stages, Stage, WithCommit
  <2> QED BY <1>4, <2>1, <2>2 DEF CheckEligibility
<1>5. ASSUME NEW w \in Worker, Authorize(w) PROVE TypeInv'
  <2>1. CASE EndAttempt(w)
    BY <1>5, <2>1, EndAttemptType DEF Authorize, TypeInv, TypeOK
  <2>2. CASE registered
    <3>1. job[w] \in Execution BY <1>5 DEF Authorize, TypeInv, Stages
    <3> QED
      BY <1>5, <2>2, <3>1 DEF Authorize, Goto, TypeInv, TypeOK, Stages, Stage, WithCommit
  <2> QED BY <1>5, <2>1, <2>2 DEF Authorize
<1>6. ASSUME NEW w \in Worker, NEW p \in Path, VerifyFile(w, p) PROVE TypeInv'
  <2>1. CASE Fail(w, "stale_file") /\ UNCHANGED unverified
    BY <1>6, <2>1, ConcludeType, OutcomeRows DEF VerifyFile, TypeInv, TypeOK
  <2>2. CASE unverified' = [unverified EXCEPT ![w] = @ \ {p}] /\ UNCHANGED << pc, result >>
    BY <1>6, <2>2 DEF VerifyFile, TypeInv, TypeOK, Stages
  <2> QED BY <1>6, <2>1, <2>2 DEF VerifyFile
<1>7. ASSUME NEW w \in Worker, ReadBase(w) PROVE TypeInv'
  <2>1. CASE Fail(w, "base_branch_missing") /\ UNCHANGED << baseSha, overwrites >>
    BY <1>7, <2>1, ConcludeType, OutcomeRows DEF ReadBase, TypeInv, TypeOK
  <2>2. CASE Goto(w, "build_commit")
    <3>1. overwrites' \in [Worker -> SUBSET Path]
      BY <1>7, <2>2 DEF ReadBase, TypeInv, TypeOK, Conclude, Goto
    <3> QED
      BY <1>7, <2>2, <3>1
      DEF ReadBase, Conclude, Goto, TypeInv, TypeOK, Stages, Stage, WithCommit
  <2> QED BY <1>7, <2>1, <2>2 DEF ReadBase
<1>8. ASSUME NEW w \in Worker, BuildCommit(w) PROVE TypeInv'
  <2>1. CASE Fail(w, "tree_or_commit_creation_failed") /\ UNCHANGED << commits, commit >>
    BY <1>8, <2>1, ConcludeType, OutcomeRows DEF BuildCommit, TypeInv, TypeOK
  <2>2. CASE /\ Goto(w, "recheck_base")
             /\ commits' = commits + 1
             /\ commit' = [commit EXCEPT ![w] =
                  [id |-> commits', parent |-> baseSha[w], unseen |-> overwrites[w]]]
             /\ UNCHANGED result
    <3>1. [id |-> commits', parent |-> baseSha[w], unseen |-> overwrites[w]] \in Commit
      BY <2>2 DEF Commit, TypeInv, TypeOK
    <3> QED
      BY <1>8, <2>2, <3>1
      DEF BuildCommit, Goto, TypeInv, TypeOK, Stages, Stage, WithCommit
  <2> QED BY <1>8, <2>1, <2>2 DEF BuildCommit
<1>9. ASSUME NEW w \in Worker, NEW k \in Category, Fail(w, k), pc[w] # "idle",
             UNCHANGED << publication, github, gates, queue, job, unverified,
                          baseSha, overwrites, commit, aborts >>
      PROVE  TypeInv'
  BY <1>9, ConcludeType, OutcomeRows DEF TypeInv, TypeOK
<1>10. ASSUME NEW w \in Worker, RecheckBase(w) PROVE TypeInv'
  <2>1. CASE Goto(w, "preflight") /\ UNCHANGED result
    BY <1>10, <2>1 DEF RecheckBase, Goto, TypeInv, TypeOK, Stages, Stage, WithCommit
  <2> QED BY <1>9, <1>10, <2>1 DEF RecheckBase
<1>11. ASSUME NEW w \in Worker, Preflight(w) PROVE TypeInv'
  <2>1. CASE Goto(w, "create_branch") /\ UNCHANGED result
    BY <1>11, <2>1 DEF Preflight, Goto, TypeInv, TypeOK, Stages, Stage, WithCommit
  <2> QED BY <1>9, <1>11, <2>1 DEF Preflight
<1>12. ASSUME NEW w \in Worker, CreateBranch(w) PROVE TypeInv'
  <2>1. branch' \in [Execution -> Commit \cup {None, Foreign}]
    BY <1>12 DEF CreateBranch, RefCreated, TypeInv, TypeOK, Stages, WithCommit
  <2>2. CASE Fail(w, "branch_conflict") /\ UNCHANGED branch
    BY <1>9, <1>12, <2>2 DEF CreateBranch, RefCreated
  <2>3. CASE (Goto(w, "verify_push") \/ Goto(w, "reconcile_branch")) /\ UNCHANGED result
    BY <1>12, <2>1, <2>3
    DEF CreateBranch, RefCreated, Goto, TypeInv, TypeOK, Stages, Stage, WithCommit
  <2> QED BY <1>12, <2>2, <2>3 DEF CreateBranch, RefCreated
<1>13. ASSUME NEW w \in Worker, ReconcileBranch(w) PROVE TypeInv'
  <2>1. CASE Goto(w, "verify_push") /\ UNCHANGED result
    BY <1>13, <2>1 DEF ReconcileBranch, Goto, TypeInv, TypeOK, Stages, Stage, WithCommit
  <2> QED BY <1>9, <1>13, <2>1 DEF ReconcileBranch
<1>14. ASSUME NEW w \in Worker, VerifyPush(w) PROVE TypeInv'
  <2>1. CASE Goto(w, "create_pr") /\ UNCHANGED result
    BY <1>14, <2>1 DEF VerifyPush, Goto, TypeInv, TypeOK, Stages, Stage, WithCommit
  <2> QED BY <1>9, <1>14, <2>1 DEF VerifyPush
<1>15. ASSUME NEW w \in Worker, CreatePullRequest(w) PROVE TypeInv'
  <2>1. /\ pullRequest' \in [Execution -> {"none", "open", "closed", "merged"}]
        /\ opened' \in [Execution -> Nat]
    BY <1>15 DEF CreatePullRequest, PullRequestOpened, TypeInv, TypeOK
  <2>2. CASE Conclude(w, Published(commit[w]))
    <3>1. Published(commit[w]) \in Row
      BY <1>15, OutcomeRows DEF CreatePullRequest, PullRequestOpened, TypeInv, Stages, WithCommit
    <3> QED
      BY <1>15, <2>1, <2>2, <3>1, ConcludeType DEF CreatePullRequest, PullRequestOpened, TypeInv, TypeOK
  <2>3. CASE Goto(w, "find_pr") /\ UNCHANGED result
    BY <1>15, <2>1, <2>3
    DEF CreatePullRequest, PullRequestOpened, Goto, TypeInv, TypeOK, Stages, Stage, WithCommit
  <2> QED BY <1>15, <2>2, <2>3 DEF CreatePullRequest, PullRequestOpened
<1>16. ASSUME NEW w \in Worker, FindPullRequest(w) PROVE TypeInv'
  <2>1. CASE Conclude(w, Published(commit[w]))
    <3>1. Published(commit[w]) \in Row
      BY <1>16, OutcomeRows DEF FindPullRequest, ListedOpen, TypeInv, Stages, WithCommit
    <3> QED
      BY <1>16, <2>1, <3>1, ConcludeType DEF FindPullRequest, ListedOpen, TypeInv, TypeOK
  <2> QED BY <1>9, <1>16, <2>1 DEF FindPullRequest, ListedOpen
<1>17. ASSUME NEW w \in Worker, Record(w) PROVE TypeInv'
  <2>1. publication' \in [Execution -> Row \cup {None}]
    BY <1>17 DEF Record, TypeInv, TypeOK, Stages
  <2> QED BY <1>17, <2>1, EndAttemptType DEF Record, TypeInv, TypeOK
<1>18. ASSUME NEW w \in Worker, Abort(w) PROVE TypeInv'
  <2>1. queue' \in [Worker -> SUBSET Execution] /\ aborts' \in Nat
    BY <1>18 DEF Abort, TypeInv, TypeOK
  <2> QED BY <1>18, <2>1, EndAttemptType DEF Abort, TypeInv, TypeOK
<1>19. ASSUME Environment PROVE TypeInv'
  <2>1. ASSUME NEW paths \in SUBSET Path, Push(paths) PROVE TypeInv'
    BY <2>1 DEF Push, TypeInv, TypeOK, Stages
  <2>2. ASSUME NEW e \in Execution, TakeBranchName(e) PROVE TypeInv'
    BY <2>2 DEF TakeBranchName, TypeInv, TypeOK, Stages
  <2>3. ASSUME NEW e \in Execution, MergePullRequest(e) PROVE TypeInv'
    BY <2>3 DEF MergePullRequest, TypeInv, TypeOK, Stages
  <2>4. ASSUME NEW e \in Execution, ClosePullRequest(e) PROVE TypeInv'
    BY <2>4 DEF ClosePullRequest, TypeInv, TypeOK, Stages
  <2>5. ASSUME NEW e \in Execution, Supersede(e) PROVE TypeInv'
    BY <2>5 DEF Supersede, TypeInv, TypeOK, Stages
  <2>6. ASSUME SetRegistryStatus PROVE TypeInv'
    BY <2>6 DEF SetRegistryStatus, TypeInv, TypeOK, Stages
  <2>7. ASSUME NEW e \in Execution, Succeed(e) PROVE TypeInv'
    <3>1. Cardinality(Execution) \in Nat
      BY FS_CardinalityType
    <3> QED BY <2>7, <3>1 DEF Succeed, TypeInv, TypeOK, Stages
  <2> QED BY <1>19, <2>1, <2>2, <2>3, <2>4, <2>5, <2>6, <2>7 DEF Environment
<1>20. ASSUME UNCHANGED vars PROVE TypeInv'
  BY <1>20 DEF vars, TypeInv, TypeOK, Stages
<1> QED
  BY <1>1, <1>2, <1>3, <1>4, <1>5, <1>6, <1>7, <1>8, <1>10, <1>11, <1>12, <1>13,
     <1>14, <1>15, <1>16, <1>17, <1>18, <1>19, <1>20
  DEF Next, Step

\* Every variable keeps its type, and an attempt always has the execution,
\* the commit and the outcome its stage works on.
THEOREM TypeCorrect == Spec => []TypeOK
<1>1. Init => TypeInv
  BY DEF Init, TypeInv, TypeOK, Stages, Stage, WithCommit
<1>2. TypeInv /\ [Next]_vars => TypeInv'
  BY TypeStep
<1>3. TypeInv => TypeOK
  BY DEF TypeInv
<1> QED BY <1>1, <1>2, <1>3, PTL DEF Spec

-----------------------------------------------------------------------------
(***************************************************************************)
(* Safety.  The properties are not inductive: that a branch was found at   *)
(* the attempt's own commit excludes a second pull request only because    *)
(* commits of different attempts differ (FreshIds), because a ref can only *)
(* come to point at an attempt's commit by that attempt's own createBranch *)
(* (OwnBranch) and because a pull request needs such a ref (Opened).       *)
(***************************************************************************)
FreshIds ==
  /\ \A w \in Worker : commit[w] # None => commit[w].id <= commits
  /\ \A e \in Execution :
       branch[e] \notin {None, Foreign} => branch[e].id <= commits
  /\ \A w, v \in Worker :
       (w # v /\ commit[w] # None /\ commit[v] # None) =>
         commit[w].id # commit[v].id

OwnBranch ==
  \A w \in Worker :
    /\ pc[w] \in {"recheck_base", "preflight", "create_branch"} =>
         branch[job[w]] # commit[w]
    /\ pc[w] \in {"reconcile_branch", "verify_push", "create_pr"} =>
         (branch[job[w]] = commit[w] => opened[job[w]] = 0)
    /\ pc[w] \in {"create_pr", "find_pr"} => branch[job[w]] = commit[w]

Opened ==
  \A e \in Execution :
    /\ opened[e] \in {0, 1}
    /\ opened[e] = 0 <=> pullRequest[e] = "none"
    /\ opened[e] # 0 => branch[e] \notin {None, Foreign}

\* A claim of success for e, recorded or about to be, is borne out by GitHub.
OnGitHub(e, o) ==
  (o # None /\ o.status = "published") =>
    branch[e] = o.commit /\ pullRequest[e] # "none"

Claims ==
  /\ \A e \in Execution : OnGitHub(e, publication[e])
  /\ \A w \in Worker : pc[w] = "record" => OnGitHub(job[w], result[w])

IInv == TypeInv /\ FreshIds /\ OwnBranch /\ Opened /\ Claims

LEMMA FailedIsNoClaim == \A e \in Execution, k \in Category : OnGitHub(e, Failed(k))
  BY DEF OnGitHub, Failed

\* A step of w that leaves every ref, pull request, row and other worker alone.
Local(w) ==
  /\ UNCHANGED << publication, commits, branch, pullRequest, opened >>
  /\ \A v \in Worker \ {w} :
       /\ pc'[v] = pc[v] /\ job'[v] = job[v]
       /\ commit'[v] = commit[v] /\ result'[v] = result[v]

\* The stage w reaches asks nothing of its commit, or what w had it has still.
Advance(w) ==
  \/ pc'[w] \notin WithCommit
  \/ /\ job'[w] = job[w] /\ commit'[w] = commit[w]
     /\ \/ pc[w] = "recheck_base" /\ pc'[w] = "preflight"
        \/ pc[w] = "preflight" /\ pc'[w] = "create_branch"
        \/ pc[w] = "create_branch" /\ pc'[w] = "reconcile_branch"
        \/ pc[w] = "reconcile_branch" /\ pc'[w] = "verify_push"
        \/ /\ pc[w] = "verify_push" /\ pc'[w] = "create_pr"
           /\ PointsAtOwnCommit(w)
        \/ pc[w] = "create_pr" /\ pc'[w] = "find_pr"

LEMMA LocalStep ==
  ASSUME IInv, TypeInv', NEW w \in Worker, Local(w), Advance(w),
         commit'[w] \in {None, commit[w]},
         pc'[w] = "record" => OnGitHub(job'[w], result'[w])
  PROVE  IInv'
<1>1. FreshIds'
  <2>1. \A v \in Worker : commit'[v] # None => commit'[v] = commit[v]
    BY DEF Local
  <2> QED BY <2>1 DEF IInv, FreshIds, Local
<1>2. OwnBranch'
  <2>1. ASSUME NEW v \in Worker, v # w PROVE OwnBranch!(v)'
    BY <2>1 DEF IInv, OwnBranch, Local
  <2> QED
  BY <2>1 DEF IInv, OwnBranch, Local, Advance, WithCommit, PointsAtOwnCommit
<1>3. Opened'
  BY DEF IInv, Opened, Local
<1>4. Claims'
  <2>1. \A e \in Execution : OnGitHub(e, publication[e])'
    BY DEF IInv, Claims, OnGitHub, Local
  <2>2. \A v \in Worker : v # w => (pc[v] = "record" => OnGitHub(job[v], result[v]))'
    BY DEF IInv, Claims, OnGitHub, Local
  <2> QED BY <2>1, <2>2 DEF Claims, OnGitHub, Local
<1> QED BY <1>1, <1>2, <1>3, <1>4 DEF IInv

\* The two ways an attempt leaves GitHub without claiming anything.
LEMMA FailStep ==
  ASSUME IInv, TypeInv', NEW w \in Worker, pc[w] # "idle",
         NEW k \in Category, Fail(w, k),
         UNCHANGED << publication, commits, branch, pullRequest, opened, job, commit >>
  PROVE  IInv'
<1>1. Local(w) /\ commit'[w] = commit[w]
  BY DEF IInv, TypeInv, TypeOK, Local, Fail, Conclude, Goto
<1>2. Advance(w)
  BY DEF IInv, TypeInv, TypeOK, Advance, Fail, Conclude, Goto, WithCommit
<1>3. result'[w] = Failed(k) /\ job'[w] \in Execution
  BY DEF IInv, TypeInv, TypeOK, Stages, Fail, Conclude
<1> QED BY <1>1, <1>2, <1>3, FailedIsNoClaim, LocalStep

LEMMA EndStep ==
  ASSUME IInv, TypeInv', NEW w \in Worker, EndAttempt(w),
         UNCHANGED << publication, commits, branch, pullRequest, opened >>
  PROVE  IInv'
<1>1. Local(w) /\ commit'[w] = None
  BY DEF IInv, TypeInv, TypeOK, Local, EndAttempt, Goto
<1>2. pc'[w] = "idle"
  BY DEF IInv, TypeInv, TypeOK, EndAttempt, Goto
<1> QED BY <1>1, <1>2, LocalStep DEF Advance, WithCommit

\* Every other step that only moves w on.
LEMMA MoveStep ==
  ASSUME IInv, TypeInv', NEW w \in Worker, NEW stage \in Stage \ {"record"},
         Goto(w, stage), Advance(w),
         UNCHANGED << publication, commits, branch, pullRequest, opened, job,
                      commit, result >>
  PROVE  IInv'
  BY LocalStep DEF IInv, TypeInv, TypeOK, Local, Goto

LEMMA SafetyStep == ASSUME IInv, TypeInv', [Next]_vars PROVE IInv'
<1> USE DEF github, gates, attempt, local, Category
<1>1. ASSUME NEW w \in Worker, BeginPass(w) PROVE IInv'
  BY <1>1 DEF BeginPass, IInv, FreshIds, OwnBranch, Opened, Claims, OnGitHub
<1>2. ASSUME NEW w \in Worker, NEW e \in Execution, AlreadyPublished(w, e)
      PROVE  IInv'
  BY <1>2 DEF AlreadyPublished, IInv, FreshIds, OwnBranch, Opened, Claims, OnGitHub
<1>3. ASSUME NEW w \in Worker, NEW e \in Execution, Examine(w, e) PROVE IInv'
  <2>1. Local(w) /\ commit'[w] = commit[w] /\ pc'[w] = "eligibility"
    BY <1>3 DEF Examine, Goto, Local, IInv, TypeInv, TypeOK
  <2> QED BY <2>1, LocalStep DEF Advance, WithCommit
<1>4. ASSUME NEW w \in Worker, CheckEligibility(w) PROVE IInv'
  <2>1. CASE Goto(w, "authorize") /\ UNCHANGED << job, attempt >>
    BY <1>4, <2>1, MoveStep
    DEF CheckEligibility, Advance, Goto, Stage, WithCommit, IInv, TypeInv, TypeOK
  <2> QED BY <1>4, <2>1, EndStep DEF CheckEligibility
<1>5. ASSUME NEW w \in Worker, Authorize(w) PROVE IInv'
  <2>1. CASE registered
    BY <1>5, <2>1, MoveStep
    DEF Authorize, Advance, Goto, Stage, WithCommit, IInv, TypeInv, TypeOK
  <2> QED BY <1>5, <2>1, EndStep DEF Authorize
<1>6. ASSUME NEW w \in Worker, NEW p \in Path, VerifyFile(w, p) PROVE IInv'
  <2>1. CASE UNCHANGED << pc, result >>
    BY <1>6, <2>1
    DEF VerifyFile, IInv, FreshIds, OwnBranch, Opened, Claims, OnGitHub
  <2> QED BY <1>6, <2>1, FailStep DEF VerifyFile
<1>7. ASSUME NEW w \in Worker, ReadBase(w) PROVE IInv'
  <2>1. CASE Goto(w, "build_commit") /\ UNCHANGED result
    BY <1>7, <2>1, MoveStep
    DEF ReadBase, Advance, Goto, Stage, WithCommit, IInv, TypeInv, TypeOK
  <2> QED BY <1>7, <2>1, FailStep DEF ReadBase
<1>8. ASSUME NEW w \in Worker, BuildCommit(w) PROVE IInv'
  <2>1. CASE /\ Goto(w, "recheck_base")
             /\ commits' = commits + 1
             /\ commit' = [commit EXCEPT ![w] =
                  [id |-> commits', parent |-> baseSha[w], unseen |-> overwrites[w]]]
             /\ UNCHANGED result
    <3>1. commit'[w].id = commits + 1 /\ pc'[w] = "recheck_base"
      BY <2>1 DEF Goto, IInv, TypeInv, TypeOK
    <3>2. \A v \in Worker \ {w} : commit'[v] = commit[v] /\ pc'[v] = pc[v]
      BY <2>1 DEF Goto, IInv, TypeInv, TypeOK
    <3>3. UNCHANGED << publication, branch, pullRequest, opened, job >>
      BY <1>8 DEF BuildCommit
    <3>4. \A v \in Worker : v # w /\ commit[v] # None => commit[v].id \in Nat
      BY DEF IInv, TypeInv, TypeOK, Commit
    <3>5. \A e \in Execution : branch[e] \notin {None, Foreign} => branch[e].id \in Nat
      BY DEF IInv, TypeInv, TypeOK, Commit
    <3>6. FreshIds'
      <4>1. commits \in Nat BY DEF IInv, TypeInv, TypeOK
      <4>2. \A v \in Worker : commit'[v] # None => commit'[v].id <= commits'
        BY <2>1, <3>1, <3>2, <3>4, <4>1 DEF IInv, FreshIds
      <4>3. \A e \in Execution :
              branch'[e] \notin {None, Foreign} => branch'[e].id <= commits'
        BY <2>1, <3>3, <3>5, <4>1 DEF IInv, FreshIds
      <4>4. \A v \in Worker \ {w} : commit'[v] # None => commit'[v].id # commit'[w].id
        BY <3>1, <3>2, <3>4, <4>1 DEF IInv, FreshIds
      <4>5. \A u, v \in Worker \ {w} :
              (u # v /\ commit'[u] # None /\ commit'[v] # None) =>
                commit'[u].id # commit'[v].id
        BY <3>2 DEF IInv, FreshIds
      <4> QED BY <4>2, <4>3, <4>4, <4>5 DEF FreshIds
    <3>7. OwnBranch'
      <4>1. job[w] \in Execution
        BY <1>8 DEF BuildCommit, IInv, TypeInv, Stages
      <4>2. branch[job[w]] # commit'[w]
        <5>1. commit'[w] \in Commit
          BY <2>1 DEF Commit, IInv, TypeInv, TypeOK
        <5>2. CASE branch[job[w]] \in {None, Foreign}
          BY <5>1, <5>2
        <5>3. CASE branch[job[w]] \notin {None, Foreign}
          <6>1. branch[job[w]].id <= commits /\ commits \in Nat
            BY <4>1, <5>3 DEF IInv, FreshIds, TypeInv, TypeOK
          <6> QED BY <3>1, <3>5, <4>1, <5>3, <6>1
        <5> QED BY <5>2, <5>3
      <4> QED BY <3>1, <3>2, <3>3, <4>2 DEF IInv, OwnBranch
    <3>8. Opened' BY <3>3 DEF IInv, Opened
    <3>9. Claims' BY <2>1, <3>1, <3>2, <3>3 DEF IInv, Claims, OnGitHub
    <3> QED BY <3>6, <3>7, <3>8, <3>9 DEF IInv
  <2> QED BY <1>8, <2>1, FailStep DEF BuildCommit
<1>9. ASSUME NEW w \in Worker, RecheckBase(w) PROVE IInv'
  <2>1. CASE Goto(w, "preflight") /\ UNCHANGED result
    BY <1>9, <2>1, MoveStep
    DEF RecheckBase, Advance, Goto, Stage, IInv, TypeInv, TypeOK
  <2> QED BY <1>9, <2>1, FailStep DEF RecheckBase
<1>10. ASSUME NEW w \in Worker, Preflight(w) PROVE IInv'
  <2>1. CASE Goto(w, "create_branch") /\ UNCHANGED result
    BY <1>10, <2>1, MoveStep
    DEF Preflight, Advance, Goto, Stage, IInv, TypeInv, TypeOK
  <2> QED BY <1>10, <2>1, FailStep DEF Preflight
<1>11. ASSUME NEW w \in Worker, ReconcileBranch(w) PROVE IInv'
  <2>1. CASE Goto(w, "verify_push") /\ UNCHANGED result
    BY <1>11, <2>1, MoveStep
    DEF ReconcileBranch, Advance, Goto, Stage, IInv, TypeInv, TypeOK
  <2> QED BY <1>11, <2>1, FailStep DEF ReconcileBranch
<1>12. ASSUME NEW w \in Worker, VerifyPush(w) PROVE IInv'
  <2>1. CASE PointsAtOwnCommit(w) /\ Goto(w, "create_pr") /\ UNCHANGED result
    BY <1>12, <2>1, MoveStep
    DEF VerifyPush, Advance, Goto, Stage, IInv, TypeInv, TypeOK
  <2> QED BY <1>12, <2>1, FailStep DEF VerifyPush
<1>13. ASSUME NEW w \in Worker, CreateBranch(w) PROVE IInv'
  <2>0. job[w] \in Execution /\ commit[w] \in Commit
    BY <1>13 DEF CreateBranch, RefCreated, IInv, TypeInv, Stages, WithCommit
  <2>1. CASE /\ branch[job[w]] = None
             /\ branch' = [branch EXCEPT ![job[w]] = commit[w]]
             /\ \/ Goto(w, "verify_push")
                \/ Goto(w, "reconcile_branch")
             /\ UNCHANGED result
    <3>1. /\ branch'[job[w]] = commit[w]
          /\ \A e \in Execution \ {job[w]} : branch'[e] = branch[e]
          /\ UNCHANGED << publication, commits, commit, pullRequest, opened, job >>
      BY <1>13, <2>0, <2>1 DEF CreateBranch, RefCreated, IInv, TypeInv, TypeOK
    <3>2. /\ pc'[w] \in {"verify_push", "reconcile_branch"}
          /\ \A v \in Worker \ {w} : pc'[v] = pc[v]
      BY <2>1 DEF Goto, IInv, TypeInv, TypeOK
    <3>3. opened[job[w]] = 0 /\ pullRequest[job[w]] = "none"
      BY <2>0, <2>1 DEF IInv, Opened
    <3>4. FreshIds'
      BY <2>0, <3>1 DEF IInv, FreshIds
    <3>5. OwnBranch'
      <4>1. \A v \in Worker \ {w} : commit[v] # commit[w]
        BY <2>0 DEF IInv, FreshIds
      <4>2. ASSUME NEW v \in Worker \ {w},
                   pc[v] \in WithCommit
            PROVE  job[v] \in Execution
        BY <4>2 DEF IInv, TypeInv, Stages, WithCommit
      <4>3. ASSUME NEW v \in Worker \ {w}, pc[v] \in {"create_pr", "find_pr"}
            PROVE  job[v] # job[w]
        BY <2>1, <4>2, <4>3 DEF IInv, OwnBranch, WithCommit, TypeInv, TypeOK, Stages
      <4> QED
        BY <3>1, <3>2, <3>3, <4>1, <4>2, <4>3 DEF IInv, OwnBranch, WithCommit
    <3>6. Opened'
      BY <2>0, <3>1, <3>3 DEF IInv, Opened
    <3>7. Claims'
      <4>1. \A o : OnGitHub(job[w], o) => ~(o # None /\ o.status = "published")
        BY <3>3 DEF OnGitHub
      <4>2. ASSUME NEW e \in Execution PROVE OnGitHub(e, publication[e])'
        BY <3>1, <4>1 DEF IInv, Claims, OnGitHub
      <4>3. ASSUME NEW v \in Worker, pc'[v] = "record"
            PROVE  OnGitHub(job[v], result[v])'
        <5>1. v # w /\ pc[v] = "record" /\ job[v] \in Execution
          BY <3>2, <4>3 DEF IInv, TypeInv, Stages
        <5> QED BY <2>1, <3>1, <4>1, <5>1 DEF IInv, Claims, OnGitHub
      <4> QED BY <4>2, <4>3 DEF Claims
    <3> QED BY <3>4, <3>5, <3>6, <3>7 DEF IInv
  <2>2. CASE Goto(w, "reconcile_branch") /\ UNCHANGED << branch, result >>
    BY <1>13, <2>2, MoveStep
    DEF CreateBranch, RefCreated, Advance, Goto, Stage, IInv, TypeInv, TypeOK
  <2> QED BY <1>13, <2>1, <2>2, FailStep DEF CreateBranch, RefCreated
<1>14. ASSUME NEW w \in Worker, CreatePullRequest(w) PROVE IInv'
  <2>0. /\ job[w] \in Execution /\ commit[w] \in Commit
        /\ branch[job[w]] = commit[w] /\ opened[job[w]] = 0
    BY <1>14 DEF CreatePullRequest, PullRequestOpened, IInv, TypeInv, Stages, WithCommit, OwnBranch
  <2>1. CASE /\ pullRequest' = [pullRequest EXCEPT ![job[w]] = "open"]
             /\ opened' = [opened EXCEPT ![job[w]] = @ + 1]
             /\ \/ Conclude(w, Published(commit[w]))
                \/ Goto(w, "find_pr") /\ UNCHANGED result
    <3>1. /\ opened'[job[w]] = 1 /\ pullRequest'[job[w]] = "open"
          /\ \A e \in Execution \ {job[w]} :
               opened'[e] = opened[e] /\ pullRequest'[e] = pullRequest[e]
          /\ UNCHANGED << publication, commits, commit, branch, job >>
      BY <1>14, <2>0, <2>1 DEF CreatePullRequest, PullRequestOpened, IInv, TypeInv, TypeOK
    <3>2. /\ \A v \in Worker \ {w} : pc'[v] = pc[v] /\ result'[v] = result[v]
          /\ \/ pc'[w] = "record" /\ result'[w] = Published(commit[w])
             \/ pc'[w] = "find_pr"
      BY <2>1 DEF Conclude, Goto, IInv, TypeInv, TypeOK
    <3>3. FreshIds'
      BY <3>1 DEF IInv, FreshIds
    <3>4. OwnBranch'
      <4>1. \A v \in Worker \ {w} : commit[v] # commit[w]
        BY <2>0 DEF IInv, FreshIds
      <4>2. ASSUME NEW v \in Worker \ {w}, pc[v] \in WithCommit
            PROVE  job[v] \in Execution
        BY <4>2 DEF IInv, TypeInv, Stages, WithCommit
      <4> QED
        BY <2>0, <3>1, <3>2, <4>1, <4>2 DEF IInv, OwnBranch, WithCommit
    <3>5. Opened'
      BY <2>0, <3>1 DEF IInv, Opened
    <3>6. Claims'
      <4>1. OnGitHub(job[w], Published(commit[w]))'
        BY <2>0, <3>1 DEF OnGitHub, Published
      <4>2. ASSUME NEW e \in Execution PROVE OnGitHub(e, publication[e])'
        BY <3>1 DEF IInv, Claims, OnGitHub
      <4>3. ASSUME NEW v \in Worker \ {w}, pc'[v] = "record"
            PROVE  OnGitHub(job[v], result[v])'
        <5>1. pc[v] = "record" /\ job[v] \in Execution
          BY <3>2, <4>3 DEF IInv, TypeInv, Stages
        <5> QED BY <3>1, <3>2, <5>1 DEF IInv, Claims, OnGitHub
      <4> QED BY <3>1, <3>2, <4>1, <4>2, <4>3 DEF Claims, OnGitHub, Published
    <3> QED BY <3>3, <3>4, <3>5, <3>6 DEF IInv
  <2>2. CASE Goto(w, "find_pr") /\ UNCHANGED << pullRequest, opened, result >>
    BY <1>14, <2>2, MoveStep
    DEF CreatePullRequest, PullRequestOpened, Advance, Goto, Stage, IInv, TypeInv, TypeOK
  <2> QED BY <1>14, <2>1, <2>2 DEF CreatePullRequest, PullRequestOpened
<1>15. ASSUME NEW w \in Worker, FindPullRequest(w) PROVE IInv'
  <2>1. CASE pullRequest[job[w]] = "open" /\ Conclude(w, Published(commit[w]))
    <3>1. OnGitHub(job[w], Published(commit[w]))
      BY <1>15, <2>1 DEF FindPullRequest, ListedOpen, IInv, OwnBranch, OnGitHub, Published
    <3>2. /\ Local(w) /\ commit'[w] = commit[w] /\ pc'[w] = "record"
          /\ result'[w] = Published(commit[w]) /\ job'[w] = job[w]
      BY <1>15, <2>1
      DEF FindPullRequest, ListedOpen, Local, Conclude, Goto, IInv, TypeInv, TypeOK
    <3> QED BY <3>1, <3>2, LocalStep DEF Advance, WithCommit
  <2> QED BY <1>15, <2>1, FailStep DEF FindPullRequest, ListedOpen
<1>16. ASSUME NEW w \in Worker, Record(w) PROVE IInv'
  <2>1. /\ UNCHANGED << commits, branch, pullRequest, opened >>
        /\ pc'[w] = "idle" /\ commit'[w] = None
        /\ \A v \in Worker \ {w} :
             /\ pc'[v] = pc[v] /\ job'[v] = job[v]
             /\ commit'[v] = commit[v] /\ result'[v] = result[v]
    BY <1>16 DEF Record, EndAttempt, Goto, IInv, TypeInv, TypeOK
  <2>2. FreshIds' BY <2>1 DEF IInv, FreshIds
  <2>3. OwnBranch' BY <2>1 DEF IInv, OwnBranch
  <2>4. Opened' BY <2>1 DEF IInv, Opened
  <2>5. Claims'
    <3>1. ASSUME NEW e \in Execution PROVE OnGitHub(e, publication[e])'
      <4>1. publication'[e] \in {publication[e], result[w]}
              /\ (publication'[e] = result[w] => e = job[w] \/ publication[e] = result[w])
        BY <1>16 DEF Record, IInv, TypeInv, TypeOK
      <4>2. OnGitHub(e, publication[e]) /\ OnGitHub(job[w], result[w])
        BY <1>16 DEF Record, IInv, Claims
      <4> QED BY <2>1, <4>1, <4>2 DEF OnGitHub
    <3>2. ASSUME NEW v \in Worker, pc'[v] = "record"
          PROVE  OnGitHub(job[v], result[v])'
      <4>1. v # w /\ pc[v] = "record"
        BY <2>1, <3>2
      <4> QED BY <2>1, <4>1 DEF IInv, Claims, OnGitHub
    <3> QED BY <3>1, <3>2 DEF Claims
  <2> QED BY <2>2, <2>3, <2>4, <2>5 DEF IInv
<1>17. ASSUME NEW w \in Worker, Abort(w) PROVE IInv'
  BY <1>17, EndStep DEF Abort
<1>18. ASSUME Environment PROVE IInv'
  <2>1. ASSUME NEW paths \in SUBSET Path, Push(paths) PROVE IInv'
    BY <2>1 DEF Push, IInv, FreshIds, OwnBranch, Opened, Claims, OnGitHub
  <2>2. ASSUME NEW e \in Execution, TakeBranchName(e) PROVE IInv'
    <3>1. /\ branch'[e] = Foreign
          /\ \A f \in Execution \ {e} : branch'[f] = branch[f]
          /\ UNCHANGED << publication, commits, commit, pullRequest, opened, pc,
                          job, result >>
      BY <2>2 DEF TakeBranchName, IInv, TypeInv, TypeOK
    <3>2. opened[e] = 0 /\ pullRequest[e] = "none"
      BY <2>2 DEF TakeBranchName, IInv, Opened
    <3>3. FreshIds' BY <3>1 DEF IInv, FreshIds
    <3>4. OwnBranch'
      <4>1. ASSUME NEW v \in Worker, pc[v] \in WithCommit
            PROVE  job[v] \in Execution /\ commit[v] \notin {None, Foreign}
        BY <4>1 DEF IInv, TypeInv, Stages, WithCommit
      <4> QED
        BY <2>2, <3>1, <4>1 DEF TakeBranchName, IInv, OwnBranch, WithCommit
    <3>5. Opened' BY <3>1, <3>2 DEF IInv, Opened
    <3>6. Claims'
      <4>1. \A v \in Worker : pc[v] = "record" => job[v] \in Execution
        BY DEF IInv, TypeInv, Stages
      <4> QED BY <3>1, <3>2, <4>1 DEF IInv, Claims, OnGitHub
    <3> QED BY <3>3, <3>4, <3>5, <3>6 DEF IInv
  <2>3. ASSUME NEW e \in Execution,
               MergePullRequest(e) \/ ClosePullRequest(e)
        PROVE  IInv'
    <3>1. /\ pullRequest[e] = "open" /\ pullRequest'[e] \in {"merged", "closed"}
          /\ \A f \in Execution \ {e} : pullRequest'[f] = pullRequest[f]
          /\ UNCHANGED << publication, commits, commit, branch, opened, pc, job,
                          result >>
      BY <2>3 DEF MergePullRequest, ClosePullRequest, IInv, TypeInv, TypeOK
    <3>2. FreshIds' /\ OwnBranch' BY <3>1 DEF IInv, FreshIds, OwnBranch
    <3>3. Opened' BY <3>1 DEF IInv, Opened
    <3>4. Claims'
      <4>1. \A v \in Worker : pc[v] = "record" => job[v] \in Execution
        BY DEF IInv, TypeInv, Stages
      <4> QED BY <3>1, <4>1 DEF IInv, Claims, OnGitHub
    <3> QED BY <3>2, <3>3, <3>4 DEF IInv
  <2>4. ASSUME (\E e \in Execution : Succeed(e) \/ Supersede(e)) \/ SetRegistryStatus
        PROVE  IInv'
    BY <2>4
    DEF Succeed, Supersede, SetRegistryStatus, IInv, FreshIds, OwnBranch, Opened, Claims, OnGitHub
  <2> QED BY <1>18, <2>1, <2>2, <2>3, <2>4 DEF Environment
<1>19. ASSUME UNCHANGED vars PROVE IInv'
  BY <1>19 DEF vars, IInv, FreshIds, OwnBranch, Opened, Claims, OnGitHub
<1> QED
  BY <1>1, <1>2, <1>3, <1>4, <1>5, <1>6, <1>7, <1>8, <1>9, <1>10, <1>11, <1>12,
     <1>13, <1>14, <1>15, <1>16, <1>17, <1>18, <1>19
  DEF Next, Step

LEMMA Invariance == Spec => []IInv
<1>1. Init => IInv
  BY DEF Init, IInv, TypeInv, TypeOK, Stages, Stage, WithCommit, FreshIds,
         OwnBranch, Opened, Claims, OnGitHub
<1>2. IInv /\ [Next]_vars => IInv'
  <2>1. IInv /\ [Next]_vars => TypeInv' BY TypeStep DEF IInv
  <2> QED BY <2>1, SafetyStep
<1> QED BY <1>1, <1>2, PTL DEF Spec

\* However many instances race and however many attempts are lost, a
\* `published` row names a commit that is on the branch and a pull request
\* that was opened: success is never recorded on a guess.
THEOREM PublishedCorrect == Spec => []PublishedIsOnGitHub
<1>1. IInv => PublishedIsOnGitHub
  BY DEF IInv, Claims, OnGitHub, PublishedIsOnGitHub
<1> QED BY <1>1, Invariance, PTL

\* No interleaving of attempts, lost responses and people closing pull
\* requests makes the service open a second one for the same execution.
THEOREM OnePullRequest == Spec => []AtMostOnePullRequest
<1>1. IInv => AtMostOnePullRequest
  BY DEF IInv, Opened, AtMostOnePullRequest
<1> QED BY <1>1, Invariance, PTL

\* A branch of somebody else that bears the name is never adopted.
THEOREM ForeignBranchSafe == Spec => []ForeignBranchIsLeftAlone
<1>1. IInv => ForeignBranchIsLeftAlone
  <2>1. ASSUME IInv, NEW e \in Execution, branch[e] = Foreign
        PROVE  opened[e] = 0 /\ (publication[e] = None \/ publication[e].status = "failed")
    <3>1. opened[e] = 0 BY <2>1 DEF IInv, Opened
    <3>2. pullRequest[e] = "none" BY <2>1, <3>1 DEF IInv, Opened
    <3>3. publication[e] \in Row \cup {None} BY <2>1 DEF IInv, TypeInv, TypeOK
    <3>4. CASE publication[e] \in Row
      <4>1. publication[e].status # "published"
        BY <2>1, <3>2, <3>4 DEF IInv, Claims, OnGitHub
      <4> QED BY <3>1, <3>4, <4>1 DEF Row
    <3> QED BY <3>1, <3>3, <3>4
  <2> QED BY <2>1 DEF ForeignBranchIsLeftAlone
<1> QED BY <1>1, Invariance, PTL

-----------------------------------------------------------------------------
(***************************************************************************)
(* Refinement                                                              *)
(***************************************************************************)

\* The publications implement the write-once register: the first outcome
\* recorded for an execution is never replaced or removed.
THEOREM PublicationsAreARegister == Spec => OutcomeIsFinal
<1>1. Init => Register!Init
  BY DEF Init, Register!Init
<1>2. IInv /\ [Next]_vars => [Register!Next]_publication
  <2> SUFFICES ASSUME IInv, [Next]_vars
               PROVE  [Register!Next]_publication
    OBVIOUS
  <2>1. ASSUME NEW w \in Worker, Record(w) PROVE [Register!Next]_publication
    <3>1. job[w] \in Execution /\ result[w] \in Row
      BY <2>1 DEF Record, IInv, TypeInv, Stages
    <3>2. CASE publication[job[w]] # None
      BY <2>1, <3>1, <3>2 DEF Record, IInv, TypeInv, TypeOK
    <3>3. CASE publication[job[w]] = None
      <4>1. Register!Record(job[w])
        BY <2>1, <3>1, <3>3 DEF Record, Register!Record, IInv, TypeInv, TypeOK
      <4> QED BY <3>1, <4>1 DEF Register!Next
    <3> QED BY <3>2, <3>3
  <2>2. ASSUME UNCHANGED publication PROVE [Register!Next]_publication
    BY <2>2
  <2>3. CASE Environment
    BY <2>2, <2>3
    DEF Environment, Push, TakeBranchName, MergePullRequest, ClosePullRequest,
        Succeed, Supersede, SetRegistryStatus
  <2>4. ASSUME NEW w \in Worker, Step(w) \/ Abort(w), ~Record(w)
        PROVE  UNCHANGED publication
    BY <2>4
    DEF Step, Abort, BeginPass, AlreadyPublished, Examine, CheckEligibility,
        Authorize, VerifyFile, ReadBase, BuildCommit, RecheckBase, Preflight,
        CreateBranch, RefCreated, ReconcileBranch, VerifyPush, CreatePullRequest,
        PullRequestOpened, FindPullRequest, ListedOpen
  <2>5. CASE UNCHANGED vars BY <2>2, <2>5 DEF vars
  <2> QED BY <2>1, <2>2, <2>3, <2>4, <2>5 DEF Next
<1> QED
  BY <1>1, <1>2, Invariance, PTL DEF Spec, OutcomeIsFinal, Register!Spec

-----------------------------------------------------------------------------
(***************************************************************************)
(* Stale approvals                                                         *)
(***************************************************************************)

\* A target that is overtaken stays so: what has drifted stays drifted, its
\* re-read fails, and an attempt past the re-read is on another execution.
LEMMA OvertakenStays ==
  ASSUME IInv, [Next]_vars, NEW e \in Execution, NEW p \in Path, Overtaken(e, p)
  PROVE  Overtaken(e, p)'
<1> USE DEF github, gates, attempt, local
<1>1. ASSUME NEW w \in Worker, VerifyFile(w, p) PROVE Overtaken(e, p)'
  BY <1>1 DEF VerifyFile, Fail, Conclude, Goto, Overtaken, IInv, TypeInv, TypeOK
<1>2. ASSUME NEW w \in Worker, NEW q \in Path, q # p, VerifyFile(w, q)
      PROVE  Overtaken(e, p)'
  BY <1>2 DEF VerifyFile, Fail, Conclude, Goto, Overtaken, IInv, TypeInv, TypeOK
<1>3. ASSUME NEW w \in Worker,
             CheckEligibility(w) \/ Authorize(w) \/ ReadBase(w) \/ BuildCommit(w)
      PROVE  Overtaken(e, p)'
  <2>1. CASE job[w] = e
    BY <1>3, <2>1
    DEF CheckEligibility, Authorize, ReadBase, BuildCommit, EndAttempt, Fail,
        Conclude, Goto, Overtaken, IInv, TypeInv, TypeOK
  <2>2. CASE job[w] # e
    BY <1>3, <2>2
    DEF CheckEligibility, Authorize, ReadBase, BuildCommit, EndAttempt, Fail,
        Conclude, Goto, Overtaken, IInv, TypeInv, TypeOK
  <2> QED BY <2>1, <2>2
<1>4. ASSUME NEW w \in Worker,
             \/ RecheckBase(w) \/ Preflight(w) \/ ReconcileBranch(w)
             \/ VerifyPush(w) \/ CreatePullRequest(w) \/ FindPullRequest(w)
      PROVE  Overtaken(e, p)'
  <2>1. job[w] # e
    BY <1>4
    DEF RecheckBase, Preflight, ReconcileBranch, VerifyPush, CreatePullRequest,
        FindPullRequest, Overtaken
  <2>2. pc' = [pc EXCEPT ![w] = pc'[w]]
    BY <1>4
    DEF RecheckBase, Preflight, ReconcileBranch, VerifyPush, CreatePullRequest,
        FindPullRequest, Fail, Conclude, Goto, IInv, TypeInv, TypeOK
  <2>3. UNCHANGED << branch, drifted, job, unverified >>
    BY <1>4
    DEF RecheckBase, Preflight, ReconcileBranch, VerifyPush, CreatePullRequest,
        PullRequestOpened, FindPullRequest, ListedOpen
  <2> QED BY <2>1, <2>2, <2>3 DEF Overtaken, IInv, TypeInv, TypeOK
<1>5. ASSUME NEW w \in Worker, CreateBranch(w) PROVE Overtaken(e, p)'
  <2>1. job[w] # e BY <1>5 DEF CreateBranch, Overtaken
  <2>2. pc' = [pc EXCEPT ![w] = pc'[w]]
    BY <1>5 DEF CreateBranch, RefCreated, Fail, Conclude, Goto, IInv, TypeInv, TypeOK
  <2>3. branch'[e] = branch[e] /\ UNCHANGED << drifted, job, unverified >>
    BY <1>5, <2>1 DEF CreateBranch, RefCreated, IInv, TypeInv, TypeOK
  <2> QED BY <2>1, <2>2, <2>3 DEF Overtaken, IInv, TypeInv, TypeOK
<1>6. ASSUME NEW w \in Worker, Record(w) \/ Abort(w) PROVE Overtaken(e, p)'
  BY <1>6 DEF Record, Abort, EndAttempt, Goto, Overtaken, IInv, TypeInv, TypeOK
<1>7. ASSUME NEW w \in Worker, BeginPass(w) PROVE Overtaken(e, p)'
  BY <1>7 DEF BeginPass, Overtaken
<1>8. ASSUME NEW w \in Worker, NEW x \in Execution,
             AlreadyPublished(w, x) \/ Examine(w, x)
      PROVE  Overtaken(e, p)'
  BY <1>8 DEF AlreadyPublished, Examine, Goto, Overtaken, IInv, TypeInv, TypeOK
<1>9. CASE Environment
  BY <1>9
  DEF Environment, Push, TakeBranchName, MergePullRequest, ClosePullRequest,
      Succeed, Supersede, SetRegistryStatus, Overtaken, IInv, TypeInv, TypeOK
<1>10. CASE UNCHANGED vars BY <1>10 DEF vars, Overtaken
<1> QED
  BY <1>1, <1>2, <1>3, <1>4, <1>5, <1>6, <1>7, <1>8, <1>9, <1>10 DEF Next, Step

\* Content that had drifted from what was reviewed before an attempt re-read
\* it is never overwritten by a commit that becomes visible.
THEOREM DriftedNotOverwritten == Spec => DriftedIsNotOverwritten
<1>1. ASSUME NEW e \in Execution, NEW p \in Path
      PROVE  Spec => [](Overtaken(e, p) =>
                          [](branch[e] \in Commit => p \notin branch[e].unseen))
  <2>1. IInv /\ Overtaken(e, p) /\ [Next]_vars => Overtaken(e, p)'
    BY OvertakenStays
  <2>2. Overtaken(e, p) => (branch[e] \in Commit => p \notin branch[e].unseen)
    BY DEF Overtaken
  <2> QED BY <2>1, <2>2, Invariance, PTL DEF Spec
<1> QED BY <1>1 DEF DriftedIsNotOverwritten
=============================================================================
