--------------------------- MODULE GithubPublish ---------------------------
(***************************************************************************)
(* The GitHub write and pull-request stage.  Every instance of the service *)
(* runs a pass over the succeeded change executions                        *)
(* (pipeline/github-publish-queue.ts) and, for each one without a          *)
(* publication row, checks eligibility, re-verifies the files it modifies, *)
(* builds a commit on the base branch, creates a branch of its own, opens  *)
(* a pull request and records the outcome (github-publish/                 *)
(* publish-service.ts).  Each call to MongoDB or to GitHub is awaited, so  *)
(* each one is a step, and anything may happen between two of them: the    *)
(* base branch moves, the proposal is superseded, another instance works   *)
(* on the same execution, the process dies or a database call throws.      *)
(* A pass lists a batch, the oldest executions; a published one keeps its  *)
(* place in it.                                                            *)
(*                                                                         *)
(* A commit is abstracted to the base sha it was built on and the set of   *)
(* modified paths whose content at that sha is no longer the one that was  *)
(* reviewed, that is, the paths it overwrites unseen.                      *)
(***************************************************************************)
EXTENDS Naturals, FiniteSets

CONSTANTS
  Worker,     \* instances of the service, one pipeline loop each
  Execution,  \* change executions that succeed
  Path,       \* paths of the repository that some proposal modifies
  Modifies,   \* the `modify` targets of each execution's proposal
  Limit,      \* the batch limit of findSucceeded()
  MaxOthers,  \* bound: executions of other tickets that take a place in the listing
  MaxMoves,   \* bound: pushes to the base branch by others
  MaxAborts,  \* bound: attempts lost to a crash or to a thrown error
  None,       \* no row, no ref
  Foreign     \* a ref that does not come from this service

ASSUME ExecutionAssumption == IsFiniteSet(Execution)
ASSUME ModifiesAssumption == Modifies \in [Execution -> SUBSET Path]
ASSUME LimitAssumption == Limit \in Nat \ {0}
ASSUME BoundsAssumption == MaxOthers \in Nat /\ MaxMoves \in Nat /\ MaxAborts \in Nat

Commit == [id : Nat, parent : Nat, unseen : SUBSET Path]

Category ==
  { "stale_file", "base_branch_missing", "base_branch_changed",
    "tree_or_commit_creation_failed", "branch_conflict",
    "branch_creation_failed", "push_verification_failed",
    "pull_request_creation_failed" }

Published(c) == [status |-> "published", category |-> "none", commit |-> c]
Failed(k)    == [status |-> "failed", category |-> k, commit |-> None]

Row ==
  [status : {"published"}, category : {"none"}, commit : Commit]
    \cup [status : {"failed"}, category : Category, commit : {None}]

ASSUME SentinelAssumption ==
  /\ None # Foreign
  /\ None \notin Commit /\ Foreign \notin Commit
  /\ None \notin Row

VARIABLES
  publication,   \* githubPublications, by executionId
  base,          \* sha of the base branch, counted in pushes
  drifted,       \* paths whose content on the base is not the reviewed one
  commits,       \* commit objects created so far
  branch,        \* the ref aisdlc/<runId>/<executionId>
  pullRequest,   \* state of the pull request of that ref
  opened,        \* history: pull requests opened for that ref
  createdAt,     \* place in the order of createdAt, 0 before it is recorded
  latest,        \* is the execution's review still its run's latest
  registered,    \* is the run's repository an active registry entry
  pc,            \* where each worker's attempt stands
  queue,         \* what is left of each worker's findSucceeded() result
  job,           \* the execution a worker is on
  unverified,    \* `modify` targets its attempt has still to re-read
  baseSha,       \* base sha its attempt read
  overwrites,    \* drifted paths in the tree at baseSha
  commit,        \* the commit its attempt built
  result,        \* the row its attempt is about to record
  aborts         \* attempts lost so far

github  == << base, drifted, commits, branch, pullRequest, opened >>
gates   == << createdAt, latest, registered >>
attempt == << unverified, baseSha, overwrites, commit, result >>
local   == << queue, job, attempt >>
vars    == << publication, github, gates, pc, local, aborts >>

Stage ==
  { "idle", "eligibility", "authorize", "verify_files",
    "build_commit", "recheck_base", "preflight", "create_branch",
    "reconcile_branch", "verify_push", "create_pr", "find_pr", "record" }

TypeOK ==
  /\ publication \in [Execution -> Row \cup {None}]
  /\ base \in Nat /\ commits \in Nat /\ aborts \in Nat
  /\ drifted \in SUBSET Path
  /\ branch \in [Execution -> Commit \cup {None, Foreign}]
  /\ pullRequest \in [Execution -> {"none", "open", "closed", "merged"}]
  /\ opened \in [Execution -> Nat]
  /\ createdAt \in [Execution -> Nat]
  /\ latest \in [Execution -> BOOLEAN]
  /\ registered \in BOOLEAN
  /\ pc \in [Worker -> Stage]
  /\ queue \in [Worker -> SUBSET Execution]
  /\ job \in [Worker -> Execution \cup {None}]
  /\ unverified \in [Worker -> SUBSET Path]
  /\ baseSha \in [Worker -> Nat]
  /\ overwrites \in [Worker -> SUBSET Path]
  /\ commit \in [Worker -> Commit \cup {None}]
  /\ result \in [Worker -> Row \cup {None}]

Init ==
  /\ publication = [e \in Execution |-> None]
  /\ base = 0 /\ drifted = {} /\ commits = 0
  /\ branch = [e \in Execution |-> None]
  /\ pullRequest = [e \in Execution |-> "none"]
  /\ opened = [e \in Execution |-> 0]
  /\ createdAt = [e \in Execution |-> 0]
  /\ latest = [e \in Execution |-> TRUE]
  /\ registered = TRUE
  /\ pc = [w \in Worker |-> "idle"]
  /\ queue = [w \in Worker |-> {}]
  /\ job = [w \in Worker |-> None]
  /\ unverified = [w \in Worker |-> {}]
  /\ baseSha = [w \in Worker |-> 0]
  /\ overwrites = [w \in Worker |-> {}]
  /\ commit = [w \in Worker |-> None]
  /\ result = [w \in Worker |-> None]
  /\ aborts = 0

-----------------------------------------------------------------------------
(***************************************************************************)
(* Helpers                                                                 *)
(***************************************************************************)
Goto(w, stage) == pc' = [pc EXCEPT ![w] = stage]

\* The next outcome of w's attempt is the row o (recordAttemptFailure, or the
\* `published` row at the end of attempt()).
Conclude(w, o) ==
  /\ Goto(w, "record")
  /\ result' = [result EXCEPT ![w] = o]

Fail(w, category) == Conclude(w, Failed(category))

\* The call returns: nothing of the attempt outlives it but what it wrote.
EndAttempt(w) ==
  /\ Goto(w, "idle")
  /\ job' = [job EXCEPT ![w] = None]
  /\ unverified' = [unverified EXCEPT ![w] = {}]
  /\ baseSha' = [baseSha EXCEPT ![w] = 0]
  /\ overwrites' = [overwrites EXCEPT ![w] = {}]
  /\ commit' = [commit EXCEPT ![w] = None]
  /\ result' = [result EXCEPT ![w] = None]

-----------------------------------------------------------------------------
(***************************************************************************)
(* The pass: list the succeeded executions, then one item after another.   *)
(***************************************************************************)
\* findSucceeded(): the Limit oldest executions.  None of them ever leaves the
\* status, so the place an execution is recorded at is its place for good.
Succeeded == {e \in Execution : createdAt[e] > 0}
Batch == {e \in Succeeded : createdAt[e] <= Limit}

BeginPass(w) ==
  /\ pc[w] = "idle" /\ queue[w] = {}
  /\ queue' = [queue EXCEPT ![w] = Batch]
  /\ UNCHANGED << publication, github, gates, pc, job, attempt, aborts >>

AlreadyPublished(w, e) ==
  /\ pc[w] = "idle" /\ e \in queue[w]
  /\ publication[e] # None
  /\ queue' = [queue EXCEPT ![w] = @ \ {e}]
  /\ UNCHANGED << publication, github, gates, pc, job, attempt, aborts >>

Examine(w, e) ==
  /\ pc[w] = "idle" /\ e \in queue[w]
  /\ publication[e] = None
  /\ queue' = [queue EXCEPT ![w] = @ \ {e}]
  /\ job' = [job EXCEPT ![w] = e]
  /\ Goto(w, "eligibility")
  /\ UNCHANGED << publication, github, gates, attempt, aborts >>

-----------------------------------------------------------------------------
(***************************************************************************)
(* Phase 1, eligibility: a refusal leaves no row.  The execution, its      *)
(* review's approval and its proposal hash never change once the execution *)
(* exists; what can have changed is whether a row was recorded, whether    *)
(* the review is still the run's latest and whether the repository is      *)
(* still an active registry entry.                                         *)
(***************************************************************************)
CheckEligibility(w) ==
  /\ pc[w] = "eligibility"
  /\ IF publication[job[w]] = None /\ latest[job[w]]
       THEN Goto(w, "authorize") /\ UNCHANGED << job, attempt >>
       ELSE EndAttempt(w)
  /\ UNCHANGED << publication, github, gates, queue, aborts >>

Authorize(w) ==
  /\ pc[w] = "authorize"
  /\ IF registered
       THEN /\ Goto(w, "verify_files")
            /\ unverified' = [unverified EXCEPT ![w] = Modifies[job[w]]]
            /\ UNCHANGED << job, baseSha, overwrites, commit, result >>
       ELSE EndAttempt(w)
  /\ UNCHANGED << publication, github, gates, queue, aborts >>

-----------------------------------------------------------------------------
(***************************************************************************)
(* Phase 2, the attempt: every outcome is recorded.                        *)
(***************************************************************************)

\* Mutated form of VerifyFile: a stale file is a refusal, not an outcome.
VerifyFileUnrecorded(w, p) ==
  /\ pc[w] = "verify_files" /\ p \in unverified[w]
  /\ \/ /\ p \notin drifted
        /\ unverified' = [unverified EXCEPT ![w] = @ \ {p}]
        /\ UNCHANGED << pc, job, baseSha, overwrites, commit, result >>
     \/ EndAttempt(w)
  /\ UNCHANGED << publication, github, gates, queue, aborts >>

\* Mutated form of VerifyFile: the content read is not compared.
VerifyFileUncompared(w, p) ==
  /\ pc[w] = "verify_files" /\ p \in unverified[w]
  /\ unverified' = [unverified EXCEPT ![w] = @ \ {p}]
  /\ UNCHANGED << publication, github, gates, pc, queue, job, baseSha, overwrites,
                  commit, result, aborts >>

\* One getFileContents of the base branch BY NAME: the content read is the
\* one at the branch's head at this moment.
VerifyFile(w, p) ==
  /\ pc[w] = "verify_files" /\ p \in unverified[w]
  /\ \/ /\ p \notin drifted
        /\ unverified' = [unverified EXCEPT ![w] = @ \ {p}]
        /\ UNCHANGED << pc, result >>
     \/ Fail(w, "stale_file") /\ UNCHANGED unverified
  /\ UNCHANGED << publication, github, gates, queue, job, baseSha, overwrites,
                  commit, aborts >>

ReadBase(w) ==
  /\ pc[w] = "verify_files" /\ unverified[w] = {}
  /\ \/ /\ Goto(w, "build_commit")
        /\ baseSha' = [baseSha EXCEPT ![w] = base]
        /\ overwrites' =
             [overwrites EXCEPT ![w] = drifted \cap Modifies[job[w]]]
        /\ UNCHANGED result
     \/ Fail(w, "base_branch_missing") /\ UNCHANGED << baseSha, overwrites >>
  /\ UNCHANGED << publication, github, gates, queue, job, unverified, commit,
                  aborts >>

\* getCommit, createTree and createCommit: objects no ref points at yet.
BuildCommit(w) ==
  /\ pc[w] = "build_commit"
  /\ \/ /\ Goto(w, "recheck_base")
        /\ commits' = commits + 1
        /\ commit' = [commit EXCEPT ![w] =
             [id |-> commits', parent |-> baseSha[w], unseen |-> overwrites[w]]]
        /\ UNCHANGED result
     \/ Fail(w, "tree_or_commit_creation_failed") /\ UNCHANGED << commits, commit >>
  /\ UNCHANGED << publication, base, drifted, branch, pullRequest, opened,
                  gates, queue, job, unverified, baseSha, overwrites, aborts >>

\* The base is still the one the commit was built on.
BaseUnmoved(w) == base = baseSha[w]

RecheckBase(w) ==
  /\ pc[w] = "recheck_base"
  /\ \/ BaseUnmoved(w) /\ Goto(w, "preflight") /\ UNCHANGED result
     \/ ~BaseUnmoved(w) /\ Fail(w, "base_branch_changed")
     \/ Fail(w, "base_branch_missing")
  /\ UNCHANGED << publication, github, gates, queue, job, unverified, baseSha,
                  overwrites, commit, aborts >>

\* A getRef that fails for any reason reads as "no such branch".
Preflight(w) ==
  /\ pc[w] = "preflight"
  /\ \/ branch[job[w]] # None /\ Fail(w, "branch_conflict")
     \/ Goto(w, "create_branch") /\ UNCHANGED result
  /\ UNCHANGED << publication, github, gates, queue, job, unverified, baseSha,
                  overwrites, commit, aborts >>

\* A ref of that name is a 422, ref_already_exists.
RefCreated(w) ==
  /\ branch[job[w]] = None
  /\ branch' = [branch EXCEPT ![job[w]] = commit[w]]

\* The push.  The request may be lost before it lands, or its response after.
CreateBranch(w) ==
  /\ pc[w] = "create_branch"
  /\ \/ /\ RefCreated(w)
        /\ \/ Goto(w, "verify_push")
           \/ Goto(w, "reconcile_branch")
        /\ UNCHANGED result
     \/ /\ branch[job[w]] # None
        /\ Fail(w, "branch_conflict")
        /\ UNCHANGED branch
     \/ /\ Goto(w, "reconcile_branch")
        /\ UNCHANGED << branch, result >>
  /\ UNCHANGED << publication, base, drifted, commits, pullRequest, opened,
                  gates, queue, job, unverified, baseSha, overwrites, commit,
                  aborts >>

\* Mutated form of PointsAtOwnCommit: a ref of that name is good enough.
RefExists(w) == branch[job[w]] # None

\* The ref re-read is compared with the commit this very attempt built.
PointsAtOwnCommit(w) == branch[job[w]] = commit[w]

ReconcileBranch(w) ==
  /\ pc[w] = "reconcile_branch"
  /\ \/ PointsAtOwnCommit(w) /\ Goto(w, "verify_push") /\ UNCHANGED result
     \/ Fail(w, "branch_creation_failed")
  /\ UNCHANGED << publication, github, gates, queue, job, unverified, baseSha,
                  overwrites, commit, aborts >>

VerifyPush(w) ==
  /\ pc[w] = "verify_push"
  /\ \/ PointsAtOwnCommit(w) /\ Goto(w, "create_pr") /\ UNCHANGED result
     \/ Fail(w, "push_verification_failed")
  /\ UNCHANGED << publication, github, gates, queue, job, unverified, baseSha,
                  overwrites, commit, aborts >>

\* GitHub refuses a second open pull request for a head, and one for a head
\* that is already merged (nothing left to compare), with a 422.
PullRequestOpened(w) ==
  /\ pullRequest[job[w]] \in {"none", "closed"}
  /\ pullRequest' = [pullRequest EXCEPT ![job[w]] = "open"]
  /\ opened' = [opened EXCEPT ![job[w]] = @ + 1]

CreatePullRequest(w) ==
  /\ pc[w] = "create_pr"
  /\ \/ /\ PullRequestOpened(w)
        /\ \/ Conclude(w, Published(commit[w]))
           \/ Goto(w, "find_pr") /\ UNCHANGED result
     \/ /\ Goto(w, "find_pr")
        /\ UNCHANGED << pullRequest, opened, result >>
  /\ UNCHANGED << publication, base, drifted, commits, branch, gates, queue,
                  job, unverified, baseSha, overwrites, commit, aborts >>

\* Mutated form of FindPullRequest: an empty list is taken for success.
FindPullRequestOptimistic(w) ==
  /\ pc[w] = "find_pr"
  /\ Conclude(w, Published(commit[w]))
  /\ UNCHANGED << publication, github, gates, queue, job, unverified, baseSha,
                  overwrites, commit, aborts >>

\* findPullRequestForBranch lists open pull requests only.
ListedOpen(w) == pullRequest[job[w]] = "open"

FindPullRequest(w) ==
  /\ pc[w] = "find_pr"
  /\ \/ /\ ListedOpen(w)
        /\ Conclude(w, Published(commit[w]))
     \/ Fail(w, "pull_request_creation_failed")
  /\ UNCHANGED << publication, github, gates, queue, job, unverified, baseSha,
                  overwrites, commit, aborts >>

\* createIfAbsent: the unique index on executionId lets the first row win.
Record(w) ==
  /\ pc[w] = "record"
  /\ publication' = [publication EXCEPT ![job[w]] =
                       IF @ = None THEN result[w] ELSE @]
  /\ EndAttempt(w)
  /\ UNCHANGED << github, gates, queue, aborts >>

\* A thrown error (a MongoDB or audit write that fails) ends the attempt
\* with no row; a crash, or a throw outside the item's try block, ends the
\* pass with it.
Abort(w) ==
  /\ aborts < MaxAborts
  /\ aborts' = aborts + 1
  /\ \/ pc[w] # "idle" /\ UNCHANGED queue
     \/ /\ pc[w] # "idle" \/ queue[w] # {}
        /\ queue' = [queue EXCEPT ![w] = {}]
  /\ EndAttempt(w)
  /\ UNCHANGED << publication, github, gates >>

-----------------------------------------------------------------------------
(***************************************************************************)
(* Everybody else: the stage before, other pushes, the people who handle   *)
(* pull requests, operators.                                               *)
(***************************************************************************)
\* The execution is recorded (ChangeReview's Record), after those recorded
\* before it and any number of other tickets' executions.
Succeed(e) ==
  /\ createdAt[e] = 0
  /\ \E place \in 1 .. (Cardinality(Execution) + MaxOthers) :
       /\ \A f \in Succeeded : createdAt[f] < place
       /\ createdAt' = [createdAt EXCEPT ![e] = place]
  /\ UNCHANGED << publication, github, latest, registered, pc, local, aborts >>

Push(paths) ==
  /\ base < MaxMoves
  /\ base' = base + 1
  /\ drifted' = drifted \cup paths
  /\ UNCHANGED << publication, commits, branch, pullRequest, opened, gates, pc,
                  local, aborts >>

TakeBranchName(e) ==
  /\ branch[e] = None
  /\ branch' = [branch EXCEPT ![e] = Foreign]
  /\ UNCHANGED << publication, base, drifted, commits, pullRequest, opened,
                  gates, pc, local, aborts >>

MergePullRequest(e) ==
  /\ pullRequest[e] = "open"
  /\ pullRequest' = [pullRequest EXCEPT ![e] = "merged"]
  /\ base' = base + 1
  /\ drifted' = drifted \cup Modifies[e]
  /\ UNCHANGED << publication, commits, branch, opened, gates, pc, local, aborts >>

ClosePullRequest(e) ==
  /\ pullRequest[e] = "open"
  /\ pullRequest' = [pullRequest EXCEPT ![e] = "closed"]
  /\ UNCHANGED << publication, base, drifted, commits, branch, opened, gates, pc,
                  local, aborts >>

\* The coding agent is run again for the execution's run.
Supersede(e) ==
  /\ latest[e]
  /\ latest' = [latest EXCEPT ![e] = FALSE]
  /\ UNCHANGED << publication, github, createdAt, registered, pc, local, aborts >>

\* PATCH /repository-registry: deactivate, or activate again.
SetRegistryStatus ==
  /\ registered' = ~registered
  /\ UNCHANGED << publication, github, createdAt, latest, pc, local, aborts >>

-----------------------------------------------------------------------------
Step(w) ==
  \/ BeginPass(w)
  \/ \E e \in Execution : AlreadyPublished(w, e) \/ Examine(w, e)
  \/ CheckEligibility(w) \/ Authorize(w)
  \/ \E p \in Path : VerifyFile(w, p)
  \/ ReadBase(w) \/ BuildCommit(w) \/ RecheckBase(w)
  \/ Preflight(w) \/ CreateBranch(w) \/ ReconcileBranch(w) \/ VerifyPush(w)
  \/ CreatePullRequest(w) \/ FindPullRequest(w) \/ Record(w)

Environment ==
  \/ \E paths \in SUBSET Path : Push(paths)
  \/ \E e \in Execution :
       \/ Succeed(e) \/ TakeBranchName(e)
       \/ MergePullRequest(e) \/ ClosePullRequest(e)
       \/ Supersede(e)
  \/ SetRegistryStatus

Next == (\E w \in Worker : Step(w) \/ Abort(w)) \/ Environment

\* The interval timer fires again and again and a pass awaits every item:
\* each instance keeps stepping.  Nothing is assumed of the environment.
Fairness == \A w \in Worker : WF_vars(Step(w))

Spec == Init /\ [][Next]_vars /\ Fairness

-----------------------------------------------------------------------------
(***************************************************************************)
(* Properties                                                              *)
(***************************************************************************)

\* A `published` row is never a guess: the branch exists, it points at the
\* very commit the row names and a pull request was opened for it
\* (publish-service.ts: verifyRef, then the reconciled createPullRequest).
PublishedIsOnGitHub ==
  \A e \in Execution :
    (publication[e] # None /\ publication[e].status = "published") =>
      /\ branch[e] = publication[e].commit
      /\ pullRequest[e] # "none"

\* However often an execution is attempted, by however many instances, and
\* whatever people do with the pull request meanwhile, the service opens at
\* most one pull request for it (the deterministic branch name, preflight,
\* createBranch and its reconciliation by commit sha).
AtMostOnePullRequest == \A e \in Execution : opened[e] <= 1

\* A ref of someone else that happens to bear the name is never adopted: no
\* pull request is opened from it and no row claims it as published.
ForeignBranchIsLeftAlone ==
  \A e \in Execution :
    branch[e] = Foreign =>
      /\ opened[e] = 0
      /\ publication[e] = None \/ publication[e].status = "failed"

\* A `modify` target that no longer has the content that was reviewed when an
\* attempt has yet to re-read it is never overwritten by a commit that becomes
\* visible, neither by that attempt nor by a later one: "re-read immediately
\* before publishing" (docs/github-publish.md).  A push between the last
\* re-read and the read of the base sha goes unnoticed, so the promise begins
\* with the re-read.
Overtaken(e, p) ==
  /\ p \in Modifies[e] /\ p \in drifted
  /\ branch[e] \in Commit => p \notin branch[e].unseen
  /\ \A w \in Worker :
       job[w] = e =>
         \/ pc[w] \in {"idle", "eligibility", "authorize", "record"}
         \/ pc[w] = "verify_files" /\ p \in unverified[w]
DriftedIsNotOverwritten ==
  \A e \in Execution, p \in Path :
    [](Overtaken(e, p) =>
         [](branch[e] \in Commit => p \notin branch[e].unseen))

\* The publications form a write-once register: the first outcome stays,
\* whoever else finishes later (createIfAbsent on executionId_unique).
Register ==
  INSTANCE OutcomeRegister
    WITH Key <- Execution, Outcome <- Row, row <- publication
OutcomeIsFinal == Register!Spec

\* An execution that stays publishable, and was early enough for the batch, is
\* decided, one way or the other: no race, crash or refused attempt leaves it
\* behind for ever.  The code promises nothing to an execution that Limit
\* others were recorded before: published or not, those keep their places.
PublishableIsDecided ==
  \A e \in Execution :
    <>[](e \in Batch /\ latest[e] /\ registered) => <>(publication[e] # None)
=============================================================================
