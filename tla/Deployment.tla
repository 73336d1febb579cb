----------------------------- MODULE Deployment -----------------------------
(***************************************************************************)
(* Pull-request merge detection and deployment, the last two passes of the *)
(* pipeline loop.  Detection (deployment/pr-merge-detection.ts) reads the  *)
(* pull request of every publication without a deployment row and records  *)
(* what people did with it; the deployment queue (deployment/              *)
(* deployment-queue.ts, deployment-service.ts) claims the eligible rows    *)
(* and drives each one through the provider.  Every call to MongoDB, to    *)
(* GitHub or to the provider is awaited and is a step of its own.          *)
(*                                                                         *)
(* GitHub keeps a merge_commit_sha for a pull request that is not merged   *)
(* too, that of a test merge; only after a merge does it name what landed. *)
(* The provider is modelled by its interface: a call that is answered with *)
(* an error may have deployed, may still be deploying or may yet arrive.   *)
(***************************************************************************)
EXTENDS Naturals, FiniteSets

CONSTANTS
  Worker,       \* instances of the service, one pipeline loop each
  Publication,  \* publications that are published
  Limit,        \* the batch limit of findPublished() and findEligible()
  MaxOthers,    \* bound: publications of other tickets that take a place in the listing
  MaxAborts,    \* bound: items lost to a crash or to a thrown error
  None          \* no row

ASSUME PublicationAssumption == IsFiniteSet(Publication)
ASSUME LimitAssumption == Limit \in Nat \ {0}
ASSUME BoundsAssumption == MaxOthers \in Nat /\ MaxAborts \in Nat

Sha == {"none", "test", "merge"}

Category ==
  {"configuration_invalid", "deployment_timeout", "deployment_provider_failure"}

Row ==
  [status : {"eligible", "running"}, sha : Sha, category : {"none"},
   validation : {"none"}]
    \cup [status : {"closed_unmerged"}, sha : {"none"}, category : {"none"},
          validation : {"none"}]
    \cup [status : {"failed"}, sha : Sha, category : Category,
          validation : {"none"}]
    \cup [status : {"succeeded"}, sha : Sha, category : {"none"},
          validation : {"passed", "failed"}]

NewRow(status, sha) == [status |-> status, sha |-> sha, category |-> "none",
                        validation |-> "none"]

ASSUME SentinelAssumption == None \notin Row /\ None \notin Publication

VARIABLES
  deployments,  \* the deployments collection, by publicationId
  publishedAt,  \* place in the order of their createdAt, 0 before they exist
  recordedAt,   \* createdAt of the deployment rows, 0 before they exist
  pullRequest,  \* state of the publication's pull request
  onBase,       \* does it still target the published base branch
  sha,          \* its merge_commit_sha
  provider,     \* what getDeploymentStatus would answer
  calls,        \* history: the shas deploy() was called with
  registered,   \* is the run's repository an active registry entry
  pc,           \* where each worker's pass stands
  queue,        \* what is left of the list it is working through
  job,          \* the publication it is on
  result,       \* the row it is about to write
  aborts        \* items lost so far

github == << pullRequest, onBase, sha >>
target == << provider, calls >>
local  == << queue, job, result >>
stored == << publishedAt, recordedAt, registered >>
vars   == << deployments, github, target, stored, pc, local, aborts >>

DetectStage == {"authorize", "read_pr", "record"}
DeployStage == {"validate", "deploy_call", "reconcile", "check_health", "mark"}
Stage       == {"idle", "detect", "deploy"} \cup DetectStage \cup DeployStage

TypeOK ==
  /\ deployments \in [Publication -> Row \cup {None}]
  /\ pullRequest \in [Publication -> {"open", "closed", "merged"}]
  /\ onBase \in [Publication -> BOOLEAN]
  /\ sha \in [Publication -> Sha]
  /\ provider \in [Publication -> {"unknown", "running", "succeeded", "failed"}]
  /\ calls \in [Publication -> [Sha -> Nat]]
  /\ publishedAt \in [Publication -> Nat] /\ recordedAt \in [Publication -> Nat]
  /\ registered \in BOOLEAN
  /\ pc \in [Worker -> Stage]
  /\ queue \in [Worker -> SUBSET Publication]
  /\ job \in [Worker -> Publication \cup {None}]
  /\ result \in [Worker -> Row \cup {None}]
  /\ aborts \in Nat

Init ==
  /\ deployments = [p \in Publication |-> None]
  /\ pullRequest = [p \in Publication |-> "open"]
  /\ onBase = [p \in Publication |-> TRUE]
  /\ sha = [p \in Publication |-> "none"]
  /\ provider = [p \in Publication |-> "unknown"]
  /\ calls = [p \in Publication |-> [s \in Sha |-> 0]]
  /\ publishedAt = [p \in Publication |-> 0]
  /\ recordedAt = [p \in Publication |-> 0]
  /\ registered = TRUE
  /\ pc = [w \in Worker |-> "idle"]
  /\ queue = [w \in Worker |-> {}]
  /\ job = [w \in Worker |-> None]
  /\ result = [w \in Worker |-> None]
  /\ aborts = 0

-----------------------------------------------------------------------------
(***************************************************************************)
(* Helpers                                                                 *)
(***************************************************************************)
Goto(w, stage) == pc' = [pc EXCEPT ![w] = stage]

\* The item is done with; w goes on with the list it came from.
EndItem(w, list) ==
  /\ Goto(w, list)
  /\ job' = [job EXCEPT ![w] = None]
  /\ result' = [result EXCEPT ![w] = None]

\* The next write of w is the row r.
Conclude(w, stage, r) ==
  /\ Goto(w, stage)
  /\ result' = [result EXCEPT ![w] = r]

FailedRow(p, category) ==
  [deployments[p] EXCEPT !.status = "failed", !.category = category]

SucceededRow(p, validation) ==
  [deployments[p] EXCEPT !.status = "succeeded", !.validation = validation]

-----------------------------------------------------------------------------
(***************************************************************************)
(* Merge detection                                                         *)
(***************************************************************************)
\* findPublished(): the Limit oldest publications.  None of them ever leaves
\* the status, so the place a publication is recorded at is its place for good.
Published == {p \in Publication : publishedAt[p] > 0}
Batch == {p \in Published : publishedAt[p] <= Limit}

\* Mutated form of BeginPass: only what is still open is looked at.
BeginPassOpenOnly(w) ==
  /\ pc[w] = "idle"
  /\ Goto(w, "detect")
  /\ queue' = [queue EXCEPT ![w] = {p \in Batch : pullRequest[p] = "open"}]
  /\ UNCHANGED << deployments, github, target, stored, job, result, aborts >>

BeginPass(w) ==
  /\ pc[w] = "idle"
  /\ Goto(w, "detect")
  /\ queue' = [queue EXCEPT ![w] = Batch]
  /\ UNCHANGED << deployments, github, target, stored, job, result, aborts >>

AlreadyRecorded(w, p) ==
  /\ pc[w] = "detect" /\ p \in queue[w]
  /\ deployments[p] # None
  /\ queue' = [queue EXCEPT ![w] = @ \ {p}]
  /\ UNCHANGED << deployments, github, target, stored, pc, job, result,
                  aborts >>

Examine(w, p) ==
  /\ pc[w] = "detect" /\ p \in queue[w]
  /\ deployments[p] = None
  /\ queue' = [queue EXCEPT ![w] = @ \ {p}]
  /\ job' = [job EXCEPT ![w] = p]
  /\ Goto(w, "authorize")
  /\ UNCHANGED << deployments, github, target, stored, result, aborts >>

Authorize(w) ==
  /\ pc[w] = "authorize"
  /\ IF registered THEN Goto(w, "read_pr") /\ UNCHANGED << job, result >>
                   ELSE EndItem(w, "detect")
  /\ UNCHANGED << deployments, github, target, stored, queue, aborts >>

\* What one getPullRequest answer makes of the publication: the row to
\* create, or None while there is nothing to record.
Detected(p) ==
  CASE onBase[p] /\ pullRequest[p] = "closed" -> NewRow("closed_unmerged", "none")
    [] onBase[p] /\ pullRequest[p] = "merged" /\ sha[p] # "none" ->
         NewRow("eligible", sha[p])
    [] OTHER -> None

ReadPullRequest(w) ==
  /\ pc[w] = "read_pr"
  /\ IF Detected(job[w]) = None
       THEN EndItem(w, "detect")
       ELSE Conclude(w, "record", Detected(job[w])) /\ UNCHANGED job
  /\ UNCHANGED << deployments, github, target, stored, queue, aborts >>

Recorded == {p \in Publication : deployments[p] # None}

\* Mutated form of Record: the row is upserted.
RecordUpsert(w) ==
  /\ pc[w] = "record"
  /\ deployments' = [deployments EXCEPT ![job[w]] = result[w]]
  /\ recordedAt' = [recordedAt EXCEPT ![job[w]] = 1 + Cardinality(Recorded)]
  /\ EndItem(w, "detect")
  /\ UNCHANGED << github, target, publishedAt, registered, queue, aborts >>

\* createIfAbsent: the unique index on publicationId lets the first row win.
Record(w) ==
  /\ pc[w] = "record"
  /\ IF deployments[job[w]] = None
       THEN /\ deployments' = [deployments EXCEPT ![job[w]] = result[w]]
            /\ recordedAt' = [recordedAt EXCEPT ![job[w]] = 1 + Cardinality(Recorded)]
       ELSE UNCHANGED << deployments, recordedAt >>
  /\ EndItem(w, "detect")
  /\ UNCHANGED << github, target, publishedAt, registered, queue, aborts >>

-----------------------------------------------------------------------------
(***************************************************************************)
(* Deployment                                                              *)
(***************************************************************************)
InStatus(p, status) == deployments[p] # None /\ deployments[p].status = status

\* findEligible(): the Limit oldest; a claim makes room for the next.
Eligible == {p \in Publication : InStatus(p, "eligible")}
Older(p) == {q \in Eligible : recordedAt[q] < recordedAt[p]}
Claimable == {p \in Eligible : Cardinality(Older(p)) < Limit}

ListEligible(w) ==
  /\ pc[w] = "detect" /\ queue[w] = {}
  /\ Goto(w, "deploy")
  /\ queue' = [queue EXCEPT ![w] = Claimable]
  /\ UNCHANGED << deployments, github, target, stored, job, result, aborts >>

EndPass(w) ==
  /\ pc[w] = "deploy" /\ queue[w] = {}
  /\ Goto(w, "idle")
  /\ UNCHANGED << deployments, github, target, stored, local, aborts >>

\* Mutated form of Claim: the listed row is set to running unconditionally.
ClaimBlind(w, p) ==
  /\ pc[w] = "deploy" /\ p \in queue[w]
  /\ deployments' = [deployments EXCEPT ![p].status = "running"]
  /\ queue' = [queue EXCEPT ![w] = @ \ {p}]
  /\ job' = [job EXCEPT ![w] = p]
  /\ Goto(w, "validate")
  /\ UNCHANGED << github, target, stored, result, aborts >>

\* The compare-and-set eligible -> running.
Claim(w, p) ==
  /\ pc[w] = "deploy" /\ p \in queue[w]
  /\ queue' = [queue EXCEPT ![w] = @ \ {p}]
  /\ IF InStatus(p, "eligible")
       THEN /\ deployments' = [deployments EXCEPT ![p].status = "running"]
            /\ job' = [job EXCEPT ![w] = p]
            /\ Goto(w, "validate")
       ELSE UNCHANGED << deployments, job, pc >>
  /\ UNCHANGED << github, target, stored, result, aborts >>

Validate(w) ==
  /\ pc[w] = "validate"
  /\ \/ /\ deployments[job[w]].sha # "none"
        /\ Goto(w, "deploy_call")
        /\ UNCHANGED result
     \/ Conclude(w, "mark", FailedRow(job[w], "configuration_invalid"))
  /\ UNCHANGED << deployments, github, target, stored, queue, job, aborts >>

\* deploy() with the sha of the claimed row.  Only a deployment that landed
\* is answered with ok; an error is a timeout when the provider calls it
\* retryable.
Deploy(w) ==
  /\ pc[w] = "deploy_call"
  /\ calls' = [calls EXCEPT ![job[w]][deployments[job[w]].sha] = @ + 1]
  /\ \/ /\ provider' = [provider EXCEPT ![job[w]] = "succeeded"]
        /\ Goto(w, "check_health")
        /\ UNCHANGED result
     \/ \E status \in {"unknown", "running", "succeeded", "failed"},
           category \in {"deployment_timeout", "deployment_provider_failure"} :
          /\ provider' = [provider EXCEPT ![job[w]] = status]
          /\ Conclude(w, "reconcile", FailedRow(job[w], category))
  /\ UNCHANGED << deployments, github, stored, queue, job, aborts >>

\* Mutated form of Reconcile: only a definite failure is one.
ReconcileOptimistic(w) ==
  /\ pc[w] = "reconcile"
  /\ IF provider[job[w]] # "failed"
       THEN Conclude(w, "check_health", None)
       ELSE Goto(w, "mark") /\ UNCHANGED result
  /\ UNCHANGED << deployments, github, target, stored, queue, job, aborts >>

\* getDeploymentStatus after an error.
Reconcile(w) ==
  /\ pc[w] = "reconcile"
  /\ IF provider[job[w]] = "succeeded"
       THEN Conclude(w, "check_health", None)
       ELSE Goto(w, "mark") /\ UNCHANGED result
  /\ UNCHANGED << deployments, github, target, stored, queue, job, aborts >>

\* Post-deployment validation: the row will say succeeded either way.
CheckHealth(w) ==
  /\ pc[w] = "check_health"
  /\ \E validation \in {"passed", "failed"} :
       Conclude(w, "mark", SucceededRow(job[w], validation))
  /\ UNCHANGED << deployments, github, target, stored, queue, job, aborts >>

\* markSucceeded and markFailed update by _id alone, whatever the status.
Mark(w) ==
  /\ pc[w] = "mark"
  /\ deployments' = [deployments EXCEPT ![job[w]] = result[w]]
  /\ EndItem(w, "deploy")
  /\ UNCHANGED << github, target, stored, queue, aborts >>

\* A thrown error ends the item; a crash, or a throw outside an item's try
\* block, ends the pass.
Abort(w) ==
  /\ aborts < MaxAborts
  /\ aborts' = aborts + 1
  /\ \/ pc[w] \in DetectStage /\ EndItem(w, "detect") /\ UNCHANGED queue
     \/ pc[w] \in DeployStage /\ EndItem(w, "deploy") /\ UNCHANGED queue
     \/ /\ pc[w] # "idle"
        /\ EndItem(w, "idle")
        /\ queue' = [queue EXCEPT ![w] = {}]
  /\ UNCHANGED << deployments, github, target, stored >>

-----------------------------------------------------------------------------
(***************************************************************************)
(* Everybody else: the stage before, the people who handle the pull        *)
(* request, GitHub, the provider, operators.                               *)
(***************************************************************************)
\* The publication is recorded (GithubPublish's Record), after those recorded
\* before it and any number of other tickets' publications.
Publish(p) ==
  /\ publishedAt[p] = 0
  /\ \E place \in 1 .. (Cardinality(Publication) + MaxOthers) :
       /\ \A q \in Published : publishedAt[q] < place
       /\ publishedAt' = [publishedAt EXCEPT ![p] = place]
  /\ UNCHANGED << deployments, github, target, recordedAt, registered, pc, local,
                  aborts >>

Retarget(p) ==
  /\ pullRequest[p] = "open"
  /\ onBase' = [onBase EXCEPT ![p] = ~@]
  /\ UNCHANGED << deployments, pullRequest, sha, target, stored, pc, local,
                  aborts >>

TestMerge(p) ==
  /\ pullRequest[p] = "open" /\ sha[p] = "none"
  /\ sha' = [sha EXCEPT ![p] = "test"]
  /\ UNCHANGED << deployments, pullRequest, onBase, target, stored, pc,
                  local, aborts >>

Merge(p) ==
  /\ pullRequest[p] = "open"
  /\ pullRequest' = [pullRequest EXCEPT ![p] = "merged"]
  /\ \E s \in {"none", "merge"} : sha' = [sha EXCEPT ![p] = s]
  /\ UNCHANGED << deployments, onBase, target, stored, pc, local, aborts >>

MergeCommitKnown(p) ==
  /\ pullRequest[p] = "merged"
  /\ sha' = [sha EXCEPT ![p] = "merge"]
  /\ UNCHANGED << deployments, pullRequest, onBase, target, stored, pc,
                  local, aborts >>

Close(p) ==
  /\ pullRequest[p] = "open"
  /\ pullRequest' = [pullRequest EXCEPT ![p] = "closed"]
  /\ UNCHANGED << deployments, onBase, sha, target, stored, pc, local, aborts >>

Reopen(p) ==
  /\ pullRequest[p] = "closed"
  /\ pullRequest' = [pullRequest EXCEPT ![p] = "open"]
  /\ UNCHANGED << deployments, onBase, sha, target, stored, pc, local, aborts >>

\* A deployment that was started goes on, or a late call arrives, whether or
\* not the service still waits for it.
ProviderProceeds(p) ==
  /\ \E s \in Sha : calls[p][s] > 0
  /\ \/ /\ provider[p] = "unknown"
        /\ provider' = [provider EXCEPT ![p] = "running"]
     \/ /\ provider[p] = "running"
        /\ \E s \in {"succeeded", "failed"} :
             provider' = [provider EXCEPT ![p] = s]
  /\ UNCHANGED << deployments, github, calls, stored, pc, local, aborts >>

SetRegistryStatus ==
  /\ registered' = ~registered
  /\ UNCHANGED << deployments, github, target, publishedAt, recordedAt, pc, local,
                  aborts >>

-----------------------------------------------------------------------------
Step(w) ==
  \/ BeginPass(w)
  \/ \E p \in Publication : AlreadyRecorded(w, p) \/ Examine(w, p)
  \/ Authorize(w) \/ ReadPullRequest(w) \/ Record(w)
  \/ ListEligible(w) \/ EndPass(w)
  \/ \E p \in Publication : Claim(w, p)
  \/ Validate(w) \/ Deploy(w) \/ Reconcile(w) \/ CheckHealth(w) \/ Mark(w)

Environment ==
  \/ \E p \in Publication :
       \/ Publish(p) \/ Retarget(p) \/ TestMerge(p) \/ Merge(p) \/ MergeCommitKnown(p)
       \/ Close(p) \/ Reopen(p) \/ ProviderProceeds(p)
  \/ SetRegistryStatus

Next == (\E w \in Worker : Step(w) \/ Abort(w)) \/ Environment

\* The interval timer fires again and again and a pass awaits every item:
\* each instance keeps stepping.  Nothing is assumed of the environment.
Fairness == \A w \in Worker : WF_vars(Step(w))

Spec == Init /\ [][Next]_vars /\ Fairness

-----------------------------------------------------------------------------
(***************************************************************************)
(* Properties                                                              *)
(***************************************************************************)

\* The provider is asked to deploy a publication at most once, whatever
\* instances race and wherever one of them dies, and only with a commit that
\* a person merged into the branch the proposal was published against: never
\* the test merge of a pull request that is open, closed or retargeted
\* (detectOne's reading of `merged`, then claim's compare-and-set).
DeployedOnce ==
  \A p \in Publication :
    /\ calls[p]["merge"] <= 1
    /\ calls[p]["none"] = 0 /\ calls[p]["test"] = 0

\* What was deployed was merged, into the published base branch.
DeployedIsMerged ==
  \A p \in Publication :
    (\E s \in Sha : calls[p][s] > 0) => pullRequest[p] = "merged" /\ onBase[p]

\* A `succeeded` row is not an assumption: the provider did deploy.
SucceededIsDeployed ==
  \A p \in Publication : InStatus(p, "succeeded") => provider[p] = "succeeded"

\* A row that reached succeeded, failed or closed_unmerged is never touched
\* again, although the two mark updates are guarded by nothing but the _id:
\* the settled rows form a write-once register.
Settled ==
  [p \in Publication |->
     IF \/ InStatus(p, "succeeded") \/ InStatus(p, "failed")
        \/ InStatus(p, "closed_unmerged")
       THEN deployments[p] ELSE None]
Register ==
  INSTANCE OutcomeRegister
    WITH Key <- Publication, Outcome <- Row, row <- Settled
OutcomeIsFinal == Register!Spec

\* A merge that stays visible, of a publication early enough for the batch, is
\* recorded and its deployment settled: no crash, thrown error or refused pass
\* makes detection miss it for good.  What the code does lose is a row whose
\* claim was cut short, which stays `running`, and one behind a full batch.
Cut(p) == InStatus(p, "running") /\ \A w \in Worker : job[w] # p
Visible(p) == registered /\ pullRequest[p] = "merged" /\ onBase[p] /\ sha[p] = "merge"
MergedIsSettled ==
  \A p \in Publication :
    <>[](p \in Batch /\ Visible(p)) => <>(Settled[p] # None \/ Cut(p))
=============================================================================
