# A verification project for aisdlc-service

`aisdlc-service` turns issue-tracker tickets into reviewed, published and deployed changes. A webhook
announces a ticket; the service fetches it, has it analysed, asks an operator to approve it, matches it to a
repository, lets a coding agent propose changes, asks an operator to approve those, applies and validates
them locally, publishes them as a branch and a pull request, waits for a person to merge it and deploys the
result. All state lives in MongoDB; the stages are timers in one Node process, of which several instances may
run. The properties below are about what that design must survive: two instances at the same work, an attempt
that dies between two writes, an answer from GitHub or from the deployment provider that never arrives, and
people who decide, merge, close and push at any moment in between.

Paths are relative to `src/src/` in the repository unless they start with `docs/` (which is `src/docs/`).

## 1. Inventory

| Component | State it keeps | Operations | Modelled in |
|---|---|---|---|
| Webhook ingest (`api/ingest.ts`, `db/webhook-deliveries.ts`) | `webhookDeliveries`, unique on the body's hash | record, findPending, markEnriched, scheduleRetry, markFailed | `WebhookDelivery` |
| Enrichment (`enrichment/`, `neutara/`) | attempts and backoff on a delivery | one pass: fetch, create the intake item, settle the delivery | `WebhookDelivery` |
| Intake lifecycle (`intake/`, `api/approval.ts`) | `intakeItems`, unique on the issue key | create, transition (a compare-and-set), list | `Intake` |
| Requirements agent (`requirements/`) | `requirementsAnalyses`, unique on the item | createPending, analyse, markCompleted, markFailed, advance | `Intake` |
| Orchestrator (`orchestrator/`) | `runs`, unique on the item | list approved items, createIfAbsent | `Intake` |
| Repository registry (`repository-registry/`, `api/repository-registry.ts`) | `repositoryRegistry` | create, update, setStatus, delete | `RepositoryRegistry`; an environment action in the stages |
| Repository selection (`repository-selection/`) | `repositorySelections`, unique on the run | match, retry, notify, confirm | `RepositorySelection` |
| Coding agent (`coding-agent/`) | nothing of its own | execute: context, plan, changes, each checked; suggest files | `CodingAgent`; its proposals in `ChangeReview` |
| GitHub App access (`github-app/`, `github-access/`) | an installation-token cache and the token requests under way, per process | authorize, read, write | `TokenIssuer`, `CodingAgent`; the writing calls in `GithubPublish` |
| Change review and execution (`change-execution/`) | `changeReviews`, unique on the proposal's hash; `changeExecutions`, unique on the review | createIfAbsent, decide, execute | `ChangeReview` |
| GitHub publishing (`github-publish/`) | `githubPublications`, unique on the execution | the publish attempt and its reconciliation | `GithubPublish` |
| Merge detection and deployment (`deployment/`) | `deployments`, unique on the publication | detect, claim, deploy, reconcile, check, mark | `Deployment` |
| Pipeline loop (`pipeline/scheduler.ts`) | `stopped`, `inFlight` | execute, publish, detect, deploy, every 30 s | `PipelineTrail`, and each stage in its own module |
| Run status (`pipeline/run-status.ts`, `api/run-status.ts`) | none (derived) | six reads and one function of what they found | `PipelineTrail` |
| Test purge (`intake/test-purge.ts`) | none | deletes an item and everything made from it | `PipelineTrail` |
| Database client (`db/client.ts`) | one connection, its health | connect, reconnect, close | not modelled (section 6) |
| HTTP, console, configuration, logging, scripts | none that matters here | I/O | not modelled |

**How they interact.** Never by calls from one stage to the next: every stage lists what the stage before it
left in MongoDB, works through the list one awaited call at a time and writes a document of its own, unique on
the key of its input. The list is a snapshot; what it says can be stale when an item's turn comes. The rules
that keep the stages apart are the unique indexes, the conditional updates (`findOneAndUpdate` on the status
that was read), and, on GitHub, a branch name computed from the run and the execution. Operators reach the
same documents through HTTP while the loops run. Audit entries are separate writes after the update they
describe, so any step may throw after it has taken effect.

**What is hard.** (a) Several instances are explicitly allowed, so every read-then-write is a race. (b) A
crash or a thrown database error loses an attempt at any await; the next pass starts from what was written.
(c) A GitHub or provider call may be carried out although its answer is lost. (d) What was checked (approval
not expired, latest proposal, repository active, file contents, base branch) may change before it is relied
on. (e) Batches are bounded, and the statuses that five of the listings ask for are never left: what is done
with keeps its place, and starves what comes after it (section 4). `PROJECT.json` lists each such hazard at its
line with the property that watches it, or says why none does.

**What makes each component correct**, in a line: *intake*: statuses move along the table, nobody reviews
what was not analysed, every approved item gets its one run; *review and execution*: only approved, current
proposals over unchanged files are executed, decisions and outcomes are final; *publishing*: a published row is
true, one pull request per execution, nobody else's branch is touched, every publishable execution in the batch is decided;
*deployment*: at most one deployment per publication, of what a person merged, success only if it happened,
every visible merge in the batch recorded and settled; *selection*: what is confirmed was offered and mapped, confirmed rows are final, no unresolved row is starved or
unreported; *ingest and enrichment*: an accepted event is settled, once, and an enriched one has its ticket's one
item; *registry*: no interleaving of partial edits stores an entry the validation would refuse or undoes what another
operator asked for, and no live entry is removed; *coding agent and GitHub access*: GitHub is asked only for what was granted, with a live token, and a
proposal is about the files its own request named; *the trail as a whole*: no later stage without its earlier one,
a purge that found its ticket leaves nothing behind, the reported stage was real, and no run is left between two stages.

## 2. Modules

| Module | What it is |
|---|---|
| `OutcomeRegister` | the abstract specification of a `createIfAbsent` collection: one row per key, written once, never changed or removed |
| `Intake` | items, analyses, approvals and runs: the requirements loop and script, the operators, the orchestrator loop |
| `RepositorySelection` | matching, retries and confirmation against a registry that is edited |
| `ChangeReview` | proposals, decisions and the execution pass |
| `GithubPublish` | the publish attempt against a GitHub that moves |
| `Deployment` | merge detection, the claim, the provider and its reconciliation |
| `WebhookDelivery` | webhook ingest and the enrichment loop |
| `RepositoryRegistry` | the registry's documents, the requests that edit them, and the setup of its unique index |
| `TokenIssuer` | the token cache, the shared token requests and the clock |
| `CodingAgent` | an operator's request to the agent, call by call, with the tokens of `TokenIssuer` (which it extends) |
| `PipelineTrail` | all stages over one ticket's documents, with the purge and the run status |
| `MC*` | symmetry sets and constant definitions for TLC |
| `IntakeProofs`, `RepositoryProofs`, `ChangeReviewProofs`, `GithubPublishProofs`, `DeploymentProofs`, `WebhookDeliveryProofs`, `CodingAgentProofs`, `PipelineTrailProofs` | the theorems of section 5; `RepositoryProofs` is about the selection and the registry |

They share their conventions. A *worker* is an instance of the service. `pc[w]` is the await its attempt stands
at, `queue[w]` what is left of the list it took at the beginning of the pass, `job[w]` the item in hand. An action
is what happens between two awaits; its guard is the code's condition, and a refused check is a step too, with
the row or the return the code makes of it. `createIfAbsent` (read, insert, on a duplicate-key error read again)
is one step, because its effect is: the row is there if none was, the first one stays. `Abort` covers the
crash, the database or audit call that throws inside an item's `try` (the item is lost, the pass goes on) and
the throw outside it (the rest of the pass is lost); the number of aborts is bounded by `MaxAborts` for TLC only.
Operators, other pushers, people on GitHub, the provider and the registry are environment actions without
fairness. Definitions named as a *mutated form* are not part of any specification: each is a plausible bug that
the run of the property beside it must detect.

### Intake

`status`, `analysis` and `runs` are the three collections; `createdAt` is the arrival order, by which `list`
returns the newest `Limit` items (25 in the code). A requirements worker lists the received items, ensures a
pending row (`CreatePending`), takes the up-to-date path, fails validation or analyses, writes the result
*unconditionally* (`MarkCompleted`, `MarkFailed`: both update by item, whatever the row says) and advances the
item by `transition`: read and check (`ReadStatus`), then update if the status is still the one read
(`Advance`). `Script` stands for `npm run requirements:run`, which runs the same agent on any item, in any status,
and does not advance one that was up to date. `Ask` and `Decide` are the two halves of an operator's
`transition`. The orchestrator takes its own list and creates runs. A snapshot is never rewritten, so the
hash comparison is between equal hashes and `attempts` and usage counts are left out. Nothing in the code moves an item to
`failed`; the table that allows it is modelled.

### RepositorySelection

`selections` is the collection, `active` the registry's active mapping of each `repositoryId` (the partial unique index
allows one). A pass lists the newest `Limit` queued runs, matches those without a row (`Examine`, `Match`, `Create`), then
lists the rows due for a retry, with the `lastNotifiedStatus` they have at that moment, and matches them again (`Match`,
`Retry`: a compare-and-set on failed or ambiguous). `Notify` is the audit entry, written after the row. `due` and `ahead`
are `nextAttemptAt` reduced to what the listing needs: whether it has passed, and which came first; the length of a
backoff does not matter, only that it ends (`BackoffPasses`, fair). `Choose`, `Check` and `Confirm` are the awaits of a
confirmation: the route's read of the registry, `confirm()`'s read of the row, its update. Candidates are compared as a
set. `had` and `offered` are histories: the mappings and candidates there have been. A project is a family
of runs that share nothing with others but the batch, so one is modelled. A queued run's intake item is there unless the
test purge removed it, which is the subject of `PipelineTrail`. The order of a pass's items is left open.

### ChangeReview

A proposal stands for its content, hence for its hash and its row. `Propose` is the coding agent's result: an
existing row with that hash is returned as it is. `Ask` and `Decide` are `decide()`. A worker's attempt passes
through the checks of `execution-service.ts` in their order: the review is approved and not expired, it is the
run's latest, the repository is authorised, the contents are read, the changes applied if no target is
stale, the validation commands run (a nondeterministic outcome) and the outcome recorded. A refusal before the
contents are read leaves no row and is tried again at the next pass; a later one is recorded. `Batch` is what
`findApproved` lists, the `Limit` approved reviews whose `updatedAt` is the oldest (`clock` dates the writes); they stay approved for
ever, so that `queue` offers a worker what was decided first, executed or not. The order of
`createdAt` is the order of insertion: ties within a millisecond and clock differences between instances are
abstracted. The operator-prefix check (`review-repository.ts:148-150`) cannot fail through the route and is left
out. A decision request that is lost is one that is never decided.

### GithubPublish

`createdAt` is the place an execution takes in the order in which `findSucceeded` lists them. Any number of other tickets'
executions may come before it (`Succeed`; `MaxOthers` bounds them), and since no execution ever leaves `succeeded` it keeps that place: the
`Limit` first make the `Batch` of every pass. The others are not modelled further: they share nothing else with it. One attempt, call by call: eligibility, authorisation, re-reading every `modify` target by branch name, reading
the base sha, building tree and commit, re-reading the base sha, preflight on the branch name, `createBranch`
(done, already there, or answer lost and reconciled by comparing the ref's sha with the commit this attempt
built), verifying the ref, `createPullRequest` (likewise, reconciled by looking for an open one) and recording.
A commit is the base it was built on plus the set of modified paths whose content there nobody reviewed. Nobody
but the service deletes or moves the service's own branch, once it is there; anyone may create a branch of that
name first (`TakeBranchName`). Path and branch-name validation are checks of immutable data and always give the
same answer; reads of immutable rows are folded into the next step. Transient token failures are
part of `Abort`, which has the same effect. A selection's repository and branch never change
once it is `selected`, so the `repository_mismatch` and `branch_mismatch` refusals cannot occur and are left out.

### Deployment

`publishedAt` and `Batch` are to `findPublished` what `createdAt` and `Batch` are to `findSucceeded` in `GithubPublish`; `findEligible`
(`Claimable`) lists the oldest eligible rows, which a claim takes out. `deployments` is the collection; `pullRequest`, `onBase` and `sha` are GitHub's side. `merge_commit_sha` is that of a test merge
as long as the pull request is not merged, and may be missing for a while after. Detection reads the pull request and
records `eligible`, `closed_unmerged` or nothing. The queue claims an eligible row by compare-and-set and drives it: validation of
immutable data, `deploy()`, on an error `getDeploymentStatus()`, the health check, the final update by `_id`.
The provider is its interface: a call answered `ok` has landed; one answered with an error may
have landed, be running, or still be on its way (`ProviderProceeds`). A mismatch of publication and repository
identity is one refusal with the authorisation (`registered`). A head ref never changes; a base ref may (`Retarget`).

### WebhookDelivery

`delivery` is the collection by body (its unique key is the body's hash); `wait` and `ahead` are `nextAttemptAt` as what the
listing needs of it: how long until it is due, and which comes first. `Receive`, `Record`, `Existing` and `Audit` are the awaits of
`POST /ingest`: the insert, the read after a duplicate key, the audit entry, the answer; any may throw, which is a 503 after which the sender
may or may not come again. A pass lists the due deliveries as snapshots with their `attempts` (`BeginPass`), and each item is fetched (`Fetch`: the
ticket, a failure worth a retry, or one that is not), created under the canonical key of the *answer* (`Create`) and settled, each write
conditional on `pending`. `Exhausted` compares the attempts that were *listed*. `tracker` is what the issue tracker holds, chosen at the
start from `Trackers` and the same throughout: the identifier by which each body names its ticket (`Names`), and the tickets whose item the
collection validator refuses (`Refused`). `Create` of such an item throws at every pass, and counts no attempt (section 4). `Expire` is
the TTL index: after 90 days, a time no pass takes, it removes what is settled, and what is refused or stuck behind a batch of refused deliveries (`Served`).

### RepositoryRegistry

`entries` are the documents of one project, `index` the partial unique index on active mappings. `Create` and `SetStatus` are single
writes; `Edit` reads an entry and merges the request into it, `Store` writes every merged field back if the entry still exists; `AskDelete`
and `Delete` find the entry inactive and remove it if it still is. `DropIndex` and `BuildIndex` are the setup that replaces an index whose definition
differs (`db/indexes.ts`): between them nothing is unique, and the rebuild fails on duplicates. Authentication and body shapes are decided before
and change nothing; the audit entry after a write undoes nothing.

### TokenIssuer and CodingAgent

Time is what is left of a token's life: `Tick` takes one unit off every token and adds one to the age of each call under way, and a
call that has reached its timeout stops the clock until it is answered. `Await` shares the request for a token under way or makes one;
`Reply` hands its result, also a failure, to all who wait, and un-shares it; `Kept` stores it with the one who asked, a
step later. GitHub may revoke a token, which nothing in the cache notices.

A caller walks a *passage*, the sequence of awaited calls of `coding-agent/service.ts` and the two services below it (`AgentPassage`,
`SuggestPassage`): the selection, the registry entry, the token, the analysis, the run, the item, again selection, entry and token, the
metadata, the files one by one, the plan, the changes, the review. Each call is a step, and a refused check answers the request.
The token cache is shared by the process; the coding-agent and access services are built per request by `index.ts`, so the maps of executions in
flight never share anything, and are left out. What the provider answers is any plan and any changes; the checks of
`plan.ts`, `changes.ts` and `path-safety.ts` decide what becomes of it. Others edit the registry, break and mend a link of the run's chain, push, revoke, and make
GitHub, the provider and the database fail, `MaxUpsets` times in all.

### PipelineTrail

The documents of one ticket in nine collections, each with its parent, its run and its status. A loop picks a parent that has no
child yet, holds what it read (`hand`), and inserts the child; what happens inside a stage is left to the stage's own module. `Gates` are the three
operator decisions, `ClosePull` the person on GitHub. The purge finds the ticket and what its deletions will match (three reads, one step), and then deletes
collection by collection, latest stage first, ticket last (`PurgeOrder`, `Sweep`); repeated, it also works from the runs
alone. A delivery has the `key` its body named the ticket by: the purge knows the issue key, and the customer-facing one from the item only (`Doomed`),
so that an orphan purge leaves the deliveries that have that. A status request reads the chain one document at a time (`ReadNext`) and computes the stage of what it found (`StageOf`); `witnessed` collects the
stages the run has really been in meanwhile. One instance, one purge and one status request at a time. The permission probe before a purge is
left out (a refused purge deletes nothing), the registry always grants, and no approval lapses: those are the subjects of
`CodingAgent` and `ChangeReview`. Once a document was inserted across a purge (`raced`), status requests are no longer modelled.

## 3. Runs

| Run | Instance | Question |
|---|---|---|
| `intake_gate` | 2 items, 1 instance, 1 script run, a batch of 1, 1 abort | what may be reviewed and run, and that nothing in the batch is left behind |
| `review_race` | 1 run, 2 proposals, 2 instances, a batch of 2, 1 abort | executed only if approved, with one outcome |
| `review_progress` | 1 run, 2 proposals, 1 instance, a batch of 1, 1 abort | no execution after authority lapsed or targets drifted; approvals that stand, and are in the batch, are executed |
| `publish_race` | 1 execution, 1 of another ticket before it or none, 2 instances, a batch of 1, 1 push, 1 abort | true rows, one pull request, nothing drifted overwritten, every publishable execution in the batch decided |
| `deploy_race` | 1 publication, 1 of another ticket before it or none, 2 instances, a batch of 1, 2 aborts | one deployment, true and final outcomes, every visible merge in the batch settled |
| `selection_race` | 1 run, 2 repositories, 2 instances, 2 operators, 1 abort | what can be selected, and that it is final |
| `selection_progress` | 2 runs, 2 repositories, 1 instance, a batch of 1, 1 abort | nobody is left unmatched, starved or unreported |
| `delivery_race` | 2 bodies that name 1 ticket by its 2 keys, or 2 tickets of which 1 is refused; 1 request, 2 instances, a batch of 1, 2 attempts, 1 abort | what becomes of an accepted event |
| `registry_race` | 2 entries of 1 repository, 2 branches, 1 pattern, 2 requests, a rebuild of the index | what interleaved edits leave in the registry |
| `agent_access` | 2 requests of 3 kinds, 3 files (1 forbidden), 2 installations, 1 upset | what GitHub is asked for, and what a proposal is about |
| `agent_progress` | 2 requests, 2 files, a token life of 3, 1 upset | every request is answered; refusals end when all is well |
| `trail_whole` | 2 deliveries under the customer-facing key, or 1 and 1 proposal; 2 purges; 1 raced insert, crash or error | the trail as a whole |

**Bounds.** Two instances give every interleaving of two attempts, and a third adds nothing new to a
conflict on one key, whose loser only ever finds the key taken; one abort puts a lost attempt at every await, followed by a complete one;
two proposals give supersession and regeneration; a batch of one with a second item, approval, execution or publication gives a
batch that holds the one in question and one that does not; one push, placed between any two steps, gives each stale read. Executions and
publications share nothing but the pass that lists them; two repositories give each of the three outcomes of a match, and two
runs with a batch of one show whether the retries take turns. The theorems of
section 5 remove these bounds for the safety properties. In `delivery_race` a batch of one makes two deliveries wait for each other, and two attempts
distinguish the last from the one before; `registry_race` needs two requests (each with its own stale read) over two entries (to compete for the index);
the lives in `agent_*` are the shortest that satisfy the code's order timeout <= margin < life. `trail_whole` with two purges has the repeated purge after an
interrupted one, which no longer finds the ticket, and with the customer-facing key the deliveries that one leaves; that those under the issue key go with
either purge is the theorem `PurgeLeavesNothing`, for both keys and any number of deliveries. Webhooks and proposals share the bound `MaxArrivals`,
raced inserts and losses the bound `MaxUpsets`, because all of them together take too long. Deadlock is checked in every run but `trail_whole`, where a ticket that is deployed, with all bounds used up, really is the end.

**Fairness.** `WF_vars` on each loop's steps, nothing else: `setInterval` fires as long as the process lives
(a crash is an `Abort`, after which the restarted process fires again), `inFlight` lets one pass run at a time, and
within a pass every item is awaited, so a continuously enabled loop step is eventually taken. `PipelineTrail`
assumes less: that the loops together do not stand still while one of them has work, which suffices because none finds work for
ever. A request of `CodingAgent` is fair in its own steps, since each of its calls is answered or times out. Operators,
GitHub, the provider, administrators and the analyser are not fair; the clock is (a backoff ends; strongly fair in `CodingAgent`, where
answers in hand, which are taken up at once, disable it again and again). Liveness properties therefore have their hypotheses in the
formula (`<>[](...)`: from some time on the repository stays registered, the merge visible, the approval
current, the analysis does not keep failing). So has the place in the batch: `AnalysableIsReviewed`, `ApprovedIsQueued`, `QueuedIsMatched`, `ApprovedIsExecuted`,
`PublishableIsDecided` and `MergedIsSettled` speak of what stays among the `Limit` that are listed, and `AcceptedIsSettled` of a delivery whose item
the validator takes and which the refused ones leave a place. Nothing is promised beyond, because the code keeps no such promise (section 4). `ComesToRest` is about
one ticket: it says nothing of one that starves because of others.

**Properties that hold.**
`ReviewedWasAnalysed`, `RunIsApproved`, `AnalysableIsReviewed`, `ApprovedIsQueued`;
`ExecutedIsApproved`, `ExecutionIsFinal`, `LapsedIsNeverExecuted`, `DriftedIsRefused`, `ApprovedIsExecuted`;
`PublishedIsOnGitHub`, `AtMostOnePullRequest`, `DriftedIsNotOverwritten` (from an attempt's re-read on), `PublishableIsDecided`;
`DeployedOnce`, `SucceededIsDeployed`, `OutcomeIsFinal`, `MergedIsSettled` (but for a claim cut short);
`SelectedWasOffered`, `SelectedIsFinal`, `QueuedIsMatched`, `UnresolvedIsCurrent`, `UnresolvedIsNotified` (for one instance that
loses nothing);
`EnrichedHasOneItem`, `AbandonedAfterAllAttempts`, `SettledIsFinal`, `AcceptedIsSettled`, and the bound on attempts in the type invariant;
`OneActiveMapping` (while the index exists), `EntriesAreWellShaped`, `StatusIsAsAsked`, `LiveIsNeverDeleted`;
`NoExpiredCredential`, `ProposalIsAboutItsRequest`, `AccessWasGranted`, `Answered`, `Recovers`;
`TrailIsWhole`, `PurgeClears` (both but for what was inserted across a purge, the second but for the deliveries an orphan purge cannot find), `StageWasCurrent`, `ComesToRest`.
Each is stated beside the code behaviour it is about, and has a mutant in `PROJECT.json`. The type invariants and
some plainer invariants of the modules with proofs (`LegalTransitions`, `DecisionIsFinal`, `ForeignBranchIsLeftAlone`,
`DeployedIsMerged`, `DeletedStaysDeleted`, the register of publications) are theorems and no longer run, but for the type invariant of `WebhookDelivery`.

## 4. Where the code disagrees with its documentation

Found while the modules were written from the code. The numbered ones were confirmed as counterexamples of TLC on small instances; they are
described here so that the runs can be about what holds.

1. "Never a duplicate analysis" (`requirements/scheduler.ts:10-14`). Two instances find the analysis pending, and `markCompleted` and
   `markFailed` (`requirements/repository.ts:186-234`) update whatever the row's status: the slower failure overwrites a completed analysis. The
   item is advanced and approved, and the coding agent then refuses its run for good (`coding-agent/service.ts:139`).
2. An approved item "is picked up again next pass" (`orchestrator/worker.ts:82-83`). Only the newest 25
   approved items are ever listed, and none leaves that status: with more, the oldest never gets its run.
3. "A regenerated proposal for the same run is always a NEW row" (`change-execution/review-repository.ts:18-19`). A, then B, then A again returns
   A's old row (line 223); B stays the latest and A, approved, can never be executed.
4. A branch at the execution's own name "belongs to something else" (`github-publish/publish-service.ts:366-369`). After a lost attempt it
   is the service's own, and the execution is recorded as failed for good.
5. Contents are "re-read immediately before publishing" (`docs/github-publish.md`). They are read by branch name (line 318) before the base sha is (line 329),
   and a push in between is overwritten. `DriftedIsNotOverwritten` is what remains true.
6. "A persistent fault reaches maxAttempts there" (`enrichment/worker.ts:193-194`). Only `scheduleRetry` and `markFailed` count, and neither runs
   after a throw: an item the collection validator refuses is fetched and refused for ever, at the head of the queue. Enough of them fill the batch, and nothing else is enriched until they expire.
7. Detection "polls every `published` `GithubPublicationDocument` without a `deployments` row yet" (`docs/deployment.md:76`). It lists the 25 oldest
   published rows (`deployment/pr-merge-detection.ts:159`, `github-publish/publish-repository.ts:158-159`), with or without a deployment, and none
   ever leaves that status: the merge of a later one is never recorded, nor deployed. The same goes for the two passes before, of which no document says more than that they
   take a batch: the 25 approvals decided first, executed, lapsed or superseded as they may be (`pipeline/change-execution-queue.ts:43-45`,
   `change-execution/review-repository.ts:267-268`), and the 25 oldest succeeded executions, published or not (`pipeline/github-publish-queue.ts:39`,
   `change-execution/execution-repository.ts:140-141`). The matching pass takes the newest 25 queued runs, and
   no run leaves that status (`repository-selection/worker.ts:109`): an older one without a row is never matched.
8. "Matched by issue key as well as by id, so rows orphaned by an earlier, partial cleanup [...] are found and removed too" (`intake/test-purge.ts:52-54`).
   Deliveries are found by the issue key and by the customer-facing key that the item holds (lines 65-66, 77): once the item is gone, those under the latter
   stay until they expire, and the purge answers `purged`. `PurgeClears` makes that exception.

Read in the code, but not checked:

- A deployment whose status is `running` or `unknown` after a failed `deploy()` is recorded as failed for good (`deployment-service.ts:133`;
  `docs/deployment.md:219-221` says a lost response is never assumed to mean "not deployed"). One that was claimed and then lost stays "deploying".
- `confirm()` updates on the row's status alone, so that a retry between its read and its write may leave the selected repository outside the
  row's candidates, although `repository-selection/repository.ts:134-138` promises it is one "at the moment of confirmation".
  `SelectedWasOffered` watches what is left of that: it was a candidate at some time.
- A row's `lastNotifiedStatus` is written with it and the notification afterwards (`repository-selection/worker.ts:196`): an attempt lost in between is never reported.
  `UnresolvedIsNotified` is stated for an instance that loses nothing.
- `coding-agent/service.ts:32-34` and `github-access/service.ts:213-215` say concurrent calls for one run share an execution. `index.ts` builds the services
  per request, so they share nothing; sharing would in fact be wrong, since two requests for one run may name different files.
- A cached token that GitHub has revoked stays cached until its margin: the calls meanwhile are refused as not worth a retry, although one
  after the expiry succeeds (`Recovers`).
- A review, execution, publication or deployment inserted across a purge is found by later purges only through its run, which is gone: it stays.
  `TrailIsWhole` and `PurgeClears` leave it out.
- An approval that expires unexecuted leaves the run "executing" with nothing asked of anybody, and proposing the same content
  again returns the same approved review.
- `db/client.ts`: `close()` does not wait for a connection attempt under way, which may then set the state back to connected and leave its
  client open; and the shutdown in `index.ts` does not wait for a pass in flight, although its comment at 687-688 says so.

## 5. Proofs

TLAPS checks every theorem for any number of items, entries, requests, runs, proposals, executions, publications, deliveries, purges, instances,
lost attempts, any batch limit and whatever the tracker holds, from the named assumptions of the modules only: the bounds are natural numbers,
the sentinels are not members of the sets they stand apart from, the timeout of a call is covered by the margin of a token and the margin
by its life, the constant functions (`Modifies`, `Class`, `Start`, ...) and what the tracker holds have the domains they are used on, `Item`, `Run`, `Execution`, `Publication`, `Body` and (for the
deliveries) `Worker` are finite, instances and scripts are distinct. `PipelineTrail` needs nothing but natural bounds: not even that `None` is no job.

| Module | Theorems | Inductive invariant |
|---|---|---|
| `IntakeProofs` | `TypeCorrect`, `Reviewed`, `RunsApproved`, `Legal` | `TypeOK`; what an agent has in hand exists, and has a result once it is about to advance (`Hands`); a listed approved item is still approved and an asked-about one past `received` (`Lists`). A failure keeps an earlier result, which is why `Reviewed` holds although a completed analysis may become a failed one |
| `RepositoryProofs`, of the selection | `TypeCorrect`, `OnlyOfferedIsSelected`, `SelectionsAreARegister` | only unresolved rows are due (`DueRows`), the histories cover what rows and registry show (`Covered`), and a confirmation in flight keeps what its reads established (`Requests`), because the histories only grow |
| `ChangeReviewProofs` | `TypeCorrect`, `OnlyApprovedIsExecuted`, `DecisionsAreARegister`, `ExecutionsAreARegister`, `LapsedNeverExecuted`, `DriftedNeverSucceeds` | an attempt past its first check is on an approved review (`Stages`), and approvals stay. `LapsedNeverExecuted` shows that a lapsed review stays lapsed: superseded rows stay older (`SupersededStays`), and no step takes an attempt past the check (`LapsedStays`). `DriftedNeverSucceeds` does the same for an unread drift: every attempt on the proposal has found the drift or has the contents still to read (`Noticed`, `DriftingStays`) |
| `GithubPublishProofs` | `TypeCorrect`, `PublishedCorrect`, `OnePullRequest`, `ForeignBranchSafe`, `PublicationsAreARegister`, `DriftedNotOverwritten` | what each stage has at hand (`Stages`); commit ids are fresh (`FreshIds`), so a branch that points at a worker's commit was created by that attempt and by no other (`OwnBranch`); hence one attempt at most reaches `createPullRequest` (`Opened`), and a row about to be recorded is true (`Claims`). `DriftedNotOverwritten` shows that an overtaken file stays overtaken (`OvertakenStays`) |
| `DeploymentProofs` | `TypeCorrect`, `DeployedAtMostOnce`, `OnlyMergedIsDeployed`, `SucceededCorrect`, `DeploymentsAreARegister` | a claim is exclusive (`Exclusive`): two workers past the compare-and-set are on different rows; a row that nobody claimed was never called for, and an eligible or running one is merged (`Rows`); what each stage is about to write is true (`Stages`) |
| `RepositoryProofs`, of the registry | `RegistryTypeCorrect`, `OneActive`, `WellShapedEntries`, `StatusAsAsked`, `DeletedForGood`, `LiveKept` | the five invariants together, and what a request holds (`Intents`): an update's merge was validated and its entry existed, so that writing all of it back keeps the entry valid whatever else changed |
| `WebhookDeliveryProofs` | `EnrichedHasItsItem`, `AbandonedHadAllAttempts`, `SettledForGood`, `TypeCorrect` | what a listed delivery says is out of date in its attempts only, which have grown if anything, because a record in hand does not expire (`Hands`); items are only created under canonical keys (`CanonicalItems`); what is settled was settled with an item or with all attempts made (`Settlements`). The bound on attempts in `TypeOK` holds because an instance retries a listed delivery once (`Single`): the attempts made and those still to be counted by the instances that listed the delivery before never exceed the maximum plus the instances (`Countable`, a sum with the cardinality of `Retriers`) |
| `CodingAgentProofs` | `CredentialsLast`, `AccessGranted`, `TypeCorrect`, `ProposalAboutItsRequest` | a token under way had more life than the margin when it was sent, and has lost no more than the call's age (`Tokens`): without the clock stopping at the timeout this is not inductive; what a caller has passed was granted since it began, by the order of its passage (`Passages`), and a call is one of its gate in its name (`Linked`). A proposal's changes are about its request because the context under way only holds files of that request, each with a content the branch has had (`Reading`), incomplete up to one gate and complete from it on |
| `PipelineTrailProofs` | `TypeCorrect`, `TrailStaysWhole`, `PurgeLeavesNothing`, `StageIsNoMixture`, `OnlyPurgesRemove` | all that is referred to is below some bound, so that there is a fresh id (`Bounded`, `Greatest`); ids are unique and parents have one child (`Order`); what is in hand and was not swept since it was read can still be built on (`Hands`); the trail, with the run every later document carries (`Trail`); a purge under way has emptied what it has passed and knows all that is left to find (`Progress`). For `StageIsNoMixture`, `Reads`: what a request read last stays as it was read (`Chained`), and what it has told so far was the stage at some time, or a child of what it read last is there to be read (`Told`); if a purge takes that child away, the parent, deleted later, makes it the stage now (`SweptTold`) |

Each proof has one step per action, under a lemma of its own where the action disturbs several parts, and ends in
the temporal rule (PTL). The register theorems are refinements: the initial states map to initial states of
`OutcomeRegister` and every step to a `Record` or to a stutter.

Every invariant and action property that the runs check is proved. Only model-checked: the liveness properties, twelve in all, since
the prover handles neither fairness nor `ENABLED`.

## 6. Not modelled, and what could follow

Rendering, routing, HTML, environment parsing, logging and the development scripts (other than
`requirements:run`) have no state worth checking. The audit log is append-only and read by nobody but the console; that an append
may throw is part of every `Abort`. The schemas of `db/collections.ts` are declarative: what the stages rely on in them (unique indexes, statuses, the TTL) is
in the modules. MongoDB's own guarantees (atomic single-document updates, unique
indexes) are assumed, as is that a read sees the latest write. Time is an order of events: expiry and backoff
are events, not clocks (but for the token's life). Text is abstracted throughout: hashes, URLs, prompts, paths and branch names are members of small sets,
and the checks on them are sets that tell good from bad.

What could follow: the connection manager of `db/client.ts` (the race of `close()` with an attempt under way, section 4); the pure functions (branch patterns, path
safety, backoff) each against a reference definition over bounded inputs; and two tickets in `PipelineTrail`, to show that a purge of one leaves the other alone, and which of them the batches starve.
