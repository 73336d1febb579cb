---------------------------- MODULE ChangeReview ----------------------------
(***************************************************************************)
(* From a proposed change to its local execution.  The coding agent        *)
(* proposes changes for a run (pipeline/coding-agent-trigger.ts); the      *)
(* proposal becomes a review row, unique on the hash of its content;       *)
(* operators approve or reject it (api/change-review.ts, change-execution/ *)
(* review-repository.ts); and every instance of the service passes over    *)
(* the approved reviews, re-checks their authority, applies the changes to *)
(* a staging directory, validates them and records one execution           *)
(* (pipeline/change-execution-queue.ts, execution-service.ts).             *)
(*                                                                         *)
(* A proposal stands for its content, hence for its hash and its row.  A   *)
(* row's createdAt and updatedAt are moments of one clock, which ticks     *)
(* with every write to the reviews.  A pass lists a batch of the approved  *)
(* reviews, the ones approved first; nothing that is done with a review    *)
(* takes it out of that status.                                            *)
(***************************************************************************)
EXTENDS Naturals, FiniteSets

CONSTANTS
  Run,        \* runs ready for the coding agent
  Proposal,   \* contents the agent may propose
  Worker,     \* instances of the service, one pipeline loop each
  Limit,      \* the batch limit of findApproved()
  MaxAborts,  \* bound: attempts lost to a crash or to a thrown error
  None        \* no row, no proposal, no job

ASSUME LimitAssumption == Limit \in Nat \ {0}
ASSUME BoundsAssumption == MaxAborts \in Nat

Status   == {"pending", "approved", "rejected"}
Decision == {"approved", "rejected"}
Outcome  == {"succeeded", "failed"}
Review   == [run : Run, status : Status, created : Nat, updated : Nat]

ASSUME SentinelAssumption ==
  None \notin Run \cup Proposal \cup Review \cup Decision \cup Outcome

VARIABLES
  review,      \* changeReviews, by proposal hash
  clock,       \* writes to them so far, the clock of their times
  asked,       \* decision requests that have found their review pending
  expired,     \* approvals whose validity window has passed
  accessible,  \* is the run's repository still an active registry entry
  drifted,     \* proposals one of whose `modify` targets has changed since
  execution,   \* changeExecutions, by the review's proposal hash
  pc,          \* where each worker's attempt stands
  queue,       \* what is left of each worker's findApproved() result
  job,         \* the review a worker is on
  stale,       \* had the contents its attempt read drifted
  result,      \* the outcome its attempt is about to record
  aborts       \* attempts lost so far

people  == << asked, expired, accessible, drifted >>
attempt == << job, stale, result >>
vars    == << review, clock, people, execution, pc, queue, attempt,
              aborts >>

Stage == { "idle", "review", "latest", "access", "contents", "apply", "validate",
           "record" }

TypeOK ==
  /\ review \in [Proposal -> Review \cup {None}]
  /\ clock \in Nat /\ aborts \in Nat
  /\ asked \in SUBSET (Proposal \X Decision)
  /\ expired \in SUBSET Proposal
  /\ accessible \in BOOLEAN
  /\ drifted \in SUBSET Proposal
  /\ execution \in [Proposal -> Outcome \cup {None}]
  /\ pc \in [Worker -> Stage]
  /\ queue \in [Worker -> SUBSET Proposal]
  /\ job \in [Worker -> Proposal \cup {None}]
  /\ stale \in [Worker -> BOOLEAN]
  /\ result \in [Worker -> Outcome \cup {None}]

Init ==
  /\ review = [p \in Proposal |-> None]
  /\ clock = 0
  /\ asked = {} /\ expired = {} /\ accessible = TRUE /\ drifted = {}
  /\ execution = [p \in Proposal |-> None]
  /\ pc = [w \in Worker |-> "idle"]
  /\ queue = [w \in Worker |-> {}]
  /\ job = [w \in Worker |-> None]
  /\ stale = [w \in Worker |-> FALSE]
  /\ result = [w \in Worker |-> None]
  /\ aborts = 0

-----------------------------------------------------------------------------
Exists(p)      == review[p] # None
HasStatus(p, s) == Exists(p) /\ review[p].status = s

\* findLatestByRunId: the row of the run with the greatest createdAt.
IsLatest(p) ==
  /\ Exists(p)
  /\ \A q \in Proposal :
       (Exists(q) /\ review[q].run = review[p].run) =>
         review[q].created <= review[p].created

Goto(w, stage) == pc' = [pc EXCEPT ![w] = stage]

Conclude(w, o) ==
  /\ Goto(w, "record")
  /\ result' = [result EXCEPT ![w] = o]

\* The call returns; its local state is gone.
EndAttempt(w) ==
  /\ Goto(w, "idle")
  /\ job' = [job EXCEPT ![w] = None]
  /\ stale' = [stale EXCEPT ![w] = FALSE]
  /\ result' = [result EXCEPT ![w] = None]

-----------------------------------------------------------------------------
(***************************************************************************)
(* Proposals and decisions                                                 *)
(***************************************************************************)

\* triggerCodingAgent: the agent answers with p and createIfAbsent inserts its
\* row.  If one with that hash exists, whatever its run and its status, it is
\* returned as it is, undated and undecided anew: nothing changes.
Propose(r, p) ==
  /\ accessible /\ ~Exists(p)
  /\ clock' = clock + 1
  /\ review' = [review EXCEPT ![p] =
       [run |-> r, status |-> "pending", created |-> clock', updated |-> clock']]
  /\ UNCHANGED << people, execution, pc, queue, attempt, aborts >>

\* decide(), up to its write: the review has been read and is pending.
Ask(p, d) ==
  /\ HasStatus(p, "pending")
  /\ asked' = asked \cup {<< p, d >>}
  /\ UNCHANGED << review, clock, expired, accessible, drifted,
                  execution, pc, queue, attempt, aborts >>

DecisionWritten(p, d) ==
  /\ clock' = clock + 1
  /\ review' = [review EXCEPT ![p] = [run |-> @.run, status |-> d,
                                      created |-> @.created, updated |-> clock']]

\* Mutated form of Decide: the write does not ask for `pending` again.
DecideBlind(p, d) ==
  /\ << p, d >> \in asked
  /\ asked' = asked \ {<< p, d >>}
  /\ DecisionWritten(p, d)
  /\ UNCHANGED << expired, accessible, drifted, execution, pc, queue, attempt,
                  aborts >>

\* findOneAndUpdate({_id, status: 'pending'}): of several requests in flight
\* the first decides, the others answer 409.
Decide(p, d) ==
  /\ << p, d >> \in asked
  /\ asked' = asked \ {<< p, d >>}
  /\ IF HasStatus(p, "pending") THEN DecisionWritten(p, d)
                                ELSE UNCHANGED << review, clock >>
  /\ UNCHANGED << expired, accessible, drifted, execution, pc, queue, attempt,
                  aborts >>

-----------------------------------------------------------------------------
(***************************************************************************)
(* The pass over the approved reviews                                      *)
(***************************************************************************)
\* findApproved(): the Limit approved reviews whose updatedAt is the oldest.
Approved == {p \in Proposal : HasStatus(p, "approved")}
ApprovedBefore(p) == {q \in Approved : review[q].updated < review[p].updated}
Batch == {p \in Approved : Cardinality(ApprovedBefore(p)) < Limit}

BeginPass(w) ==
  /\ pc[w] = "idle" /\ queue[w] = {}
  /\ queue' = [queue EXCEPT ![w] = Batch]
  /\ UNCHANGED << review, clock, people, execution, pc, attempt,
                  aborts >>

AlreadyExecuted(w, p) ==
  /\ pc[w] = "idle" /\ p \in queue[w]
  /\ execution[p] # None
  /\ queue' = [queue EXCEPT ![w] = @ \ {p}]
  /\ UNCHANGED << review, clock, people, execution, pc, attempt,
                  aborts >>

Examine(w, p) ==
  /\ pc[w] = "idle" /\ p \in queue[w]
  /\ execution[p] = None
  /\ queue' = [queue EXCEPT ![w] = @ \ {p}]
  /\ job' = [job EXCEPT ![w] = p]
  /\ Goto(w, "review")
  /\ UNCHANGED << review, clock, people, execution, stale, result,
                  aborts >>

\* One check of phase 1: a refusal leaves no row.
Check(w, from, holds, to) ==
  /\ pc[w] = from
  /\ IF holds THEN Goto(w, to) /\ UNCHANGED attempt ELSE EndAttempt(w)
  /\ UNCHANGED << review, clock, people, execution, queue, aborts >>

\* No execution yet, decided `approved`, and not too long ago.
CheckReview(w) ==
  Check(w, "review",
        /\ execution[job[w]] = None
        /\ HasStatus(job[w], "approved")
        /\ job[w] \notin expired,
        "latest")

\* Mutated form of CheckLatest: a newer proposal of the run is not looked for.
CheckLatestSkipped(w) == Check(w, "latest", TRUE, "access")

CheckLatest(w) == Check(w, "latest", IsLatest(job[w]), "access")
CheckAccess(w) == Check(w, "access", accessible, "contents")

\* Mutated form of ReadContents: contents that cannot be read are a refusal.
ReadContentsUnrecorded(w) ==
  /\ pc[w] = "contents"
  /\ \/ Goto(w, "apply") /\ stale' = [stale EXCEPT ![w] = job[w] \in drifted]
                         /\ UNCHANGED << job, result >>
     \/ EndAttempt(w)
  /\ UNCHANGED << review, clock, people, execution, queue, aborts >>

\* Phase 2 starts here: every outcome is recorded.  The live contents of the
\* `modify` targets are read, or cannot be.
ReadContents(w) ==
  /\ pc[w] = "contents"
  /\ \/ Goto(w, "apply") /\ stale' = [stale EXCEPT ![w] = job[w] \in drifted]
                         /\ UNCHANGED result
     \/ Conclude(w, "failed") /\ UNCHANGED stale
  /\ UNCHANGED << review, clock, people, execution, queue, job,
                  aborts >>

\* Mutated form of Apply: the contents read are not compared.
ApplyUnchecked(w) ==
  /\ pc[w] = "apply"
  /\ \/ Goto(w, "validate") /\ UNCHANGED result
     \/ Conclude(w, "failed")
  /\ UNCHANGED << review, clock, people, execution, queue, job,
                  stale, aborts >>

\* applyChangesLocally: every change is checked against the contents read
\* before the first file is written.
Apply(w) ==
  /\ pc[w] = "apply"
  /\ \/ ~stale[w] /\ Goto(w, "validate") /\ UNCHANGED result
     \/ Conclude(w, "failed")
  /\ UNCHANGED << review, clock, people, execution, queue, job,
                  stale, aborts >>

Validate(w) ==
  /\ pc[w] = "validate"
  /\ \E o \in Outcome : Conclude(w, o)
  /\ UNCHANGED << review, clock, people, execution, queue, job,
                  stale, aborts >>

\* Mutated form of Record: the row is upserted.
RecordUpsert(w) ==
  /\ pc[w] = "record"
  /\ execution' = [execution EXCEPT ![job[w]] = result[w]]
  /\ EndAttempt(w)
  /\ UNCHANGED << review, clock, people, queue, aborts >>

\* createIfAbsent, unique on reviewId.
Record(w) ==
  /\ pc[w] = "record"
  /\ execution' = [execution EXCEPT ![job[w]] = IF @ = None THEN result[w] ELSE @]
  /\ EndAttempt(w)
  /\ UNCHANGED << review, clock, people, queue, aborts >>

\* A thrown error ends the attempt with no row; a crash, or a throw outside
\* the item's try block, ends the pass with it.
Abort(w) ==
  /\ aborts < MaxAborts
  /\ aborts' = aborts + 1
  /\ \/ pc[w] # "idle" /\ UNCHANGED queue
     \/ /\ pc[w] # "idle" \/ queue[w] # {}
        /\ queue' = [queue EXCEPT ![w] = {}]
  /\ EndAttempt(w)
  /\ UNCHANGED << review, clock, people, execution >>

-----------------------------------------------------------------------------
(***************************************************************************)
(* Time, operators and other pushes                                        *)
(***************************************************************************)
Expire(p) ==
  /\ HasStatus(p, "approved") /\ p \notin expired
  /\ expired' = expired \cup {p}
  /\ UNCHANGED << review, clock, asked, accessible, drifted,
                  execution, pc, queue, attempt, aborts >>

SetRegistryStatus ==
  /\ accessible' = ~accessible
  /\ UNCHANGED << review, clock, asked, expired, drifted, execution,
                  pc, queue, attempt, aborts >>

Drift(p) ==
  /\ Exists(p) /\ p \notin drifted
  /\ drifted' = drifted \cup {p}
  /\ UNCHANGED << review, clock, asked, expired, accessible,
                  execution, pc, queue, attempt, aborts >>

-----------------------------------------------------------------------------
Step(w) ==
  \/ BeginPass(w)
  \/ \E p \in Proposal : AlreadyExecuted(w, p) \/ Examine(w, p)
  \/ CheckReview(w) \/ CheckLatest(w) \/ CheckAccess(w)
  \/ ReadContents(w) \/ Apply(w) \/ Validate(w) \/ Record(w)

Next ==
  \/ \E r \in Run, p \in Proposal : Propose(r, p)
  \/ \E p \in Proposal, d \in Decision : Ask(p, d) \/ Decide(p, d)
  \/ \E w \in Worker : Step(w) \/ Abort(w)
  \/ \E p \in Proposal : Expire(p) \/ Drift(p)
  \/ SetRegistryStatus

\* The pipeline loop of every instance keeps running; nothing is assumed of
\* the agent, the operators, the passing of time or the repository.
Fairness == \A w \in Worker : WF_vars(Step(w))

Spec == Init /\ [][Next]_vars /\ Fairness

-----------------------------------------------------------------------------
(***************************************************************************)
(* Properties                                                              *)
(***************************************************************************)

\* Whatever two operators ask at once and whenever a pass read the review, a
\* change is only ever executed under an approval that still stands
\* (decide()'s conditional update, execution-service.ts:220-231).
ExecutedIsApproved ==
  \A p \in Proposal : execution[p] # None => HasStatus(p, "approved")

\* The first decision on a review is the only one (decide()).
Decided ==
  INSTANCE OutcomeRegister
    WITH Key <- Proposal, Outcome <- Decision,
         row <- [p \in Proposal |->
                   IF Exists(p) /\ review[p].status \in Decision
                     THEN review[p].status ELSE None]
DecisionIsFinal == Decided!Spec

\* So is the first execution of a review (createIfAbsent).
Executed ==
  INSTANCE OutcomeRegister
    WITH Key <- Proposal, Outcome <- Outcome, row <- execution
ExecutionIsFinal == Executed!Spec

\* An approval that has lost its authority before any attempt got past the
\* check that would notice, because it expired or because the run has a
\* newer proposal, never leads to an execution later: not through a pass
\* that listed it earlier, not by being proposed again.
Lapsed(p) ==
  /\ execution[p] = None
  /\ \/ /\ p \in expired
        /\ \A w \in Worker : job[w] = p => pc[w] \in {"idle", "review"}
     \/ /\ Exists(p) /\ ~IsLatest(p)
        /\ \A w \in Worker : job[w] = p => pc[w] \in {"idle", "review", "latest"}
LapsedIsNeverExecuted ==
  \A p \in Proposal : [](Lapsed(p) => [](execution[p] = None))

\* A change whose target had drifted before the attempt read the contents
\* never counts as executed (local-apply.ts's stale hash check).
DriftedIsRefused ==
  \A p \in Proposal :
    [](( /\ p \in drifted /\ execution[p] = None
         /\ \A w \in Worker :
              job[w] = p => pc[w] \notin {"apply", "validate", "record"})
       => [](execution[p] # "succeeded"))

\* An approval that keeps its authority and its place in the batch is acted
\* upon: no lost race, crash or refused attempt leaves it behind for ever.  An
\* older approval keeps its place whatever became of it, so the code promises
\* nothing to a review that Limit others were approved before.
ApprovedIsExecuted ==
  \A p \in Proposal :
    <>[](p \in Batch /\ p \notin expired /\ IsLatest(p) /\ accessible)
      => <>(execution[p] # None)
=============================================================================
