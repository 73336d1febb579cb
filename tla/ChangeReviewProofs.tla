------------------------- MODULE ChangeReviewProofs -------------------------
(***************************************************************************)
(* What ChangeReview promises, proved for any number of runs, proposals,   *)
(* workers, decision requests and lost attempts.                           *)
(***************************************************************************)
EXTENDS ChangeReview, TLAPS

USE LimitAssumption, BoundsAssumption, SentinelAssumption

Attempting == { "latest", "access", "contents", "apply", "validate", "record" }

\* What each stage has at hand: a review, and from "latest" on one that was
\* found approved and, since a decision is final, still is.
Stages ==
  \A w \in Worker :
    /\ pc[w] # "idle" => job[w] \in Proposal
    /\ pc[w] \in Attempting => HasStatus(job[w], "approved")
    /\ pc[w] = "record" => result[w] \in Outcome

IInv == TypeOK /\ Stages /\ ExecutedIsApproved

\* A step keeps every approval.
ApprovalsStay ==
  \A p \in Proposal : HasStatus(p, "approved") => HasStatus(p, "approved")'

\* A step of w that only moves w on, or ends its attempt.
LEMMA WorkerStep ==
  ASSUME IInv, NEW w \in Worker,
         UNCHANGED << review, clock, people, execution, aborts >>,
         queue' \in [Worker -> SUBSET Proposal],
         job' \in [Worker -> Proposal \cup {None}],
         stale' \in [Worker -> BOOLEAN],
         result' \in [Worker -> Outcome \cup {None}],
         pc' \in [Worker -> Stage],
         \A v \in Worker \ {w} : pc'[v] = pc[v] /\ job'[v] = job[v] /\ result'[v] = result[v],
         pc'[w] # "idle" => job'[w] \in Proposal,
         pc'[w] \in Attempting => HasStatus(job'[w], "approved"),
         pc'[w] = "record" => result'[w] \in Outcome
  PROVE  IInv'
<1>1. TypeOK' BY DEF IInv, TypeOK, people
<1>2. Stages' BY DEF IInv, Stages, HasStatus, Exists
<1>3. ExecutedIsApproved' BY DEF IInv, ExecutedIsApproved, HasStatus, Exists
<1> QED BY <1>1, <1>2, <1>3 DEF IInv

LEMMA EndAttemptType ==
  ASSUME TypeOK, NEW w \in Worker, EndAttempt(w)
  PROVE  /\ job' \in [Worker -> Proposal \cup {None}]
         /\ stale' \in [Worker -> BOOLEAN]
         /\ result' \in [Worker -> Outcome \cup {None}]
         /\ pc' \in [Worker -> Stage]
         /\ \A v \in Worker \ {w} :
              pc'[v] = pc[v] /\ job'[v] = job[v] /\ result'[v] = result[v]
         /\ pc'[w] = "idle"
  BY DEF TypeOK, EndAttempt, Goto, Stage

LEMMA CheckStep ==
  ASSUME IInv, NEW w \in Worker, NEW from \in Stage, NEW to \in Stage, NEW holds,
         Check(w, from, holds, to), from # "idle", to # "record",
         holds /\ to \in Attempting => HasStatus(job[w], "approved")
  PROVE  IInv'
<1>1. CASE EndAttempt(w)
  BY <1>1, EndAttemptType, WorkerStep DEF Check, IInv, TypeOK, Attempting
<1>2. CASE holds /\ Goto(w, to) /\ UNCHANGED attempt
  BY <1>2, WorkerStep DEF Check, Goto, attempt, IInv, TypeOK, Stages
<1> QED BY <1>1, <1>2 DEF Check

LEMMA ConcludeStep ==
  ASSUME IInv, NEW w \in Worker, NEW o \in Outcome, Conclude(w, o),
         pc[w] \in Attempting,
         UNCHANGED << review, clock, people, execution, queue, job,
                      stale, aborts >>
  PROVE  IInv'
  BY WorkerStep DEF Conclude, Goto, IInv, TypeOK, Stages, Stage, Attempting

\* The row of a decided review.
WrittenReview(p, d) ==
  [run |-> review[p].run, status |-> d, created |-> review[p].created,
   updated |-> clock + 1]

LEMMA DecisionWrites ==
  ASSUME TypeOK, NEW p \in Proposal, NEW d \in Decision, HasStatus(p, "pending"),
         DecisionWritten(p, d)
  PROVE  /\ clock' = clock + 1
         /\ review' = [review EXCEPT ![p] = WrittenReview(p, d)]
         /\ WrittenReview(p, d) \in Review
<1>1. review[p] \in Review BY DEF TypeOK, HasStatus, Exists
<1>2. WrittenReview(p, d) \in Review
  BY <1>1 DEF WrittenReview, Review, Status, Decision, TypeOK
<1> QED BY <1>1, <1>2 DEF DecisionWritten, WrittenReview, TypeOK

LEMMA InvStep == ASSUME IInv, [Next]_vars PROVE IInv'
<1> USE DEF people, attempt
<1>1. ASSUME NEW r \in Run, NEW p \in Proposal, Propose(r, p) PROVE IInv'
  <2>1. TypeOK'
    <3>1. [run |-> r, status |-> "pending", created |-> clock', updated |-> clock'] \in Review
      BY <1>1 DEF Propose, IInv, TypeOK, Review, Status
    <3> QED BY <1>1, <3>1 DEF Propose, IInv, TypeOK
  <2>2. ApprovalsStay
    BY <1>1 DEF Propose, ApprovalsStay, HasStatus, Exists, IInv, TypeOK
  <2>3. Stages' /\ ExecutedIsApproved'
    BY <1>1, <2>2
    DEF Propose, ApprovalsStay, IInv, Stages, ExecutedIsApproved, Attempting
  <2> QED BY <2>1, <2>3 DEF IInv
<1>2. ASSUME NEW p \in Proposal, NEW d \in Decision, Ask(p, d) PROVE IInv'
  BY <1>2 DEF Ask, IInv, TypeOK, Stages, ExecutedIsApproved, HasStatus, Exists
<1>3. ASSUME NEW p \in Proposal, NEW d \in Decision, Decide(p, d) PROVE IInv'
  <2>1. CASE ~HasStatus(p, "pending")
    BY <1>3, <2>1
    DEF Decide, IInv, TypeOK, Stages, ExecutedIsApproved, HasStatus, Exists
  <2>2. CASE HasStatus(p, "pending")
    <3>1. WrittenReview(p, d) \in Review /\ clock' = clock + 1
          /\ review' = [review EXCEPT ![p] = WrittenReview(p, d)]
      BY <1>3, <2>2, DecisionWrites DEF Decide, IInv
    <3>2. TypeOK'
      BY <1>3, <2>2, <3>1 DEF Decide, IInv, TypeOK
    <3>3. ApprovalsStay
      BY <2>2, <3>1 DEF ApprovalsStay, HasStatus, Exists, IInv, TypeOK
    <3>4. Stages' /\ ExecutedIsApproved'
      BY <1>3, <2>2, <3>3 DEF Decide, ApprovalsStay, IInv, Stages, ExecutedIsApproved, Attempting
    <3> QED BY <3>2, <3>4 DEF IInv
  <2> QED BY <2>1, <2>2
<1>4. ASSUME NEW w \in Worker, BeginPass(w) PROVE IInv'
  BY <1>4 DEF BeginPass, Batch, Approved, IInv, TypeOK, Stages, ExecutedIsApproved, HasStatus, Exists
<1>5. ASSUME NEW w \in Worker, NEW p \in Proposal, AlreadyExecuted(w, p) PROVE IInv'
  BY <1>5 DEF AlreadyExecuted, IInv, TypeOK, Stages, ExecutedIsApproved, HasStatus, Exists
<1>6. ASSUME NEW w \in Worker, NEW p \in Proposal, Examine(w, p) PROVE IInv'
  BY <1>6, WorkerStep DEF Examine, Goto, IInv, TypeOK, Stage, Attempting
<1>7. ASSUME NEW w \in Worker, CheckReview(w) PROVE IInv'
  BY <1>7, CheckStep DEF CheckReview, Stage
<1>8. ASSUME NEW w \in Worker, CheckLatest(w) PROVE IInv'
  <2>1. HasStatus(job[w], "approved")
    BY <1>8 DEF CheckLatest, Check, IInv, Stages, Attempting
  <2> QED BY <1>8, <2>1, CheckStep DEF CheckLatest, Stage
<1>9. ASSUME NEW w \in Worker, CheckAccess(w) PROVE IInv'
  <2>1. HasStatus(job[w], "approved")
    BY <1>9 DEF CheckAccess, Check, IInv, Stages, Attempting
  <2> QED BY <1>9, <2>1, CheckStep DEF CheckAccess, Stage
<1>10. ASSUME NEW w \in Worker, ReadContents(w) PROVE IInv'
  <2>1. CASE Goto(w, "apply") /\ stale' = [stale EXCEPT ![w] = job[w] \in drifted]
             /\ UNCHANGED result
    BY <1>10, <2>1, WorkerStep
    DEF ReadContents, Goto, IInv, TypeOK, Stages, Stage, Attempting
  <2> QED BY <1>10, <2>1, ConcludeStep DEF ReadContents, Outcome, Attempting
<1>11. ASSUME NEW w \in Worker, Apply(w) PROVE IInv'
  <2>1. CASE Goto(w, "validate") /\ UNCHANGED result
    BY <1>11, <2>1, WorkerStep DEF Apply, Goto, IInv, TypeOK, Stages, Stage, Attempting
  <2> QED BY <1>11, <2>1, ConcludeStep DEF Apply, Outcome, Attempting
<1>12. ASSUME NEW w \in Worker, Validate(w) PROVE IInv'
  BY <1>12, ConcludeStep DEF Validate, Attempting
<1>13. ASSUME NEW w \in Worker, Record(w) PROVE IInv'
  <2>1. /\ job[w] \in Proposal /\ result[w] \in Outcome
        /\ HasStatus(job[w], "approved")
    BY <1>13 DEF Record, IInv, Stages, Attempting
  <2>2. TypeOK'
    BY <1>13, <2>1, EndAttemptType DEF Record, IInv, TypeOK
  <2>3. Stages'
    BY <1>13, EndAttemptType DEF Record, IInv, Stages, HasStatus, Exists, Attempting
  <2>4. ExecutedIsApproved'
    BY <1>13, <2>1 DEF Record, IInv, TypeOK, ExecutedIsApproved, HasStatus, Exists
  <2> QED BY <2>2, <2>3, <2>4 DEF IInv
<1>14. ASSUME NEW w \in Worker, Abort(w) PROVE IInv'
  <2>1. TypeOK' BY <1>14, EndAttemptType DEF Abort, IInv, TypeOK
  <2>2. Stages'
    BY <1>14, EndAttemptType DEF Abort, IInv, Stages, HasStatus, Exists, Attempting
  <2>3. ExecutedIsApproved'
    BY <1>14 DEF Abort, IInv, ExecutedIsApproved, HasStatus, Exists
  <2> QED BY <2>1, <2>2, <2>3 DEF IInv
<1>15. ASSUME NEW p \in Proposal, Expire(p) \/ Drift(p) PROVE IInv'
  BY <1>15 DEF Expire, Drift, IInv, TypeOK, Stages, ExecutedIsApproved, HasStatus, Exists
<1>16. ASSUME SetRegistryStatus PROVE IInv'
  BY <1>16 DEF SetRegistryStatus, IInv, TypeOK, Stages, ExecutedIsApproved, HasStatus, Exists
<1>17. ASSUME UNCHANGED vars PROVE IInv'
  BY <1>17 DEF vars, IInv, TypeOK, Stages, ExecutedIsApproved, HasStatus, Exists
<1> QED
  BY <1>1, <1>2, <1>3, <1>4, <1>5, <1>6, <1>7, <1>8, <1>9, <1>10, <1>11, <1>12,
     <1>13, <1>14, <1>15, <1>16, <1>17
  DEF Next, Step

LEMMA Invariance == Spec => []IInv
<1>1. Init => IInv
  BY DEF Init, IInv, TypeOK, Stages, Stage, ExecutedIsApproved, Attempting
<1>2. IInv /\ [Next]_vars => IInv' BY InvStep
<1> QED BY <1>1, <1>2, PTL DEF Spec

\* Every variable keeps its type.
THEOREM TypeCorrect == Spec => []TypeOK
<1>1. IInv => TypeOK BY DEF IInv
<1> QED BY <1>1, Invariance, PTL

\* No interleaving of decisions, passes and lost attempts executes a change
\* whose review is not, and does not stay, approved.
THEOREM OnlyApprovedIsExecuted == Spec => []ExecutedIsApproved
<1>1. IInv => ExecutedIsApproved BY DEF IInv
<1> QED BY <1>1, Invariance, PTL

-----------------------------------------------------------------------------
(***************************************************************************)
(* Refinement: decisions and executions are write-once registers.          *)
(***************************************************************************)
Decisions == [p \in Proposal |->
                IF Exists(p) /\ review[p].status \in Decision
                  THEN review[p].status ELSE None]

\* What one step can do to the rows: insert one that is pending, decide one
\* that is pending, or nothing.
LEMMA ReviewStep ==
  ASSUME IInv, [Next]_vars
  PROVE  \/ UNCHANGED review
         \/ \E r \in Run, p \in Proposal :
              /\ ~Exists(p)
              /\ review' = [review EXCEPT ![p] =
                [run |-> r, status |-> "pending", created |-> clock', updated |-> clock']]
              /\ clock' = clock + 1
         \/ \E p \in Proposal, d \in Decision :
              /\ HasStatus(p, "pending") /\ WrittenReview(p, d) \in Review
              /\ review' = [review EXCEPT ![p] = WrittenReview(p, d)]
<1>1. ASSUME NEW p \in Proposal, NEW d \in Decision, Decide(p, d), ~UNCHANGED review
      PROVE  /\ HasStatus(p, "pending") /\ WrittenReview(p, d) \in Review
             /\ review' = [review EXCEPT ![p] = WrittenReview(p, d)]
  BY <1>1, DecisionWrites DEF Decide, IInv
<1>2. ASSUME NEW r \in Run, NEW p \in Proposal, Propose(r, p)
      PROVE  /\ ~Exists(p) /\ clock' = clock + 1
             /\ review' = [review EXCEPT ![p] =
                  [run |-> r, status |-> "pending", created |-> clock', updated |-> clock']]
  BY <1>2 DEF Propose
<1>3. CASE UNCHANGED vars BY <1>3 DEF vars
<1>4. ASSUME NEW p \in Proposal, NEW d \in Decision, Ask(p, d) PROVE UNCHANGED review
  BY <1>4 DEF Ask
<1>5. ASSUME NEW w \in Worker, Step(w) \/ Abort(w) PROVE UNCHANGED review
  BY <1>5
  DEF Step, BeginPass, AlreadyExecuted, Examine, CheckReview, CheckLatest, CheckAccess,
      Check, ReadContents, Apply, Validate, Record, Abort
<1>6. ASSUME NEW p \in Proposal, Expire(p) \/ Drift(p) PROVE UNCHANGED review
  BY <1>6 DEF Expire, Drift
<1>7. ASSUME SetRegistryStatus PROVE UNCHANGED review BY <1>7 DEF SetRegistryStatus
<1> QED BY <1>1, <1>2, <1>3, <1>4, <1>5, <1>6, <1>7 DEF Next

\* An operator's decision is never revised, however many are asked at once.
THEOREM DecisionsAreARegister == Spec => DecisionIsFinal
<1>1. Init => Decided!Init
  BY DEF Init, Decided!Init, Exists
<1>2. IInv /\ [Next]_vars => [Decided!Next]_Decisions
  <2> SUFFICES ASSUME IInv, [Next]_vars PROVE [Decided!Next]_Decisions
    OBVIOUS
  <2>1. CASE UNCHANGED review
    BY <2>1 DEF Decisions, Exists
  <2>2. ASSUME NEW r \in Run, NEW p \in Proposal, ~Exists(p),
               review' = [review EXCEPT ![p] =
                [run |-> r, status |-> "pending", created |-> clock', updated |-> clock']]
        PROVE  UNCHANGED Decisions
    BY <2>2 DEF Decisions, Exists, Decision, IInv, TypeOK
  <2>3. ASSUME NEW p \in Proposal, NEW d \in Decision,
               HasStatus(p, "pending"), WrittenReview(p, d) \in Review,
               review' = [review EXCEPT ![p] = WrittenReview(p, d)]
        PROVE  Decided!Record(p)
    <3>1. review'[p].status = d /\ review'[p] # None /\ review[p].status \notin Decision
      <4>1. review'[p] = WrittenReview(p, d) BY <2>3 DEF HasStatus, Exists, IInv, TypeOK
      <4>2. review'[p].status = d BY <4>1 DEF WrittenReview
      <4>3. review[p].status = "pending" BY <2>3 DEF HasStatus
      <4> QED BY <2>3, <4>1, <4>2, <4>3 DEF Decision, Review
    <3>2. \A q \in Proposal \ {p} : review'[q] = review[q]
      BY <2>3 DEF IInv, TypeOK
    <3>3. Decisions[p] = None /\ Decisions'[p] = d
      BY <3>1 DEF Decisions, Exists
    <3>4. Decisions' = [Decisions EXCEPT ![p] = Decisions'[p]]
      <4>1. \A q \in Proposal \ {p} : Decisions'[q] = Decisions[q]
        BY <3>2 DEF Decisions, Exists
      <4>2. DOMAIN Decisions = Proposal /\ Decisions = [q \in Proposal |-> Decisions[q]]
        BY DEF Decisions
      <4>3. DOMAIN Decisions' = Proposal /\ Decisions' = [q \in Proposal |-> Decisions'[q]]
        BY DEF Decisions
      <4> HIDE DEF Decisions
      <4> QED BY <4>1, <4>2, <4>3
    <3> QED BY <3>3, <3>4 DEF Decided!Record, Decisions
  <2> QED BY <2>1, <2>2, <2>3, ReviewStep DEF Decided!Next
<1> QED
  BY <1>1, <1>2, Invariance, PTL DEF Spec, DecisionIsFinal, Decided!Spec, Decisions

LEMMA ExecutionStep ==
  ASSUME IInv, [Next]_vars
  PROVE  UNCHANGED execution \/ \E w \in Worker : Record(w)
  BY DEF Next, Step, vars, attempt, people, Propose, Ask, Decide, BeginPass,
         AlreadyExecuted, Examine, CheckReview, CheckLatest, CheckAccess, Check,
         ReadContents, Apply, Validate, Abort, Expire, Drift, SetRegistryStatus

\* The first execution recorded for a review is never replaced or removed.
THEOREM ExecutionsAreARegister == Spec => ExecutionIsFinal
<1>1. Init => Executed!Init
  BY DEF Init, Executed!Init
<1>2. IInv /\ [Next]_vars => [Executed!Next]_execution
  <2> SUFFICES ASSUME IInv, [Next]_vars PROVE [Executed!Next]_execution
    OBVIOUS
  <2>1. ASSUME NEW w \in Worker, Record(w) PROVE [Executed!Next]_execution
    <3>1. job[w] \in Proposal /\ result[w] \in Outcome
      BY <2>1 DEF Record, IInv, Stages
    <3>2. CASE execution[job[w]] # None
      BY <2>1, <3>1, <3>2 DEF Record, IInv, TypeOK
    <3>3. CASE execution[job[w]] = None
      BY <2>1, <3>1, <3>3 DEF Record, Executed!Record, Executed!Next, IInv, TypeOK
    <3> QED BY <3>2, <3>3
  <2> QED BY <2>1, ExecutionStep
<1> QED
  BY <1>1, <1>2, Invariance, PTL DEF Spec, ExecutionIsFinal, Executed!Spec

-----------------------------------------------------------------------------
(***************************************************************************)
(* An approval that has lapsed stays lapsed.                               *)
(***************************************************************************)
Superseded(p) == Exists(p) /\ ~IsLatest(p)

LEMMA SupersededStays ==
  ASSUME IInv, [Next]_vars, NEW p \in Proposal, Superseded(p)
  PROVE  Superseded(p)'
<1>1. PICK q \in Proposal :
        /\ Exists(q) /\ review[q].run = review[p].run
        /\ ~(review[q].created <= review[p].created)
  BY DEF Superseded, IsLatest
<1>2. ASSUME NEW x \in Proposal, Exists(x)
      PROVE  /\ Exists(x)'
             /\ review'[x].run = review[x].run
             /\ review'[x].created = review[x].created
  <2>1. ASSUME NEW y \in Proposal, NEW d \in Decision, HasStatus(y, "pending"),
               WrittenReview(y, d) \in Review,
               review' = [review EXCEPT ![y] = WrittenReview(y, d)]
        PROVE  review'[x] # None /\ review'[x].run = review[x].run
                 /\ review'[x].created = review[x].created
    <3>1. WrittenReview(y, d).run = review[y].run
          /\ WrittenReview(y, d).created = review[y].created
      BY DEF WrittenReview
    <3> QED BY <1>2, <2>1, <3>1 DEF HasStatus, Exists, IInv, TypeOK, Review
  <2> QED BY <1>2, <2>1, ReviewStep DEF Exists, IInv, TypeOK
<1> QED BY <1>1, <1>2 DEF Superseded, IsLatest

\* How a worker can come to be where it is on p.
LEMMA StageStep ==
  ASSUME IInv, [Next]_vars, NEW w \in Worker, NEW p \in Proposal, job'[w] = p
  PROVE  \/ job[w] = p /\ pc'[w] = pc[w]
         \/ pc'[w] = "review"
         \/ job[w] = p /\ pc[w] = "review" /\ pc'[w] = "latest" /\ p \notin expired
         \/ job[w] = p /\ pc[w] = "latest" /\ IsLatest(p)
         \/ job[w] = p /\ pc[w] \notin {"idle", "review", "latest"}
<1> DEFINE Goal ==
      \/ job[w] = p /\ pc'[w] = pc[w]
      \/ pc'[w] = "review"
      \/ job[w] = p /\ pc[w] = "review" /\ pc'[w] = "latest" /\ p \notin expired
      \/ job[w] = p /\ pc[w] = "latest" /\ IsLatest(p)
      \/ job[w] = p /\ pc[w] \notin {"idle", "review", "latest"}
<1>1. CASE UNCHANGED << pc, job >> BY <1>1
<1>2. ASSUME NEW v \in Worker, v # w, Step(v) \/ Abort(v)
      PROVE  pc'[w] = pc[w] /\ job'[w] = job[w]
  BY <1>2
  DEF Step, Abort, BeginPass, AlreadyExecuted, Examine, CheckReview, CheckLatest,
      CheckAccess, Check, ReadContents, Apply, Validate, Record, Conclude,
      EndAttempt, Goto, attempt, IInv, TypeOK
<1>3. ASSUME NEW q \in Proposal, Examine(w, q) PROVE Goal
  BY <1>3 DEF Examine, Goto, IInv, TypeOK
<1>4. ASSUME EndAttempt(w) PROVE FALSE
  BY <1>4 DEF EndAttempt, IInv, TypeOK
<1>5. CASE CheckReview(w)
  BY <1>4, <1>5 DEF CheckReview, Check, Goto, attempt, IInv, TypeOK
<1>6. CASE CheckLatest(w)
  BY <1>4, <1>6 DEF CheckLatest, Check, Goto, attempt, IInv, TypeOK
<1>7. CASE CheckAccess(w) \/ ReadContents(w) \/ Apply(w) \/ Validate(w)
  BY <1>4, <1>7
  DEF CheckAccess, Check, ReadContents, Apply, Validate, Conclude, Goto, attempt,
      IInv, TypeOK
<1>8. CASE Record(w) \/ Abort(w)
  BY <1>4, <1>8 DEF Record, Abort
<1>9. CASE BeginPass(w) \/ \E q \in Proposal : AlreadyExecuted(w, q)
  BY <1>9 DEF BeginPass, AlreadyExecuted, attempt
<1>10. CASE ~\E v \in Worker : Step(v) \/ Abort(v)
  <2>1. UNCHANGED << pc, job >>
    BY <1>10
    DEF Next, vars, attempt, Propose, Ask, Decide, Expire, Drift, SetRegistryStatus
  <2> QED BY <2>1
<1> QED
  BY <1>2, <1>3, <1>5, <1>6, <1>7, <1>8, <1>9, <1>10 DEF Step

LEMMA LapsedStays ==
  ASSUME IInv, [Next]_vars, NEW p \in Proposal, Lapsed(p)
  PROVE  Lapsed(p)'
<1>1. execution'[p] = None
  <2>1. ASSUME NEW w \in Worker, Record(w) PROVE job[w] # p
    BY <2>1 DEF Record, Lapsed
  <2> QED BY <2>1, ExecutionStep DEF Lapsed, Record, IInv, TypeOK
<1>2. CASE p \in expired /\ \A w \in Worker : job[w] = p => pc[w] \in {"idle", "review"}
  <2>1. p \in expired'
    BY <1>2 DEF Next, Step, vars, attempt, people, Propose, Ask, Decide, BeginPass,
       AlreadyExecuted, Examine, CheckReview, CheckLatest, CheckAccess, Check,
       ReadContents, Apply, Validate, Record, Abort, Expire, Drift, SetRegistryStatus
  <2>2. ASSUME NEW w \in Worker, job'[w] = p PROVE pc'[w] \in {"idle", "review"}
    BY <1>2, <2>2, StageStep
  <2> QED BY <1>1, <2>1, <2>2 DEF Lapsed
<1>3. CASE Superseded(p)
           /\ \A w \in Worker : job[w] = p => pc[w] \in {"idle", "review", "latest"}
  <2>2. ASSUME NEW w \in Worker, job'[w] = p PROVE pc'[w] \in {"idle", "review", "latest"}
    BY <1>3, <2>2, StageStep DEF Superseded
  <2> QED BY <1>1, <1>3, <2>2, SupersededStays DEF Lapsed, Superseded
<1> QED BY <1>2, <1>3 DEF Lapsed, Superseded

\* Once an approval has expired or been superseded with no attempt past the
\* check that notices, it never leads to an execution again.
THEOREM LapsedNeverExecuted == Spec => LapsedIsNeverExecuted
<1>1. ASSUME NEW p \in Proposal
      PROVE  Spec => [](Lapsed(p) => [](execution[p] = None))
  <2>1. IInv /\ Lapsed(p) /\ [Next]_vars => Lapsed(p)'
    BY LapsedStays
  <2>2. Lapsed(p) => execution[p] = None
    BY DEF Lapsed
  <2> QED BY <2>1, <2>2, Invariance, PTL DEF Spec
<1> QED BY <1>1 DEF LapsedIsNeverExecuted

-----------------------------------------------------------------------------
(***************************************************************************)
(* A change whose target has drifted.                                      *)
(***************************************************************************)
\* An attempt on p has found the drift, or has yet to read the contents.
Noticed(w, p) ==
  job[w] = p =>
    /\ pc[w] = "apply" => stale[w]
    /\ pc[w] # "validate"
    /\ pc[w] = "record" => result[w] = "failed"

Drifting(p) ==
  /\ p \in drifted /\ execution[p] # "succeeded"
  /\ \A w \in Worker : Noticed(w, p)

LEMMA NoticedStep ==
  ASSUME IInv, [Next]_vars, NEW p \in Proposal, Drifting(p), NEW w \in Worker
  PROVE  Noticed(w, p)'
<1>1. Noticed(w, p) /\ p \in drifted BY DEF Drifting
<1>2. CASE UNCHANGED << pc[w], job[w], stale[w], result[w] >> BY <1>1, <1>2 DEF Noticed
<1>3. ASSUME EndAttempt(w) PROVE Noticed(w, p)'
  BY <1>3 DEF EndAttempt, Goto, Noticed, IInv, TypeOK
<1>4. ASSUME NEW q \in Proposal, Examine(w, q) PROVE Noticed(w, p)'
  BY <1>4 DEF Examine, Goto, Noticed, IInv, TypeOK
<1>5. CASE CheckReview(w) \/ CheckLatest(w) \/ CheckAccess(w)
  <2>1. ASSUME NEW to \in {"latest", "access", "contents"}, Goto(w, to), UNCHANGED attempt
        PROVE  Noticed(w, p)'
    BY <2>1 DEF Goto, Noticed, attempt, IInv, TypeOK
  <2> QED BY <1>3, <1>5, <2>1 DEF CheckReview, CheckLatest, CheckAccess, Check
<1>6. ASSUME NEW o, Conclude(w, o), UNCHANGED job, job[w] = p => o = "failed"
      PROVE  Noticed(w, p)'
  BY <1>6 DEF Conclude, Goto, Noticed, IInv, TypeOK
<1>7. CASE ReadContents(w)
  <2>1. CASE Goto(w, "apply") /\ stale' = [stale EXCEPT ![w] = job[w] \in drifted]
             /\ UNCHANGED job
    BY <1>1, <2>1 DEF Goto, Noticed, IInv, TypeOK
  <2> QED BY <1>6, <1>7, <2>1 DEF ReadContents
<1>8. CASE Apply(w)
  <2>1. CASE ~stale[w] /\ Goto(w, "validate")
    BY <1>1, <1>8, <2>1 DEF Apply, Goto, Noticed, IInv, TypeOK
  <2> QED BY <1>6, <1>8, <2>1 DEF Apply
<1>9. CASE Validate(w) BY <1>1, <1>6, <1>9 DEF Validate, Noticed
<1>10. CASE Record(w) \/ Abort(w) BY <1>3, <1>10 DEF Record, Abort
<1>11. CASE BeginPass(w) \/ \E q \in Proposal : AlreadyExecuted(w, q)
  BY <1>2, <1>11 DEF BeginPass, AlreadyExecuted, attempt
<1>12. ASSUME NEW v \in Worker \ {w}, Step(v) \/ Abort(v)
       PROVE  UNCHANGED << pc[w], job[w], stale[w], result[w] >>
  BY <1>12
  DEF Step, BeginPass, AlreadyExecuted, Examine, CheckReview, CheckLatest, CheckAccess,
      Check, ReadContents, Apply, Validate, Record, Abort, Conclude, EndAttempt, Goto,
      attempt, IInv, TypeOK
<1>13. CASE ~\E v \in Worker : Step(v) \/ Abort(v)
  <2>1. UNCHANGED << pc, attempt >>
    BY <1>13
    DEF Next, vars, attempt, Propose, Ask, Decide, Expire, Drift, SetRegistryStatus
  <2> QED BY <1>2, <2>1 DEF attempt
<1> QED
  BY <1>2, <1>4, <1>5, <1>7, <1>8, <1>9, <1>10, <1>11, <1>12, <1>13 DEF Step

LEMMA DriftingStays ==
  ASSUME IInv, [Next]_vars, NEW p \in Proposal, Drifting(p)
  PROVE  Drifting(p)'
<1>1. p \in drifted'
  BY DEF Drifting, Next, Step, vars, attempt, people, Propose, Ask, Decide, BeginPass,
     AlreadyExecuted, Examine, CheckReview, CheckLatest, CheckAccess, Check,
     ReadContents, Apply, Validate, Record, Abort, Expire, Drift, SetRegistryStatus
<1>2. execution'[p] # "succeeded"
  <2>1. ASSUME NEW w \in Worker, Record(w) PROVE execution'[p] # "succeeded"
    <3>1. job[w] = p => result[w] = "failed" BY <2>1 DEF Record, Drifting, Noticed
    <3> QED BY <2>1, <3>1 DEF Record, Drifting, IInv, TypeOK
  <2> QED BY <2>1, ExecutionStep DEF Drifting
<1>3. \A w \in Worker : Noticed(w, p)' BY NoticedStep
<1> QED BY <1>1, <1>2, <1>3 DEF Drifting

\* A change whose target drifts before an attempt reads the contents is refused
\* by that attempt and by every later one.
THEOREM DriftedNeverSucceeds == Spec => DriftedIsRefused
<1> DEFINE Unread(p) ==
      /\ p \in drifted /\ execution[p] = None
      /\ \A w \in Worker : job[w] = p => pc[w] \notin {"apply", "validate", "record"}
<1>1. ASSUME NEW p \in Proposal
      PROVE  Spec => [](Unread(p) => [](execution[p] # "succeeded"))
  <2>1. IInv /\ Drifting(p) /\ [Next]_vars => Drifting(p)' BY DriftingStays
  <2>2. Unread(p) => Drifting(p) BY DEF Drifting, Noticed, Outcome
  <2>3. Drifting(p) => execution[p] # "succeeded" BY DEF Drifting
  <2> HIDE DEF Unread
  <2> QED BY <2>1, <2>2, <2>3, Invariance, PTL DEF Spec
<1> QED BY <1>1 DEF DriftedIsRefused
=============================================================================
