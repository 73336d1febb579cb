-------------------------- MODULE DeploymentProofs --------------------------
(***************************************************************************)
(* What Deployment promises, proved for any number of publications,        *)
(* workers and lost items.                                                 *)
(***************************************************************************)
EXTENDS Deployment, FiniteSetTheorems, TLAPS

USE PublicationAssumption, LimitAssumption, BoundsAssumption, SentinelAssumption

Status == {"eligible", "running", "succeeded", "failed", "closed_unmerged"}

Merged(p)   == pullRequest[p] = "merged" /\ onBase[p]
Uncalled(p) == \A s \in Sha : calls[p][s] = 0

\* What detection may be about to record of p.
Detection(p, r) ==
  /\ r \in Row
  /\ r.status \in {"eligible", "closed_unmerged"}
  /\ r.status = "eligible" => Merged(p) /\ r.sha = "merge"

\* What the deployment of p may be about to record.
Settlement(p, r) ==
  /\ r \in Row
  /\ r.status \in {"succeeded", "failed"}
  /\ r.status = "succeeded" => provider[p] = "succeeded"

\* What each stage has at hand.
Stages ==
  \A w \in Worker :
    /\ pc[w] \in DetectStage \cup DeployStage => job[w] \in Publication
    /\ pc[w] = "record" => Detection(job[w], result[w])
    /\ pc[w] \in DeployStage => InStatus(job[w], "running")
    /\ pc[w] \in {"validate", "deploy_call"} => Uncalled(job[w])
    /\ pc[w] = "reconcile" => result[w] \in Row /\ result[w].status = "failed"
    /\ pc[w] = "check_health" => provider[job[w]] = "succeeded"
    /\ pc[w] = "mark" => Settlement(job[w], result[w])

\* A claim is exclusive.
Exclusive ==
  \A v, w \in Worker :
    v # w /\ pc[v] \in DeployStage /\ pc[w] \in DeployStage => job[v] # job[w]

\* What a row that is not settled says of GitHub and of the provider.
Claimed(p) ==
  InStatus(p, "running") \/ InStatus(p, "succeeded") \/ InStatus(p, "failed")

Rows ==
  \A p \in Publication :
    /\ ~Claimed(p) => Uncalled(p)
    /\ InStatus(p, "eligible") \/ InStatus(p, "running")
         => Merged(p) /\ deployments[p].sha = "merge"
    /\ pullRequest[p] = "merged" => sha[p] # "test"

Safe == DeployedOnce /\ DeployedIsMerged /\ SucceededIsDeployed

IInv == TypeOK /\ Stages /\ Exclusive /\ Rows /\ Safe

USE DEF DetectStage, DeployStage, stored

-----------------------------------------------------------------------------
LEMMA GotoType ==
  ASSUME TypeOK, NEW w \in Worker, NEW stage \in Stage, Goto(w, stage)
  PROVE  /\ pc' \in [Worker -> Stage]
         /\ \A v \in Worker \ {w} : pc'[v] = pc[v]
         /\ pc'[w] = stage
  BY DEF TypeOK, Goto

LEMMA EndItemType ==
  ASSUME TypeOK, NEW w \in Worker, NEW list \in {"idle", "detect", "deploy"},
         EndItem(w, list)
  PROVE  /\ pc' \in [Worker -> Stage]
         /\ job' \in [Worker -> Publication \cup {None}]
         /\ result' \in [Worker -> Row \cup {None}]
         /\ \A v \in Worker \ {w} :
              pc'[v] = pc[v] /\ job'[v] = job[v] /\ result'[v] = result[v]
         /\ pc'[w] = list
  BY DEF TypeOK, EndItem, Goto, Stage

\* A claimed row, and the two rows it can become.
LEMMA RunningRow ==
  ASSUME TypeOK, NEW p \in Publication, InStatus(p, "running")
  PROVE  /\ \A category \in Category :
              /\ FailedRow(p, category) \in Row
              /\ FailedRow(p, category).status = "failed"
         /\ \A validation \in {"passed", "failed"} :
              /\ SucceededRow(p, validation) \in Row
              /\ SucceededRow(p, validation).status = "succeeded"
<1>1. deployments[p] \in [status : {"eligible", "running"}, sha : Sha,
                          category : {"none"}, validation : {"none"}]
  BY DEF TypeOK, InStatus, Row
<1> QED BY <1>1 DEF FailedRow, SucceededRow, Row

\* A step of w that writes to no one but itself.
LEMMA WorkerStep ==
  ASSUME IInv, NEW w \in Worker,
         UNCHANGED << deployments, github, target, stored >>,
         aborts' \in Nat,
         queue' \in [Worker -> SUBSET Publication],
         pc' \in [Worker -> Stage],
         job' \in [Worker -> Publication \cup {None}],
         result' \in [Worker -> Row \cup {None}],
         \A v \in Worker \ {w} :
           pc'[v] = pc[v] /\ job'[v] = job[v] /\ result'[v] = result[v],
         pc'[w] \in DeployStage => pc[w] \in DeployStage /\ job'[w] = job[w],
         pc'[w] \in DetectStage => job'[w] \in Publication,
         pc'[w] = "record" => Detection(job'[w], result'[w]),
         pc'[w] \in {"validate", "deploy_call"} => pc[w] \in {"validate", "deploy_call"},
         pc'[w] = "reconcile" => result'[w] \in Row /\ result'[w].status = "failed",
         pc'[w] = "check_health" => provider[job'[w]] = "succeeded",
         pc'[w] = "mark" => Settlement(job'[w], result'[w])
  PROVE  IInv'
<1>1. TypeOK' BY DEF IInv, TypeOK, github, target
<1>2. Stages'
  BY DEF IInv, Stages, Detection, Settlement, Merged, Uncalled, InStatus, github, target
<1>3. Exclusive' BY DEF IInv, Exclusive
<1>4. Rows' BY DEF IInv, Rows, Claimed, Merged, Uncalled, InStatus, github, target
<1>5. Safe'
  BY DEF IInv, Safe, DeployedOnce, DeployedIsMerged, SucceededIsDeployed, InStatus,
     github, target
<1> QED BY <1>1, <1>2, <1>3, <1>4, <1>5 DEF IInv

LEMMA EndStep ==
  ASSUME IInv, NEW w \in Worker, NEW list \in {"idle", "detect", "deploy"},
         EndItem(w, list),
         UNCHANGED << deployments, github, target, stored >>,
         aborts' \in Nat, queue' \in [Worker -> SUBSET Publication]
  PROVE  IInv'
  BY EndItemType, WorkerStep DEF IInv

\* A step of w within its item, to a stage that may follow and with the row r
\* it is about to write.
LEMMA ItemStep ==
  ASSUME IInv, NEW w \in Worker, NEW stage \in DetectStage \cup DeployStage,
         NEW r \in Row \cup {None},
         pc[w] \in DetectStage \cup DeployStage,
         stage \in DeployStage => pc[w] \in DeployStage,
         stage = "deploy_call" => pc[w] = "validate",
         stage # "validate",
         stage = "record" => Detection(job[w], r),
         stage = "reconcile" => r \in Row /\ r.status = "failed",
         stage = "check_health" => provider[job[w]] = "succeeded",
         stage = "mark" => Settlement(job[w], r),
         Goto(w, stage), result' = [result EXCEPT ![w] = r],
         UNCHANGED << deployments, github, target, stored, queue, job, aborts >>
  PROVE  IInv'
<1>1. /\ pc' \in [Worker -> Stage] /\ pc'[w] = stage
      /\ \A v \in Worker \ {w} : pc'[v] = pc[v]
  BY GotoType DEF IInv, Stage
<1>2. /\ result' \in [Worker -> Row \cup {None}] /\ result'[w] = r
      /\ \A v \in Worker \ {w} : result'[v] = result[v]
  BY DEF IInv, TypeOK
<1>3. /\ job' \in [Worker -> Publication \cup {None}]
      /\ queue' \in [Worker -> SUBSET Publication] /\ aborts' \in Nat
      /\ job'[w] \in Publication
  BY DEF IInv, TypeOK, Stages
<1> QED BY <1>1, <1>2, <1>3, WorkerStep

LEMMA InvStep == ASSUME IInv, [Next]_vars PROVE IInv'
<1>1. ASSUME NEW w \in Worker, BeginPass(w) \/ ListEligible(w) \/ EndPass(w) PROVE IInv'
  <2>1. PICK stage \in {"idle", "detect", "deploy"} : Goto(w, stage)
    BY <1>1 DEF BeginPass, ListEligible, EndPass
  <2>2. UNCHANGED << deployments, github, target, stored, job, result, aborts >>
    BY <1>1 DEF BeginPass, ListEligible, EndPass, local
  <2>3. queue' \in [Worker -> SUBSET Publication]
    <3>1. Batch \subseteq Publication BY DEF Batch, Published
    <3>2. Claimable \subseteq Publication BY DEF Claimable, Eligible
    <3>3. queue \in [Worker -> SUBSET Publication] BY DEF IInv, TypeOK
    <3>4. CASE BeginPass(w) BY <3>1, <3>3, <3>4 DEF BeginPass
    <3>5. CASE ListEligible(w) BY <3>2, <3>3, <3>5 DEF ListEligible
    <3>6. CASE EndPass(w) BY <3>3, <3>6 DEF EndPass, local
    <3> QED BY <1>1, <3>4, <3>5, <3>6
  <2>4. /\ pc' \in [Worker -> Stage] /\ pc'[w] = stage
        /\ \A v \in Worker \ {w} : pc'[v] = pc[v]
    BY <2>1, GotoType DEF IInv, Stage
  <2> QED BY <2>2, <2>3, <2>4, WorkerStep DEF IInv, TypeOK
<1>2. ASSUME NEW w \in Worker, NEW p \in Publication,
             AlreadyRecorded(w, p) \/ Examine(w, p)
      PROVE  IInv'
  <2>1. CASE AlreadyRecorded(w, p)
    BY <2>1, WorkerStep DEF AlreadyRecorded, IInv, TypeOK
  <2>2. CASE Examine(w, p)
    <3>1. /\ pc' \in [Worker -> Stage] /\ pc'[w] = "authorize"
          /\ \A v \in Worker \ {w} : pc'[v] = pc[v]
      BY <2>2, GotoType DEF Examine, IInv, Stage
    <3>2. /\ job' \in [Worker -> Publication \cup {None}] /\ job'[w] = p
          /\ \A v \in Worker \ {w} : job'[v] = job[v]
          /\ queue' \in [Worker -> SUBSET Publication]
      BY <2>2 DEF Examine, IInv, TypeOK
    <3>3. UNCHANGED << deployments, github, target, stored, result, aborts >>
      BY <2>2 DEF Examine
    <3> QED BY <3>1, <3>2, <3>3, WorkerStep DEF IInv, TypeOK
  <2> QED BY <1>2, <2>1, <2>2
<1>3. ASSUME NEW w \in Worker, Authorize(w) PROVE IInv'
  <2>1. CASE registered
    <3>1. Goto(w, "read_pr") /\ result' = [result EXCEPT ![w] = result[w]]
      BY <1>3, <2>1 DEF Authorize, IInv, TypeOK
    <3>2. result[w] \in Row \cup {None} BY DEF IInv, TypeOK
    <3> QED BY <1>3, <2>1, <3>1, <3>2, ItemStep DEF Authorize
  <2>2. CASE ~registered
    BY <1>3, <2>2, EndStep DEF Authorize, IInv, TypeOK
  <2> QED BY <2>1, <2>2
<1>4. ASSUME NEW w \in Worker, ReadPullRequest(w) PROVE IInv'
  <2>1. CASE Detected(job[w]) = None
    BY <1>4, <2>1, EndStep DEF ReadPullRequest, IInv, TypeOK
  <2>2. CASE Detected(job[w]) # None
    <3>1. job[w] \in Publication BY <1>4 DEF ReadPullRequest, IInv, Stages
    <3>2. Detection(job[w], Detected(job[w]))
      <4>1. CASE onBase[job[w]] /\ pullRequest[job[w]] = "closed"
        BY <4>1 DEF Detected, Detection, NewRow, Row, Sha
      <4>2. CASE onBase[job[w]] /\ pullRequest[job[w]] = "merged" /\ sha[job[w]] # "none"
        <5>1. sha[job[w]] = "merge" BY <3>1, <4>2 DEF IInv, TypeOK, Rows, Sha
        <5> QED BY <4>2, <5>1 DEF Detected, Detection, NewRow, Row, Sha, Merged
      <4> QED BY <2>2, <4>1, <4>2 DEF Detected
    <3>3. Detected(job[w]) \in Row BY <3>2 DEF Detection
    <3> QED BY <1>4, <2>2, <3>2, <3>3, ItemStep DEF ReadPullRequest, Conclude
  <2> QED BY <2>1, <2>2
<1>5. ASSUME NEW w \in Worker, Record(w) PROVE IInv'
  <2>1. PICK p \in Publication : p = job[w] /\ Detection(p, result[w])
    BY <1>5 DEF Record, IInv, Stages
  <2>2. CASE deployments[p] # None
    <3>1. UNCHANGED << deployments, stored >> BY <1>5, <2>1, <2>2 DEF Record
    <3> QED BY <1>5, <3>1, EndStep DEF Record, IInv, TypeOK
  <2>3. CASE deployments[p] = None
    <3>1. deployments' = [deployments EXCEPT ![p] = result[w]]
      BY <1>5, <2>1, <2>3 DEF Record
    <3>2. /\ UNCHANGED << github, target, publishedAt, registered, queue, aborts >>
          /\ recordedAt' \in [Publication -> Nat]
      <4>1. Cardinality(Recorded) \in Nat BY FS_Subset, FS_CardinalityType DEF Recorded
      <4>2. recordedAt' = [recordedAt EXCEPT ![p] = 1 + Cardinality(Recorded)]
        BY <1>5, <2>1, <2>3 DEF Record
      <4>3. recordedAt \in [Publication -> Nat] BY DEF IInv, TypeOK
      <4>4. recordedAt' \in [Publication -> Nat] BY <4>1, <4>2, <4>3
      <4> QED BY <1>5, <4>4 DEF Record
    <3>3. EndItem(w, "detect") BY <1>5 DEF Record
    <3>4. \A q \in Publication \ {p}, s \in Status :
            InStatus(q, s)' = InStatus(q, s) /\ deployments'[q] = deployments[q]
      BY <2>1, <3>1 DEF InStatus, IInv, TypeOK
    <3>5. /\ deployments'[p] = result[w]
          /\ ~InStatus(p, "running")' /\ ~InStatus(p, "succeeded")'
          /\ ~InStatus(p, "running")
      BY <2>1, <2>3, <3>1 DEF InStatus, Detection, IInv, TypeOK
    <3>6. TypeOK'
      BY <2>1, <3>1, <3>2, <3>3, EndItemType
      DEF IInv, TypeOK, Detection, github, target
    <3>7. Stages'
      BY <2>1, <3>2, <3>3, <3>4, <3>5, EndItemType
      DEF IInv, Stages, Detection, Settlement, Merged, Uncalled, Status, github, target
    <3>8. Exclusive' BY <3>3, EndItemType DEF IInv, Exclusive
    <3>9. Rows'
      <4>1. Uncalled(p) BY <2>3 DEF IInv, Rows, Claimed, InStatus
      <4>2. \A q \in Publication :
              (Uncalled(q) => Uncalled(q)') /\ (Merged(q) => Merged(q)')
        BY <3>2 DEF Merged, Uncalled, github, target
      <4>3. InStatus(p, "eligible")' => Merged(p) /\ deployments'[p].sha = "merge"
        BY <2>1, <3>5 DEF InStatus, Detection
      <4>4. ASSUME NEW q \in Publication \ {p}
            PROVE  /\ ~Claimed(q)' => Uncalled(q)'
                   /\ InStatus(q, "eligible")' \/ InStatus(q, "running")'
                        => Merged(q)' /\ deployments'[q].sha = "merge"
        BY <3>4, <4>2 DEF IInv, Rows, Claimed, Status
      <4>5. \A q \in Publication : pullRequest'[q] = "merged" => sha'[q] # "test"
        BY <3>2 DEF IInv, Rows, github
      <4>6. Uncalled(p)' BY <4>1, <4>2
      <4>7. InStatus(p, "eligible")' => Merged(p)' /\ deployments'[p].sha = "merge"
        BY <4>2, <4>3
      <4> SUFFICES ASSUME NEW q \in Publication
                   PROVE  /\ ~Claimed(q)' => Uncalled(q)'
                          /\ InStatus(q, "eligible")' \/ InStatus(q, "running")'
                               => Merged(q)' /\ deployments'[q].sha = "merge"
        BY <4>5 DEF Rows
      <4> QED BY <3>5, <4>4, <4>6, <4>7
    <3>10. Safe'
      BY <3>2, <3>4, <3>5
      DEF IInv, Safe, DeployedOnce, DeployedIsMerged, SucceededIsDeployed, Status,
          github, target
    <3> QED BY <3>6, <3>7, <3>8, <3>9, <3>10 DEF IInv
  <2> QED BY <2>2, <2>3
<1>6. ASSUME NEW w \in Worker, NEW p \in Publication, Claim(w, p) PROVE IInv'
  <2>1. CASE ~InStatus(p, "eligible")
    BY <1>6, <2>1, WorkerStep DEF Claim, IInv, TypeOK, Stages
  <2>2. CASE InStatus(p, "eligible")
    <3>1. /\ deployments' = [deployments EXCEPT ![p].status = "running"]
          /\ job' = [job EXCEPT ![w] = p]
          /\ pc' = [pc EXCEPT ![w] = "validate"]
          /\ queue' = [queue EXCEPT ![w] = @ \ {p}]
          /\ UNCHANGED << github, target, stored, result, aborts >>
      BY <1>6, <2>2 DEF Claim, Goto
    <3>2. /\ deployments'[p] \in Row /\ deployments'[p].status = "running"
          /\ deployments'[p].sha = "merge"
          /\ Merged(p) /\ Uncalled(p)
      <4>1. deployments[p] \in [status : {"eligible", "running"}, sha : Sha,
                                category : {"none"}, validation : {"none"}]
        BY <2>2 DEF IInv, TypeOK, InStatus, Row
      <4>2. deployments[p].sha = "merge" /\ Merged(p) /\ Uncalled(p)
        BY <2>2 DEF IInv, Rows, Claimed, Merged, Uncalled, InStatus
      <4>3. deployments'[p] = [deployments[p] EXCEPT !.status = "running"]
        BY <3>1 DEF IInv, TypeOK
      <4> QED BY <4>1, <4>2, <4>3 DEF Row
    <3>3. \A q \in Publication \ {p} : deployments'[q] = deployments[q]
      BY <3>1 DEF IInv, TypeOK
    <3>4. /\ \A v \in Worker \ {w} :
               pc'[v] = pc[v] /\ job'[v] = job[v] /\ result'[v] = result[v]
          /\ pc'[w] = "validate" /\ job'[w] = p
      BY <3>1 DEF IInv, TypeOK
    <3>5. \A v \in Worker \ {w} : pc[v] \in DeployStage => job[v] # p
      BY <2>2 DEF IInv, Stages, InStatus
    <3>6. TypeOK'
      <4>1. deployments' \in [Publication -> Row \cup {None}]
        BY <3>1, <3>2, <3>3 DEF IInv, TypeOK
      <4> QED BY <3>1, <4>1 DEF IInv, TypeOK, Stage, github, target
    <3>7. Stages'
      BY <3>1, <3>2, <3>3, <3>4, <3>5
      DEF IInv, Stages, Detection, Settlement, Merged, Uncalled, InStatus, github, target
    <3>8. Exclusive' BY <3>4, <3>5 DEF IInv, Exclusive
    <3>9. Rows'
      BY <3>1, <3>2, <3>3 DEF IInv, Rows, Claimed, Merged, Uncalled, InStatus, github, target
    <3>10. Safe'
      BY <3>1, <3>2, <3>3
      DEF IInv, Safe, DeployedOnce, DeployedIsMerged, SucceededIsDeployed, InStatus,
          github, target
    <3> QED BY <3>6, <3>7, <3>8, <3>9, <3>10 DEF IInv
  <2> QED BY <2>1, <2>2
<1>7. ASSUME NEW w \in Worker, Validate(w) PROVE IInv'
  <2>1. CASE Goto(w, "deploy_call") /\ UNCHANGED result
    <3>1. /\ result' = [result EXCEPT ![w] = result[w]]
          /\ result[w] \in Row \cup {None}
      BY <2>1 DEF IInv, TypeOK
    <3> QED BY <1>7, <2>1, <3>1, ItemStep DEF Validate
  <2>2. CASE Conclude(w, "mark", FailedRow(job[w], "configuration_invalid"))
    <3>1. job[w] \in Publication /\ InStatus(job[w], "running")
      BY <1>7 DEF Validate, IInv, Stages
    <3>2. Settlement(job[w], FailedRow(job[w], "configuration_invalid"))
      BY <3>1, RunningRow DEF Settlement, IInv, Category
    <3> QED
      BY <1>7, <2>2, <3>2, ItemStep DEF Validate, Conclude, Settlement
  <2> QED BY <1>7, <2>1, <2>2 DEF Validate
<1>8. ASSUME NEW w \in Worker, Deploy(w) PROVE IInv'
  <2> DEFINE p == job[w]
  <2>1. /\ p \in Publication /\ InStatus(p, "running") /\ Uncalled(p)
        /\ Merged(p) /\ deployments[p].sha = "merge"
    BY <1>8 DEF Deploy, IInv, Stages, Rows
  <2>2. /\ calls' = [calls EXCEPT ![p]["merge"] = @ + 1]
        /\ UNCHANGED << deployments, github, stored, queue, job, aborts >>
    BY <1>8, <2>1 DEF Deploy
  <2>3. PICK status \in {"unknown", "running", "succeeded", "failed"} :
          provider' = [provider EXCEPT ![p] = status]
    BY <1>8 DEF Deploy
  <2>4. /\ pc' \in [Worker -> Stage] /\ result' \in [Worker -> Row \cup {None}]
        /\ \A v \in Worker \ {w} : pc'[v] = pc[v] /\ result'[v] = result[v]
        /\ \/ pc'[w] = "check_health" /\ provider'[p] = "succeeded"
           \/ pc'[w] = "reconcile" /\ result'[w] \in Row /\ result'[w].status = "failed"
    <3>1. CASE /\ provider' = [provider EXCEPT ![p] = "succeeded"]
               /\ Goto(w, "check_health") /\ UNCHANGED result
      BY <2>1, <3>1 DEF Goto, IInv, TypeOK, Stage
    <3>2. ASSUME NEW category \in {"deployment_timeout", "deployment_provider_failure"},
                 Conclude(w, "reconcile", FailedRow(p, category))
          PROVE  /\ pc' \in [Worker -> Stage] /\ result' \in [Worker -> Row \cup {None}]
                 /\ \A v \in Worker \ {w} : pc'[v] = pc[v] /\ result'[v] = result[v]
                 /\ pc'[w] = "reconcile"
                 /\ result'[w] \in Row /\ result'[w].status = "failed"
      <4>1. FailedRow(p, category) \in Row /\ FailedRow(p, category).status = "failed"
        BY <2>1, <3>2, RunningRow DEF IInv, Category
      <4> QED BY <3>2, <4>1 DEF Conclude, Goto, IInv, TypeOK, Stage
    <3> QED BY <1>8, <3>1, <3>2 DEF Deploy
  <2>5. /\ calls' \in [Publication -> [Sha -> Nat]]
        /\ calls'[p]["merge"] = 1 /\ calls'[p]["none"] = 0 /\ calls'[p]["test"] = 0
        /\ \A q \in Publication \ {p} :
             calls'[q] = calls[q] /\ provider'[q] = provider[q]
    BY <2>1, <2>2, <2>3 DEF IInv, TypeOK, Uncalled, Sha
  <2>6. \A v \in Worker \ {w} : pc[v] \in DeployStage => job[v] # p
    BY <1>8 DEF Deploy, IInv, Exclusive
  <2>7. TypeOK' BY <2>2, <2>3, <2>4, <2>5 DEF IInv, TypeOK, github
  <2>8. Stages'
    <3> SUFFICES ASSUME NEW v \in Worker
                 PROVE  /\ pc'[v] \in DetectStage \cup DeployStage => job'[v] \in Publication
                        /\ pc'[v] = "record" => Detection(job[v], result[v])'
                        /\ pc'[v] \in DeployStage => InStatus(job[v], "running")'
                        /\ pc'[v] \in {"validate", "deploy_call"} => Uncalled(job[v])'
                        /\ pc'[v] = "reconcile" => result'[v] \in Row /\ result'[v].status = "failed"
                        /\ pc'[v] = "check_health" => provider'[job'[v]] = "succeeded"
                        /\ pc'[v] = "mark" => Settlement(job[v], result[v])'
      BY DEF Stages
    <3>1. CASE v = w
      BY <2>1, <2>2, <2>4, <3>1 DEF InStatus
    <3>2. CASE v # w
      <4>1. pc[v] \in DeployStage =>
              calls'[job[v]] = calls[job[v]] /\ provider'[job[v]] = provider[job[v]]
        BY <2>5, <2>6, <3>2 DEF IInv, Stages
      <4> QED
        BY <2>2, <2>4, <2>6, <3>2, <4>1
        DEF IInv, Stages, Detection, Settlement, Merged, Uncalled, InStatus, github
    <3> QED BY <3>1, <3>2
  <2>9. Exclusive' BY <1>8, <2>2, <2>4 DEF Deploy, IInv, Exclusive
  <2>10. Rows'
    BY <2>1, <2>2, <2>5 DEF IInv, Rows, Claimed, Merged, Uncalled, InStatus, github
  <2>11. Safe'
    BY <2>1, <2>2, <2>5
    DEF IInv, Safe, DeployedOnce, DeployedIsMerged, SucceededIsDeployed, InStatus,
        Merged, github
  <2> QED BY <2>7, <2>8, <2>9, <2>10, <2>11 DEF IInv
<1>9. ASSUME NEW w \in Worker, Reconcile(w) PROVE IInv'
  <2>1. CASE provider[job[w]] = "succeeded"
    BY <1>9, <2>1, ItemStep DEF Reconcile, Conclude
  <2>2. CASE provider[job[w]] # "succeeded"
    <3>1. /\ Settlement(job[w], result[w])
          /\ result' = [result EXCEPT ![w] = result[w]]
      BY <1>9, <2>2 DEF Reconcile, IInv, TypeOK, Stages, Settlement
    <3>2. result[w] \in Row BY <3>1 DEF Settlement
    <3> QED BY <1>9, <2>2, <3>1, <3>2, ItemStep DEF Reconcile
  <2> QED BY <2>1, <2>2
<1>10. ASSUME NEW w \in Worker, CheckHealth(w) PROVE IInv'
  <2>1. PICK validation \in {"passed", "failed"} :
          Conclude(w, "mark", SucceededRow(job[w], validation))
    BY <1>10 DEF CheckHealth
  <2>2. Settlement(job[w], SucceededRow(job[w], validation))
    <3>1. /\ job[w] \in Publication /\ InStatus(job[w], "running")
          /\ provider[job[w]] = "succeeded"
      BY <1>10 DEF CheckHealth, IInv, Stages
    <3> QED BY <3>1, RunningRow DEF Settlement, IInv
  <2> QED
    BY <1>10, <2>1, <2>2, ItemStep DEF CheckHealth, Conclude, Settlement
<1>11. ASSUME NEW w \in Worker, Mark(w) PROVE IInv'
  <2> DEFINE p == job[w]
  <2>1. /\ p \in Publication /\ Settlement(p, result[w]) /\ InStatus(p, "running")
        /\ Merged(p)
    BY <1>11 DEF Mark, IInv, Stages, Rows
  <2>2. /\ deployments' = [deployments EXCEPT ![p] = result[w]]
        /\ UNCHANGED << github, target, stored, queue, aborts >>
        /\ EndItem(w, "deploy")
    BY <1>11 DEF Mark
  <2>3. /\ deployments'[p] = result[w]
        /\ \A q \in Publication \ {p} : deployments'[q] = deployments[q]
    BY <2>1, <2>2 DEF IInv, TypeOK
  <2>4. \A v \in Worker \ {w} : pc[v] \in DeployStage => job[v] # p
    BY <1>11 DEF Mark, IInv, Exclusive
  <2>5. TypeOK'
    BY <2>1, <2>2, EndItemType DEF IInv, TypeOK, Settlement, github, target
  <2>6. Stages'
    BY <2>2, <2>3, <2>4, EndItemType
    DEF IInv, Stages, Detection, Settlement, Merged, Uncalled, InStatus, github, target
  <2>7. Exclusive' BY <2>2, EndItemType DEF IInv, Exclusive
  <2>8. Rows'
    BY <2>1, <2>2, <2>3
    DEF IInv, Rows, Claimed, Settlement, Merged, Uncalled, InStatus, github, target
  <2>9. Safe'
    BY <2>1, <2>2, <2>3
    DEF IInv, Safe, DeployedOnce, DeployedIsMerged, SucceededIsDeployed, InStatus,
        Settlement, github, target
  <2> QED BY <2>5, <2>6, <2>7, <2>8, <2>9 DEF IInv
<1>12. ASSUME NEW w \in Worker, Abort(w) PROVE IInv'
  <2>1. aborts' \in Nat /\ queue' \in [Worker -> SUBSET Publication]
    BY <1>12 DEF Abort, IInv, TypeOK
  <2> QED BY <1>12, <2>1, EndStep DEF Abort
<1>13. ASSUME NEW p \in Publication,
              Retarget(p) \/ TestMerge(p) \/ Merge(p) \/ MergeCommitKnown(p)
                \/ Close(p) \/ Reopen(p)
       PROVE  IInv'
  <2>1. UNCHANGED << deployments, target, stored, pc, local, aborts >>
    BY <1>13 DEF Retarget, TestMerge, Merge, MergeCommitKnown, Close, Reopen
  <2>2. /\ pullRequest' \in [Publication -> {"open", "closed", "merged"}]
        /\ onBase' \in [Publication -> BOOLEAN]
        /\ sha' \in [Publication -> Sha]
    <3>1. CASE Retarget(p) BY <3>1 DEF Retarget, IInv, TypeOK
    <3>2. CASE TestMerge(p) \/ MergeCommitKnown(p)
      BY <3>2 DEF TestMerge, MergeCommitKnown, IInv, TypeOK, Sha
    <3>3. CASE Merge(p) BY <3>3 DEF Merge, IInv, TypeOK, Sha
    <3>4. CASE Close(p) \/ Reopen(p) BY <3>4 DEF Close, Reopen, IInv, TypeOK
    <3> QED BY <1>13, <3>1, <3>2, <3>3, <3>4
  <2>3. \A q \in Publication : Merged(q) => Merged(q)'
    BY <1>13
    DEF Retarget, TestMerge, Merge, MergeCommitKnown, Close, Reopen, IInv, TypeOK, Merged
  <2>4. \A q \in Publication : pullRequest'[q] = "merged" => sha'[q] # "test"
    BY <1>13
    DEF Retarget, TestMerge, Merge, MergeCommitKnown, Close, Reopen, IInv, TypeOK, Rows
  <2>5. TypeOK' BY <2>1, <2>2 DEF IInv, TypeOK, target, local
  <2>6. Stages'
    BY <2>1, <2>3
    DEF IInv, Stages, Detection, Settlement, Uncalled, InStatus, target, local
  <2>7. Exclusive' BY <2>1 DEF IInv, Exclusive, local
  <2>8. Rows' BY <2>1, <2>3, <2>4 DEF IInv, Rows, Claimed, Uncalled, InStatus, target
  <2>9. Safe'
    BY <2>1, <2>3
    DEF IInv, Safe, DeployedOnce, DeployedIsMerged, SucceededIsDeployed, InStatus,
        Merged, target
  <2> QED BY <2>5, <2>6, <2>7, <2>8, <2>9 DEF IInv
<1>14. ASSUME NEW p \in Publication, ProviderProceeds(p) PROVE IInv'
  <2>1. /\ provider' \in [Publication -> {"unknown", "running", "succeeded", "failed"}]
        /\ \A q \in Publication : provider[q] = "succeeded" => provider'[q] = "succeeded"
        /\ UNCHANGED << deployments, github, calls, stored, pc, local, aborts >>
    BY <1>14 DEF ProviderProceeds, IInv, TypeOK
  <2>2. TypeOK' BY <2>1 DEF IInv, TypeOK, github, local
  <2>3. Stages'
    BY <2>1
    DEF IInv, Stages, Detection, Settlement, Merged, Uncalled, InStatus, github, local
  <2>4. Exclusive' BY <2>1 DEF IInv, Exclusive, local
  <2>5. Rows' BY <2>1 DEF IInv, Rows, Claimed, Merged, Uncalled, InStatus, github
  <2>6. Safe'
    BY <2>1
    DEF IInv, Safe, DeployedOnce, DeployedIsMerged, SucceededIsDeployed, InStatus, github
  <2> QED BY <2>2, <2>3, <2>4, <2>5, <2>6 DEF IInv
<1>15. ASSUME SetRegistryStatus \/ (\E p \in Publication : Publish(p)) \/ UNCHANGED vars
       PROVE  IInv'
  <2>1. /\ UNCHANGED << deployments, github, target, recordedAt, pc, local, aborts >>
        /\ registered' \in BOOLEAN /\ publishedAt' \in [Publication -> Nat]
    <3>1. Cardinality(Publication) \in Nat BY FS_CardinalityType
    <3>2. registered \in BOOLEAN /\ publishedAt \in [Publication -> Nat]
      BY DEF IInv, TypeOK
    <3>3. ASSUME NEW p \in Publication, Publish(p)
          PROVE  /\ UNCHANGED << deployments, github, target, recordedAt, pc, local, aborts >>
                 /\ registered' \in BOOLEAN /\ publishedAt' \in [Publication -> Nat]
      BY <3>1, <3>2, <3>3 DEF Publish
    <3>4. ASSUME SetRegistryStatus \/ UNCHANGED vars
          PROVE  /\ UNCHANGED << deployments, github, target, recordedAt, pc, local, aborts >>
                 /\ registered' \in BOOLEAN /\ publishedAt' \in [Publication -> Nat]
      BY <3>2, <3>4 DEF SetRegistryStatus, vars
    <3> QED BY <1>15, <3>3, <3>4
  <2> QED
    BY <2>1
    DEF IInv, TypeOK, Stages, Exclusive, Rows, Claimed, Safe, DeployedOnce, DeployedIsMerged,
        SucceededIsDeployed, Detection, Settlement, Merged, Uncalled, InStatus,
        github, target, local
<1> QED
  BY <1>1, <1>2, <1>3, <1>4, <1>5, <1>6, <1>7, <1>8, <1>9, <1>10, <1>11, <1>12,
     <1>13, <1>14, <1>15
  DEF Next, Step, Environment

LEMMA Invariance == Spec => []IInv
<1>1. Init => IInv
  <2> SUFFICES ASSUME Init PROVE IInv OBVIOUS
  <2>1. TypeOK BY DEF Init, TypeOK, Stage, Sha
  <2>2. Stages /\ Exclusive BY DEF Init, Stages, Exclusive
  <2>3. Rows
    <3>1. ASSUME NEW p \in Publication
          PROVE  deployments[p] = None /\ pullRequest[p] = "open" /\ Uncalled(p)
      BY DEF Init, Uncalled
    <3> QED BY <3>1 DEF Rows, InStatus
  <2>4. Safe
    BY DEF Init, Safe, DeployedOnce, DeployedIsMerged, SucceededIsDeployed, InStatus, Sha
  <2> QED BY <2>1, <2>2, <2>3, <2>4 DEF IInv
<1>2. IInv /\ [Next]_vars => IInv' BY InvStep
<1> QED BY <1>1, <1>2, PTL DEF Spec

\* Every variable keeps its type.
THEOREM TypeCorrect == Spec => []TypeOK
<1>1. IInv => TypeOK BY DEF IInv
<1> QED BY <1>1, Invariance, PTL

\* However many instances race and however many passes are lost, deploy() is
\* called at most once for a publication, and only with its merge commit.
THEOREM DeployedAtMostOnce == Spec => []DeployedOnce
<1>1. IInv => DeployedOnce BY DEF IInv, Safe
<1> QED BY <1>1, Invariance, PTL

\* Nothing is deployed that a person has not merged into the base branch.
THEOREM OnlyMergedIsDeployed == Spec => []DeployedIsMerged
<1>1. IInv => DeployedIsMerged BY DEF IInv, Safe
<1> QED BY <1>1, Invariance, PTL

\* A row says succeeded only of a deployment that the provider did make.
THEOREM SucceededCorrect == Spec => []SucceededIsDeployed
<1>1. IInv => SucceededIsDeployed BY DEF IInv, Safe
<1> QED BY <1>1, Invariance, PTL

-----------------------------------------------------------------------------
(***************************************************************************)
(* Refinement                                                              *)
(***************************************************************************)

\* The settled rows implement the write-once register, although the updates
\* that settle them are guarded by nothing but the row's _id: the exclusive
\* claim does it.
THEOREM DeploymentsAreARegister == Spec => OutcomeIsFinal
<1>1. Init => Register!Init
  BY DEF Init, Register!Init, Settled, InStatus
<1>2. IInv /\ [Next]_vars => [Register!Next]_Settled
  <2> SUFFICES ASSUME IInv, [Next]_vars
               PROVE  [Register!Next]_Settled
    OBVIOUS
  <2>1. ASSUME NEW p \in Publication, NEW r \in Row,
               deployments' = [deployments EXCEPT ![p] = r],
               Settled[p] = None
        PROVE  [Register!Next]_Settled
    <3>1. Settled' = [Settled EXCEPT ![p] = Settled'[p]]
      BY <2>1 DEF Settled, InStatus, IInv, TypeOK
    <3>2. Settled'[p] = r \/ Settled'[p] = None
      BY <2>1 DEF Settled, InStatus, IInv, TypeOK
    <3>3. CASE Settled'[p] = r
      <4>1. Register!Record(p) BY <2>1, <3>1, <3>3 DEF Register!Record
      <4> QED BY <4>1 DEF Register!Next
    <3>4. CASE Settled'[p] = None
      <4>1. Settled' = Settled BY <2>1, <3>1, <3>4 DEF Settled
      <4> QED BY <4>1
    <3> QED BY <3>2, <3>3, <3>4
  <2>2. ASSUME UNCHANGED deployments PROVE [Register!Next]_Settled
    BY <2>2 DEF Settled, InStatus
  <2>3. ASSUME NEW w \in Worker, Record(w) PROVE [Register!Next]_Settled
    <3>1. job[w] \in Publication /\ result[w] \in Row
      BY <2>3 DEF Record, IInv, Stages, Detection
    <3>2. CASE deployments[job[w]] = None
      BY <2>1, <2>3, <3>1, <3>2 DEF Record, Settled, InStatus
    <3>3. CASE deployments[job[w]] # None
      BY <2>2, <2>3, <3>1, <3>3 DEF Record, IInv, TypeOK
    <3> QED BY <3>2, <3>3
  <2>4. ASSUME NEW w \in Worker, NEW p \in Publication, Claim(w, p)
        PROVE  [Register!Next]_Settled
    <3>1. CASE InStatus(p, "eligible")
      <4>1. deployments[p] \in [status : {"eligible", "running"}, sha : Sha,
                                category : {"none"}, validation : {"none"}]
        BY <3>1 DEF IInv, TypeOK, InStatus, Row
      <4>2. /\ [deployments[p] EXCEPT !.status = "running"] \in Row
            /\ Settled[p] = None
        BY <3>1, <4>1 DEF Settled, InStatus, Row
      <4>3. deployments' = [deployments EXCEPT
                              ![p] = [deployments[p] EXCEPT !.status = "running"]]
        BY <2>4, <3>1 DEF Claim
      <4> QED BY <2>1, <4>2, <4>3
    <3>2. CASE ~InStatus(p, "eligible")
      BY <2>2, <2>4, <3>2 DEF Claim
    <3> QED BY <3>1, <3>2
  <2>5. ASSUME NEW w \in Worker, Mark(w) PROVE [Register!Next]_Settled
    <3>1. /\ job[w] \in Publication /\ result[w] \in Row
          /\ Settled[job[w]] = None
      BY <2>5 DEF Mark, IInv, Stages, Settlement, Settled, InStatus
    <3> QED BY <2>1, <2>5, <3>1 DEF Mark
  <2>6. CASE Environment \/ UNCHANGED vars
    BY <2>2, <2>6
    DEF Environment, Publish, Retarget, TestMerge, Merge, MergeCommitKnown, Close, Reopen,
        ProviderProceeds, SetRegistryStatus, vars
  <2>7. ASSUME NEW w \in Worker, Step(w) \/ Abort(w), ~Record(w), ~Mark(w),
               ~\E p \in Publication : Claim(w, p)
        PROVE  UNCHANGED deployments
    BY <2>7
    DEF Step, Abort, BeginPass, AlreadyRecorded, Examine, Authorize, ReadPullRequest,
        ListEligible, EndPass, Validate, Deploy, Reconcile, CheckHealth
  <2> QED BY <2>2, <2>3, <2>4, <2>5, <2>6, <2>7 DEF Next
<1> QED
  BY <1>1, <1>2, Invariance, PTL DEF Spec, OutcomeIsFinal, Register!Spec
=============================================================================
