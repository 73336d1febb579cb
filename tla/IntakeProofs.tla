---------------------------- MODULE IntakeProofs ----------------------------
(***************************************************************************)
(* What Intake promises, proved for any number of items, instances and     *)
(* script runs and any batch limit.                                        *)
(***************************************************************************)
EXTENDS Intake, FiniteSetTheorems, TLAPS

USE ItemAssumption, LimitAssumption, AbortsAssumption, AgentAssumption,
    NoneAssumption

\* What an agent has in hand exists, and has a result once it is to advance.
Hands ==
  \A a \in Agent :
    pc[a] # "idle" =>
      /\ job[a] \in Item /\ Exists(job[a])
      /\ pc[a] \in {"read", "advance"} => analysis[job[a]].result

\* What was listed, or asked for, still holds when it is acted upon.
Lists ==
  /\ \A w \in Worker : \A i \in queue[w] : Exists(i)
  /\ \A w \in Worker : \A i \in backlog[w] : status[i] = "approved"
  /\ \A i \in Item, d \in Decision : << i, d >> \in asked => status[i] # "received"

IInv == TypeOK /\ Hands /\ Lists /\ ReviewedWasAnalysed /\ RunIsApproved

\* One item's move along intake/state.ts's table.
LegalMove(i) == status'[i] # status[i] => status'[i] \in IntakeTransitions[status[i]]

\* What no step takes back.
Grows ==
  \A i \in Item :
    /\ Exists(i) => Exists(i)'
    /\ analysis[i].result => analysis'[i].result
    /\ status[i] = "approved" => status'[i] = "approved"
    /\ status[i] # "received" => status'[i] # "received"

-----------------------------------------------------------------------------
LEMMA TakeType ==
  ASSUME TypeOK, NEW a \in Agent, NEW i \in Item \cup {None}, NEW s \in Stage,
         Take(a, i, s)
  PROVE  /\ pc' \in [Agent -> Stage] /\ job' \in [Agent -> Item \cup {None}]
         /\ \A b \in Agent \ {a} : pc'[b] = pc[b] /\ job'[b] = job[b]
         /\ pc'[a] = s
         /\ s # "idle" => job'[a] = i
  BY DEF TypeOK, Take

LEMMA GotoType ==
  ASSUME TypeOK, NEW a \in Agent, NEW s \in Stage, Goto(a, s)
  PROVE  /\ pc' \in [Agent -> Stage] /\ job' \in [Agent -> Item \cup {None}]
         /\ \A b \in Agent \ {a} : pc'[b] = pc[b] /\ job'[b] = job[b]
         /\ pc'[a] = s
         /\ s # "idle" => job'[a] = job[a]
  <1>1. job[a] \in Item \cup {None}
    BY DEF TypeOK
  <1> QED
    BY <1>1, TakeType DEF Goto

\* The table, row by row.
LEMMA Table ==
  /\ IntakeTransitions["received"] = {"pending_approval", "failed"}
  /\ IntakeTransitions["pending_approval"] = {"approved", "rejected", "failed"}
  /\ \A s \in {"approved", "rejected", "failed"} : IntakeTransitions[s] = {}
  BY DEF IntakeTransitions, Status

\* A batch lists nothing but items in the status asked for.
LEMMA NewestListed ==
  \A s \in Status :
    /\ Newest(Listed(s)) \subseteq Item
    /\ \A i \in Newest(Listed(s)) : Exists(i) /\ status[i] = s
  BY DEF Newest, Listed

LEMMA InitInv == Init => IInv
  <1> SUFFICES ASSUME Init PROVE IInv
    OBVIOUS
  <1>1. TypeOK
    BY DEF Init, TypeOK, Analysis, Status, Stage, Agent
  <1> QED
    BY <1>1 DEF Init, IInv, Hands, Lists, ReviewedWasAnalysed, RunIsApproved

-----------------------------------------------------------------------------
(***************************************************************************)
(* A step of the requirements agent                                        *)
(***************************************************************************)
LEMMA PendingStep ==
  ASSUME IInv, NEW a \in Agent, NEW i \in Item, Exists(i),
         NEW upToDate \in {"idle", "read"}, CreatePending(a, i, upToDate),
         queue' \in [Worker -> SUBSET Item],
         \A w \in Worker : queue'[w] \subseteq queue[w]
  PROVE  IInv' /\ Grows /\ \A j \in Item : LegalMove(j)
  <1> DEFINE s == IF analysis[i].status = "completed" THEN upToDate
                  ELSE IF valid[i] THEN "analyse" ELSE "fail"
  <1>1. Take(a, i, s) /\ s \in Stage
    BY DEF CreatePending, Stage
  <1>2. /\ pc' \in [Agent -> Stage] /\ job' \in [Agent -> Item \cup {None}]
        /\ \A b \in Agent \ {a} : pc'[b] = pc[b] /\ job'[b] = job[b]
        /\ pc'[a] = s
        /\ s # "idle" => job'[a] = i
    BY <1>1, TakeType DEF IInv
  <1>3. UNCHANGED << createdAt, status, valid, runs, asked, backlog, aborts >>
    BY DEF CreatePending
  <1>4. /\ analysis' \in [Item -> Analysis]
        /\ \A j \in Item : analysis'[j].result = analysis[j].result
    <2>1. analysis' = [analysis EXCEPT ![i].status = IF @ = "none" THEN "pending" ELSE @]
      BY DEF CreatePending
    <2>2. analysis \in [Item -> Analysis]
      BY DEF IInv, TypeOK
    <2>3. [analysis[i] EXCEPT !.status = IF @ = "none" THEN "pending" ELSE @] \in Analysis
      BY <2>2 DEF Analysis
    <2>4. \A j \in Item : analysis[j] \in Analysis
      BY <2>2
    <2> QED
      BY <2>1, <2>2, <2>3, <2>4 DEF Analysis
  <1>5. s = "read" => analysis[i].result
    BY DEF IInv, TypeOK, Analysis
  <1>6. TypeOK'
    BY <1>2, <1>3, <1>4 DEF IInv, TypeOK
  <1>7. Hands'
    BY <1>2, <1>3, <1>4, <1>5 DEF IInv, Hands, Exists, Stage
  <1>8. Lists'
    BY <1>3 DEF IInv, Lists, Exists
  <1>9. ReviewedWasAnalysed' /\ RunIsApproved' /\ Grows /\ \A j \in Item : LegalMove(j)
    BY <1>3, <1>4 DEF IInv, ReviewedWasAnalysed, RunIsApproved, Grows, LegalMove, Exists
  <1> QED
    BY <1>6, <1>7, <1>8, <1>9 DEF IInv

LEMMA AnalysingStep ==
  ASSUME IInv, NEW a \in Agent, Analysing(a)
  PROVE  IInv' /\ Grows /\ \A j \in Item : LegalMove(j)
  <1>1. job[a] \in Item /\ Exists(job[a]) /\ pc[a] # "idle"
    BY DEF IInv, Hands, Analysing, Analyse, MarkCompleted, MarkFailed, ReadStatus, Advance
  <1>2. UNCHANGED << createdAt, valid, runs, asked, queue, backlog, aborts >>
    BY DEF Analysing, Analyse, MarkCompleted, MarkFailed, ReadStatus, Advance, stored
  <1>3. PICK s \in Stage :
          Goto(a, s) /\ (s \in {"read", "advance"} => analysis'[job[a]].result)
    <2>1. CASE Analyse(a)
      BY <2>1 DEF Analyse, Stage
    <2>2. CASE MarkCompleted(a)
      BY <2>2, <1>1 DEF MarkCompleted, Stage, IInv, TypeOK
    <2>3. CASE MarkFailed(a)
      BY <2>3 DEF MarkFailed, Stage
    <2>4. CASE ReadStatus(a)
      BY <2>4, <1>1 DEF ReadStatus, Stage, stored, IInv, Hands
    <2>5. CASE Advance(a)
      BY <2>5 DEF Advance, Stage
    <2> QED
      BY <2>1, <2>2, <2>3, <2>4, <2>5 DEF Analysing
  <1>4. /\ pc' \in [Agent -> Stage] /\ job' \in [Agent -> Item \cup {None}]
        /\ \A b \in Agent \ {a} : pc'[b] = pc[b] /\ job'[b] = job[b]
        /\ pc'[a] = s
        /\ s # "idle" => job'[a] = job[a]
    BY <1>3, GotoType DEF IInv
  <1>5. /\ analysis' \in [Item -> Analysis]
        /\ \A j \in Item : analysis[j].result => analysis'[j].result
    <2>0. analysis \in [Item -> Analysis]
      BY DEF IInv, TypeOK
    <2>1. CASE MarkCompleted(a)
      <3>1. [status |-> "completed", result |-> TRUE] \in Analysis
        BY DEF Analysis
      <3> QED
        BY <2>0, <2>1, <3>1 DEF MarkCompleted
    <2>2. CASE MarkFailed(a)
      <3>1. [analysis[job[a]] EXCEPT !.status = "failed"] \in Analysis
        BY <2>0, <1>1 DEF Analysis
      <3>2. \A j \in Item : analysis[j] \in Analysis
        BY <2>0
      <3> QED
        BY <2>0, <2>2, <3>1, <3>2, <1>1 DEF MarkFailed, Analysis
    <2>3. CASE UNCHANGED analysis
      BY <2>0, <2>3
    <2> QED
      BY <2>1, <2>2, <2>3 DEF Analysing, Analyse, ReadStatus, Advance, stored
  <1>6. /\ status' \in [Item -> Status]
        /\ \A j \in Item : \/ status'[j] = status[j]
                           \/ /\ status[j] = "received" /\ status'[j] = "pending_approval"
                              /\ Exists(j) /\ analysis[j].result
    <2>0. status \in [Item -> Status]
      BY DEF IInv, TypeOK
    <2>1. CASE Advance(a)
      BY <2>0, <2>1, <1>1 DEF Advance, Status, IInv, Hands
    <2>2. CASE UNCHANGED status
      BY <2>0, <2>2
    <2> QED
      BY <2>1, <2>2 DEF Analysing, Analyse, MarkCompleted, MarkFailed, ReadStatus, stored
  <1>7. Grows /\ \A j \in Item : LegalMove(j)
    BY <1>2, <1>5, <1>6, Table DEF Grows, LegalMove, Exists
  <1>8. TypeOK'
    BY <1>2, <1>4, <1>5, <1>6 DEF IInv, TypeOK
  <1>9. Hands'
    <2> SUFFICES ASSUME NEW b \in Agent, pc'[b] # "idle"
                 PROVE  /\ job'[b] \in Item /\ createdAt'[job'[b]] > 0
                        /\ pc'[b] \in {"read", "advance"} => analysis'[job'[b]].result
      BY DEF Hands, Exists
    <2>1. CASE b = a
      BY <2>1, <1>1, <1>2, <1>3, <1>4 DEF Exists
    <2>2. CASE b # a
      BY <2>2, <1>2, <1>4, <1>5 DEF IInv, Hands, Exists
    <2> QED
      BY <2>1, <2>2
  <1>10. Lists'
    BY <1>2, <1>7 DEF IInv, TypeOK, Lists, Exists, Grows
  <1>11. ReviewedWasAnalysed'
    BY <1>2, <1>5, <1>6 DEF IInv, ReviewedWasAnalysed, Exists
  <1>12. RunIsApproved'
    BY <1>2, <1>7 DEF IInv, TypeOK, RunIsApproved, Grows
  <1> QED
    BY <1>7, <1>8, <1>9, <1>10, <1>11, <1>12 DEF IInv

-----------------------------------------------------------------------------
(***************************************************************************)
(* Every other step                                                        *)
(***************************************************************************)
LEMMA OrchestrationStep ==
  ASSUME IInv, NEW w \in Worker, Orchestration(w)
  PROVE  IInv' /\ Grows /\ \A j \in Item : LegalMove(j)
  <1>1. UNCHANGED << createdAt, status, valid, analysis, asked, pc, job, queue, aborts >>
    BY DEF Orchestration, BeginOrchestration, QueueRun, stored, agent
  <1>2. /\ backlog' \in [Worker -> SUBSET Item]
        /\ \A v \in Worker : \A i \in backlog'[v] : status[i] = "approved"
    <2>1. CASE BeginOrchestration(w)
      BY <2>1, NewestListed DEF IInv, TypeOK, Lists, BeginOrchestration, Status
    <2>2. CASE \E i \in Item : QueueRun(w, i)
      BY <2>2 DEF IInv, TypeOK, Lists, QueueRun
    <2> QED
      BY <2>1, <2>2 DEF Orchestration
  <1>3. runs' \subseteq Item /\ \A i \in runs' : status[i] = "approved"
    BY DEF IInv, TypeOK, Lists, RunIsApproved, Orchestration, BeginOrchestration,
           QueueRun, IsNext, stored
  <1>4. TypeOK'
    BY <1>1, <1>2, <1>3 DEF IInv, TypeOK
  <1>5. Hands' /\ Lists'
    BY <1>1, <1>2 DEF IInv, Hands, Lists, Exists
  <1>6. ReviewedWasAnalysed' /\ RunIsApproved'
    BY <1>1, <1>3 DEF IInv, ReviewedWasAnalysed, RunIsApproved, Exists
  <1>7. Grows /\ \A j \in Item : LegalMove(j)
    BY <1>1 DEF Grows, LegalMove, Exists
  <1> QED
    BY <1>4, <1>5, <1>6, <1>7 DEF IInv

LEMMA BeginStep ==
  ASSUME IInv, NEW w \in Worker, BeginPass(w)
  PROVE  IInv' /\ Grows /\ \A j \in Item : LegalMove(j)
  <1>1. UNCHANGED << stored, asked, pc, job, backlog, aborts >>
    BY DEF BeginPass
  <1>2. /\ queue' \in [Worker -> SUBSET Item]
        /\ \A v \in Worker : \A i \in queue'[v] : Exists(i)
    BY NewestListed DEF IInv, TypeOK, Lists, BeginPass, Status
  <1>3. TypeOK' /\ Hands' /\ Lists'
    BY <1>1, <1>2 DEF IInv, TypeOK, Hands, Lists, Exists, stored
  <1>4. ReviewedWasAnalysed' /\ RunIsApproved' /\ Grows /\ \A j \in Item : LegalMove(j)
    BY <1>1 DEF IInv, ReviewedWasAnalysed, RunIsApproved, Grows, LegalMove, Exists, stored
  <1> QED
    BY <1>3, <1>4 DEF IInv

LEMMA AbortStep ==
  ASSUME IInv, NEW a \in Agent, Abort(a)
  PROVE  IInv' /\ Grows /\ \A j \in Item : LegalMove(j)
  <1>1. UNCHANGED << createdAt, status, valid, analysis, runs, asked >> /\ aborts' \in 0 .. MaxAborts
    BY DEF Abort, stored, IInv, TypeOK
  <1>2. /\ pc' \in [Agent -> Stage] /\ job' \in [Agent -> Item \cup {None}]
        /\ \A b \in Agent : \/ pc'[b] = "idle"
                            \/ pc'[b] = pc[b] /\ job'[b] = job[b]
    <2>1. CASE Goto(a, "idle")
      <3>1. "idle" \in Stage
        BY DEF Stage
      <3> QED
        BY <2>1, <3>1, GotoType DEF IInv
    <2>2. CASE UNCHANGED agent
      BY <2>2 DEF agent, IInv, TypeOK
    <2> QED
      BY <2>1, <2>2 DEF Abort
  <1>3. /\ queue' \in [Worker -> SUBSET Item] /\ backlog' \in [Worker -> SUBSET Item]
        /\ \A w \in Worker : queue'[w] \subseteq queue[w] /\ backlog'[w] \subseteq backlog[w]
    BY DEF Abort, agent, IInv, TypeOK
  <1>4. TypeOK'
    BY <1>1, <1>2, <1>3 DEF IInv, TypeOK
  <1>5. Hands'
    BY <1>1, <1>2 DEF IInv, Hands, Exists
  <1>6. Lists'
    BY <1>1, <1>3 DEF IInv, Lists, Exists
  <1>7. ReviewedWasAnalysed' /\ RunIsApproved' /\ Grows /\ \A j \in Item : LegalMove(j)
    BY <1>1 DEF IInv, ReviewedWasAnalysed, RunIsApproved, Grows, LegalMove, Exists
  <1> QED
    BY <1>4, <1>5, <1>6, <1>7 DEF IInv

LEMMA CreateStep ==
  ASSUME IInv, NEW i \in Item, Create(i)
  PROVE  IInv' /\ Grows /\ \A j \in Item : LegalMove(j)
  <1> DEFINE n == Cardinality({j \in Item : Exists(j)})
  <1>1. n \in Nat
    <2>1. IsFiniteSet({j \in Item : Exists(j)})
      BY FS_Subset, {j \in Item : Exists(j)} \subseteq Item
    <2> QED
      BY <2>1, FS_CardinalityType
  <1>2. UNCHANGED << status, analysis, runs, asked, pc, job, queue, backlog, aborts >>
    BY DEF Create, agent
  <1>3. /\ createdAt' = [createdAt EXCEPT ![i] = 1 + n]
        /\ valid' \in [Item -> BOOLEAN]
    BY DEF Create, IInv, TypeOK
  <1> HIDE DEF n
  <1>4. /\ createdAt' \in [Item -> Nat]
        /\ \A j \in Item : createdAt'[j] = IF j = i THEN 1 + n ELSE createdAt[j]
    BY <1>1, <1>3 DEF IInv, TypeOK
  <1>5. \A j \in Item : Exists(j) => Exists(j)'
    BY <1>1, <1>4 DEF Exists
  <1>6. TypeOK'
    BY <1>2, <1>3, <1>4 DEF IInv, TypeOK
  <1>7. Hands'
    BY <1>2, <1>5 DEF IInv, Hands, Exists
  <1>8. Lists'
    BY <1>2, <1>5 DEF IInv, TypeOK, Lists, Exists
  <1>9. ReviewedWasAnalysed' /\ RunIsApproved' /\ Grows /\ \A j \in Item : LegalMove(j)
    BY <1>2, <1>5 DEF IInv, ReviewedWasAnalysed, RunIsApproved, Grows, LegalMove, Exists
  <1> QED
    BY <1>6, <1>7, <1>8, <1>9 DEF IInv

LEMMA AskStep ==
  ASSUME IInv, NEW i \in Item, NEW d \in Decision, Ask(i, d)
  PROVE  IInv' /\ Grows /\ \A j \in Item : LegalMove(j)
  <1>1. UNCHANGED << createdAt, status, valid, analysis, runs, pc, job, queue,
                     backlog, aborts >>
    BY DEF Ask, stored, agent
  <1>2. asked' = asked \cup {<< i, d >>} /\ status[i] # "received"
    BY Table DEF Ask, CanTransition, Decision
  <1>3. TypeOK'
    BY <1>1, <1>2 DEF IInv, TypeOK
  <1>4. Hands' /\ Lists'
    BY <1>1, <1>2 DEF IInv, Hands, Lists, Exists
  <1>5. ReviewedWasAnalysed' /\ RunIsApproved' /\ Grows /\ \A j \in Item : LegalMove(j)
    BY <1>1 DEF IInv, ReviewedWasAnalysed, RunIsApproved, Grows, LegalMove, Exists
  <1> QED
    BY <1>3, <1>4, <1>5 DEF IInv

LEMMA DecideStep ==
  ASSUME IInv, NEW i \in Item, NEW d \in Decision, Decide(i, d)
  PROVE  IInv' /\ Grows /\ \A j \in Item : LegalMove(j)
  <1>1. UNCHANGED << createdAt, valid, analysis, runs, pc, job, queue, backlog, aborts >>
    BY DEF Decide, agent
  <1>2. asked' \subseteq asked
    BY DEF Decide
  <1>3. /\ status' \in [Item -> Status]
        /\ \A j \in Item : \/ status'[j] = status[j]
                           \/ status[j] = "pending_approval" /\ status'[j] \in Decision
    BY DEF Decide, Decision, Status, IInv, TypeOK
  <1>4. Grows /\ \A j \in Item : LegalMove(j)
    BY <1>1, <1>3, Table DEF Grows, LegalMove, Exists, Decision
  <1>5. TypeOK'
    BY <1>1, <1>2, <1>3 DEF IInv, TypeOK
  <1>6. Hands'
    BY <1>1 DEF IInv, Hands, Exists
  <1>7. Lists'
    BY <1>1, <1>2, <1>4 DEF IInv, TypeOK, Lists, Exists, Grows
  <1>8. ReviewedWasAnalysed'
    BY <1>1, <1>3 DEF IInv, ReviewedWasAnalysed, Exists
  <1>9. RunIsApproved'
    BY <1>1, <1>4 DEF IInv, TypeOK, RunIsApproved, Grows
  <1> QED
    BY <1>4, <1>5, <1>6, <1>7, <1>8, <1>9 DEF IInv

-----------------------------------------------------------------------------
LEMMA NextInv == IInv /\ [Next]_vars => IInv' /\ \A j \in Item : LegalMove(j)
  <1> SUFFICES ASSUME IInv, [Next]_vars
               PROVE  IInv' /\ \A j \in Item : LegalMove(j)
    OBVIOUS
  <1>1. ASSUME NEW w \in Worker, Requirements(w)
        PROVE  IInv' /\ \A j \in Item : LegalMove(j)
    <2>0. w \in Agent
      BY DEF Agent
    <2>1. CASE BeginPass(w)
      BY <2>1, BeginStep
    <2>2. ASSUME NEW i \in Item, Examine(w, i)
          PROVE  IInv' /\ \A j \in Item : LegalMove(j)
      <3>1. i \in queue[w] /\ Exists(i)
        BY <2>2 DEF Examine, IsNext, IInv, Lists
      <3>2. /\ queue' \in [Worker -> SUBSET Item]
            /\ \A v \in Worker : queue'[v] \subseteq queue[v]
        BY <2>2 DEF Examine, IInv, TypeOK
      <3>3. CreatePending(w, i, "read")
        BY <2>2 DEF Examine
      <3> QED
        BY <2>0, <3>1, <3>2, <3>3, PendingStep
    <2>3. CASE Analysing(w)
      BY <2>0, <2>3, AnalysingStep
    <2> QED
      BY <1>1, <2>1, <2>2, <2>3 DEF Requirements
  <1>2. ASSUME NEW s \in Script, NEW i \in Item, RunScript(s, i)
        PROVE  IInv' /\ \A j \in Item : LegalMove(j)
    <2>1. s \in Agent /\ Exists(i) /\ CreatePending(s, i, "idle") /\ UNCHANGED queue
      BY <1>2 DEF Agent, RunScript
    <2>2. queue' \in [Worker -> SUBSET Item]
      BY <2>1 DEF IInv, TypeOK
    <2> QED
      BY <2>1, <2>2, PendingStep
  <1>3. ASSUME NEW s \in Script, Analysing(s)
        PROVE  IInv' /\ \A j \in Item : LegalMove(j)
    BY <1>3, AnalysingStep DEF Agent
  <1>4. CASE UNCHANGED vars
    <2>1. UNCHANGED << createdAt, status, valid, analysis, runs, asked, pc, job,
                       queue, backlog, aborts >>
      BY <1>4 DEF vars, stored, agent
    <2>2. TypeOK' /\ Hands' /\ Lists'
      BY <2>1 DEF IInv, TypeOK, Hands, Lists, Exists
    <2> QED
      BY <2>1, <2>2 DEF IInv, ReviewedWasAnalysed, RunIsApproved, LegalMove, Exists
  <1> QED
    BY <1>1, <1>2, <1>3, <1>4, OrchestrationStep, AbortStep, CreateStep, AskStep,
       DecideStep DEF Next

\* Every state is well typed, whatever is lost and whoever races.
THEOREM TypeCorrect == Spec => []TypeOK
  <1>1. IInv => TypeOK
    BY DEF IInv
  <1> QED
    BY <1>1, InitInv, NextInv, PTL DEF Spec

\* No operator is ever asked about an item that was not analysed, and none is
\* approved, rejected or given a run without a result.
THEOREM Reviewed == Spec => []ReviewedWasAnalysed
  <1>1. IInv => ReviewedWasAnalysed
    BY DEF IInv
  <1> QED
    BY <1>1, InitInv, NextInv, PTL DEF Spec

\* A run is only ever made for an approved item, which stays approved.
THEOREM RunsApproved == Spec => []RunIsApproved
  <1>1. IInv => RunIsApproved
    BY DEF IInv
  <1> QED
    BY <1>1, InitInv, NextInv, PTL DEF Spec

\* Agents, scripts and operators only move an item along the table.
THEOREM Legal == Spec => LegalTransitions
  <1>1. IInv /\ [Next]_vars =>
          [\A i \in Item :
             status'[i] # status[i] => status'[i] \in IntakeTransitions[status[i]]]_vars
    BY NextInv DEF LegalMove
  <1> QED
    BY <1>1, InitInv, NextInv, PTL DEF Spec, LegalTransitions
=============================================================================
