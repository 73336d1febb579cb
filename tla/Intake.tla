------------------------------- MODULE Intake -------------------------------
(***************************************************************************)
(* The front of the pipeline: an intake item is received, analysed by the  *)
(* requirements loop (or by the requirements:run script), advanced to      *)
(* pending_approval, approved or rejected by an operator and, once         *)
(* approved, given its run by the orchestrator loop.                       *)
(*                                                                         *)
(* Both loops list a bounded batch, newest item first, and nothing they do *)
(* takes an item that fails, or that has its run, out of the list.  A      *)
(* snapshot is never rewritten, so the hash comparison of the requirements *)
(* worker is always between equal hashes and is left out.                  *)
(***************************************************************************)
EXTENDS Naturals, FiniteSets

CONSTANTS
  Item,       \* issue keys
  Worker,     \* instances of the service, each with both loops
  Script,     \* runs of requirements:run by hand
  Limit,      \* the batch limit of both loops
  MaxAborts,  \* how many items or passes may be lost
  None        \* no item in hand

ASSUME ItemAssumption == IsFiniteSet(Item)
ASSUME LimitAssumption == Limit \in Nat \ {0}
ASSUME AbortsAssumption == MaxAborts \in Nat
ASSUME AgentAssumption == Worker \cap Script = {}
ASSUME NoneAssumption == None \notin Item

VARIABLES
  createdAt,   \* arrival order of the items, 0 before they exist
  status,      \* intakeItems.status
  valid,       \* does the snapshot pass validateSnapshotForRequirements?
  analysis,    \* requirementsAnalyses
  runs,        \* the items that have a run
  asked,       \* decisions whose request has read the item
  pc, job,     \* the requirements agent's item in hand
  queue,       \* and the received items it has still to examine
  backlog,     \* the approved items the orchestrator has still to examine
  aborts

stored == << createdAt, status, valid, analysis, runs >>
agent == << pc, job, queue >>
vars == << stored, asked, agent, backlog, aborts >>

Agent == Worker \cup Script
Status == {"received", "pending_approval", "approved", "rejected", "failed"}
Decision == {"approved", "rejected"}
Stage == {"idle", "analyse", "complete", "fail", "read", "advance"}
\* A completed row has a result; a failed one keeps that of an earlier success.
Analysis ==
  [status : {"none", "pending"}, result : {FALSE}] \cup
  [status : {"completed"}, result : {TRUE}] \cup
  [status : {"failed"}, result : BOOLEAN]

\* The state machine: approved, rejected and failed are terminal.
IntakeTransitions ==
  [s \in Status |->
     CASE s = "received" -> {"pending_approval", "failed"}
       [] s = "pending_approval" -> {"approved", "rejected", "failed"}
       [] OTHER -> {}]

Exists(i) == createdAt[i] > 0
CanTransition(i, to) == Exists(i) /\ to \in IntakeTransitions[status[i]]

Init ==
  /\ createdAt = [i \in Item |-> 0]
  /\ status = [i \in Item |-> "received"]
  /\ valid = [i \in Item |-> FALSE]
  /\ analysis = [i \in Item |-> [status |-> "none", result |-> FALSE]]
  /\ runs = {} /\ asked = {}
  /\ pc = [a \in Agent |-> "idle"]
  /\ job = [a \in Agent |-> None]
  /\ queue = [w \in Worker |-> {}]
  /\ backlog = [w \in Worker |-> {}]
  /\ aborts = 0

\* Mutated form of Listed: the status filter is dropped.
ListedAll(s) == {i \in Item : Exists(i)}

\* list({ status }, limit): the newest Limit of the items in that status.
Listed(s) == {i \in Item : Exists(i) /\ status[i] = s}

Newer(S, i) == {j \in S : createdAt[j] > createdAt[i]}
Newest(S) == {i \in S : Cardinality(Newer(S, i)) < Limit}
IsNext(S, i) == i \in S /\ Newer(S, i) = {}

-----------------------------------------------------------------------------
(***************************************************************************)
(* The requirements agent                                                  *)
(***************************************************************************)
Take(a, i, s) ==
  /\ pc' = [pc EXCEPT ![a] = s]
  /\ job' = [job EXCEPT ![a] = IF s = "idle" THEN None ELSE i]
Goto(a, s) == Take(a, job[a], s)

BeginPass(w) ==
  /\ pc[w] = "idle" /\ queue[w] = {}
  /\ queue' = [queue EXCEPT ![w] = Newest(Listed("received"))]
  /\ UNCHANGED << stored, asked, pc, job, backlog, aborts >>

\* createPending: a row that is there already is returned as it is.
CreatePending(a, i, upToDate) ==
  /\ pc[a] = "idle"
  /\ analysis' = [analysis EXCEPT ![i].status = IF @ = "none" THEN "pending" ELSE @]
  /\ Take(a, i, IF analysis[i].status = "completed" THEN upToDate
                ELSE IF valid[i] THEN "analyse" ELSE "fail")
  /\ UNCHANGED << createdAt, status, valid, runs, asked, backlog, aborts >>

\* Mutated form of Examine: an up-to-date analysis is only counted.
ExamineSkipping(w, i) ==
  /\ IsNext(queue[w], i)
  /\ queue' = [queue EXCEPT ![w] = @ \ {i}]
  /\ CreatePending(w, i, "idle")

\* The loop advances an item that was analysed before but is still listed.
Examine(w, i) ==
  /\ IsNext(queue[w], i)
  /\ queue' = [queue EXCEPT ![w] = @ \ {i}]
  /\ CreatePending(w, i, "read")

\* The script takes any item, in whatever status, and does nothing more
\* about one whose analysis is up to date.
RunScript(s, i) ==
  /\ Exists(i)
  /\ CreatePending(s, i, "idle")
  /\ UNCHANGED queue

Analyse(a) ==
  /\ pc[a] = "analyse"
  /\ Goto(a, "complete") \/ Goto(a, "fail")
  /\ UNCHANGED << stored, asked, queue, backlog, aborts >>

\* markCompleted and markFailed update whatever row is there; a failure keeps
\* the result of an earlier success.
MarkCompleted(a) ==
  /\ pc[a] = "complete"
  /\ analysis' = [analysis EXCEPT ![job[a]] = [status |-> "completed", result |-> TRUE]]
  /\ Goto(a, "read")
  /\ UNCHANGED << createdAt, status, valid, runs, asked, queue, backlog, aborts >>

\* Mutated form of MarkFailed: the item is advanced whatever came of it.
MarkFailedAndAdvance(a) ==
  /\ pc[a] = "fail"
  /\ analysis' = [analysis EXCEPT ![job[a]].status = "failed"]
  /\ Goto(a, "read")
  /\ UNCHANGED << createdAt, status, valid, runs, asked, queue, backlog, aborts >>

MarkFailed(a) ==
  /\ pc[a] = "fail"
  /\ analysis' = [analysis EXCEPT ![job[a]].status = "failed"]
  /\ Goto(a, "idle")
  /\ UNCHANGED << createdAt, status, valid, runs, asked, queue, backlog, aborts >>

\* advanceToPendingApproval: transition() reads the item and refuses an
\* illegal transition, then updates it only if the status is still the same.
ReadStatus(a) ==
  /\ pc[a] = "read"
  /\ Goto(a, IF CanTransition(job[a], "pending_approval") THEN "advance" ELSE "idle")
  /\ UNCHANGED << stored, asked, queue, backlog, aborts >>

Advance(a) ==
  /\ pc[a] = "advance"
  /\ status' = [status EXCEPT ![job[a]] =
                  IF @ = "received" THEN "pending_approval" ELSE @]
  /\ Goto(a, "idle")
  /\ UNCHANGED << createdAt, valid, analysis, runs, asked, queue, backlog, aborts >>

-----------------------------------------------------------------------------
(***************************************************************************)
(* The orchestrator                                                        *)
(***************************************************************************)
\* Mutated form of BeginOrchestration: the limit applies before the filter.
BeginOrchestrationLate(w) ==
  /\ backlog[w] = {}
  /\ backlog' = [backlog EXCEPT ![w] =
                   Newest({i \in Item : Exists(i)}) \cap Listed("approved")]
  /\ UNCHANGED << stored, asked, agent, aborts >>

BeginOrchestration(w) ==
  /\ backlog[w] = {}
  /\ backlog' = [backlog EXCEPT ![w] = Newest(Listed("approved"))]
  /\ UNCHANGED << stored, asked, agent, aborts >>

\* createIfAbsent, unique on intakeItemId.
QueueRun(w, i) ==
  /\ IsNext(backlog[w], i)
  /\ backlog' = [backlog EXCEPT ![w] = @ \ {i}]
  /\ runs' = runs \cup {i}
  /\ UNCHANGED << createdAt, status, valid, analysis, asked, agent, aborts >>

\* A throw loses the item in hand of either loop, or the script's; a crash,
\* or a throw while listing, loses the passes.
Abort(a) ==
  /\ aborts < MaxAborts
  /\ aborts' = aborts + 1
  /\ \/ pc[a] # "idle" /\ Goto(a, "idle") /\ UNCHANGED << queue, backlog >>
     \/ /\ a \in Worker
        /\ \E i \in backlog[a] : backlog' = [backlog EXCEPT ![a] = @ \ {i}]
        /\ UNCHANGED agent
     \/ /\ a \in Worker
        /\ pc[a] # "idle" \/ queue[a] # {} \/ backlog[a] # {}
        /\ Goto(a, "idle")
        /\ queue' = [queue EXCEPT ![a] = {}]
        /\ backlog' = [backlog EXCEPT ![a] = {}]
  /\ UNCHANGED << stored, asked >>

-----------------------------------------------------------------------------
(***************************************************************************)
(* Enrichment and the operators                                            *)
(***************************************************************************)
\* create(): idempotent on issueKey.
Create(i) ==
  /\ ~Exists(i)
  /\ createdAt' = [createdAt EXCEPT ![i] = 1 + Cardinality({j \in Item : Exists(j)})]
  /\ \E v \in BOOLEAN : valid' = [valid EXCEPT ![i] = v]
  /\ UNCHANGED << status, analysis, runs, asked, agent, backlog, aborts >>

\* POST /intake/:issueKey/approve and /reject, up to the read in transition().
Ask(i, d) ==
  /\ CanTransition(i, d)
  /\ asked' = asked \cup {<< i, d >>}
  /\ UNCHANGED << stored, agent, backlog, aborts >>

\* Mutated form of Decide: the update is not conditional on the status.
DecideBlind(i, d) ==
  /\ << i, d >> \in asked
  /\ asked' = asked \ {<< i, d >>}
  /\ status' = [status EXCEPT ![i] = d]
  /\ UNCHANGED << createdAt, valid, analysis, runs, agent, backlog, aborts >>

\* The conditional update: of two decisions only the first is applied.
Decide(i, d) ==
  /\ << i, d >> \in asked
  /\ asked' = asked \ {<< i, d >>}
  /\ status' = [status EXCEPT ![i] = IF @ = "pending_approval" THEN d ELSE @]
  /\ UNCHANGED << createdAt, valid, analysis, runs, agent, backlog, aborts >>

-----------------------------------------------------------------------------
Analysing(a) ==
  Analyse(a) \/ MarkCompleted(a) \/ MarkFailed(a) \/ ReadStatus(a) \/ Advance(a)
Requirements(w) == BeginPass(w) \/ (\E i \in Item : Examine(w, i)) \/ Analysing(w)
Orchestration(w) == BeginOrchestration(w) \/ \E i \in Item : QueueRun(w, i)

Next ==
  \/ \E w \in Worker : Requirements(w) \/ Orchestration(w)
  \/ \E s \in Script : Analysing(s) \/ \E i \in Item : RunScript(s, i)
  \/ \E a \in Agent : Abort(a)
  \/ \E i \in Item : Create(i)
  \/ \E i \in Item, d \in Decision : Ask(i, d) \/ Decide(i, d)

\* Each instance's two interval timers keep firing and each pass awaits its
\* items; nothing is assumed of operators, scripts or arrivals.
Fairness ==
  \A w \in Worker : WF_vars(Requirements(w)) /\ WF_vars(Orchestration(w))

Spec == Init /\ [][Next]_vars /\ Fairness

-----------------------------------------------------------------------------
(***************************************************************************)
(* Properties                                                              *)
(***************************************************************************)
TypeOK ==
  /\ createdAt \in [Item -> Nat]
  /\ status \in [Item -> Status]
  /\ valid \in [Item -> BOOLEAN]
  /\ analysis \in [Item -> Analysis]
  /\ runs \subseteq Item /\ asked \subseteq Item \X Decision
  /\ pc \in [Agent -> Stage] /\ job \in [Agent -> Item \cup {None}]
  /\ queue \in [Worker -> SUBSET Item] /\ backlog \in [Worker -> SUBSET Item]
  /\ aborts \in 0 .. MaxAborts

\* "never advanced to pending_approval with nothing for a human to review"
\* (requirements/queue.ts:89-91): whoever analysed the item, and whatever a
\* slower attempt wrote since, an item past `received` has an analysis result.
ReviewedWasAnalysed ==
  \A i \in Item : status[i] # "received" => Exists(i) /\ analysis[i].result

\* A run exists only for an item an operator approved, and approval is never
\* withdrawn (orchestrator/worker.ts and the terminal statuses).
RunIsApproved == \A i \in runs : status[i] = "approved"

\* Whatever an agent, a script and two operators read before they write, the
\* status only moves along intake/state.ts's table.
LegalTransitions ==
  [][\A i \in Item :
       status'[i] # status[i] => status'[i] \in IntakeTransitions[status[i]]]_vars

\* An item that stays in the batch and whose analysis does not keep failing is
\* not left `received`: not after a crash between analysis and transition, nor
\* a lost race (queue.ts:78-87).  Newer items that keep failing fill the batch,
\* and then the code promises an older one nothing.
AnalysableIsReviewed ==
  \A i \in Item :
    <>[](i \in Newest(Listed("received")) /\ \A a \in Agent : job[a] = i => pc[a] # "fail")
      => <>(status[i] # "received")

\* "It stays approved with no run, and is picked up again next pass."
\* (orchestrator/worker.ts:82-83): so it is, if it stays among the newest Limit
\* approved items; those that have their run stay approved and count too.
ApprovedIsQueued ==
  \A i \in Item : <>[](i \in Newest(Listed("approved"))) => <>(i \in runs)
=============================================================================
