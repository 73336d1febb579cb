------------------------- MODULE RepositorySelection -------------------------
(***************************************************************************)
(* Repository selection: the matching loop (repository-selection/          *)
(* worker.ts), the rows it keeps (repository-selection/repository.ts) and  *)
(* the operators who confirm them (api/repository-selection.ts), against a *)
(* registry that administrators edit meanwhile.  A pass first gives every  *)
(* queued run without a row its first match, then matches again the failed *)
(* and ambiguous rows whose backoff has passed.  Every awaited call is a   *)
(* step of its own.                                                        *)
(*                                                                         *)
(* The runs are those of one project: a match only ever looks at the       *)
(* entries of the run's own project.  Time is an order of events: due is   *)
(* the set of rows whose nextAttemptAt has passed and ahead[r] holds the   *)
(* ones that came before r in the order of nextAttemptAt.                  *)
(***************************************************************************)
EXTENDS Naturals, FiniteSets

CONSTANTS
  Run,        \* queued runs
  Repo,       \* repositoryIds
  Mapping,    \* what a registry entry says: url, branches, access policy
  Worker,     \* instances of the service, one matching loop each
  Operator,   \* confirmation requests
  Limit,      \* batch limit of both passes
  MaxAborts,  \* bound: items or passes lost to a crash or a thrown error
  None        \* no row, no request, no mapping

Notified == {"none", "failed", "ambiguous"}
Job == [run : Run, notified : Notified]
Choice == [repo : Repo, mapping : Mapping]

\* No candidate: failed; exactly one: pending; more: ambiguous.
Classify(S) ==
  IF S = {} THEN "failed" ELSE IF \E p \in Repo : S = {p} THEN "pending"
                               ELSE "ambiguous"

OpenRow ==
  {x \in [status : {"failed", "pending", "ambiguous"}, candidates : SUBSET Repo,
          notified : Notified, chosen : {None}] : x.status = Classify(x.candidates)}
SelectedRow ==
  [status : {"selected"}, candidates : SUBSET Repo, notified : Notified,
   chosen : Choice]
Row == OpenRow \cup SelectedRow

Request ==
  [run : Run, repo : Repo, mapping : Mapping,
   expected : {"unread", "pending", "ambiguous"}]

ASSUME RunAssumption == IsFiniteSet(Run)
ASSUME LimitAssumption == Limit \in Nat \ {0}
ASSUME AbortsAssumption == MaxAborts \in Nat
ASSUME SentinelAssumption ==
  None \notin Row \cup Request \cup Mapping \cup Choice \cup Job

VARIABLES
  createdAt,   \* arrival order of the runs, 0 before they are queued
  active,      \* the registry: the active mapping of each repositoryId
  had,         \* history: the mappings each repositoryId has had
  selections,  \* the repositorySelections collection, by runId
  offered,     \* history: the candidates a run's row has had
  due, ahead,  \* the rows due for a retry, and their order
  told,        \* the last notification appended for a run's row
  pass, step,  \* where each worker's pass stands
  queue,       \* what is left of the list it is working through
  job,         \* the item it is on, as it was listed
  result,      \* the candidates it has just read
  request,     \* the confirmation each operator has in flight
  aborts       \* items and passes lost so far

stored   == << selections, offered, due, ahead >>
registry == << active, had >>
local    == << pass, step, queue, job, result >>
vars     == << createdAt, registry, stored, told, local, request, aborts >>

TypeOK ==
  /\ createdAt \in [Run -> Nat]
  /\ active \in [Repo -> Mapping \cup {None}]
  /\ had \in [Repo -> SUBSET Mapping]
  /\ selections \in [Run -> Row \cup {None}]
  /\ offered \in [Run -> SUBSET Repo]
  /\ due \in SUBSET Run
  /\ ahead \in [Run -> SUBSET Run]
  /\ told \in [Run -> Notified]
  /\ pass \in [Worker -> {"idle", "first", "retry"}]
  /\ step \in [Worker -> {"next", "match", "write", "tell"}]
  /\ queue \in [Worker -> SUBSET Job]
  /\ job \in [Worker -> Job \cup {None}]
  /\ result \in [Worker -> SUBSET Repo]
  /\ request \in [Operator -> Request \cup {None}]
  /\ aborts \in Nat

Init ==
  /\ createdAt = [r \in Run |-> 0]
  /\ active = [p \in Repo |-> None]
  /\ had = [p \in Repo |-> {}]
  /\ selections = [r \in Run |-> None]
  /\ offered = [r \in Run |-> {}]
  /\ due = {}
  /\ ahead = [r \in Run |-> {}]
  /\ told = [r \in Run |-> "none"]
  /\ pass = [w \in Worker |-> "idle"]
  /\ step = [w \in Worker |-> "next"]
  /\ queue = [w \in Worker |-> {}]
  /\ job = [w \in Worker |-> None]
  /\ result = [w \in Worker |-> {}]
  /\ request = [o \in Operator |-> None]
  /\ aborts = 0

-----------------------------------------------------------------------------
(***************************************************************************)
(* What the lists hold                                                     *)
(***************************************************************************)
InStatus(r, S) == selections[r] # None /\ selections[r].status \in S

\* The rows a match may still change, and those an operator may confirm.
Unresolved(r)  == InStatus(r, {"failed", "ambiguous"})
Confirmable(r) == InStatus(r, {"pending", "ambiguous"})

\* findActiveByProjectIdentifier.
Active == {p \in Repo : active[p] # None}

Newer(r) == {x \in Run : createdAt[x] > createdAt[r]}
Newest   == {r \in Run : createdAt[r] > 0 /\ Cardinality(Newer(r)) < Limit}

\* Mutated form of FirstDue: the latest nextAttemptAt comes first.
FirstDueReversed ==
  {r \in due : Cardinality({x \in due : r \in ahead[x]}) < Limit}

\* findDueForRetry: the oldest nextAttemptAt first.
FirstDue == {r \in due : Cardinality(ahead[r]) < Limit}

\* r has a nextAttemptAt to come, or is not matched again at all.
NotDue(r) ==
  /\ due' = due \ {r}
  /\ ahead' = [x \in Run |-> IF x = r THEN {} ELSE ahead[x] \ {r}]

-----------------------------------------------------------------------------
(***************************************************************************)
(* The matching loop                                                       *)
(***************************************************************************)
\* Mutated form of BeginPass: the oldest runs are listed.
BeginPassOldest(w) ==
  /\ pass[w] = "idle"
  /\ pass' = [pass EXCEPT ![w] = "first"]
  /\ queue' = [queue EXCEPT ![w] =
       [run : {r \in Run : createdAt[r] \in 1 .. Limit}, notified : {"none"}]]
  /\ UNCHANGED << createdAt, registry, stored, told, step, job, result, request,
                  aborts >>

BeginPass(w) ==
  /\ pass[w] = "idle"
  /\ pass' = [pass EXCEPT ![w] = "first"]
  /\ queue' = [queue EXCEPT ![w] = [run : Newest, notified : {"none"}]]
  /\ UNCHANGED << createdAt, registry, stored, told, step, job, result, request,
                  aborts >>

AlreadyMatched(w, j) ==
  /\ pass[w] = "first" /\ step[w] = "next" /\ j \in queue[w]
  /\ selections[j.run] # None
  /\ queue' = [queue EXCEPT ![w] = @ \ {j}]
  /\ UNCHANGED << createdAt, registry, stored, told, pass, step, job, result,
                  request, aborts >>

\* A queued run without a row, or a row listed for a retry.
Examine(w, j) ==
  /\ step[w] = "next" /\ j \in queue[w]
  /\ pass[w] = "first" => selections[j.run] = None
  /\ queue' = [queue EXCEPT ![w] = @ \ {j}]
  /\ job' = [job EXCEPT ![w] = j]
  /\ step' = [step EXCEPT ![w] = "match"]
  /\ UNCHANGED << createdAt, registry, stored, told, pass, result, request,
                  aborts >>

Match(w) ==
  /\ step[w] = "match"
  /\ result' = [result EXCEPT ![w] = Active]
  /\ step' = [step EXCEPT ![w] = "write"]
  /\ UNCHANGED << createdAt, registry, stored, told, pass, queue, job, request,
                  aborts >>

\* The outcome is news to an operator: lastNotifiedStatus as it was listed.
ShouldNotify(w) ==
  LET status == Classify(result[w])
  IN  status # "pending" /\ job[w].notified # status

\* The row of worker w's outcome over the row x.
Matched(w, x) ==
  [status |-> Classify(result[w]), candidates |-> result[w], chosen |-> None,
   notified |-> IF ShouldNotify(w) THEN Classify(result[w]) ELSE x.notified]

Offer(w) == offered' = [offered EXCEPT ![job[w].run] = @ \cup result[w]]

\* The item is done with, but for the notification if tell holds.
EndItem(w, tell) ==
  /\ step' = [step EXCEPT ![w] = IF tell THEN "tell" ELSE "next"]
  /\ IF tell THEN UNCHANGED << job, result >>
             ELSE /\ job' = [job EXCEPT ![w] = None]
                  /\ result' = [result EXCEPT ![w] = {}]

\* createInitial: the unique index on runId lets the first row win.
Create(w) ==
  /\ pass[w] = "first" /\ step[w] = "write"
  /\ LET r == job[w].run
     IN  IF selections[r] = None
           THEN /\ selections' = [selections EXCEPT ![r] = Matched(w, job[w])]
                /\ Offer(w)
                /\ EndItem(w, ShouldNotify(w))
           ELSE EndItem(w, FALSE) /\ UNCHANGED << selections, offered >>
  /\ UNCHANGED << createdAt, registry, due, ahead, told, pass, queue, request,
                  aborts >>

\* Mutated form of Retry: a row is updated whatever its status.
RetryBlind(w) ==
  /\ pass[w] = "retry" /\ step[w] = "write"
  /\ LET r == job[w].run
     IN  /\ selections' = [selections EXCEPT ![r] = Matched(w, @)]
         /\ Offer(w)
         /\ NotDue(r)
         /\ EndItem(w, ShouldNotify(w))
  /\ UNCHANGED << createdAt, registry, told, pass, queue, request, aborts >>

\* recordMatchResult: only a row that is still failed or ambiguous.
Retry(w) ==
  /\ pass[w] = "retry" /\ step[w] = "write"
  /\ LET r == job[w].run
     IN  IF Unresolved(r)
           THEN /\ selections' = [selections EXCEPT ![r] = Matched(w, @)]
                /\ Offer(w)
                /\ NotDue(r)
                /\ EndItem(w, ShouldNotify(w))
           ELSE EndItem(w, FALSE) /\ UNCHANGED stored
  /\ UNCHANGED << createdAt, registry, told, pass, queue, request, aborts >>

\* Mutated form of Notify: only the absence of candidates is reported.
NotifyFailed(w) ==
  /\ step[w] = "tell"
  /\ told' = [told EXCEPT ![job[w].run] =
                IF result[w] = {} THEN "failed" ELSE @]
  /\ EndItem(w, FALSE)
  /\ UNCHANGED << createdAt, registry, stored, pass, queue, request, aborts >>

\* The audit entry, a write of its own.
Notify(w) ==
  /\ step[w] = "tell"
  /\ told' = [told EXCEPT ![job[w].run] = Classify(result[w])]
  /\ EndItem(w, FALSE)
  /\ UNCHANGED << createdAt, registry, stored, pass, queue, request, aborts >>

ListDue(w) ==
  /\ pass[w] = "first" /\ step[w] = "next" /\ queue[w] = {}
  /\ pass' = [pass EXCEPT ![w] = "retry"]
  /\ queue' = [queue EXCEPT ![w] =
       {[run |-> r, notified |-> selections[r].notified] : r \in FirstDue}]
  /\ UNCHANGED << createdAt, registry, stored, told, step, job, result, request,
                  aborts >>

EndPass(w) ==
  /\ pass[w] = "retry" /\ step[w] = "next" /\ queue[w] = {}
  /\ pass' = [pass EXCEPT ![w] = "idle"]
  /\ UNCHANGED << createdAt, registry, stored, told, step, queue, job, result,
                  request, aborts >>

\* A thrown error loses the item; a crash, or a throw outside an item's try
\* block, loses the pass.
Abort(w) ==
  /\ aborts < MaxAborts
  /\ pass[w] # "idle"
  /\ aborts' = aborts + 1
  /\ EndItem(w, FALSE)
  /\ \/ step[w] # "next" /\ UNCHANGED << pass, queue >>
     \/ /\ pass' = [pass EXCEPT ![w] = "idle"]
        /\ queue' = [queue EXCEPT ![w] = {}]
  /\ UNCHANGED << createdAt, registry, stored, told, request >>

-----------------------------------------------------------------------------
(***************************************************************************)
(* Confirmation                                                            *)
(***************************************************************************)
\* The route reads the row, then the registry's current entries.  Of the
\* row it only uses what never changes, so one step stands for both reads.
Choose(o, r, p) ==
  /\ request[o] = None
  /\ selections[r] # None /\ active[p] # None
  /\ request' = [request EXCEPT ![o] =
       [run |-> r, repo |-> p, mapping |-> active[p], expected |-> "unread"]]
  /\ UNCHANGED << createdAt, registry, stored, told, local, aborts >>

\* Mutated form of Check: any active repository will do.
CheckStatusOnly(o) ==
  /\ request[o] # None /\ request[o].expected = "unread"
  /\ LET r == request[o].run
     IN  request' = IF Confirmable(r)
           THEN [request EXCEPT ![o].expected = selections[r].status]
           ELSE [request EXCEPT ![o] = None]
  /\ UNCHANGED << createdAt, registry, stored, told, local, aborts >>

\* confirm() reads the row: confirmable, and the repository a candidate.
Check(o) ==
  /\ request[o] # None /\ request[o].expected = "unread"
  /\ LET r == request[o].run
     IN  request' = IF Confirmable(r) /\ request[o].repo \in selections[r].candidates
           THEN [request EXCEPT ![o].expected = selections[r].status]
           ELSE [request EXCEPT ![o] = None]
  /\ UNCHANGED << createdAt, registry, stored, told, local, aborts >>

Selected(o) ==
  [selections[request[o].run] EXCEPT !.status = "selected",
     !.chosen = [repo |-> request[o].repo, mapping |-> request[o].mapping]]

\* The compare-and-set is on the status that was read, and on nothing else.
Confirm(o) ==
  /\ request[o] # None /\ request[o].expected # "unread"
  /\ LET r == request[o].run
     IN  IF InStatus(r, {request[o].expected})
           THEN /\ selections' = [selections EXCEPT ![r] = Selected(o)]
                /\ NotDue(r)
           ELSE UNCHANGED << selections, due, ahead >>
  /\ request' = [request EXCEPT ![o] = None]
  /\ UNCHANGED << createdAt, registry, offered, told, local, aborts >>

-----------------------------------------------------------------------------
(***************************************************************************)
(* Everybody else: the orchestrator, administrators, the clock             *)
(***************************************************************************)
QueueRun(r) ==
  /\ createdAt[r] = 0
  /\ createdAt' = [createdAt EXCEPT ![r] =
                     Cardinality({x \in Run : createdAt[x] > 0}) + 1]
  /\ UNCHANGED << registry, stored, told, local, request, aborts >>

\* create, update and setStatus: whatever an administrator does, at most one
\* entry is the active mapping of a repositoryId (the partial unique index).
EditRegistry(p) ==
  \E m \in Mapping \cup {None} :
    /\ m # active[p]
    /\ active' = [active EXCEPT ![p] = m]
    /\ had' = [had EXCEPT ![p] = @ \cup ({m} \ {None})]
    /\ UNCHANGED << createdAt, stored, told, local, request, aborts >>

BackoffPasses(r) ==
  /\ Unresolved(r) /\ r \notin due
  /\ due' = due \cup {r}
  /\ ahead' = [ahead EXCEPT ![r] = due]
  /\ UNCHANGED << createdAt, registry, selections, offered, told, local, request,
                  aborts >>

-----------------------------------------------------------------------------
Step(w) ==
  \/ BeginPass(w) \/ ListDue(w) \/ EndPass(w)
  \/ \E j \in queue[w] : AlreadyMatched(w, j) \/ Examine(w, j)
  \/ Match(w) \/ Create(w) \/ Retry(w) \/ Notify(w)

Operate(o) ==
  \/ \E r \in Run, p \in Repo : Choose(o, r, p)
  \/ Check(o) \/ Confirm(o)

Environment ==
  \/ \E r \in Run : QueueRun(r) \/ BackoffPasses(r)
  \/ \E p \in Repo : EditRegistry(p)

Next ==
  \/ \E w \in Worker : Step(w) \/ Abort(w)
  \/ \E o \in Operator : Operate(o)
  \/ Environment

\* The interval timer fires again and again and a pass awaits every item:
\* each instance keeps stepping.  Time passes: every backoff ends.
Fairness ==
  /\ \A w \in Worker : WF_vars(Step(w))
  /\ \A r \in Run : WF_vars(BackoffPasses(r))

Spec == Init /\ [][Next]_vars /\ Fairness

-----------------------------------------------------------------------------
(***************************************************************************)
(* Properties                                                              *)
(***************************************************************************)

\* What an operator confirmed is a repository that some match offered for
\* this run, with a mapping that an administrator once made active for it:
\* neither two operators, nor a retry or an edit between the route's reads
\* and its write, make it anything else (the two checks of the route and of
\* confirm()).
SelectedWasOffered ==
  \A r \in Run : InStatus(r, {"selected"}) =>
    LET chosen == selections[r].chosen
    IN  chosen.repo \in offered[r] /\ chosen.mapping \in had[chosen.repo]

\* A confirmed row is never touched again: neither by the retry of a pass
\* that had listed it before, nor by a second confirmation in flight.  The
\* selected rows form a write-once register.
Settled ==
  [r \in Run |-> IF InStatus(r, {"selected"}) THEN selections[r] ELSE None]
Register ==
  INSTANCE OutcomeRegister WITH Key <- Run, Outcome <- SelectedRow, row <- Settled
SelectedIsFinal == Register!Spec

\* A run that stays among the newest Limit runs gets its row, lost items and
\* passes notwithstanding.
QueuedIsMatched ==
  \A r \in Run : <>[](r \in Newest) => <>(selections[r] # None)

\* docs/repository-selection.md: a registry change "is picked up without
\* operator intervention".  Once the registry rests, a row that is still
\* failed or ambiguous shows its entries, whatever the number of rows
\* waiting: the batch takes the longest due first, so none is starved.
UnresolvedIsCurrent ==
  \A r \in Run, S \in SUBSET Repo :
    <>[](Active = S) => <>[](Unresolved(r) => selections[r].candidates = S)

\* docs/repository-selection.md, Notifications: a row that stays failed or
\* ambiguous has been reported as such, by the last notification made of it.
\* (One instance, none of whose items is lost: two instances may append
\* their entries in the other order.)
UnresolvedIsNotified ==
  \A r \in Run, s \in {"failed", "ambiguous"} :
    [](aborts = 0) /\ <>[](InStatus(r, {s})) => <>[](told[r] = s)
=============================================================================
