------------------------- MODULE RepositoryProofs -------------------------
(***************************************************************************)
(* What RepositorySelection and RepositoryRegistry promise, proved for any *)
(* number of runs, repositories, instances and operators, any batch limit  *)
(* and any number of lost items; and of entries, branches, patterns and    *)
(* concurrent requests.                                                    *)
(***************************************************************************)
EXTENDS RepositorySelection, RepositoryRegistry, FiniteSetTheorems, TLAPS

USE RunAssumption, LimitAssumption, AbortsAssumption, SentinelAssumption,
    UrlAssumption, AllowedAssumption, UnderAssumption, NoEntryAssumption

-----------------------------------------------------------------------------
(***************************************************************************)
(* Selection: the inductive invariant                                      *)
(***************************************************************************)
\* An instance that is past the listing of an item has it in hand, and what
\* it is about to report needs attention.
Hands ==
  \A w \in Worker :
    /\ step[w] # "next" => job[w] \in Job
    /\ step[w] = "tell" => Classify(result[w]) \in Notified

\* Only a row that may be matched again is due.
DueRows == \A r \in due : Unresolved(r)

\* The histories cover what is there: the candidates a row shows, the
\* mapping that is active.
Covered ==
  /\ \A r \in Run : selections[r] # None => selections[r].candidates \subseteq offered[r]
  /\ \A p \in Repo : active[p] # None => active[p] \in had[p]

\* What a confirmation in flight has established, however stale it is.
Requests ==
  \A o \in Operator : request[o] # None =>
    /\ request[o].mapping \in had[request[o].repo]
    /\ request[o].expected # "unread" => request[o].repo \in offered[request[o].run]

IInv == TypeOK /\ Hands /\ DueRows /\ Covered /\ Requests /\ SelectedWasOffered

-----------------------------------------------------------------------------
(***************************************************************************)
(* Selection: its operators                                                *)
(***************************************************************************)
LEMMA ClassifyType ==
  ASSUME NEW S \in SUBSET Repo
  PROVE  Classify(S) \in {"failed", "pending", "ambiguous"}
  BY DEF Classify

\* A row of a matching pass is one that has not been confirmed, and shows
\* what the pass read.
LEMMA MatchedRow ==
  ASSUME NEW w \in Worker, result[w] \in SUBSET Repo, NEW x, x.notified \in Notified
  PROVE  /\ Matched(w, x) \in OpenRow
         /\ Matched(w, x).status # "selected"
         /\ Matched(w, x).candidates = result[w]
<1>1. Classify(result[w]) \in {"failed", "pending", "ambiguous"} BY ClassifyType
<1>2. ShouldNotify(w) => Classify(result[w]) \in Notified
  BY <1>1 DEF ShouldNotify, Notified
<1> QED BY <1>1, <1>2 DEF Matched, OpenRow

LEMMA RowType ==
  ASSUME TypeOK, NEW r \in Run, selections[r] # None
  PROVE  /\ selections[r] \in Row
         /\ selections[r].notified \in Notified
         /\ selections[r].candidates \in SUBSET Repo
         /\ InStatus(r, {"selected"}) => selections[r] \in SelectedRow
         /\ ~InStatus(r, {"selected"}) => selections[r] \in OpenRow
<1>1. selections[r] \in Row BY DEF TypeOK
<1>2. CASE selections[r] \in OpenRow BY <1>1, <1>2 DEF OpenRow, InStatus
<1>3. CASE selections[r] \in SelectedRow BY <1>1, <1>3 DEF SelectedRow, InStatus
<1> QED BY <1>1, <1>2, <1>3 DEF Row

\* A confirmation in flight makes a confirmable row a selected one, and
\* changes nothing of it but the status and the choice.
LEMMA SelectedRowType ==
  ASSUME TypeOK, NEW o \in Operator, request[o] # None,
         Confirmable(request[o].run)
  PROVE  /\ Selected(o) \in SelectedRow
         /\ Selected(o).candidates = selections[request[o].run].candidates
         /\ Selected(o).chosen.repo = request[o].repo
         /\ Selected(o).chosen.mapping = request[o].mapping
<1>1. request[o] \in Request BY DEF TypeOK
<1>2. selections[request[o].run] \in OpenRow
  BY <1>1, RowType DEF Confirmable, InStatus, Request
<1> QED BY <1>1, <1>2 DEF Selected, OpenRow, SelectedRow, Choice, Request

LEMMA NotDueType ==
  ASSUME TypeOK, NEW r \in Run, NotDue(r)
  PROVE  due' \in SUBSET Run /\ ahead' \in [Run -> SUBSET Run] /\ due' = due \ {r}
  BY DEF TypeOK, NotDue

LEMMA EndItemType ==
  ASSUME TypeOK, NEW w \in Worker, NEW tell \in BOOLEAN, EndItem(w, tell)
  PROVE  /\ step' \in [Worker -> {"next", "match", "write", "tell"}]
         /\ job' \in [Worker -> Job \cup {None}]
         /\ result' \in [Worker -> SUBSET Repo]
         /\ \A v \in Worker : v # w => /\ step'[v] = step[v] /\ job'[v] = job[v]
                                      /\ result'[v] = result[v]
         /\ step'[w] # "next" => job'[w] = job[w] /\ result'[w] = result[w] /\ tell
  BY DEF TypeOK, EndItem

\* Only an outcome that needs attention is news.
LEMMA ShouldNotifyType ==
  ASSUME NEW w \in Worker, result[w] \in SUBSET Repo
  PROVE  /\ ShouldNotify(w) \in BOOLEAN
         /\ ShouldNotify(w) => Classify(result[w]) \in Notified
  BY ClassifyType DEF ShouldNotify, Notified

LEMMA CardinalityType ==
  ASSUME NEW S \in SUBSET Run
  PROVE  Cardinality(S) \in Nat
  BY FS_Subset, FS_CardinalityType

-----------------------------------------------------------------------------
(***************************************************************************)
(* Selection: every action keeps the invariant                             *)
(***************************************************************************)

\* A step that leaves the collections and the registry alone: what the
\* invariant says of them stands.
LEMMA StoredStands ==
  ASSUME IInv, UNCHANGED << registry, stored >>
  PROVE  DueRows' /\ Covered' /\ SelectedWasOffered'
  BY DEF IInv, registry, stored, DueRows, Covered, SelectedWasOffered, Unresolved, InStatus

\* A step of worker w within its pass.
LEMMA LocalStep ==
  ASSUME IInv, NEW w \in Worker,
         UNCHANGED << createdAt, registry, stored, request >>,
         told' \in [Run -> Notified], aborts' \in Nat,
         pass' \in [Worker -> {"idle", "first", "retry"}],
         step' \in [Worker -> {"next", "match", "write", "tell"}],
         queue' \in [Worker -> SUBSET Job],
         job' \in [Worker -> Job \cup {None}],
         result' \in [Worker -> SUBSET Repo],
         \A v \in Worker : v # w => /\ step'[v] = step[v] /\ job'[v] = job[v]
                                   /\ result'[v] = result[v],
         step'[w] # "next" => job'[w] \in Job,
         step'[w] # "tell"
  PROVE  IInv'
<1>1. TypeOK' BY DEF IInv, TypeOK, registry, stored
<1>2. Hands' BY DEF IInv, Hands, Classify
<1>3. Requests' BY DEF IInv, Requests, registry, stored
<1> QED BY <1>1, <1>2, <1>3, StoredStands DEF IInv

\* A worker writes the row it has matched: a first one, or one that is still
\* failed or ambiguous.
LEMMA WriteStep ==
  ASSUME IInv, NEW w \in Worker, step[w] = "write", NEW x, x.notified \in Notified,
         ~InStatus(job[w].run, {"selected"}),
         selections' = [selections EXCEPT ![job[w].run] = Matched(w, x)],
         Offer(w),
         due' \in SUBSET Run, ahead' \in [Run -> SUBSET Run],
         due' = due \ {job[w].run},
         EndItem(w, ShouldNotify(w)),
         UNCHANGED << createdAt, registry, told, pass, queue, request, aborts >>
  PROVE  IInv'
<1> DEFINE r == job[w].run
<1>1. job[w] \in Job /\ r \in Run /\ result[w] \in SUBSET Repo
  BY DEF IInv, TypeOK, Hands, Job
<1>2. /\ Matched(w, x) \in OpenRow
      /\ Matched(w, x).status # "selected"
      /\ Matched(w, x).candidates = result[w]
  BY <1>1, MatchedRow
<1>3. /\ offered' \in [Run -> SUBSET Repo]
      /\ offered'[r] = offered[r] \cup result[w]
      /\ \A q \in Run : offered[q] \subseteq offered'[q]
  BY <1>1 DEF IInv, TypeOK, Offer
<1>4. /\ selections' \in [Run -> Row \cup {None}]
      /\ selections'[r] = Matched(w, x)
      /\ \A q \in Run : q # r => selections'[q] = selections[q]
  BY <1>1, <1>2 DEF IInv, TypeOK, Row
<1>5. TypeOK'
  BY <1>3, <1>4, EndItemType, ShouldNotifyType DEF IInv, TypeOK, registry
<1>6. Hands'
  <2>1. /\ \A v \in Worker : v # w => /\ step'[v] = step[v] /\ job'[v] = job[v]
                                     /\ result'[v] = result[v]
        /\ step'[w] # "next" => /\ job'[w] = job[w] /\ result'[w] = result[w]
                                /\ Classify(result[w]) \in Notified
    BY <1>1, EndItemType, ShouldNotifyType DEF IInv
  <2>2. ASSUME NEW v \in Worker
        PROVE  /\ step'[v] # "next" => job'[v] \in Job
               /\ step'[v] = "tell" => Classify(result'[v]) \in Notified
    BY <1>1, <2>1 DEF IInv, Hands
  <2> QED BY <2>2 DEF Hands, Classify
<1>7. DueRows' BY <1>4 DEF IInv, TypeOK, DueRows, Unresolved, InStatus
<1>8. Covered' BY <1>2, <1>3, <1>4 DEF IInv, Covered, registry
<1>9. Requests' BY <1>3 DEF IInv, TypeOK, Requests, Request, registry
<1>10. SelectedWasOffered'
  <2>1. ASSUME NEW q \in Run, InStatus(q, {"selected"})'
        PROVE  q # r /\ selections'[q] = selections[q] /\ InStatus(q, {"selected"})
    BY <1>2, <1>4, <2>1 DEF InStatus
  <2>2. ASSUME NEW q \in Run, InStatus(q, {"selected"})'
        PROVE  /\ selections[q].chosen.repo \in offered[q]
               /\ selections[q].chosen.mapping \in had[selections[q].chosen.repo]
    BY <2>1, <2>2 DEF IInv, SelectedWasOffered
  <2> QED BY <1>3, <2>1, <2>2 DEF SelectedWasOffered, registry
<1> QED BY <1>5, <1>6, <1>7, <1>8, <1>9, <1>10 DEF IInv

LEMMA CreateStep ==
  ASSUME IInv, NEW w \in Worker, Create(w)
  PROVE  IInv'
<1>1. job[w] \in Job /\ job[w].notified \in Notified /\ job[w].run \in Run
  BY DEF Create, IInv, Hands, Job
<1>2. CASE selections[job[w].run] = None
  <2>1. ~InStatus(job[w].run, {"selected"}) /\ job[w].run \notin due
    BY <1>2 DEF InStatus, IInv, DueRows, Unresolved
  <2>2. due' \in SUBSET Run /\ ahead' \in [Run -> SUBSET Run]
        /\ due' = due \ {job[w].run}
    BY <2>1 DEF Create, IInv, TypeOK
  <2> QED BY <1>1, <1>2, <2>1, <2>2, WriteStep DEF Create
<1>3. CASE selections[job[w].run] # None
  <2>1. EndItem(w, FALSE) /\ UNCHANGED << createdAt, registry, stored, told, pass, queue,
                                          request, aborts >>
    BY <1>3 DEF Create, stored
  <2> QED BY <2>1, EndItemType, LocalStep DEF IInv, TypeOK
<1> QED BY <1>2, <1>3

LEMMA RetryStep ==
  ASSUME IInv, NEW w \in Worker, Retry(w)
  PROVE  IInv'
<1>1. job[w] \in Job /\ job[w].run \in Run BY DEF Retry, IInv, Hands, Job
<1>2. CASE Unresolved(job[w].run)
  <2>1. selections[job[w].run].notified \in Notified
    BY <1>1, <1>2, RowType DEF Unresolved, InStatus, IInv
  <2>2. due' \in SUBSET Run /\ ahead' \in [Run -> SUBSET Run]
        /\ due' = due \ {job[w].run}
    BY <1>1, <1>2, NotDueType DEF Retry, IInv
  <2>3. ~InStatus(job[w].run, {"selected"}) BY <1>2 DEF Unresolved, InStatus
  <2>4. selections' = [selections EXCEPT
                         ![job[w].run] = Matched(w, selections[job[w].run])]
    BY <1>2 DEF Retry
  <2> QED BY <1>2, <2>1, <2>2, <2>3, <2>4, WriteStep DEF Retry
<1>3. CASE ~Unresolved(job[w].run)
  <2>1. EndItem(w, FALSE) /\ UNCHANGED << createdAt, registry, stored, told, pass, queue,
                                          request, aborts >>
    BY <1>3 DEF Retry
  <2> QED BY <2>1, EndItemType, LocalStep DEF IInv, TypeOK
<1> QED BY <1>2, <1>3

LEMMA NotifyStep ==
  ASSUME IInv, NEW w \in Worker, Notify(w)
  PROVE  IInv'
<1>1. told' \in [Run -> Notified] /\ EndItem(w, FALSE)
  BY DEF Notify, IInv, TypeOK, Hands
<1>2. UNCHANGED << createdAt, registry, stored, pass, queue, request, aborts >>
  BY DEF Notify
<1> QED BY <1>1, <1>2, EndItemType, LocalStep DEF IInv, TypeOK

\* A step that begins, changes or ends a list.
LEMMA PassStep ==
  ASSUME IInv, NEW w \in Worker,
         UNCHANGED << createdAt, registry, stored, told, step, job, result, request,
                      aborts >>,
         pass' \in [Worker -> {"idle", "first", "retry"}],
         queue' \in [Worker -> SUBSET Job]
  PROVE  IInv'
<1>1. TypeOK' BY DEF IInv, TypeOK, registry, stored
<1>2. Hands' BY DEF IInv, Hands, Classify
<1>3. Requests' BY DEF IInv, Requests, registry, stored
<1> QED BY <1>1, <1>2, <1>3, StoredStands DEF IInv

\* The steps that only move a worker along its lists.
LEMMA ListStep ==
  ASSUME IInv, NEW w \in Worker,
         \/ BeginPass(w) \/ ListDue(w) \/ EndPass(w) \/ Match(w)
         \/ \E j \in queue[w] : AlreadyMatched(w, j) \/ Examine(w, j)
  PROVE  IInv'
<1>1. CASE BeginPass(w)
  <2>1. [run : Newest, notified : {"none"}] \in SUBSET Job
    BY DEF Newest, Job, Notified
  <2>2. queue' \in [Worker -> SUBSET Job]
    BY <1>1, <2>1 DEF BeginPass, IInv, TypeOK
  <2> QED BY <1>1, <2>2, PassStep DEF BeginPass, IInv, TypeOK
<1>2. CASE ListDue(w)
  <2>1. ASSUME NEW r \in FirstDue
        PROVE  [run |-> r, notified |-> selections[r].notified] \in Job
    <3>1. r \in Run /\ r \in due BY DEF FirstDue, IInv, TypeOK
    <3>2. selections[r] # None BY <3>1 DEF IInv, DueRows, Unresolved, InStatus
    <3> QED BY <3>1, <3>2, RowType DEF IInv, Job
  <2>2. queue' \in [Worker -> SUBSET Job]
    BY <1>2, <2>1 DEF ListDue, IInv, TypeOK
  <2> QED BY <1>2, <2>2, LocalStep DEF ListDue, IInv, TypeOK, Hands
<1>3. CASE Match(w)
  <2>1. Active \in SUBSET Repo BY DEF Active
  <2> QED BY <1>3, <2>1, LocalStep DEF Match, IInv, TypeOK, Hands
<1>4. ASSUME NEW j \in queue[w], AlreadyMatched(w, j) \/ Examine(w, j)
      PROVE  IInv'
  <2>1. j \in Job BY DEF IInv, TypeOK
  <2>2. CASE AlreadyMatched(w, j)
    BY <2>2, LocalStep DEF AlreadyMatched, IInv, TypeOK, Hands
  <2>3. CASE Examine(w, j)
    BY <2>1, <2>3, LocalStep DEF Examine, IInv, TypeOK, Hands
  <2> QED BY <1>4, <2>2, <2>3
<1>5. CASE EndPass(w)
  BY <1>5, PassStep DEF EndPass, IInv, TypeOK
<1> QED BY <1>1, <1>2, <1>3, <1>4, <1>5

LEMMA AbortStep ==
  ASSUME IInv, NEW w \in Worker, Abort(w)
  PROVE  IInv'
<1>1. EndItem(w, FALSE) BY DEF Abort
<1>2. /\ pass' \in [Worker -> {"idle", "first", "retry"}]
      /\ queue' \in [Worker -> SUBSET Job]
      /\ aborts' \in Nat
  BY DEF Abort, IInv, TypeOK
<1> QED BY <1>1, <1>2, EndItemType, LocalStep DEF Abort, IInv, TypeOK

\* A step of an operator's request that writes nothing to the collection.
LEMMA RequestStep ==
  ASSUME IInv, NEW o \in Operator,
         (\E r \in Run, p \in Repo : Choose(o, r, p)) \/ Check(o)
  PROVE  IInv'
<1>1. UNCHANGED << createdAt, registry, stored, told, local, aborts >>
  BY DEF Choose, Check
<1>2. /\ request' \in [Operator -> Request \cup {None}]
      /\ \A q \in Operator : q # o => request'[q] = request[q]
      /\ request'[o] # None =>
           /\ request'[o].mapping \in had[request'[o].repo]
           /\ request'[o].expected # "unread" =>
                request'[o].repo \in offered[request'[o].run]
  <2>1. ASSUME NEW r \in Run, NEW p \in Repo, Choose(o, r, p)
        PROVE  \E x \in Request :
                 /\ request' = [request EXCEPT ![o] = x]
                 /\ x.mapping \in had[x.repo]
                 /\ x.expected = "unread"
    <3>1. active[p] \in Mapping /\ active[p] \in had[p]
      BY <2>1 DEF Choose, IInv, TypeOK, Covered
    <3>2. [run |-> r, repo |-> p, mapping |-> active[p], expected |-> "unread"] \in Request
      BY <3>1 DEF Request
    <3> QED BY <2>1, <3>1, <3>2 DEF Choose
  <2>2. CASE \E r \in Run, p \in Repo : Choose(o, r, p)
    BY <2>1, <2>2 DEF IInv, TypeOK
  <2>3. CASE Check(o)
    <3>1. request[o] \in Request /\ request[o] # None
      BY <2>3 DEF Check, IInv, TypeOK
    <3>2. CASE Confirmable(request[o].run)
                 /\ request[o].repo \in selections[request[o].run].candidates
      <4>1. /\ request' = [request EXCEPT
                             ![o].expected = selections[request[o].run].status]
            /\ selections[request[o].run].status \in {"pending", "ambiguous"}
            /\ request[o].repo \in offered[request[o].run]
        BY <2>3, <3>1, <3>2
        DEF Check, Confirmable, InStatus, IInv, Covered, Request
      <4> QED BY <3>1, <4>1 DEF IInv, TypeOK, Requests, Request
    <3>3. CASE ~(Confirmable(request[o].run)
                 /\ request[o].repo \in selections[request[o].run].candidates)
      BY <2>3, <3>1, <3>3 DEF Check, IInv, TypeOK
    <3> QED BY <3>2, <3>3
  <2> QED BY <2>2, <2>3
<1>3. TypeOK' BY <1>1, <1>2 DEF IInv, TypeOK, registry, stored, local
<1>4. Hands' BY <1>1 DEF IInv, Hands, local, Classify
<1>5. Requests' BY <1>1, <1>2 DEF IInv, Requests, registry, stored
<1> QED BY <1>1, <1>3, <1>4, <1>5, StoredStands DEF IInv

LEMMA ConfirmStep ==
  ASSUME IInv, NEW o \in Operator, Confirm(o)
  PROVE  IInv'
<1> DEFINE r == request[o].run
<1>1. request[o] \in Request /\ r \in Run BY DEF Confirm, IInv, TypeOK, Request
<1>2. /\ request' \in [Operator -> Request \cup {None}]
      /\ \A q \in Operator : request'[q] = request[q] \/ request'[q] = None
  BY DEF Confirm, IInv, TypeOK
<1>3. CASE InStatus(r, {request[o].expected})
  <2>1. Confirmable(r) /\ selections[r] # None /\ request[o] # None
    BY <1>1, <1>3 DEF Confirm, Confirmable, InStatus, Request
  <2>2. /\ Selected(o) \in SelectedRow
        /\ Selected(o).candidates = selections[r].candidates
        /\ Selected(o).chosen.repo \in offered[r]
        /\ Selected(o).chosen.mapping \in had[Selected(o).chosen.repo]
    BY <2>1, SelectedRowType DEF Confirm, IInv, Requests
  <2>3. /\ selections' \in [Run -> Row \cup {None}]
        /\ selections'[r] = Selected(o)
        /\ \A q \in Run : q # r => selections'[q] = selections[q]
    BY <1>1, <1>3, <2>2 DEF Confirm, IInv, TypeOK, Row
  <2>4. due' \in SUBSET Run /\ ahead' \in [Run -> SUBSET Run] /\ due' = due \ {r}
    BY <1>1, <1>3, NotDueType DEF Confirm, IInv
  <2>5. UNCHANGED << createdAt, registry, offered, told, local, aborts >>
    BY DEF Confirm
  <2>6. TypeOK' BY <1>2, <2>3, <2>4, <2>5 DEF IInv, TypeOK, registry, local
  <2>7. Hands' BY <2>5 DEF IInv, Hands, local, Classify
  <2>8. DueRows' BY <2>3, <2>4 DEF IInv, TypeOK, DueRows, Unresolved, InStatus
  <2>9. Covered' BY <2>1, <2>2, <2>3, <2>5 DEF IInv, Covered, registry
  <2>10. Requests' BY <1>2, <2>5 DEF IInv, Requests, registry
  <2>11. SelectedWasOffered'
    BY <2>2, <2>3, <2>5 DEF IInv, SelectedWasOffered, InStatus, registry
  <2> QED BY <2>6, <2>7, <2>8, <2>9, <2>10, <2>11 DEF IInv
<1>4. CASE ~InStatus(r, {request[o].expected})
  <2>1. UNCHANGED << createdAt, registry, stored, told, local, aborts >>
    BY <1>4 DEF Confirm, stored
  <2>2. TypeOK' BY <1>2, <2>1 DEF IInv, TypeOK, registry, stored, local
  <2>3. Hands' BY <2>1 DEF IInv, Hands, local, Classify
  <2>4. Requests' BY <1>2, <2>1 DEF IInv, Requests, registry, stored
  <2> QED BY <2>1, <2>2, <2>3, <2>4, StoredStands DEF IInv
<1> QED BY <1>3, <1>4

LEMMA EnvironmentStep ==
  ASSUME IInv, Environment
  PROVE  IInv'
<1>1. ASSUME NEW r \in Run, QueueRun(r) PROVE IInv'
  <2>1. UNCHANGED << registry, stored, told, local, request, aborts >>
    BY <1>1 DEF QueueRun
  <2>2. createdAt' \in [Run -> Nat]
    <3>1. Cardinality({x \in Run : createdAt[x] > 0}) \in Nat BY CardinalityType
    <3> QED BY <1>1, <3>1 DEF QueueRun, IInv, TypeOK
  <2>3. TypeOK' BY <2>1, <2>2 DEF IInv, TypeOK, registry, stored, local
  <2>4. Hands' /\ Requests'
    BY <2>1 DEF IInv, Hands, Requests, registry, stored, local, Classify
  <2> QED BY <2>1, <2>3, <2>4, StoredStands DEF IInv
<1>2. ASSUME NEW p \in Repo, EditRegistry(p) PROVE IInv'
  <2>1. UNCHANGED << createdAt, stored, told, local, request, aborts >>
    BY <1>2 DEF EditRegistry
  <2>2. /\ active' \in [Repo -> Mapping \cup {None}]
        /\ had' \in [Repo -> SUBSET Mapping]
        /\ \A q \in Repo : had[q] \subseteq had'[q]
        /\ \A q \in Repo : active'[q] # None => active'[q] \in had'[q]
    BY <1>2 DEF EditRegistry, IInv, TypeOK, Covered
  <2>3. TypeOK' BY <2>1, <2>2 DEF IInv, TypeOK, stored, local
  <2>4. Hands' /\ DueRows'
    BY <2>1 DEF IInv, Hands, DueRows, Unresolved, InStatus, stored, local, Classify
  <2>5. Covered' BY <2>1, <2>2 DEF IInv, Covered, stored
  <2>6. Requests' BY <2>1, <2>2 DEF IInv, TypeOK, Requests, Request, stored
  <2>7. SelectedWasOffered'
    <3>1. ASSUME NEW r \in Run, InStatus(r, {"selected"})
          PROVE  selections[r].chosen.repo \in Repo
      BY <3>1, RowType DEF InStatus, IInv, SelectedRow, Choice
    <3> QED BY <2>1, <2>2, <3>1 DEF IInv, SelectedWasOffered, InStatus, stored
  <2> QED BY <2>3, <2>4, <2>5, <2>6, <2>7 DEF IInv
<1>3. ASSUME NEW r \in Run, BackoffPasses(r) PROVE IInv'
  <2>1. UNCHANGED << createdAt, registry, selections, offered, told, local, request, aborts >>
    BY <1>3 DEF BackoffPasses
  <2>2. due' \in SUBSET Run /\ ahead' \in [Run -> SUBSET Run]
    BY <1>3 DEF BackoffPasses, IInv, TypeOK
  <2>3. TypeOK' BY <2>1, <2>2 DEF IInv, TypeOK, registry, local
  <2>4. DueRows' BY <1>3, <2>1 DEF BackoffPasses, IInv, DueRows, Unresolved, InStatus
  <2>5. Hands' /\ Requests' /\ Covered' /\ SelectedWasOffered'
    BY <2>1
    DEF IInv, Hands, Requests, Covered, SelectedWasOffered, InStatus, registry, local,
        Classify
  <2> QED BY <2>3, <2>4, <2>5 DEF IInv
<1> QED BY <1>1, <1>2, <1>3 DEF Environment

LEMMA InvStep ==
  ASSUME IInv, [Next]_vars
  PROVE  IInv'
<1>1. ASSUME NEW w \in Worker, Step(w) PROVE IInv'
  BY <1>1, ListStep, CreateStep, RetryStep, NotifyStep DEF Step
<1>2. ASSUME NEW o \in Operator, Operate(o) PROVE IInv'
  BY <1>2, RequestStep, ConfirmStep DEF Operate
<1>3. CASE UNCHANGED vars
  <2>1. UNCHANGED << createdAt, registry, stored, told, local, request, aborts >>
    BY <1>3 DEF vars
  <2>2. TypeOK' BY <2>1 DEF IInv, TypeOK, registry, stored, local
  <2>3. Hands' /\ Requests'
    BY <2>1 DEF IInv, Hands, Requests, registry, stored, local, Classify
  <2> QED BY <2>1, <2>2, <2>3, StoredStands DEF IInv
<1> QED BY <1>1, <1>2, <1>3, AbortStep, EnvironmentStep DEF Next

LEMMA Invariance == Spec => []IInv
<1>1. Init => IInv
  <2> SUFFICES ASSUME Init PROVE IInv OBVIOUS
  <2>1. TypeOK BY DEF Init, TypeOK, Notified
  <2>2. \A r \in Run : selections[r] = None BY DEF Init
  <2>3. Hands /\ DueRows /\ Covered /\ Requests BY DEF Init, Hands, DueRows, Covered, Requests
  <2>4. SelectedWasOffered BY <2>2 DEF SelectedWasOffered, InStatus
  <2> QED BY <2>1, <2>3, <2>4 DEF IInv
<1>2. IInv /\ [Next]_vars => IInv' BY InvStep
<1> QED BY <1>1, <1>2, PTL DEF Spec

-----------------------------------------------------------------------------
(***************************************************************************)
(* Selection: theorems                                                     *)
(***************************************************************************)
\* Every variable keeps its type: the status of a row that nobody confirmed
\* is the one its candidates call for, and a selected row carries its choice.
THEOREM TypeCorrect == Spec => []TypeOK
<1>1. IInv => TypeOK BY DEF IInv
<1> QED BY <1>1, Invariance, PTL

\* However stale the reads of a confirmation are when it writes, what it
\* selects was offered for the run and was once an active mapping.
THEOREM OnlyOfferedIsSelected == Spec => []SelectedWasOffered
<1>1. IInv => SelectedWasOffered BY DEF IInv
<1> QED BY <1>1, Invariance, PTL

\* The confirmed rows implement the write-once register, whatever retries
\* and confirmations were under way when a row was confirmed.
THEOREM SelectionsAreARegister == Spec => SelectedIsFinal
<1>1. Init => Register!Init
  BY DEF Init, Register!Init, Settled, InStatus
<1>2. IInv /\ [Next]_vars => [Register!Next]_Settled
  <2> SUFFICES ASSUME IInv, [Next]_vars
               PROVE  [Register!Next]_Settled
    OBVIOUS
  <2>1. ASSUME NEW r \in Run, NEW x \in Row,
               selections' = [selections EXCEPT ![r] = x],
               Settled[r] = None
        PROVE  [Register!Next]_Settled
    <3>1. Settled' = [Settled EXCEPT ![r] = Settled'[r]]
      BY <2>1 DEF Settled, InStatus, IInv, TypeOK
    <3>2. Settled'[r] = None \/ Settled'[r] \in SelectedRow
      BY <2>1 DEF Settled, InStatus, IInv, TypeOK, Row, OpenRow
    <3>3. CASE Settled'[r] \in SelectedRow
      <4>1. Register!Record(r) BY <2>1, <3>1, <3>3 DEF Register!Record
      <4> QED BY <4>1 DEF Register!Next
    <3>4. CASE Settled'[r] = None
      <4>1. Settled' = Settled BY <2>1, <3>1, <3>4 DEF Settled
      <4> QED BY <4>1
    <3> QED BY <3>2, <3>3, <3>4
  <2>2. ASSUME UNCHANGED selections PROVE [Register!Next]_Settled
    BY <2>2 DEF Settled, InStatus
  <2>3. ASSUME NEW w \in Worker, Create(w) \/ Retry(w)
        PROVE  [Register!Next]_Settled
    <3>1. job[w] \in Job /\ job[w].run \in Run /\ job[w].notified \in Notified
          /\ result[w] \in SUBSET Repo
      BY <2>3 DEF Create, Retry, IInv, TypeOK, Hands, Job
    <3>2. CASE Create(w) /\ selections[job[w].run] = None
      <4>1. Matched(w, job[w]) \in Row BY <3>1, MatchedRow DEF Row
      <4>2. Settled[job[w].run] = None BY <3>1, <3>2 DEF Settled, InStatus
      <4> QED BY <2>1, <3>1, <3>2, <4>1, <4>2 DEF Create
    <3>3. CASE Retry(w) /\ Unresolved(job[w].run)
      <4>1. selections[job[w].run].notified \in Notified
        BY <3>1, <3>3, RowType DEF Unresolved, InStatus, IInv
      <4>2. Matched(w, selections[job[w].run]) \in Row
        BY <3>1, <4>1, MatchedRow DEF Row
      <4>3. Settled[job[w].run] = None
        BY <3>1, <3>3 DEF Settled, Unresolved, InStatus
      <4>4. selections' = [selections EXCEPT
                             ![job[w].run] = Matched(w, selections[job[w].run])]
        BY <3>3 DEF Retry
      <4> QED BY <2>1, <3>1, <4>2, <4>3, <4>4
    <3>4. CASE UNCHANGED selections BY <2>2, <3>4
    <3> QED BY <2>3, <3>2, <3>3, <3>4 DEF Create, Retry, stored
  <2>4. ASSUME NEW o \in Operator, Confirm(o)
        PROVE  [Register!Next]_Settled
    <3>1. request[o] \in Request /\ request[o].run \in Run
      BY <2>4 DEF Confirm, IInv, TypeOK, Request
    <3>2. CASE InStatus(request[o].run, {request[o].expected})
      <4>1. Confirmable(request[o].run) /\ ~InStatus(request[o].run, {"selected"})
        BY <2>4, <3>1, <3>2 DEF Confirm, Confirmable, InStatus, Request
      <4>2. Selected(o) \in Row
        BY <2>4, <4>1, SelectedRowType DEF Confirm, IInv, Row
      <4>3. Settled[request[o].run] = None BY <3>1, <4>1 DEF Settled
      <4> QED BY <2>1, <2>4, <3>1, <3>2, <4>2, <4>3 DEF Confirm
    <3>3. CASE ~InStatus(request[o].run, {request[o].expected})
      BY <2>2, <2>4, <3>3 DEF Confirm
    <3> QED BY <3>2, <3>3
  <2>5. ASSUME NEW w \in Worker, Step(w) \/ Abort(w), ~Create(w), ~Retry(w)
        PROVE  UNCHANGED selections
    BY <2>5
    DEF Step, Abort, BeginPass, ListDue, EndPass, AlreadyMatched, Examine, Match, Notify,
        stored
  <2>6. ASSUME NEW o \in Operator, Operate(o), ~Confirm(o)
        PROVE  UNCHANGED selections
    BY <2>6 DEF Operate, Choose, Check, stored
  <2>7. CASE Environment \/ UNCHANGED vars
    <3>1. UNCHANGED selections
      BY <2>7 DEF Environment, QueueRun, EditRegistry, BackoffPasses, vars, stored
    <3> QED BY <2>2, <3>1
  <2> QED BY <2>2, <2>3, <2>4, <2>5, <2>6, <2>7 DEF Next
<1> QED
  BY <1>1, <1>2, Invariance, PTL DEF Spec, SelectedIsFinal, Register!Spec

-----------------------------------------------------------------------------
(***************************************************************************)
(* Registry: the inductive invariant                                       *)
(***************************************************************************)
\* An update in flight was validated before it was asked to be written.
Intents ==
  \A o \in Handler : Updating(o) => WellShaped(intent[o].merged)

RegistryInv ==
  /\ RegistryTypeOK
  /\ OneActiveMapping
  /\ EntriesAreWellShaped
  /\ StatusIsAsAsked
  /\ DeletedStaysDeleted
  /\ Intents

-----------------------------------------------------------------------------
(***************************************************************************)
(* Registry: lemmas                                                        *)
(***************************************************************************)
\* What an update writes: the merged content, under the repository and the
\* status the entry has.
LEMMA UpdatedType ==
  ASSUME NEW doc \in Entries, NEW o \in Handler, RegistryTypeOK, Updating(o)
  PROVE  /\ Updated(doc, intent[o]) \in Entries
         /\ Updated(doc, intent[o]).status = doc.status
         /\ Updated(doc, intent[o]).repo = doc.repo
         /\ WellShaped(intent[o].merged) => WellShaped(Updated(doc, intent[o]))
<1>1. intent[o].merged \in Content /\ intent[o].entry \in Entry
  BY DEF RegistryTypeOK, Updating, Intent
<1> QED BY <1>1 DEF Updated, With, Entries, Content, WellShaped

\* Uniqueness speaks of the active entries and their repositories only.
LEMMA UniqueKept ==
  ASSUME Unique,
         \A e \in Entry : Live(e)' => Live(e) /\ entries'[e].repo = entries[e].repo
  PROVE  Unique'
  BY DEF Unique

\* An entry that has no rival may become the active mapping.
LEMMA UniqueExtended ==
  ASSUME Unique, NEW d \in Entry, ~Rival(d, entries'[d].repo),
         \A e \in Entry \ {d} : entries'[e] = entries[e]
  PROVE  Unique'
<1> SUFFICES ASSUME NEW e \in Entry, NEW f \in Entry, Live(e)', Live(f)',
                    entries'[e].repo = entries'[f].repo
             PROVE  e = f
  BY DEF Unique
<1>1. CASE e = d /\ f # d BY <1>1 DEF Rival, Live
<1>2. CASE f = d /\ e # d BY <1>2 DEF Rival, Live
<1>3. CASE e # d /\ f # d BY <1>3 DEF Unique, Live
<1> QED BY <1>1, <1>2, <1>3

-----------------------------------------------------------------------------
(***************************************************************************)
(* Registry: every action keeps the invariant                              *)
(***************************************************************************)
LEMMA RegistryInitially == RegistryInit => RegistryInv
  BY DEF RegistryInit, RegistryInv, RegistryTypeOK, OneActiveMapping, Unique, Live,
         EntriesAreWellShaped,
         StatusIsAsAsked, DeletedStaysDeleted, Intents, Updating

LEMMA CreateEntryStep == RegistryInv /\ CreateEntry => RegistryInv'
<1> SUFFICES ASSUME RegistryInv, CreateEntry PROVE RegistryInv'
  OBVIOUS
<1>1. PICK e \in Entry, r \in RepoId, c \in Content :
        /\ Fresh(e) /\ WellShaped(c) /\ ~Refused(e, r)
        /\ entries' = [entries EXCEPT ![e] =
             [url |-> c.url, default |-> c.default, allowed |-> c.allowed,
              policy |-> c.policy, repo |-> r, status |-> "active"]]
        /\ asked' = [asked EXCEPT ![e] = "active"]
  BY DEF CreateEntry
<1>2. UNCHANGED << deleted, intent, index, setup >> BY DEF CreateEntry
<1> DEFINE doc == [url |-> c.url, default |-> c.default, allowed |-> c.allowed,
                   policy |-> c.policy, repo |-> r, status |-> "active"]
<1>3. doc \in Entries /\ (WellShaped(c) => WellShaped(doc)) /\ doc.status = "active"
      /\ doc.repo = r
  BY DEF Entries, Content, WellShaped
<1>4. doc # NoEntry BY <1>3
<1> HIDE DEF doc
<1>5. entries' = [entries EXCEPT ![e] = doc] BY <1>1 DEF doc
<1>6. RegistryTypeOK' BY <1>1, <1>2, <1>3, <1>5 DEF RegistryInv, RegistryTypeOK
<1>7. OneActiveMapping'
  <2>1. SUFFICES ASSUME index # "missing" PROVE Unique'
    BY <1>2 DEF OneActiveMapping
  <2>2. entries'[e].repo = r BY <1>3, <1>5 DEF RegistryInv, RegistryTypeOK
  <2>3. ~Rival(e, entries'[e].repo) BY <1>1, <2>1, <2>2 DEF Refused
  <2>4. \A d \in Entry \ {e} : entries'[d] = entries[d]
    BY <1>5 DEF RegistryInv, RegistryTypeOK
  <2> QED BY <2>1, <2>3, <2>4, UniqueExtended DEF RegistryInv, OneActiveMapping
<1>8. EntriesAreWellShaped'
  BY <1>1, <1>3, <1>5 DEF RegistryInv, RegistryTypeOK, EntriesAreWellShaped
<1>9. StatusIsAsAsked'
  BY <1>1, <1>3, <1>5 DEF RegistryInv, RegistryTypeOK, StatusIsAsAsked
<1>10. DeletedStaysDeleted'
  BY <1>1, <1>2, <1>5 DEF RegistryInv, RegistryTypeOK, DeletedStaysDeleted, Fresh
<1>11. Intents' BY <1>2 DEF RegistryInv, Intents, Updating
<1> QED BY <1>6, <1>7, <1>8, <1>9, <1>10, <1>11 DEF RegistryInv

LEMMA StatusStep == RegistryInv /\ SetStatus => RegistryInv'
<1> SUFFICES ASSUME RegistryInv, SetStatus PROVE RegistryInv'
  OBVIOUS
<1>1. PICK e \in Entry, s \in {"active", "inactive"} :
        /\ entries[e] # NoEntry
        /\ s = "active" => ~Refused(e, entries[e].repo)
        /\ entries' = [entries EXCEPT ![e].status = s]
        /\ asked' = [asked EXCEPT ![e] = s]
  BY DEF SetStatus
<1>2. UNCHANGED << deleted, intent, index, setup >> BY DEF SetStatus
<1> DEFINE doc == [entries[e] EXCEPT !.status = s]
<1>3. entries[e] \in Entries BY <1>1 DEF RegistryInv, RegistryTypeOK
<1>4. doc \in Entries /\ doc.status = s /\ doc.repo = entries[e].repo
      /\ (WellShaped(entries[e]) => WellShaped(doc))
  BY <1>3 DEF Entries, WellShaped
<1>5. doc # NoEntry BY <1>4
<1> HIDE DEF doc
<1>6. entries' = [entries EXCEPT ![e] = doc] BY <1>1 DEF doc
<1>7. RegistryTypeOK' BY <1>1, <1>2, <1>4, <1>6 DEF RegistryInv, RegistryTypeOK
<1>8. OneActiveMapping'
  <2>1. SUFFICES ASSUME index # "missing" PROVE Unique'
    BY <1>2 DEF OneActiveMapping
  <2>2. entries'[e] = doc /\ \A d \in Entry \ {e} : entries'[d] = entries[d]
    BY <1>6 DEF RegistryInv, RegistryTypeOK
  <2>3. Unique BY <2>1 DEF RegistryInv, OneActiveMapping
  <2>4. CASE s = "active"
    <3>1. ~Rival(e, entries'[e].repo) BY <1>1, <1>4, <2>1, <2>2, <2>4 DEF Refused
    <3> QED BY <2>2, <2>3, <3>1, UniqueExtended
  <2>5. CASE s = "inactive"
    <3>1. ~Live(e)' BY <1>4, <2>2, <2>5 DEF Live
    <3>2. \A d \in Entry : Live(d)' => Live(d) /\ entries'[d].repo = entries[d].repo
      BY <2>2, <3>1 DEF Live
    <3> QED BY <2>3, <3>2, UniqueKept
  <2> QED BY <2>4, <2>5
<1>9. EntriesAreWellShaped'
  BY <1>1, <1>4, <1>6 DEF RegistryInv, RegistryTypeOK, EntriesAreWellShaped
<1>10. StatusIsAsAsked'
  BY <1>1, <1>4, <1>6 DEF RegistryInv, RegistryTypeOK, StatusIsAsAsked
<1>11. DeletedStaysDeleted'
  BY <1>1, <1>2, <1>6 DEF RegistryInv, RegistryTypeOK, DeletedStaysDeleted
<1>12. Intents' BY <1>2 DEF RegistryInv, Intents, Updating
<1> QED BY <1>7, <1>8, <1>9, <1>10, <1>11, <1>12 DEF RegistryInv

LEMMA StoreStep == ASSUME RegistryInv, NEW o \in Handler, Store(o) PROVE RegistryInv'
<1> DEFINE e == intent[o].entry
           doc == Updated(entries[e], intent[o])
<1>1. Updating(o) /\ intent' = [intent EXCEPT ![o] = NoEntry]
      /\ UNCHANGED << asked, deleted, index, setup >>
  BY DEF Store, Answered
<1>2. intent[o] \in Intent /\ e \in Entry
  BY <1>1 DEF RegistryInv, RegistryTypeOK, Updating, Intent
<1>3. entries' = IF entries[e] = NoEntry THEN entries ELSE [entries EXCEPT ![e] = doc]
  BY <1>2 DEF Store, RegistryInv, RegistryTypeOK
<1>4. Intents' BY <1>1 DEF RegistryInv, RegistryTypeOK, Intents, Updating
<1>5. CASE entries[e] = NoEntry
  <2>1. entries' = entries BY <1>3, <1>5
  <2> QED BY <1>1, <1>4, <2>1
      DEF RegistryInv, RegistryTypeOK, OneActiveMapping, Unique, Live, EntriesAreWellShaped,
          StatusIsAsAsked, DeletedStaysDeleted
<1>6. CASE entries[e] # NoEntry
  <2>1. entries[e] \in Entries BY <1>2, <1>6 DEF RegistryInv, RegistryTypeOK
  <2>2. /\ doc \in Entries /\ doc.status = entries[e].status
        /\ doc.repo = entries[e].repo
        /\ WellShaped(intent[o].merged) => WellShaped(doc)
    BY <1>1, <2>1, UpdatedType DEF RegistryInv
  <2>3. doc # NoEntry BY <2>2
  <2>4. WellShaped(intent[o].merged) BY <1>1 DEF RegistryInv, Intents
  <2> HIDE DEF doc, e
  <2>5. entries' = [entries EXCEPT ![e] = doc] BY <1>3, <1>6
  <2>6. RegistryTypeOK' BY <1>1, <1>2, <2>2, <2>5 DEF RegistryInv, RegistryTypeOK
  <2>7. entries'[e] = doc /\ \A d \in Entry \ {e} : entries'[d] = entries[d]
    BY <1>2, <2>5 DEF RegistryInv, RegistryTypeOK
  <2>8. \A d \in Entry : Live(d)' => Live(d) /\ entries'[d].repo = entries[d].repo
    BY <1>6, <2>2, <2>7 DEF Live
  <2>9. OneActiveMapping' BY <1>1, <2>8, UniqueKept DEF RegistryInv, OneActiveMapping
  <2>10. EntriesAreWellShaped'
    BY <2>2, <2>4, <2>7 DEF RegistryInv, EntriesAreWellShaped
  <2>11. StatusIsAsAsked'
    BY <1>1, <1>2, <1>6, <2>2, <2>7 DEF RegistryInv, StatusIsAsAsked
  <2>12. DeletedStaysDeleted'
    BY <1>1, <1>2, <1>6, <2>7 DEF RegistryInv, RegistryTypeOK, DeletedStaysDeleted
  <2> QED BY <1>4, <2>6, <2>9, <2>10, <2>11, <2>12 DEF RegistryInv
<1> QED BY <1>5, <1>6

LEMMA DeleteStep == ASSUME RegistryInv, NEW o \in Handler, Delete(o) PROVE RegistryInv'
<1> DEFINE e == intent[o].entry
<1>1. Deleting(o) /\ intent' = [intent EXCEPT ![o] = NoEntry]
      /\ UNCHANGED << asked, index, setup >>
  BY DEF Delete, Answered
<1>2. e \in Entry BY <1>1 DEF RegistryInv, RegistryTypeOK, Deleting, Intent
<1>3. \/ UNCHANGED << entries, deleted >>
      \/ entries' = [entries EXCEPT ![e] = NoEntry] /\ deleted' = deleted \cup {e}
  BY DEF Delete, Remove
<1>4. Intents' BY <1>1 DEF RegistryInv, RegistryTypeOK, Intents, Updating
<1>5. CASE UNCHANGED << entries, deleted >>
  BY <1>1, <1>4, <1>5
  DEF RegistryInv, RegistryTypeOK, OneActiveMapping, Unique, Live, EntriesAreWellShaped,
      StatusIsAsAsked, DeletedStaysDeleted
<1>6. CASE entries' = [entries EXCEPT ![e] = NoEntry] /\ deleted' = deleted \cup {e}
  <2> HIDE DEF e
  <2>1. RegistryTypeOK' BY <1>1, <1>2, <1>6 DEF RegistryInv, RegistryTypeOK
  <2>2. entries'[e] = NoEntry /\ \A d \in Entry \ {e} : entries'[d] = entries[d]
    BY <1>2, <1>6 DEF RegistryInv, RegistryTypeOK
  <2>3. \A d \in Entry : Live(d)' => Live(d) /\ entries'[d].repo = entries[d].repo
    BY <2>2 DEF Live
  <2>4. OneActiveMapping' BY <1>1, <2>3, UniqueKept DEF RegistryInv, OneActiveMapping
  <2>5. EntriesAreWellShaped' /\ StatusIsAsAsked'
    BY <1>1, <2>2 DEF RegistryInv, EntriesAreWellShaped, StatusIsAsAsked
  <2>6. DeletedStaysDeleted'
    BY <1>2, <1>6, <2>2 DEF RegistryInv, RegistryTypeOK, DeletedStaysDeleted
  <2> QED BY <1>4, <2>1, <2>4, <2>5, <2>6 DEF RegistryInv
<1> QED BY <1>3, <1>5, <1>6

\* The reads of the handlers and a lost request leave the collection alone.
LEMMA ReadStep ==
  ASSUME RegistryInv, NEW o \in Handler, Edit(o) \/ AskDelete(o) \/ Drop(o)
  PROVE  RegistryInv'
<1>1. UNCHANGED << entries, asked, deleted, index, setup >>
  BY DEF Edit, AskDelete, Drop
<1>2. intent' \in [Handler -> Intent \cup {NoEntry}] /\ Intents'
  <2>1. CASE Edit(o)
    <3>1. PICK e \in Entry, c \in Content :
            /\ entries[e] # NoEntry /\ WellShaped(c)
            /\ intent' = [intent EXCEPT ![o] =
                 [kind |-> "update", entry |-> e, seen |-> entries[e], merged |-> c]]
      BY <2>1 DEF Edit
    <3>2. [kind |-> "update", entry |-> e, seen |-> entries[e], merged |-> c]
            \in Intent
      BY <3>1 DEF RegistryInv, RegistryTypeOK, Intent
    <3>3. intent' \in [Handler -> Intent \cup {NoEntry}]
      BY <3>1, <3>2 DEF RegistryInv, RegistryTypeOK
    <3>4. \A p \in Handler \ {o} : intent'[p] = intent[p]
      BY <3>1 DEF RegistryInv, RegistryTypeOK
    <3>5. intent'[o].merged = c BY <3>1 DEF RegistryInv, RegistryTypeOK
    <3>6. Intents'
      BY <3>1, <3>4, <3>5 DEF RegistryInv, Intents, Updating, WellShaped
    <3> QED BY <3>3, <3>6
  <2>2. CASE AskDelete(o)
    <3>1. PICK e \in Entry :
            intent' = [intent EXCEPT ![o] = [kind |-> "delete", entry |-> e]]
      BY <2>2 DEF AskDelete
    <3> QED BY <3>1 DEF RegistryInv, RegistryTypeOK, Intent, Intents, Updating
  <2>3. CASE Drop(o)
    BY <2>3 DEF Drop, Answered, RegistryInv, RegistryTypeOK, Intents, Updating
  <2> QED BY <2>1, <2>2, <2>3
<1> QED BY <1>1, <1>2
    DEF RegistryInv, RegistryTypeOK, OneActiveMapping, Unique, Live, EntriesAreWellShaped,
        StatusIsAsAsked, DeletedStaysDeleted

LEMMA SetupStep ==
  RegistryInv /\ (Redefine \/ DropIndex \/ BuildIndex \/ AbortSetup) => RegistryInv'
<1> SUFFICES ASSUME RegistryInv, Redefine \/ DropIndex \/ BuildIndex \/ AbortSetup
             PROVE  RegistryInv'
  OBVIOUS
<1>1. UNCHANGED << entries, asked, deleted, intent >>
  BY DEF Redefine, DropIndex, BuildIndex, AbortSetup
<1>2. RegistryTypeOK' BY <1>1
  DEF RegistryInv, RegistryTypeOK, Redefine, DropIndex, BuildIndex, AbortSetup, Built
<1>3. Unique' <=> Unique BY <1>1 DEF Unique, Live
<1>4. OneActiveMapping'
  BY <1>3 DEF RegistryInv, OneActiveMapping, Redefine, DropIndex, BuildIndex, AbortSetup,
              Built
<1> QED BY <1>1, <1>2, <1>4
    DEF RegistryInv, EntriesAreWellShaped, StatusIsAsAsked, DeletedStaysDeleted, Intents,
        Updating

LEMMA RegistryInvStep == RegistryInv /\ [RegistryNext]_registryVars => RegistryInv'
<1> SUFFICES ASSUME RegistryInv, [RegistryNext]_registryVars PROVE RegistryInv'
  OBVIOUS
<1>1. CASE CreateEntry BY <1>1, CreateEntryStep
<1>2. CASE SetStatus BY <1>2, StatusStep
<1>3. ASSUME NEW o \in Handler, Handle(o) PROVE RegistryInv'
  BY <1>3, StoreStep, DeleteStep, ReadStep DEF Handle
<1>4. CASE Redefine \/ DropIndex \/ BuildIndex \/ AbortSetup BY <1>4, SetupStep
<1>5. CASE UNCHANGED registryVars
  BY <1>5 DEF registryVars, RegistryInv, RegistryTypeOK, OneActiveMapping, Unique, Live,
              EntriesAreWellShaped, StatusIsAsAsked, DeletedStaysDeleted, Intents,
              Updating
<1> QED BY <1>1, <1>2, <1>3, <1>4, <1>5 DEF RegistryNext

LEMMA RegistryInvariance == RegistrySpec => []RegistryInv
  BY RegistryInitially, RegistryInvStep, PTL DEF RegistrySpec

-----------------------------------------------------------------------------
(***************************************************************************)
(* Registry: theorems                                                      *)
(***************************************************************************)
(* The collection and the requests being handled hold what they should.    *)
THEOREM RegistryTypeCorrect == RegistrySpec => []RegistryTypeOK
  BY RegistryInvariance, PTL DEF RegistryInv

(* As long as the index exists, a repository has one active mapping.       *)
THEOREM OneActive == RegistrySpec => []OneActiveMapping
  BY RegistryInvariance, PTL DEF RegistryInv

(* No interleaving of partial updates stores an entry whose default branch *)
(* its allowed branches do not cover.                                      *)
THEOREM WellShapedEntries == RegistrySpec => []EntriesAreWellShaped
  BY RegistryInvariance, PTL DEF RegistryInv

(* No edit in flight undoes a deactivation or a reactivation.              *)
THEOREM StatusAsAsked == RegistrySpec => []StatusIsAsAsked
  BY RegistryInvariance, PTL DEF RegistryInv

(* No edit in flight brings a removed entry back.                          *)
THEOREM DeletedForGood == RegistrySpec => []DeletedStaysDeleted
  BY RegistryInvariance, PTL DEF RegistryInv

(* No step removes an active mapping.                                      *)
THEOREM LiveKept == RegistrySpec => LiveIsNeverDeleted
<1>1. RegistryInv /\ [RegistryNext]_registryVars => \A e \in Entry : Live(e) => entries'[e] # NoEntry
  <2> SUFFICES ASSUME RegistryInv, [RegistryNext]_registryVars, NEW e \in Entry, Live(e),
                      entries'[e] = NoEntry
               PROVE  FALSE
    OBVIOUS
  <2>1. RegistryInv' BY RegistryInvStep
  <2>2. entries[e] # NoEntry /\ entries[e].status = "active" BY DEF Live
  <2>3. ~CreateEntry BY <2>2 DEF CreateEntry, Fresh, RegistryInv, RegistryTypeOK
  <2>4. ~SetStatus
    <3> SUFFICES ASSUME SetStatus PROVE FALSE
      OBVIOUS
    <3>1. PICK d \in Entry, s \in {"active", "inactive"} :
            entries[d] # NoEntry /\ entries' = [entries EXCEPT ![d].status = s]
      BY DEF SetStatus
    <3>2. entries[d] \in Entries BY <3>1 DEF RegistryInv, RegistryTypeOK
    <3>3. [entries[d] EXCEPT !.status = s] \in Entries BY <3>2 DEF Entries
    <3>4. [entries[d] EXCEPT !.status = s] # NoEntry BY <3>3
    <3> QED BY <2>2, <3>1, <3>4 DEF RegistryInv, RegistryTypeOK
  <2>5. ASSUME NEW o \in Handler PROVE ~Store(o)
    <3> SUFFICES ASSUME Store(o) PROVE FALSE
      OBVIOUS
    <3> DEFINE d == intent[o].entry
    <3>1. d \in Entry /\ Updating(o)
      BY DEF Store, RegistryInv, RegistryTypeOK, Updating, Intent
    <3>2. entries' = IF entries[d] = NoEntry THEN entries
                     ELSE [entries EXCEPT ![d] = Updated(entries[d], intent[o])]
      BY <3>1 DEF Store, RegistryInv, RegistryTypeOK
    <3>3. entries[d] # NoEntry => Updated(entries[d], intent[o]) # NoEntry
      BY <3>1, UpdatedType DEF RegistryInv, RegistryTypeOK
    <3> QED BY <2>2, <3>1, <3>2, <3>3 DEF RegistryInv, RegistryTypeOK
  <2>6. ASSUME NEW o \in Handler PROVE ~Delete(o)
    <3> SUFFICES ASSUME Delete(o) PROVE FALSE
      OBVIOUS
    <3>1. intent[o].entry \in Entry
      BY DEF Delete, Deleting, RegistryInv, RegistryTypeOK, Intent
    <3> QED BY <2>2, <3>1 DEF Delete, Remove, RegistryInv, RegistryTypeOK
  <2>7. UNCHANGED entries
    BY <2>3, <2>4, <2>5, <2>6
    DEF RegistryNext, Handle, Edit, AskDelete, Drop, Redefine, DropIndex, BuildIndex,
        AbortSetup, registryVars
  <2> QED BY <2>2, <2>7
<1>2. RegistryInv /\ [RegistryNext]_registryVars =>
        [\A e \in Entry : Live(e) => entries'[e] # NoEntry]_registryVars
  BY <1>1
<1> QED BY <1>2, RegistryInvariance, PTL DEF RegistrySpec, LiveIsNeverDeleted
=============================================================================
