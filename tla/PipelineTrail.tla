---------------------------- MODULE PipelineTrail ----------------------------
(***************************************************************************)
(* The trail of documents one ticket leaves, stage after stage, and the    *)
(* three things that look at all of it: the loops that extend it, the      *)
(* purge that erases a test ticket, and the run status, which is computed  *)
(* from it one read after the other.                                       *)
(*                                                                         *)
(* Every stage has the same shape here: a loop reads a parent and what its *)
(* checks need, works, and inserts the child its parent does not have yet. *)
(* What happens inside a stage is the subject of the other modules: here   *)
(* the registry goes on granting the repository and no approval lapses.    *)
(* There is one ticket, one instance of the service, and one purge and one *)
(* status request at a time.                                               *)
(***************************************************************************)
EXTENDS Naturals, FiniteSetsExt, Sequences

CONSTANTS
  Named,          \* the identifiers by which webhooks name the ticket
  MaxArrivals,    \* how many webhooks and proposals there are, together
  MaxPurges,      \* how often a purge is asked for
  MaxRaces,       \* how many documents are inserted across a purge
  MaxUpsets,      \* how many items, purges or instances are lost, races included
  None            \* nothing in hand

ASSUME NamedAssumption == Named \subseteq {"issueKey", "cfKey"}
ASSUME BoundsAssumption ==
  {MaxArrivals, MaxPurges, MaxRaces, MaxUpsets} \subseteq Nat

VARIABLES
  docs,       \* the ticket's documents, in all collections
  hand,       \* what each loop and the coding agent request work on
  purge,      \* the latest purge request
  raced,      \* history: how many documents were inserted across a purge
  view,       \* the latest status request
  witnessed,  \* history: the stages its run has been in meanwhile
  deliveries, reviews, purges, upsets    \* how many there have been

store    == << docs, raced >>
counters == << deliveries, reviews, purges, upsets >>
vars     == << store, counters, hand, purge, view, witnessed >>

Kind == {"delivery", "item", "analysis", "run", "selection", "review",
         "execution", "publication", "deployment"}
Loop == {"enrichment", "requirements", "orchestrator", "selection", "pipeline",
         "agent"}

\* What each loop makes.  The pipeline loop goes through its four stages again
\* and again; the last makes no document but the outcome of one.
Makes ==
  [enrichment |-> {"item"}, requirements |-> {"analysis"}, orchestrator |-> {"run"},
   selection |-> {"selection"}, agent |-> {"review"},
   pipeline |-> {"execution", "publication", "deployment", "verdict"}]

\* What each is made from.
Source ==
  [item |-> "delivery", analysis |-> "item", run |-> "item", selection |-> "run",
   review |-> "run", execution |-> "review", publication |-> "execution",
   deployment |-> "publication", verdict |-> "deployment"]

Status ==
  {"pending", "enriched", "received", "pending_approval", "approved", "rejected",
   "completed", "queued", "failed", "selected", "succeeded", "published",
   "eligible", "closed_unmerged", "running", "unvalidated"}
Closed == {"eligible", "closed_unmerged"}
ChainKind == {"selection", "review", "execution", "publication", "deployment"}
NoChain == [k \in ChainKind |-> "none"]

NoPurge == [step |-> 0, item |-> 0, runs |-> {}, clean |-> TRUE, answer |-> "none"]
NoView  == [at |-> "idle", run |-> 0, review |-> 0, from |-> 0, chain |-> NoChain]

Init ==
  /\ docs = [k \in Kind |-> {}] /\ raced = 0
  /\ hand = [w \in Loop |-> None]
  /\ purge = NoPurge
  /\ view = NoView /\ witnessed = {}
  /\ deliveries = 0 /\ reviews = 0 /\ purges = 0 /\ upsets = 0

-----------------------------------------------------------------------------
(***************************************************************************)
(* The documents                                                           *)
(***************************************************************************)
Of(k) == docs[k]
Busy == {w \in Loop : hand[w] # None}
Children(k, p) == {d \in Of(k) : d.parent = p}
Has(k, id, statuses) == \E d \in Of(k) : d.id = id /\ d.status \in statuses
Exists(k, id) == Has(k, id, Status)

\* findLatestByRunId: reviews are numbered in the order they were created.
Latest(v) == \A d \in Children("review", v.parent) : d.id <= v.id

\* The unique indexes: one item per issue key, one child per parent.  A review
\* is unique by its content only.
Taken(k, p) ==
  CASE k = "item" -> Of("item") # {}
    [] k = "review" -> FALSE
    [] OTHER -> Children(k, p) # {}

\* What is written to the parent once the child is there: markEnriched, and
\* the transition of the item that was analysed.
Followed(k, d) ==
  CASE k = "item" -> [d EXCEPT !.status = "enriched"]
    [] k = "analysis" /\ d.status = "received" -> [d EXCEPT !.status = "pending_approval"]
    [] OTHER -> d
WithFollow(k, p) ==
  IF k \notin {"item", "analysis"} THEN docs
  ELSE [docs EXCEPT ![Source[k]] = {IF d.id = p THEN Followed(k, d) ELSE d : d \in @}]

\* Ids are never used again: a new one is above all that anything refers to.
Referred(k) ==
  UNION {{d.id : d \in Of(k)},
         UNION {{d.parent : d \in Of(c)} : c \in {x \in Kind : x # "delivery" /\ Source[x] = k}},
         {hand[w].from : w \in {x \in Busy : Source[hand[x].makes] = k}},
         IF k = "run" THEN (UNION {{d.run : d \in Of(c)} : c \in Kind})
                           \cup {hand[w].run : w \in Busy} \cup purge.runs \cup {view.run}
                      ELSE {},
         IF k = "item" THEN {purge.item} ELSE {},
         IF k = "review" THEN {view.review} ELSE {},
         IF view.at \in ChainKind /\ Source[view.at] = k THEN {view.from} ELSE {}}
Fresh(k) == 1 + Max({0} \cup Referred(k))

\* A webhook names the ticket by its issue key or by the customer-facing one;
\* every later document has the issue key.
Keys(k) == IF k = "delivery" THEN Named ELSE {"issueKey"}

\* A new document; an execution and what comes after carry the run's id too.
Insert(k, p, r, s, stale) ==
  LET id == Fresh(k)
      d(key) == [id |-> id, parent |-> p, run |-> IF k = "run" THEN id ELSE r,
                 status |-> s, pull |-> "open", key |-> key]
  IN  /\ \E key \in Keys(k) : docs' = [WithFollow(k, p) EXCEPT ![k] = @ \cup {d(key)}]
      /\ IF stale \/ purge.step # 0
           THEN raced < MaxRaces /\ raced' = raced + 1 /\ view' = NoView
           ELSE UNCHANGED << raced, view >>
      /\ purge' = [purge EXCEPT !.clean = FALSE]

Mark(k, id, s) ==
  docs' = [docs EXCEPT ![k] = {IF d.id = id THEN [d EXCEPT !.status = s] ELSE d : d \in @}]

-----------------------------------------------------------------------------
(***************************************************************************)
(* The loops                                                               *)
(***************************************************************************)
\* authorizeRepositoryAccess: the repository of a confirmed selection.
Authorized(r) ==
  \E s \in Children("selection", r) : s.status = "selected"

\* validateAndAuthorize: the run, its own item, and the repository.
Accessible(r) ==
  /\ \E d \in Of("run") : d.id = r /\ Has("item", d.parent, {"approved"})
  /\ Authorized(r)

\* Mutated form of Decided: only a merge is recorded.
DecidedWhenMerged(p) == p.pull = "eligible"

\* detectMerge: an open pull request is looked at again in the next pass.
Decided(p) == p.pull # "open"

\* May a k be made from d, as far as the loop's reads can tell?
Ready(k, d) ==
  CASE k = "item" -> d.status = "pending"
    [] k = "analysis" -> d.status = "received"
    [] k = "run" -> d.status = "approved"
    [] k = "selection" -> Of("item") # {}
    [] k = "review" ->
         /\ Accessible(d.id)
         /\ \E a \in Children("analysis", d.parent) : a.status = "completed"
    [] k = "execution" ->
         d.status = "approved" /\ Latest(d) /\ Accessible(d.run)
    [] k = "publication" ->
         /\ d.status = "succeeded" /\ Authorized(d.run)
         /\ \E v \in Of("review") : v.id = d.parent /\ v.status = "approved" /\ Latest(v)
    [] k = "deployment" ->
         d.status = "published" /\ Authorized(d.run) /\ Decided(d)
    [] k = "verdict" -> d.status = "eligible"

Job(k, d) ==
  [makes |-> k, from |-> d.id, run |-> d.run, pull |-> d.pull, stale |-> FALSE]

\* A pass over the requirements goes on to advance an item that was analysed
\* before; every other loop passes over what has its child.
PassedOver(k, d) == k \notin {"item", "analysis", "verdict"} /\ Taken(k, d.id)

\* One item of a loop's pass, or the coding agent's request.  The deployment
\* stage claims the row, eligible -> running.
Pick(w) ==
  /\ hand[w] = None
  /\ IF w = "agent" THEN deliveries + reviews < MaxArrivals /\ reviews' = reviews + 1
                    ELSE UNCHANGED reviews
  /\ \E k \in Makes[w] : \E d \in Of(Source[k]) :
       /\ Ready(k, d) /\ ~PassedOver(k, d)
       /\ hand' = [hand EXCEPT ![w] = Job(k, d)]
       /\ IF k = "verdict" THEN Mark("deployment", d.id, "running") ELSE UNCHANGED docs
  /\ UNCHANGED << raced, deliveries, purges, upsets, purge, view >>

\* The status a new document starts with.
Born(j) ==
  CASE j.makes = "item" -> {"received"}
    [] j.makes = "analysis" -> {"completed"}
    [] j.makes = "run" -> {"queued"}
    [] j.makes = "selection" -> {"pending", "failed"}
    [] j.makes = "review" -> {"pending"}
    [] j.makes = "execution" -> {"succeeded", "failed"}
    [] j.makes = "publication" -> {"published", "failed"}
    [] j.makes = "deployment" -> {j.pull}

Repeatable(j) == j.makes = "review" /\ Children("review", j.from) # {}

\* createIfAbsent, with the parent as it was read, and the write that follows.
\* The coding agent may also propose what it proposed before.
Create(w) ==
  /\ hand[w] # None /\ hand[w].makes # "verdict"
  /\ LET j == hand[w] IN
     \/ /\ ~Taken(j.makes, j.from)
        /\ \E s \in Born(j) : Insert(j.makes, j.from, j.run, s, j.stale)
     \/ /\ Taken(j.makes, j.from) \/ Repeatable(j)
        /\ docs' = WithFollow(j.makes, j.from)
        /\ UNCHANGED << raced, purge, view >>
  /\ hand' = [hand EXCEPT ![w] = None]
  /\ UNCHANGED counters

\* markSucceeded, with its validation, or markFailed.
Deploy ==
  /\ hand["pipeline"] # None /\ hand["pipeline"].makes = "verdict"
  /\ \E s \in {"succeeded", "unvalidated", "failed"} :
       Mark("deployment", hand["pipeline"].from, s)
  /\ hand' = [hand EXCEPT !["pipeline"] = None]
  /\ UNCHANGED << raced, counters, purge, view >>

\* recordMatchResult: a failed match is retried and finds a repository.
Rematch(s) ==
  /\ s \in Of("selection") /\ s.status = "failed"
  /\ Mark("selection", s.id, "pending")
  /\ UNCHANGED << raced, counters, hand, purge, view >>

-----------------------------------------------------------------------------
(***************************************************************************)
(* The purge of a test ticket                                              *)
(***************************************************************************)
\* Mutated form of PurgeOrder: the ticket first.
TicketFirst ==
  << "item", "delivery", "analysis", "run", "selection", "review", "execution",
     "publication", "deployment" >>

\* "Latest stage first, the ticket itself last."
PurgeOrder ==
  << "deployment", "publication", "execution", "review", "selection", "run",
     "analysis", "delivery", "item" >>

Answer(a) == purge' = [NoPurge EXCEPT !.clean = purge.clean, !.answer = a]

Ticketed == Of("run") \cup Of("selection")

\* Mutated form of BeginPurge: without an item there is nothing to delete.
BeginPurgeOfItem ==
  /\ purge.step = 0 /\ purges < MaxPurges
  /\ purges' = purges + 1
  /\ \/ /\ Of("item") = {}
        /\ purge' = [NoPurge EXCEPT !.answer = "not_found"]
     \/ \E i \in Of("item") :
          purge' = [NoPurge EXCEPT !.step = 1, !.item = i.id,
                                   !.runs = {d.run : d \in Ticketed}]
  /\ UNCHANGED << store, deliveries, reviews, upsets, hand, view >>

\* The runs and selections are found by issue key, those an earlier purge has
\* left without their item included; the three reads are one step.  A purge that
\* lacks a permission deletes nothing at all and is left out.
BeginPurge ==
  /\ purge.step = 0 /\ purges < MaxPurges
  /\ purges' = purges + 1
  /\ purge' = IF Of("item") \cup Ticketed = {}
                THEN [NoPurge EXCEPT !.answer = "not_found"]
                ELSE [NoPurge EXCEPT !.step = 1, !.runs = {d.run : d \in Ticketed},
                        !.item = IF Of("item") = {} THEN 0
                                 ELSE (CHOOSE d \in Of("item") : TRUE).id]
  /\ UNCHANGED << store, deliveries, reviews, upsets, hand, view >>

\* Only the item tells the purge the customer-facing key.
Doomed(k, d) ==
  CASE k \in {"deployment", "publication", "execution", "review"} ->
         d.run \in purge.runs
    [] k = "item" -> d.id = purge.item
    [] k = "delivery" -> purge.item # 0 \/ d.key = "issueKey"
    [] OTHER -> TRUE

\* deleteMany on one collection: what is in hand was read before it.  The audit
\* entry of the last one says whether the ticket was orphaned.
Sweep ==
  /\ purge.step > 0
  /\ LET k == PurgeOrder[purge.step]
     IN  docs' = [docs EXCEPT ![k] = {d \in @ : ~Doomed(k, d)}]
  /\ hand' = [w \in Loop |->
                IF hand[w] = None THEN None ELSE [hand[w] EXCEPT !.stale = TRUE]]
  /\ IF purge.step = Len(PurgeOrder)
       THEN Answer(IF purge.item = 0 THEN "orphaned" ELSE "purged")
       ELSE purge' = [purge EXCEPT !.step = @ + 1]
  /\ UNCHANGED << raced, counters, view >>

-----------------------------------------------------------------------------
(***************************************************************************)
(* The run status                                                          *)
(***************************************************************************)
\* computeRunStatus, of a run that is neither failed nor cancelled: no code
\* makes one so.
StageOf(c) ==
  CASE c.publication = "published" /\ c.deployment # "none" ->
         (CASE c.deployment = "closed_unmerged" -> "pr_closed_unmerged"
            [] c.deployment = "eligible" -> "deployment_eligible"
            [] c.deployment = "running" -> "deploying"
            [] c.deployment = "failed" -> "deployment_failed"
            [] c.deployment = "unvalidated" -> "deployment_validation_failed"
            [] OTHER -> "deployed")
    [] c.publication = "published" /\ c.deployment = "none" -> "awaiting_human_merge"
    [] c.publication = "failed" -> "publish_failed"
    [] c.publication = "none" ->
         (CASE c.execution = "succeeded" -> "publishing"
            [] c.execution = "failed" -> "execution_failed"
            [] c.execution = "none" ->
                 (CASE c.review = "approved" -> "executing"
                    [] c.review = "rejected" -> "change_rejected"
                    [] c.review = "pending" -> "change_review"
                    [] c.review = "none" ->
                         (CASE c.selection = "selected" -> "repository_confirmed"
                            [] c.selection = "pending" -> "repository_selection"
                            [] c.selection = "failed" -> "repository_selection_failed"
                            [] OTHER -> "queued")))

BeginView(r) ==
  /\ view.at = "idle" /\ raced = 0 /\ Exists("run", r)
  /\ view' = [NoView EXCEPT !.at = "selection", !.run = r]
  /\ UNCHANGED << store, counters, hand, purge >>

NextRead == [selection |-> "review", review |-> "execution",
             execution |-> "publication", publication |-> "deployment",
             deployment |-> "answered"]

\* The document the next read looks for.
Lookup(k) ==
  CASE k = "selection" -> Children(k, view.run)
    [] k = "review" -> {v \in Children(k, view.run) : Latest(v)}
    [] OTHER -> Children(k, view.from)

Answered(v) == [NoView EXCEPT !.at = "answered", !.chain = v.chain]

\* One read of loadRunStatusView; where nothing is found, the rest is null.
ReadNext ==
  /\ view.at \in ChainKind
  /\ LET k == view.at
         found == Lookup(k)
         d == CHOOSE x \in found : TRUE
         read == [view EXCEPT !.at = NextRead[k], !.from = d.id,
                              !.review = IF k = "review" THEN d.id ELSE @,
                              !.chain = [IF k = "review" THEN NoChain ELSE @
                                           EXCEPT ![k] = d.status]]
     IN  view' = IF found = {}
                   THEN IF k = "selection" THEN [view EXCEPT !.at = "review"]
                                           ELSE Answered(view)
                   ELSE IF k = "deployment" THEN Answered(read) ELSE read
  /\ UNCHANGED << store, counters, hand, purge >>

EndView ==
  /\ view.at = "answered"
  /\ view' = NoView
  /\ UNCHANGED << store, counters, hand, purge >>

\* The chain below review v of run r as it is now; v is 0 for no review.
StatusIn(S) == IF S = {} THEN "none" ELSE (CHOOSE d \in S : TRUE).status
After(k, S) == {d \in Of(k) : \E p \in S : d.parent = p.id}
ChainNow(r, v) ==
  LET review == {d \in Children("review", r) : d.id = v}
      execution == After("execution", review)
      publication == After("publication", execution)
  IN  [selection |-> StatusIn(Children("selection", r)),
       review |-> StatusIn(review),
       execution |-> StatusIn(execution),
       publication |-> StatusIn(publication),
       deployment |-> StatusIn(After("deployment", publication))]

\* The stage the status request could rightly report now: that of the review
\* it has read or, as long as the run has none, of the run.
Present ==
  IF \/ view.at = "selection"
     \/ view.review = 0 /\ Children("review", view.run) # {}
     \/ view.review # 0 /\ ~Exists("review", view.review)
    THEN {}
    ELSE {StageOf(ChainNow(view.run, view.review))}

\* A read changes nothing, so the answer is compared with the stages up to the
\* last one.
Witness ==
  witnessed' =
    CASE view'.at = "idle" -> {}
      [] view'.at = "answered" -> witnessed \cap {StageOf(view'.chain)}
      [] OTHER -> (IF view'.review = view.review THEN witnessed ELSE {}) \cup Present'

-----------------------------------------------------------------------------
(***************************************************************************)
(* Webhooks, operators and upsets                                          *)
(***************************************************************************)
Arrive ==
  /\ deliveries + reviews < MaxArrivals
  /\ deliveries' = deliveries + 1
  /\ Insert("delivery", 0, 0, "pending", FALSE)
  /\ UNCHANGED << reviews, purges, upsets, hand >>

\* The three gates: a conditional update of the status.
Decide(k, from, to) ==
  /\ \E d \in Of(k) : d.status = from /\ Mark(k, d.id, to)
  /\ UNCHANGED << raced, counters, hand, purge, view >>

Gates ==
  \/ \E s \in {"approved", "rejected"} :
       Decide("item", "pending_approval", s) \/ Decide("review", "pending", s)
  \/ Decide("selection", "pending", "selected")

\* A pull request is merged, or closed without.
ClosePull(d) ==
  /\ d \in Of("publication") /\ d.status = "published" /\ d.pull = "open"
  /\ \E o \in Closed : docs' = [docs EXCEPT !["publication"] = (@ \ {d}) \cup {[d EXCEPT !.pull = o]}]
  /\ UNCHANGED << raced, counters, hand, purge, view >>

\* A loss; the documents inserted across a purge count towards its bound.
Upset == raced + upsets < MaxUpsets /\ upsets' = upsets + 1

\* A thrown error ends one item or one purge.
Throw ==
  /\ Upset
  /\ \/ \E w \in Loop : hand[w] # None /\ hand' = [hand EXCEPT ![w] = None]
        /\ UNCHANGED purge
     \/ purge.step # 0 /\ Answer("none") /\ UNCHANGED hand
  /\ UNCHANGED << store, deliveries, reviews, purges, view >>

\* A crash ends all of them.
Crash ==
  /\ Upset
  /\ hand' = [w \in Loop |-> None]
  /\ IF purge.step = 0 THEN UNCHANGED purge ELSE Answer("none")
  /\ view' = NoView
  /\ UNCHANGED << store, deliveries, reviews, purges >>

-----------------------------------------------------------------------------
Working(w) == Pick(w) \/ Create(w) \/ (w = "pipeline" /\ Deploy)
Purging == BeginPurge \/ Sweep
Viewing == ReadNext \/ EndView \/ \E d \in Of("run") : BeginView(d.id)
Outside ==
  \/ Arrive \/ Gates \/ Throw \/ Crash
  \/ (\E d \in Of("selection") : Rematch(d)) \/ \E d \in Of("publication") : ClosePull(d)

Next ==
  /\ (\E w \in Loop : Working(w)) \/ Purging \/ Viewing \/ Outside
  /\ Witness

\* The interval timers of the loops keep firing and each pass awaits its
\* items; nothing is assumed of requests, operators and webhooks.  That the loops
\* do not all stand still is enough: none of them finds work for ever.
Fairness == WF_hand(\E w \in Loop \ {"agent"} : Working(w))

Spec == Init /\ [][Next]_vars /\ Fairness

-----------------------------------------------------------------------------
(***************************************************************************)
(* Properties                                                              *)
(***************************************************************************)
TypeOK ==
  /\ DOMAIN docs = Kind
  /\ \A k \in Kind : \A d \in docs[k] :
       /\ d.id \in Nat \ {0} /\ d.pull \in Closed \cup {"open"}
       /\ d.parent \in Nat /\ d.run \in Nat /\ d.status \in Status
       /\ d.key \in Named \cup {"issueKey"}
  /\ raced \in 0 .. MaxRaces
  /\ \A w \in Loop : hand[w] # None =>
       hand[w] \in [makes : DOMAIN Source, from : Nat, run : Nat,
                    pull : Closed \cup {"open"}, stale : BOOLEAN]
  /\ purge.step \in 0 .. Len(PurgeOrder)
  /\ view.at \in ChainKind \cup {"idle", "answered"}
  /\ deliveries \in 0 .. MaxArrivals /\ reviews \in 0 .. MaxArrivals
  /\ upsets \in 0 .. MaxUpsets /\ purges \in 0 .. MaxPurges

\* The state a parent was in when a child could be made, which it never leaves.
Behind ==
  [item |-> {"pending", "enriched"}, analysis |-> Status, run |-> {"approved"},
   selection |-> {"queued"}, review |-> {"queued"}, execution |-> {"approved"},
   publication |-> {"succeeded"}, deployment |-> {"published"}]

\* "An interrupted purge leaves a shorter pipeline, never an orphaned later
\* stage" (intake/test-purge.ts:21-22), and the loops build on from there: a
\* document that was not inserted across a purge has its parent, and the parent
\* has passed its gate.
TrailIsWhole ==
  raced = 0 =>
    /\ \A k \in Kind \ {"delivery", "item"} : \A d \in Of(k) :
         Has(Source[k], d.parent, Behind[k])
    /\ \A v \in Of("review") : \A s \in Children("selection", v.run) : s.status = "selected"

\* A purge that answered, and nothing was inserted since it began, has left no
\* trace of the ticket, whatever earlier purges left half done
\* (intake/test-purge.ts:52-54) - but for documents a loop inserted across one
\* of those, which nothing leads to any more, and for deliveries: those named by
\* the customer-facing key if the item was gone already, and all of them if
\* nothing was found.
PurgeClears ==
  purge.clean /\ purge.answer # "none" =>
    /\ Of("item") \cup Of("run") \cup Of("selection") = {}
    /\ purge.answer \in {"purged", "orphaned"} =>
         Of("analysis") = {} /\ \A d \in Of("delivery") : d.key # "issueKey"
    /\ purge.answer = "purged" => Of("delivery") = {}
    /\ raced = 0 => \A k \in Kind \ {"delivery"} : Of(k) = {}

\* The status is put together from up to six reads (api/run-status.ts:107-115)
\* while the loops, operators and a purge change what they read: the stage it
\* reports is one the run really was in while they were made, as far as the
\* review it names is concerned.
StageWasCurrent ==
  view.at = "answered" => StageOf(view.chain) \in witnessed

\* A stage in which the service waits for a person, or has nothing left to do.
Moving == {"queued", "executing", "publishing", "deployment_eligible", "deploying"}
AtRest(r) ==
  LET latest == {v \in Children("review", r) : Latest(v)}
      stage == StageOf(ChainNow(r, IF latest = {} THEN 0
                                   ELSE (CHOOSE v \in latest : TRUE).id))
  IN  /\ stage \notin Moving
      /\ stage = "awaiting_human_merge" =>
           \E p \in Of("publication") : p.run = r /\ p.status = "published" /\ p.pull = "open"

\* No purge is under way or has been raced, and no deployment was claimed by a
\* pass that was lost: it stays "deploying".
Undisturbed ==
  /\ purge.step = 0 /\ raced = 0
  /\ \A d \in Of("deployment") : d.status = "running" =>
       hand["pipeline"] # None /\ hand["pipeline"].makes = "verdict"

\* No run is left between two stages: whatever was interrupted before - a loop,
\* a purge, the whole service - each run comes to a stage that asks a person or
\* is an end (pipeline/scheduler.ts).
ComesToRest ==
  <>[]Undisturbed => <>[](\A d \in Of("run") : AtRest(d.id))
=============================================================================
