-------------------------- MODULE WebhookDelivery --------------------------
(***************************************************************************)
(* Webhook ingest and enrichment.  POST /ingest records an authenticated   *)
(* body once, under the hash of its bytes, and answers; the sender does    *)
(* not retry.  The enrichment loop of every instance lists the deliveries  *)
(* that are due, fetches the ticket each one names, creates the intake     *)
(* item and settles the delivery, or schedules a retry with a doubling     *)
(* wait until the attempts are used up.                                    *)
(*                                                                         *)
(* A request refused before its signature is verified, and one answered    *)
(* 503 because the database is away, write nothing and are no step here.   *)
(***************************************************************************)
EXTENDS Naturals, FiniteSets

CONSTANTS
  Body,         \* request bodies; a delivery is known by its body's hash
  Ticket,       \* tickets of the tracker
  Class,        \* the status each body is recorded with
  Trackers,     \* what the tracker may hold
  Request,      \* requests being served
  Worker,       \* instances of the service, each with an enrichment loop
  Limit,        \* the batch limit of a pass
  MaxAttempts,  \* maxAttempts of a delivery
  RetryMax,     \* the longest wait, in units of the shortest
  MaxAborts,    \* how many items or passes may be lost
  None          \* no delivery

\* A ticket answers to its canonical key and to its customer-facing one.
Key == Ticket \X {"key", "cfKey"}
Recordable == {"pending", "ignored", "invalid"}
Failure == {"none", "transient", "permanent"}

Delivery ==
  [status : Recordable \cup {"enriched", "failed"}, attempts : Nat, lastError : Failure]
Listed == [body : Body, attempts : Nat]

ASSUME BodyAssumption == IsFiniteSet(Body)
ASSUME SentinelAssumption == None \notin Body \cup Delivery \cup Listed
ASSUME ClassAssumption == Class \in [Body -> Recordable]
ASSUME TrackerAssumption ==
  Trackers \subseteq [names : [Body -> Key], refused : SUBSET Ticket]
ASSUME WorkerAssumption == IsFiniteSet(Worker)
ASSUME BoundAssumption ==
  /\ Limit \in Nat \ {0} /\ MaxAttempts \in Nat \ {0}
  /\ RetryMax \in Nat \ {0} /\ MaxAborts \in Nat

VARIABLES
  tracker,     \* what the tracker holds, the same throughout
  delivery,    \* webhookDeliveries, by body
  wait,        \* how long until nextAttemptAt, 0 when it is due
  ahead,       \* the deliveries whose nextAttemptAt is no later, and earlier listed
  items,       \* intakeItems: the identifiers that have an item
  accepted,    \* bodies whose sender was answered 2xx, until they expire
  serving,     \* the request's body and where its handler is
  list,        \* the rest of the worker's batch, as it was listed
  job,         \* the delivery it has in hand, as it was listed
  step,        \* what it does next
  aborts

stored == << delivery, wait, ahead, items >>
loop == << list, job, step >>
vars == << tracker, stored, accepted, serving, loop, aborts >>

Step == {"next", "retry", "abandon", "fail", "create", "settle"}

\* The identifier by which each body names its ticket, and the tickets whose
\* item the collection's validator refuses.
Names == tracker.names
Refused == tracker.refused

Canonical(k) == << k[1], "key" >>
Recorded(b) == delivery[b] # None
Pending(b) == Recorded(b) /\ delivery[b].status = "pending"
Settled(b) == Recorded(b) /\ delivery[b].status \in {"enriched", "failed"}

Init ==
  /\ tracker \in Trackers
  /\ delivery = [b \in Body |-> None]
  /\ wait = [b \in Body |-> 0]
  /\ ahead = [b \in Body |-> {}]
  /\ items = {} /\ accepted = {}
  /\ serving = [r \in Request |-> << None, "idle" >>]
  /\ list = [w \in Worker |-> {}]
  /\ job = [w \in Worker |-> None]
  /\ step = [w \in Worker |-> "next"]
  /\ aborts = 0

\* b is put behind all that are due no later than in t.
Behind(b, t) == {c \in Body \ {b} : Pending(c) /\ wait[c] <= t}
DueIn(b, t) ==
  /\ wait' = [wait EXCEPT ![b] = t]
  /\ ahead' = [c \in Body |->
       CASE c = b -> Behind(b, t)
         [] c # b /\ Pending(c) /\ wait[c] > t -> ahead[c] \cup {b}
         [] OTHER -> ahead[c] \ {b}]
NotDue(b) ==
  /\ wait' = [wait EXCEPT ![b] = 0]
  /\ ahead' = [c \in Body |-> IF c = b THEN {} ELSE ahead[c] \ {b}]

-----------------------------------------------------------------------------
(***************************************************************************)
(* POST /ingest                                                            *)
(***************************************************************************)
\* The body is read, its signature verified and its class decided.
Receive(r, b) ==
  /\ serving[r][2] = "idle"
  /\ serving' = [serving EXCEPT ![r] = << b, "record" >>]
  /\ UNCHANGED << stored, accepted, loop, aborts >>

Answer(r, b) ==
  /\ accepted' = accepted \cup {b}
  /\ serving' = [serving EXCEPT ![r] = << None, "idle" >>]
\* 503: the sender drops the event.
Refuse(r) == serving' = [serving EXCEPT ![r] = << None, "idle" >>]

Inserted(b) ==
  /\ delivery' = [delivery EXCEPT ![b] =
       [status |-> Class[b], attempts |-> 0, lastError |-> "none"]]
  /\ IF Class[b] = "pending" THEN DueIn(b, 0) ELSE UNCHANGED << wait, ahead >>
  /\ UNCHANGED items

\* insertOne, unique on deliveryId; anything but a duplicate is a 503.
Record(r) ==
  \E b \in Body :
    /\ serving[r] = << b, "record" >>
    /\ \/ /\ ~Recorded(b) /\ Inserted(b)
          /\ serving' = [serving EXCEPT ![r] = << b, "audit" >>]
       \/ /\ Recorded(b) /\ UNCHANGED stored
          /\ serving' = [serving EXCEPT ![r] = << b, "existing" >>]
       \/ Refuse(r) /\ UNCHANGED stored
    /\ UNCHANGED << accepted, loop, aborts >>

\* The duplicate's record is read back; it may have expired meanwhile.
Existing(r) ==
  \E b \in Body :
    /\ serving[r] = << b, "existing" >>
    /\ IF Recorded(b) THEN Answer(r, b) ELSE Refuse(r) /\ UNCHANGED accepted
    /\ UNCHANGED << stored, loop, aborts >>

\* The audit entry may fail: the delivery is stored and answered all the same.
Audit(r) ==
  \E b \in Body :
    /\ serving[r] = << b, "audit" >>
    /\ Answer(r, b)
    /\ UNCHANGED << stored, loop, aborts >>

-----------------------------------------------------------------------------
(***************************************************************************)
(* The enrichment loop                                                     *)
(***************************************************************************)
\* findPending: what is due, in the order of nextAttemptAt, up to the limit.
Due == {b \in Body : Pending(b) /\ wait[b] = 0}
Batch == {b \in Due : Cardinality(ahead[b] \cap Due) < Limit}

BeginPass(w) ==
  /\ list[w] = {} /\ step[w] = "next"
  /\ list' = [list EXCEPT ![w] =
       {[body |-> b, attempts |-> delivery[b].attempts] : b \in Batch}]
  /\ UNCHANGED << stored, accepted, serving, job, step, aborts >>

Goto(w, s) == step' = [step EXCEPT ![w] = s]
EndItem(w) ==
  /\ step' = [step EXCEPT ![w] = "next"]
  /\ job' = [job EXCEPT ![w] = None]
  /\ UNCHANGED list

\* Mutated form of Exhausted: the failure at hand is counted twice.
ExhaustedEarly(n) == n + 2 >= MaxAttempts
Exhausted(n) == n + 1 >= MaxAttempts

\* Mutated form of Fetched: a fetched delivery is settled before its item.
FetchedSettling(w) == Goto(w, "settle")
Fetched(w) == Goto(w, "create")

\* getIssue: 5xx, 429, a timeout or a transport failure may be retried; any
\* other answer than the ticket asked for may not.
Fetch(w, j) ==
  /\ step[w] = "next" /\ j \in list[w]
  /\ list' = [list EXCEPT ![w] = @ \ {j}]
  /\ job' = [job EXCEPT ![w] = j]
  /\ \/ Fetched(w)
     \/ Goto(w, IF Exhausted(j.attempts) THEN "abandon" ELSE "retry")
     \/ Goto(w, "fail")
  /\ UNCHANGED << stored, accepted, serving, aborts >>

\* Mutated form of Backoff: the failure at hand counts, and there is no cap.
BackoffUncapped(n) == 2^(n + 1)
Backoff(n) == IF 2^n \in 0 .. RetryMax THEN 2^n ELSE RetryMax

\* Mutated form of ScheduleRetry: the attempt is not counted.
ScheduleRetryUncounted(w) ==
  LET b == job[w].body t == Backoff(job[w].attempts) IN
  /\ step[w] = "retry"
  /\ IF Pending(b)
       THEN /\ delivery' = [delivery EXCEPT ![b].lastError = "transient"]
            /\ DueIn(b, t)
       ELSE UNCHANGED << delivery, wait, ahead >>
  /\ EndItem(w)
  /\ UNCHANGED << items, accepted, serving, aborts >>

\* The attempt is counted and the delivery moved behind its new date, the wait
\* doubling with the attempts that were listed.
ScheduleRetry(w) ==
  LET b == job[w].body t == Backoff(job[w].attempts) IN
  /\ step[w] = "retry"
  /\ IF Pending(b)
       THEN /\ delivery' = [delivery EXCEPT ![b].attempts = @ + 1,
                                            ![b].lastError = "transient"]
            /\ DueIn(b, t)
       ELSE UNCHANGED << delivery, wait, ahead >>
  /\ EndItem(w)
  /\ UNCHANGED << items, accepted, serving, aborts >>

\* Mutated form of MarkFailed: the update is not conditional on the status.
MarkFailedBlind(w) ==
  LET b == job[w].body IN
  /\ step[w] \in {"abandon", "fail"}
  /\ delivery' = [delivery EXCEPT ![b] =
       [status |-> "failed", attempts |-> delivery[b].attempts + 1,
        lastError |-> IF step[w] = "fail" THEN "permanent" ELSE "transient"]]
  /\ NotDue(b)
  /\ EndItem(w)
  /\ UNCHANGED << items, accepted, serving, aborts >>

MarkFailed(w) ==
  LET b == job[w].body IN
  /\ step[w] \in {"abandon", "fail"}
  /\ IF Pending(b)
       THEN /\ delivery' = [delivery EXCEPT ![b] =
                 [status |-> "failed", attempts |-> delivery[b].attempts + 1,
                  lastError |-> IF step[w] = "fail" THEN "permanent" ELSE "transient"]]
            /\ NotDue(b)
       ELSE UNCHANGED << delivery, wait, ahead >>
  /\ EndItem(w)
  /\ UNCHANGED << items, accepted, serving, aborts >>

\* intake.create, under the canonical key of the answer and idempotent on it.
\* What asNeutaraIssue lets pass and the validator does not is refused at every
\* pass: the throw leaves the delivery as it is and counts no attempt.
Create(w) ==
  LET k == Canonical(Names[job[w].body]) IN
  /\ step[w] = "create"
  /\ \/ /\ k[1] \in Refused
        /\ EndItem(w) /\ UNCHANGED items
     \/ /\ k[1] \notin Refused
        /\ items' = items \cup {k}
        /\ Goto(w, "settle") /\ UNCHANGED << list, job >>
  /\ UNCHANGED << delivery, wait, ahead, accepted, serving, aborts >>

MarkEnriched(w) ==
  LET b == job[w].body IN
  /\ step[w] = "settle"
  /\ IF Pending(b)
       THEN /\ delivery' = [delivery EXCEPT ![b].status = "enriched",
                                            ![b].lastError = "none"]
            /\ NotDue(b)
       ELSE UNCHANGED << delivery, wait, ahead >>
  /\ EndItem(w)
  /\ UNCHANGED << items, accepted, serving, aborts >>

\* Any call may throw, which drops the item in hand; a crash, or a throw while
\* listing, drops the batch.
Abort(w) ==
  /\ aborts < MaxAborts
  /\ step[w] # "next" \/ list[w] # {}
  /\ aborts' = aborts + 1
  /\ step' = [step EXCEPT ![w] = "next"]
  /\ job' = [job EXCEPT ![w] = None]
  /\ list' = [list EXCEPT ![w] = {}] \/ (step[w] # "next" /\ UNCHANGED list)
  /\ UNCHANGED << stored, accepted, serving >>

-----------------------------------------------------------------------------
(***************************************************************************)
(* The clock and the database's retention                                  *)
(***************************************************************************)
Tick ==
  /\ \E b \in Body : wait[b] > 0
  /\ wait' = [b \in Body |-> IF wait[b] > 0 THEN wait[b] - 1 ELSE 0]
  /\ UNCHANGED << delivery, ahead, items, accepted, serving, loop, aborts >>

InHand(b) ==
  \/ \E w \in Worker :
       \/ job[w] # None /\ job[w].body = b
       \/ \E j \in list[w] : j.body = b
  \/ \E r \in Request : serving[r] = << b, "audit" >>

\* b can be settled, and no more is refused ahead of it than leaves it a place
\* in the batch.
Served(b) ==
  /\ Names[b][1] \notin Refused
  /\ Cardinality({c \in ahead[b] : Names[c][1] \in Refused}) < Limit

\* After 90 days a record is removed.  No pass, answer or wait takes that long:
\* what is pending then is refused, or behind a batch of what is.
Expire(b) ==
  /\ Recorded(b) /\ ~InHand(b)
  /\ Pending(b) => ~Served(b)
  /\ delivery' = [delivery EXCEPT ![b] = None]
  /\ accepted' = accepted \ {b}
  /\ NotDue(b)
  /\ UNCHANGED << items, serving, loop, aborts >>

Serve(r) == Record(r) \/ Existing(r) \/ Audit(r)
Enrich(w) ==
  \/ BeginPass(w) \/ (\E j \in list[w] : Fetch(w, j)) \/ ScheduleRetry(w) \/ MarkFailed(w)
  \/ Create(w) \/ MarkEnriched(w)

Next ==
  /\ \/ \E r \in Request : Serve(r) \/ \E b \in Body : Receive(r, b)
     \/ \E w \in Worker : Enrich(w) \/ Abort(w)
     \/ Tick
     \/ \E b \in Body : Expire(b)
  /\ UNCHANGED tracker

\* Each instance's timer keeps firing, each pass awaits its items, and time
\* passes; nothing is assumed of the sender.
Fairness ==
  /\ WF_vars(Tick /\ UNCHANGED tracker)
  /\ \A w \in Worker : WF_vars(Enrich(w) /\ UNCHANGED tracker)

Spec == Init /\ [][Next]_vars /\ Fairness

-----------------------------------------------------------------------------
(***************************************************************************)
(* Properties                                                              *)
(***************************************************************************)
TypeOK ==
  /\ tracker \in Trackers
  /\ delivery \in [Body -> Delivery \cup {None}]
  \* Each instance counts the failures of its own stale batch: the attempts may
  \* pass the maximum, but by no more than one for every other instance.
  /\ \A b \in Body :
       Recorded(b) => delivery[b].attempts < MaxAttempts + Cardinality(Worker)
  /\ wait \in [Body -> 0 .. RetryMax]
  /\ ahead \in [Body -> SUBSET Body]
  /\ items \subseteq Key /\ accepted \subseteq Body
  /\ serving \in [Request -> (Body \X {"record", "existing", "audit"})
                               \cup {<< None, "idle" >>}]
  /\ list \in [Worker -> SUBSET Listed] /\ step \in [Worker -> Step]
  /\ job \in [Worker -> Listed \cup {None}]
  /\ aborts \in 0 .. MaxAborts

\* A delivery is settled as enriched only once its ticket's item is there,
\* wherever a pass was interrupted, and it is the ticket's only one, by
\* whichever of its two identifiers deliveries name the ticket
\* (worker.ts:137-157).
EnrichedHasOneItem ==
  \A b \in Body :
    Recorded(b) /\ delivery[b].status = "enriched" =>
      {k \in items : Canonical(k) = Canonical(Names[b])} = {Canonical(Names[b])}

\* A delivery given up for a failure worth retrying had all its attempts, even
\* if two instances counted them from the same listed value.
AbandonedAfterAllAttempts ==
  \A b \in Body :
    Recorded(b) /\ delivery[b].status = "failed" /\ delivery[b].lastError = "transient"
      => delivery[b].attempts >= MaxAttempts

\* A settled delivery is never dragged back or settled again by a slower
\* instance, nor by a replay of its body (webhook-deliveries.ts:121-149).
SettledIsFinal ==
  [][\A b \in Body : Settled(b) => delivery'[b] \in {delivery[b], None}]_vars

\* An accepted event that is to be enriched is, in whatever order retries put
\* the queue: it becomes an item, or its delivery is failed after the last
\* attempt.  Its own item must be one the validator takes, and those it refuses
\* must leave it a place in the batch.
AcceptedIsSettled ==
  \A b \in Body :
    <>[]Served(b) =>
      ((b \in accepted /\ Class[b] = "pending") ~> (Settled(b) \/ ~Recorded(b)))
=============================================================================
