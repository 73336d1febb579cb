----------------------- MODULE WebhookDeliveryProofs -----------------------
(***************************************************************************)
(* What WebhookDelivery promises of a settled delivery, proved for any     *)
(* number of bodies, tickets, instances and losses, whatever the tracker   *)
(* holds, any batch limit and any number of attempts.                      *)
(***************************************************************************)
EXTENDS WebhookDelivery, FiniteSetTheorems, TLAPS

USE ClassAssumption, TrackerAssumption, BoundAssumption, SentinelAssumption

-----------------------------------------------------------------------------
(***************************************************************************)
(* The inductive invariant                                                 *)
(***************************************************************************)
Types ==
  /\ tracker \in Trackers
  /\ delivery \in [Body -> Delivery \cup {None}]
  /\ items \subseteq Key
  /\ list \in [Worker -> SUBSET Listed]
  /\ job \in [Worker -> Listed \cup {None}]
  /\ step \in [Worker -> Step]

\* What a listed delivery says is out of date in one way only: there is a
\* record of it, and it has had no fewer attempts since.
UpToDate(j) == Recorded(j.body) /\ j.attempts <= delivery[j.body].attempts

Hands ==
  \A w \in Worker :
    /\ \A j \in list[w] : UpToDate(j)
    /\ step[w] # "next" => job[w] \in Listed /\ UpToDate(job[w])
    /\ step[w] = "abandon" => Exhausted(job[w].attempts)
    /\ step[w] = "settle" => Canonical(Names[job[w].body]) \in items

CanonicalItems == \A k \in items : Canonical(k) = k

EnrichedHasItem ==
  \A b \in Body :
    Recorded(b) /\ delivery[b].status = "enriched" => Canonical(Names[b]) \in items

Settlements == EnrichedHasItem /\ AbandonedAfterAllAttempts
IInv == Types /\ Hands /\ CanonicalItems /\ Settlements

LEMMA Keys ==
  ASSUME Types, NEW b \in Body
  PROVE  /\ Canonical(Names[b]) \in Key
         /\ Canonical(Canonical(Names[b])) = Canonical(Names[b])
<1>1. PICK t \in Ticket, s \in {"key", "cfKey"} : Names[b] = << t, s >>
  BY DEF Types, Names, Key
<1>2. Canonical(Names[b]) = << t, "key" >> BY <1>1 DEF Canonical
<1> QED BY <1>2 DEF Canonical, Key

LEMMA Records == \A d \in Delivery : d # None /\ d.status \in Recordable \cup {"enriched", "failed"}
                                     /\ d.attempts \in Nat
  BY DEF Delivery

\* A step that changes no record but to count it up, and leaves the loops as
\* they are.
LEMMA StoreStep ==
  ASSUME IInv, UNCHANGED << tracker, list, job, step, items >>,
         delivery' \in [Body -> Delivery \cup {None}],
         \A b \in Body : Recorded(b) =>
           delivery'[b] = delivery[b] \/ (delivery'[b] = None /\ ~InHand(b)),
         \A b \in Body : ~Recorded(b) /\ delivery'[b] # None =>
           delivery'[b].status \in Recordable
  PROVE  IInv'
<1>1. Types' BY DEF IInv, Types
<1>2. ASSUME NEW w \in Worker, NEW j \in list[w] PROVE UpToDate(j)'
  <2>1. j \in Listed /\ UpToDate(j) BY <1>2 DEF IInv, Types, Hands
  <2>2. j.body \in Body /\ InHand(j.body) BY <2>1, <1>2 DEF Listed, InHand
  <2> QED BY <2>1, <2>2 DEF UpToDate, Recorded
<1>3. ASSUME NEW w \in Worker, step[w] # "next"
      PROVE  job[w] \in Listed /\ UpToDate(job[w])'
  <2>1. job[w] \in Listed /\ UpToDate(job[w]) BY <1>3 DEF IInv, Hands
  <2>2. job[w].body \in Body /\ InHand(job[w].body) BY <2>1 DEF Listed, InHand
  <2> QED BY <2>1, <2>2 DEF UpToDate, Recorded
<1>4. Hands' BY <1>2, <1>3 DEF IInv, Hands, UpToDate, Names
<1>5. CanonicalItems' BY DEF IInv, CanonicalItems
<1>6. Settlements'
  BY DEF IInv, Settlements, EnrichedHasItem, AbandonedAfterAllAttempts, Recorded, Recordable,
         Names
<1> QED BY <1>1, <1>4, <1>5, <1>6 DEF IInv

\* A step of w that writes the record of its job, if that is pending, and ends
\* with the job.
LEMMA SettleStep ==
  ASSUME IInv, NEW w \in Worker, step[w] # "next", EndItem(w), UNCHANGED << tracker, items >>,
         NEW b, b = job[w].body, NEW d \in Delivery,
         delivery' = IF Pending(b) THEN [delivery EXCEPT ![b] = d] ELSE delivery,
         Pending(b) => /\ d.attempts >= delivery[b].attempts
                       /\ d.status = "enriched" => Canonical(Names[b]) \in items
                       /\ d.status = "failed" /\ d.lastError = "transient"
                            => d.attempts >= MaxAttempts
  PROVE  IInv'
<1>1. b \in Body BY DEF IInv, Hands, Listed
<1>2. Types' BY <1>1 DEF IInv, Types, EndItem, Step
<1>3. ASSUME NEW j \in Listed, UpToDate(j) PROVE UpToDate(j)'
  <2>1. j.body \in Body /\ j.attempts \in Nat BY DEF Listed
  <2>2. delivery[j.body] \in Delivery BY <1>3, <2>1 DEF UpToDate, Recorded, IInv, Types
  <2>3. CASE j.body = b /\ Pending(b)
    BY <1>1, <1>3, <2>1, <2>2, <2>3, Records DEF UpToDate, Recorded, IInv, Types
  <2>4. CASE j.body # b \/ ~Pending(b)
    BY <1>1, <1>3, <2>1, <2>4 DEF UpToDate, Recorded, IInv, Types
  <2> QED BY <2>3, <2>4
<1>4. Hands'
  BY <1>3 DEF IInv, Hands, Types, EndItem, Exhausted, Names
<1>5. CanonicalItems' BY DEF IInv, CanonicalItems
<1>6. Settlements'
  <2> SUFFICES ASSUME NEW c \in Body, Recorded(c)'
               PROVE  /\ delivery'[c].status = "enriched" => Canonical(Names[c]) \in items
                      /\ delivery'[c].status = "failed" /\ delivery'[c].lastError = "transient"
                           => delivery'[c].attempts >= MaxAttempts
    BY DEF Settlements, EnrichedHasItem, AbandonedAfterAllAttempts, Names
  <2>1. CASE c = b /\ Pending(b) BY <1>1, <2>1 DEF IInv, Types
  <2>2. CASE c # b \/ ~Pending(b)
    <3>1. delivery'[c] = delivery[c] BY <1>1, <2>2 DEF IInv, Types
    <3> QED
      BY <3>1 DEF IInv, Settlements, EnrichedHasItem, AbandonedAfterAllAttempts, Recorded
  <2> QED BY <2>1, <2>2
<1> QED BY <1>2, <1>4, <1>5, <1>6 DEF IInv

LEMMA Initially == Init => IInv
  BY DEF Init, IInv, Types, Step, Hands, CanonicalItems, Settlements, EnrichedHasItem,
         AbandonedAfterAllAttempts, Recorded

-----------------------------------------------------------------------------
(***************************************************************************)
(* Every step keeps it                                                     *)
(***************************************************************************)
LEMMA ServeStep ==
  ASSUME IInv, NEW r \in Request, Serve(r), UNCHANGED tracker PROVE IInv'
<1>1. CASE Record(r)
  <2>1. PICK b \in Body :
          \/ ~Recorded(b) /\ Inserted(b)
          \/ UNCHANGED stored
    BY <1>1 DEF Record
  <2>2. CASE ~Recorded(b) /\ Inserted(b)
    <3> DEFINE d == [status |-> Class[b], attempts |-> 0, lastError |-> "none"]
    <3>1. d \in Delivery /\ d.status \in Recordable BY DEF Delivery, Failure
    <3>2. delivery' = [delivery EXCEPT ![b] = d] BY <2>2 DEF Inserted
    <3> HIDE DEF d
    <3>3. delivery' \in [Body -> Delivery \cup {None}]
      BY <3>1, <3>2 DEF IInv, Types
    <3>4. \A c \in Body : c # b => delivery'[c] = delivery[c]
      BY <3>2 DEF IInv, Types
    <3>5. delivery'[b] = d BY <3>2 DEF IInv, Types
    <3>6. UNCHANGED << list, job, step, items >>
      BY <1>1, <2>2 DEF Record, Inserted, loop
    <3> QED BY <2>2, <3>1, <3>3, <3>4, <3>5, <3>6, StoreStep DEF Recorded
  <2>3. CASE UNCHANGED stored
    <3>1. UNCHANGED << delivery, list, job, step, items >>
      BY <1>1, <2>3 DEF Record, loop, stored
    <3> QED BY <3>1, StoreStep DEF IInv, Types, Recorded
  <2> QED BY <2>1, <2>2, <2>3
<1>2. CASE Existing(r) \/ Audit(r)
  <2>1. UNCHANGED << delivery, list, job, step, items >>
    BY <1>2 DEF Existing, Audit, loop, stored
  <2> QED BY <2>1, StoreStep DEF IInv, Types, Recorded
<1> QED BY <1>1, <1>2 DEF Serve

LEMMA LoopStep ==
  ASSUME IInv, NEW w \in Worker, Enrich(w) \/ Abort(w), UNCHANGED tracker PROVE IInv'
<1>1. CASE BeginPass(w)
  <2>1. ASSUME NEW b \in Batch
        PROVE  /\ [body |-> b, attempts |-> delivery[b].attempts] \in Listed
               /\ UpToDate([body |-> b, attempts |-> delivery[b].attempts])
    <3>1. b \in Body /\ Recorded(b) BY DEF Batch, Due, Pending
    <3>2. delivery[b].attempts \in Nat BY <3>1, Records DEF IInv, Types, Recorded
    <3> QED BY <3>1, <3>2 DEF Listed, UpToDate
  <2>2. list'[w] \subseteq Listed /\ \A j \in list'[w] : UpToDate(j)
    BY <1>1, <2>1 DEF BeginPass, IInv, Types
  <2>3. Types' BY <1>1, <2>2 DEF BeginPass, IInv, Types, stored
  <2>4. Hands'
    BY <1>1, <2>2 DEF BeginPass, IInv, Types, Hands, stored, UpToDate, Recorded, Names
  <2>5. CanonicalItems' /\ Settlements'
    BY <1>1
    DEF BeginPass, stored, IInv, CanonicalItems, Settlements, EnrichedHasItem,
        AbandonedAfterAllAttempts, Recorded, Names
  <2> QED BY <2>3, <2>4, <2>5 DEF IInv
<1>2. ASSUME NEW j \in list[w], Fetch(w, j) PROVE IInv'
  <2>1. j \in Listed /\ UpToDate(j) BY DEF IInv, Types, Hands
  <2>2. PICK s \in {"create", "retry", "abandon", "fail"} :
          Goto(w, s) /\ (s = "abandon" => Exhausted(j.attempts))
    BY <1>2 DEF Fetch, Fetched
  <2>3. Types' BY <1>2, <2>1, <2>2 DEF Fetch, Goto, IInv, Types, Step, stored
  <2>4. Hands'
    BY <1>2, <2>1, <2>2
    DEF Fetch, Goto, IInv, Types, Hands, stored, UpToDate, Recorded, Names, Exhausted
  <2>5. CanonicalItems' /\ Settlements'
    BY <1>2
    DEF Fetch, stored, IInv, CanonicalItems, Settlements, EnrichedHasItem,
        AbandonedAfterAllAttempts, Recorded, Names
  <2> QED BY <2>3, <2>4, <2>5 DEF IInv
<1>3. ASSUME ScheduleRetry(w) \/ MarkFailed(w) \/ MarkEnriched(w) PROVE IInv'
  <2> DEFINE b == job[w].body
             d == CASE step[w] = "retry" ->
                         [delivery[b] EXCEPT !.attempts = @ + 1, !.lastError = "transient"]
                    [] step[w] = "settle" ->
                         [delivery[b] EXCEPT !.status = "enriched", !.lastError = "none"]
                    [] OTHER ->
                         [status |-> "failed", attempts |-> delivery[b].attempts + 1,
                          lastError |-> IF step[w] = "fail" THEN "permanent" ELSE "transient"]
  <2>1. step[w] \in {"retry", "abandon", "fail", "settle"}
        /\ UNCHANGED items /\ EndItem(w)
    BY <1>3 DEF ScheduleRetry, MarkFailed, MarkEnriched
  <2>2. /\ b \in Body /\ job[w].attempts \in Nat
        /\ delivery[b] \in Delivery /\ job[w].attempts <= delivery[b].attempts
    BY <2>1 DEF IInv, Types, Hands, UpToDate, Recorded, Listed
  <2>3. d \in Delivery
    <3>1. CASE step[w] = "retry"
      <4>1. d = [delivery[b] EXCEPT !.attempts = @ + 1, !.lastError = "transient"]
        BY <3>1
      <4>2. delivery[b].attempts + 1 \in Nat /\ "transient" \in Failure
        BY <2>2 DEF Delivery, Failure
      <4> HIDE DEF d
      <4> QED BY <2>2, <4>1, <4>2 DEF Delivery
    <3>2. CASE step[w] = "settle"
      <4>1. d = [delivery[b] EXCEPT !.status = "enriched", !.lastError = "none"]
        BY <3>2
      <4> QED BY <2>2, <4>1 DEF Delivery, Failure
    <3>3. CASE step[w] \notin {"retry", "settle"} BY <2>2, <3>3 DEF Delivery, Failure
    <3> QED BY <3>1, <3>2, <3>3
  <2>4. delivery' = IF Pending(b) THEN [delivery EXCEPT ![b] = d] ELSE delivery
    <3>1. CASE ScheduleRetry(w)
      BY <2>2, <3>1 DEF ScheduleRetry, IInv, Types, Delivery
    <3>2. CASE MarkFailed(w) BY <2>2, <3>2 DEF MarkFailed, IInv, Types
    <3>3. CASE MarkEnriched(w)
      BY <2>2, <3>3 DEF MarkEnriched, IInv, Types, Delivery
    <3> QED BY <1>3, <3>1, <3>2, <3>3
  <2>5. /\ d.attempts >= delivery[b].attempts
        /\ Pending(b) /\ d.status = "enriched" => Canonical(Names[b]) \in items
        /\ Pending(b) /\ d.status = "failed" /\ d.lastError = "transient"
             => d.attempts >= MaxAttempts
    <3>1. CASE step[w] = "retry"
      <4>1. d = [delivery[b] EXCEPT !.attempts = @ + 1, !.lastError = "transient"]
        BY <3>1
      <4>2. d.attempts = delivery[b].attempts + 1 /\ d.status = delivery[b].status
        BY <2>2, <4>1 DEF Delivery
      <4> HIDE DEF d
      <4> QED BY <2>2, <4>2 DEF Pending, Delivery
    <3>2. CASE step[w] = "settle"
      <4>1. d = [delivery[b] EXCEPT !.status = "enriched", !.lastError = "none"]
        BY <3>2
      <4>2. d.attempts = delivery[b].attempts /\ d.status = "enriched"
        BY <2>2, <4>1 DEF Delivery
      <4>3. Canonical(Names[b]) \in items BY <3>2 DEF IInv, Hands
      <4> HIDE DEF d
      <4> QED BY <2>2, <4>2, <4>3 DEF Delivery
    <3>3. CASE step[w] = "fail" BY <2>2, <3>3 DEF Delivery
    <3>4. CASE step[w] = "abandon"
      <4>1. Exhausted(job[w].attempts) BY <3>4 DEF IInv, Hands
      <4> QED BY <2>2, <3>4, <4>1 DEF Delivery, Exhausted
    <3> QED BY <2>1, <3>1, <3>2, <3>3, <3>4
  <2> HIDE DEF d, b
  <2> QED BY <2>1, <2>3, <2>4, <2>5, SettleStep DEF b
<1>4. CASE Create(w)
  <2> DEFINE k == Canonical(Names[job[w].body])
  <2>1. job[w] \in Listed /\ UpToDate(job[w]) /\ job[w].body \in Body
    BY <1>4 DEF Create, IInv, Hands, Listed
  <2>2. k \in Key /\ Canonical(k) = k BY <2>1, Keys DEF IInv
  <2>3. CASE k[1] \in Refused
    <3>1. UNCHANGED << delivery, items >> /\ EndItem(w) BY <1>4, <2>3 DEF Create
    <3>2. Types' BY <3>1 DEF EndItem, IInv, Types, Step
    <3>3. Hands'
      BY <3>1 DEF EndItem, IInv, Types, Hands, UpToDate, Recorded, Exhausted, Names
    <3>4. CanonicalItems' BY <3>1 DEF IInv, CanonicalItems
    <3>5. Settlements'
      BY <3>1 DEF IInv, Settlements, EnrichedHasItem, AbandonedAfterAllAttempts, Recorded, Names
    <3> QED BY <3>2, <3>3, <3>4, <3>5 DEF IInv
  <2>4. CASE k[1] \notin Refused
    <3>1. items' = items \cup {k} /\ Goto(w, "settle") /\ UNCHANGED << delivery, list, job >>
      BY <1>4, <2>4 DEF Create
    <3> HIDE DEF k
    <3>2. Types' BY <2>2, <3>1 DEF Goto, IInv, Types, Step
    <3>3. Hands'
      BY <2>1, <3>1 DEF Goto, IInv, Types, Hands, UpToDate, Recorded, Exhausted, Names, k
    <3>4. CanonicalItems' BY <2>2, <3>1 DEF IInv, CanonicalItems
    <3>5. Settlements'
      BY <3>1 DEF IInv, Settlements, EnrichedHasItem, AbandonedAfterAllAttempts, Recorded, Names
    <3> QED BY <3>2, <3>3, <3>4, <3>5 DEF IInv
  <2> QED BY <2>3, <2>4
<1>5. CASE Abort(w)
  <2>1. Types' BY <1>5 DEF Abort, IInv, Types, Step, stored
  <2>2. Hands'
    BY <1>5 DEF Abort, IInv, Types, Hands, stored, UpToDate, Recorded, Names, Exhausted
  <2>3. CanonicalItems' /\ Settlements'
    BY <1>5
    DEF Abort, stored, IInv, CanonicalItems, Settlements, EnrichedHasItem,
        AbandonedAfterAllAttempts, Recorded, Names
  <2> QED BY <2>1, <2>2, <2>3 DEF IInv
<1> QED BY <1>1, <1>2, <1>3, <1>4, <1>5 DEF Enrich

LEMMA InvStep == ASSUME IInv, [Next]_vars PROVE IInv'
<1>0. UNCHANGED tracker BY DEF Next, vars
<1>1. ASSUME NEW r \in Request, NEW b \in Body, Receive(r, b) PROVE IInv'
  <2>1. UNCHANGED << delivery, list, job, step, items >>
    BY <1>1 DEF Receive, stored, loop
  <2> QED BY <1>0, <2>1, StoreStep DEF IInv, Types, Recorded
<1>2. CASE Tick \/ UNCHANGED vars
  <2>1. UNCHANGED << delivery, list, job, step, items >>
    BY <1>2 DEF Tick, vars, stored, loop
  <2> QED BY <1>0, <2>1, StoreStep DEF IInv, Types, Recorded
<1>3. ASSUME NEW b \in Body, Expire(b) PROVE IInv'
  <2>1. UNCHANGED << list, job, step, items >> BY <1>3 DEF Expire, loop
  <2>2. delivery' = [delivery EXCEPT ![b] = None] /\ ~InHand(b) BY <1>3 DEF Expire
  <2>3. delivery' \in [Body -> Delivery \cup {None}] BY <2>2 DEF IInv, Types
  <2>4. \A c \in Body : delivery'[c] = IF c = b THEN None ELSE delivery[c]
    BY <2>2 DEF IInv, Types
  <2> QED BY <1>0, <2>1, <2>2, <2>3, <2>4, StoreStep DEF Recorded
<1> QED BY <1>0, <1>1, <1>2, <1>3, ServeStep, LoopStep DEF Next

\* The inductive invariant holds.
THEOREM Invariance == Spec => []IInv
  BY Initially, InvStep, PTL DEF Spec

-----------------------------------------------------------------------------
(***************************************************************************)
(* What is promised of a settled delivery                                  *)
(***************************************************************************)

\* A delivery is settled as enriched only once its ticket's one item is there.
THEOREM EnrichedHasItsItem == Spec => []EnrichedHasOneItem
<1>1. IInv => EnrichedHasOneItem
  <2> SUFFICES ASSUME IInv, NEW b \in Body, Recorded(b), delivery[b].status = "enriched"
               PROVE  {k \in items : Canonical(k) = Canonical(Names[b])}
                        = {Canonical(Names[b])}
    BY DEF EnrichedHasOneItem
  <2>1. Canonical(Names[b]) \in items BY DEF IInv, Settlements, EnrichedHasItem
  <2> QED BY <2>1, Keys DEF IInv, CanonicalItems
<1> QED BY <1>1, Invariance, PTL

\* A delivery given up for a failure worth retrying had all its attempts.
THEOREM AbandonedHadAllAttempts == Spec => []AbandonedAfterAllAttempts
<1>1. IInv => AbandonedAfterAllAttempts BY DEF IInv, Settlements
<1> QED BY <1>1, Invariance, PTL

\* A settled delivery is never dragged back or settled again, whatever batch
\* it is still in and however often its body is replayed.
THEOREM SettledForGood == Spec => SettledIsFinal
<1>1. IInv /\ [Next]_vars =>
        [\A b \in Body : Settled(b) => delivery'[b] \in {delivery[b], None}]_vars
  <2> SUFFICES ASSUME IInv, [Next]_vars, NEW b \in Body, Settled(b)
               PROVE  delivery'[b] \in {delivery[b], None}
    OBVIOUS
  <2>1. Recorded(b) /\ ~Pending(b) BY DEF Settled, Pending
  <2>2. ASSUME UNCHANGED delivery PROVE delivery'[b] \in {delivery[b], None}
    BY <2>2
  <2>3. ASSUME NEW r \in Request, Serve(r) PROVE delivery'[b] \in {delivery[b], None}
    BY <2>1, <2>3 DEF Serve, Record, Inserted, Existing, Audit, stored, IInv, Types
  <2>4. ASSUME NEW w \in Worker, ScheduleRetry(w) \/ MarkFailed(w) \/ MarkEnriched(w)
        PROVE  delivery'[b] \in {delivery[b], None}
    BY <2>1, <2>4 DEF ScheduleRetry, MarkFailed, MarkEnriched, IInv, Types
  <2>5. ASSUME NEW w \in Worker, NEW j \in list[w], Fetch(w, j) PROVE UNCHANGED delivery
    BY <2>5 DEF Fetch, stored
  <2>6. ASSUME NEW w \in Worker, BeginPass(w) \/ Create(w) \/ Abort(w)
        PROVE  UNCHANGED delivery
    BY <2>6 DEF BeginPass, Create, Abort, stored
  <2>7. ASSUME NEW c \in Body, Expire(c) PROVE delivery'[b] \in {delivery[b], None}
    BY <2>7 DEF Expire, IInv, Types
  <2>8. ASSUME NEW r \in Request, NEW c \in Body, Receive(r, c) PROVE UNCHANGED delivery
    BY <2>8 DEF Receive, stored
  <2>9. CASE Tick \/ UNCHANGED vars BY <2>2, <2>9 DEF Tick, vars, stored
  <2> QED
    BY <2>2, <2>3, <2>4, <2>5, <2>6, <2>7, <2>8, <2>9 DEF Next, Enrich
<1> QED BY <1>1, Invariance, PTL DEF Spec, SettledIsFinal

-----------------------------------------------------------------------------
(***************************************************************************)
(* Types, and how far the attempts of one delivery may go                  *)
(***************************************************************************)
\* An instance has a delivery at hand once, and retries what was listed with
\* attempts left.
Single ==
  \A w \in Worker :
    /\ \A i, j \in list[w] : i.body = j.body => i = j
    /\ step[w] # "next" => \A j \in list[w] : j.body # job[w].body
    /\ step[w] = "retry" => ~Exhausted(job[w].attempts)

\* The instances that may yet schedule a retry of b.
Retriers(b) ==
  {w \in Worker : \/ \E j \in list[w] : j.body = b /\ ~Exhausted(j.attempts)
                  \/ step[w] = "retry" /\ job[w].body = b}

\* Below the last attempt anybody may count one; beyond it only those who listed
\* the delivery before, each of them once, and the one who gives it up.
Countable(b) ==
  \/ delivery[b].attempts + 1 < MaxAttempts
  \/ delivery[b].attempts + 1 = MaxAttempts /\ Retriers(b) = {}
  \/ /\ Pending(b)
     /\ delivery[b].attempts + Cardinality(Retriers(b)) + 2
          <= MaxAttempts + Cardinality(Worker)
  \/ ~Pending(b) /\ delivery[b].attempts + 1 <= MaxAttempts + Cardinality(Worker)

Counted == \A b \in Body : Recorded(b) => Countable(b)

LEMMA Sizes ==
  ASSUME NEW S \in SUBSET Worker, NEW T \in SUBSET S
  PROVE  /\ Cardinality(S) \in Nat /\ Cardinality(T) \in Nat /\ Cardinality(Worker) \in Nat
         /\ Cardinality(T) <= Cardinality(S) /\ Cardinality(S) <= Cardinality(Worker)
         /\ \A w \in S : Cardinality(S \ {w}) = Cardinality(S) - 1
<1>1. IsFiniteSet(S) BY WorkerAssumption, FS_Subset
<1>2. IsFiniteSet(T) BY <1>1, FS_Subset
<1>3. Cardinality(T) <= Cardinality(S) BY <1>1, FS_Subset
<1>4. Cardinality(S) <= Cardinality(Worker) BY WorkerAssumption, FS_Subset
<1>5. \A w \in S : Cardinality(S \ {w}) = Cardinality(S) - 1 BY <1>1, FS_RemoveElement
<1> QED BY <1>1, <1>2, <1>3, <1>4, <1>5, WorkerAssumption, FS_CardinalityType

\* Where a record stays as it is, nobody new may retry it, or attempts are left.
LEMMA SameRecord ==
  ASSUME IInv, NEW b \in Body, Recorded(b), Countable(b), delivery'[b] = delivery[b],
         \/ delivery[b].attempts + 1 < MaxAttempts
         \/ Retriers(b)' \subseteq Retriers(b)
  PROVE  Countable(b)'
<1>1. delivery[b].attempts \in Nat BY Records DEF IInv, Types, Recorded
<1>2. CASE delivery[b].attempts + 1 < MaxAttempts BY <1>2 DEF Countable
<1>3. CASE Retriers(b)' \subseteq Retriers(b)
  <2>1. Retriers(b) \in SUBSET Worker BY DEF Retriers
  <2>2. /\ Cardinality(Retriers(b)') <= Cardinality(Retriers(b))
        /\ Cardinality(Retriers(b)') \in Nat /\ Cardinality(Retriers(b)) \in Nat
        /\ Cardinality(Worker) \in Nat
    BY <1>3, <2>1, Sizes
  <2>3. Cardinality(Retriers(b))' = Cardinality(Retriers(b)') OBVIOUS
  <2> QED BY <1>1, <1>3, <2>2, <2>3 DEF Countable, Pending, Recorded
<1> QED BY <1>2, <1>3

\* A step of the loops that takes nothing new in hand.
LEMMA QuietStep ==
  ASSUME IInv, Counted, Single, Single',
         \A b \in Body : Retriers(b)' \subseteq Retriers(b),
         \A b \in Body : Recorded(b)' => Recorded(b) /\ delivery'[b] = delivery[b]
  PROVE  Counted'
BY SameRecord DEF Counted

\* The end of an item: its instance no longer retries it, nor anything else.
LEMMA EndOfItem ==
  ASSUME IInv, Single, NEW w \in Worker, step[w] # "next", EndItem(w),
         NEW c, c = job[w].body
  PROVE  /\ Single'
         /\ \A b \in Body : Retriers(b)' \subseteq Retriers(b)
         /\ w \notin Retriers(c)'
<1>1. /\ \A v \in Worker : list'[v] = list[v]
      /\ step'[w] = "next"
      /\ \A v \in Worker \ {w} : step'[v] = step[v] /\ job'[v] = job[v]
  BY DEF EndItem, IInv, Types
<1>2. Single' BY <1>1 DEF Single
<1>3. \A b \in Body : Retriers(b)' \subseteq Retriers(b) BY <1>1 DEF Retriers
<1>4. w \notin Retriers(c)'
  BY <1>1 DEF Retriers, Single
<1> QED BY <1>2, <1>3, <1>4

LEMMA RetryCounted ==
  ASSUME IInv, Single, Counted, NEW w \in Worker, ScheduleRetry(w),
         NEW b, b = job[w].body
  PROVE  Single' /\ Counted'
<1>1. step[w] = "retry" /\ EndItem(w) BY DEF ScheduleRetry
<1>2. /\ Single'
      /\ \A c \in Body : Retriers(c)' \subseteq Retriers(c)
      /\ w \notin Retriers(b)'
  BY <1>1, EndOfItem
<1>3. b \in Body /\ Recorded(b) /\ delivery[b] \in Delivery
  BY <1>1 DEF IInv, Hands, Types, Listed, UpToDate, Recorded
<1>4. CASE ~Pending(b)
  <2>1. UNCHANGED delivery BY <1>4 DEF ScheduleRetry
  <2>2. \A c \in Body : Recorded(c)' => Recorded(c) /\ delivery'[c] = delivery[c]
    BY <2>1 DEF Recorded
  <2> QED BY <1>2, <2>2, QuietStep
<1>5. CASE Pending(b)
  <2>1. delivery' = [delivery EXCEPT ![b] =
          [delivery[b] EXCEPT !.attempts = @ + 1, !.lastError = "transient"]]
    BY <1>3, <1>5 DEF ScheduleRetry, IInv, Types, Delivery
  <2>2. \A c \in Body \ {b} : delivery'[c] = delivery[c] BY <2>1 DEF IInv, Types
  <2>3. delivery'[b].attempts = delivery[b].attempts + 1 /\ delivery'[b].status = "pending"
    BY <1>3, <1>5, <2>1 DEF IInv, Types, Delivery, Pending
  <2>4. w \in Retriers(b) BY <1>1 DEF Retriers
  <2>5. Retriers(b)' \in SUBSET (Retriers(b) \ {w}) BY <1>2, <1>3
  <2>6. /\ Cardinality(Retriers(b)') \in Nat /\ Cardinality(Retriers(b)) \in Nat
        /\ Cardinality(Worker) \in Nat
        /\ Cardinality(Retriers(b)') <= Cardinality(Retriers(b)) - 1
        /\ Cardinality(Retriers(b)) <= Cardinality(Worker)
    <3>1. Retriers(b) \in SUBSET Worker /\ Retriers(b) \ {w} \in SUBSET Worker
      BY DEF Retriers
    <3>2. Cardinality(Retriers(b) \ {w}) = Cardinality(Retriers(b)) - 1
      BY <2>4, <3>1, Sizes
    <3>3. Cardinality(Retriers(b)') <= Cardinality(Retriers(b) \ {w})
      BY <2>5, <3>1, Sizes
    <3> QED BY <2>5, <3>1, <3>2, <3>3, Sizes
  <2>7. delivery[b].attempts \in Nat /\ Countable(b) BY <1>3 DEF Delivery, Counted
  <2>8. delivery[b].attempts + Cardinality(Retriers(b)') + 3
          <= MaxAttempts + Cardinality(Worker)
        \/ delivery[b].attempts + 2 < MaxAttempts
    <3>1. CASE delivery[b].attempts + 1 < MaxAttempts BY <2>6, <2>7, <3>1
    <3>2. CASE delivery[b].attempts + Cardinality(Retriers(b)) + 2
                 <= MaxAttempts + Cardinality(Worker)
      BY <2>6, <2>7, <3>2
    <3> QED BY <1>5, <2>4, <2>7, <3>1, <3>2 DEF Countable
  <2>9. Cardinality(Retriers(b))' = Cardinality(Retriers(b)') OBVIOUS
  <2>10. Pending(b)'
    <3>1. delivery'[b] \in Delivery \cup {None} /\ delivery'[b] # None
      <4> DEFINE d == [delivery[b] EXCEPT !.attempts = @ + 1, !.lastError = "transient"]
      <4>1. d = [delivery[b] EXCEPT !.attempts = @ + 1, !.lastError = "transient"]
        OBVIOUS
      <4>2. delivery'[b] = d BY <1>3, <2>1 DEF IInv, Types
      <4>3. delivery[b].attempts + 1 \in Nat /\ "transient" \in Failure
        BY <1>3 DEF Delivery, Failure
      <4> HIDE DEF d
      <4>4. d \in Delivery BY <1>3, <4>1, <4>3 DEF Delivery
      <4> QED BY <4>2, <4>4, Records
    <3> QED BY <2>3, <3>1, Records DEF Pending, Recorded
  <2>11. Countable(b)' BY <2>3, <2>6, <2>7, <2>8, <2>9, <2>10 DEF Countable
  <2>12. \A c \in Body \ {b} : Recorded(c)' => Countable(c)'
    BY <1>2, <2>2, SameRecord DEF Counted, Recorded
  <2> QED BY <1>2, <2>11, <2>12 DEF Counted
<1> QED BY <1>4, <1>5

LEMMA SettleCounted ==
  ASSUME IInv, Single, Counted, NEW w \in Worker, MarkFailed(w) \/ MarkEnriched(w),
         NEW b, b = job[w].body
  PROVE  Single' /\ Counted'
<1>1. step[w] \in {"abandon", "fail", "settle"} /\ EndItem(w)
  BY DEF MarkFailed, MarkEnriched
<1>2. Single' /\ \A c \in Body : Retriers(c)' \subseteq Retriers(c) BY <1>1, EndOfItem
<1>3. b \in Body /\ Recorded(b) /\ delivery[b] \in Delivery
  BY <1>1 DEF IInv, Hands, Types, Listed, UpToDate, Recorded
<1>4. CASE ~Pending(b)
  <2>1. UNCHANGED delivery BY <1>4 DEF MarkFailed, MarkEnriched
  <2>2. \A c \in Body : Recorded(c)' => Recorded(c) /\ delivery'[c] = delivery[c]
    BY <2>1 DEF Recorded
  <2> QED BY <1>2, <2>2, QuietStep
<1>5. CASE Pending(b)
  <2>1. /\ \A c \in Body \ {b} : delivery'[c] = delivery[c]
        /\ delivery'[b].attempts \in {delivery[b].attempts, delivery[b].attempts + 1}
        /\ delivery'[b].status \in {"failed", "enriched"}
    BY <1>3, <1>5 DEF MarkFailed, MarkEnriched, IInv, Types, Delivery
  <2>2. delivery[b].attempts \in Nat /\ Countable(b) BY <1>3 DEF Delivery, Counted
  <2>3. Cardinality(Retriers(b)) \in Nat /\ Cardinality(Worker) \in Nat
        /\ Cardinality(Worker) >= 1
    <3>1. Retriers(b) \in SUBSET Worker /\ {w} \in SUBSET Worker BY DEF Retriers
    <3>2. Cardinality({w}) = 1 BY FS_Singleton
    <3> QED BY <3>1, <3>2, Sizes
  <2>4. delivery'[b].attempts + 1 <= MaxAttempts + Cardinality(Worker)
    BY <1>5, <2>1, <2>2, <2>3 DEF Countable
  <2>5. Countable(b)' BY <2>1, <2>4 DEF Countable, Pending
  <2>6. \A c \in Body \ {b} : Recorded(c)' => Countable(c)'
    BY <1>2, <2>1, SameRecord DEF Counted, Recorded
  <2> QED BY <1>2, <2>5, <2>6 DEF Counted
<1> QED BY <1>4, <1>5

LEMMA LoopCounted ==
  ASSUME IInv, Single, Counted, NEW w \in Worker, Enrich(w) \/ Abort(w)
  PROVE  Single' /\ Counted'
<1>1. CASE BeginPass(w)
  <2>1. /\ list'[w] = {[body |-> b, attempts |-> delivery[b].attempts] : b \in Batch}
        /\ step'[w] = "next"
        /\ \A v \in Worker : step'[v] = step[v] /\ job'[v] = job[v]
        /\ \A v \in Worker \ {w} : list'[v] = list[v]
        /\ UNCHANGED delivery
    BY <1>1 DEF BeginPass, IInv, Types, stored
  <2>2. Single' BY <2>1 DEF Single
  <2>3. ASSUME NEW b \in Body, Recorded(b)
        PROVE  \/ delivery[b].attempts + 1 < MaxAttempts
               \/ Retriers(b)' \subseteq Retriers(b)
    <3>1. delivery[b].attempts \in Nat BY <2>3, Records DEF IInv, Types, Recorded
    <3>2. CASE Exhausted(delivery[b].attempts)
      <4>1. \A j \in list'[w] : j.body = b => Exhausted(j.attempts)
        BY <2>1, <3>2
      <4> QED BY <2>1, <4>1 DEF Retriers
    <3> QED BY <3>1, <3>2 DEF Exhausted
  <2>4. Counted' BY <2>1, <2>3, SameRecord DEF Counted, Recorded
  <2> QED BY <2>2, <2>4
<1>2. ASSUME NEW j \in list[w], Fetch(w, j) PROVE Single' /\ Counted'
  <2>1. /\ list'[w] = list[w] \ {j} /\ job'[w] = j
        /\ step'[w] = "retry" => ~Exhausted(j.attempts)
        /\ \A v \in Worker \ {w} :
             step'[v] = step[v] /\ job'[v] = job[v] /\ list'[v] = list[v]
        /\ UNCHANGED delivery
    BY <1>2 DEF Fetch, Fetched, Goto, IInv, Types, stored
  <2>2. Single' BY <1>2, <2>1 DEF Single
  <2>3. \A b \in Body : Retriers(b)' \subseteq Retriers(b) BY <2>1 DEF Retriers
  <2> QED BY <2>1, <2>2, <2>3, QuietStep DEF Recorded
<1>3. CASE Create(w)
  <2>1. /\ step[w] = "create" /\ step'[w] \in {"settle", "next"}
        /\ step'[w] = "settle" => job'[w] = job[w]
        /\ UNCHANGED << delivery, list >>
        /\ \A v \in Worker \ {w} : step'[v] = step[v] /\ job'[v] = job[v]
    BY <1>3 DEF Create, EndItem, Goto, IInv, Types
  <2>2. Single' BY <2>1 DEF Single
  <2>3. \A b \in Body : Retriers(b)' \subseteq Retriers(b) BY <2>1 DEF Retriers
  <2> QED BY <2>1, <2>2, <2>3, QuietStep DEF Recorded
<1>4. CASE Abort(w)
  <2>1. /\ step'[w] = "next" /\ list'[w] \subseteq list[w] /\ UNCHANGED delivery
        /\ \A v \in Worker \ {w} :
             step'[v] = step[v] /\ job'[v] = job[v] /\ list'[v] = list[v]
    BY <1>4 DEF Abort, IInv, Types, stored
  <2>2. Single' BY <2>1 DEF Single
  <2>3. \A b \in Body : Retriers(b)' \subseteq Retriers(b) BY <2>1 DEF Retriers
  <2> QED BY <2>1, <2>2, <2>3, QuietStep DEF Recorded
<1> QED BY <1>1, <1>2, <1>3, <1>4, RetryCounted, SettleCounted DEF Enrich

\* A body is recorded with no attempt made and in nobody's hand.
LEMMA ServeCounted ==
  ASSUME IInv, Single, Counted, NEW r \in Request, Serve(r)
  PROVE  Single' /\ Counted'
<1>1. UNCHANGED << list, job, step >>
  BY DEF Serve, Record, Inserted, Existing, Audit, loop
<1>2. Single' /\ \A b \in Body : Retriers(b)' = Retriers(b)
  BY <1>1 DEF Single, Retriers
<1>3. CASE UNCHANGED delivery BY <1>2, <1>3, QuietStep DEF Recorded
<1>4. ASSUME NEW b \in Body, ~Recorded(b), Inserted(b) PROVE Counted'
  <2>1. /\ delivery'[b].attempts = 0
        /\ \A c \in Body \ {b} : delivery'[c] = delivery[c]
    BY <1>4 DEF Inserted, IInv, Types
  <2>2. Retriers(b) = {}
    BY <1>4 DEF Retriers, IInv, Hands, UpToDate
  <2>3. Countable(b)' BY <1>2, <2>1, <2>2 DEF Countable
  <2>4. \A c \in Body \ {b} : Recorded(c)' => Countable(c)'
    BY <1>2, <2>1, SameRecord DEF Counted, Recorded
  <2> QED BY <2>3, <2>4 DEF Counted
<1> QED BY <1>2, <1>3, <1>4 DEF Serve, Record, Existing, Audit, stored

LEMMA CountedStep == ASSUME IInv, Single, Counted, [Next]_vars PROVE Single' /\ Counted'
<1>1. ASSUME NEW r \in Request, NEW b \in Body, Receive(r, b) PROVE Single' /\ Counted'
  BY <1>1, QuietStep DEF Receive, stored, loop, Single, Retriers, Recorded
<1>2. CASE Tick \/ UNCHANGED vars
  BY <1>2, QuietStep DEF Tick, vars, stored, loop, Single, Retriers, Recorded
<1>3. ASSUME NEW b \in Body, Expire(b) PROVE Single' /\ Counted'
  <2>1. UNCHANGED << list, job, step >>
        /\ \A c \in Body : Recorded(c)' => delivery'[c] = delivery[c]
    BY <1>3 DEF Expire, loop, IInv, Types, Recorded
  <2> QED BY <2>1, QuietStep DEF Single, Retriers, Recorded
<1> QED BY <1>1, <1>2, <1>3, ServeCounted, LoopCounted DEF Next

\* A wait is the shortest or a backoff, which the cap bounds, and it only runs
\* down; the rest of the state keeps its type step by step.
LEMMA BackoffBounded == \A n : Backoff(n) \in 0 .. RetryMax
<1>1. ASSUME NEW n PROVE Backoff(n) \in 0 .. RetryMax
  <2>1. CASE 2^n \in 0 .. RetryMax BY <2>1 DEF Backoff
  <2>2. CASE ~(2^n \in 0 .. RetryMax) BY <2>2 DEF Backoff
  <2> QED BY <2>1, <2>2
<1> QED BY <1>1

Queue ==
  /\ wait \in [Body -> 0 .. RetryMax]
  /\ ahead \in [Body -> SUBSET Body]

LEMMA QueueStep ==
  ASSUME Queue, NEW b \in Body
  PROVE  /\ \A t \in 0 .. RetryMax : DueIn(b, t) => Queue'
         /\ NotDue(b) => Queue'
<1>1. ASSUME NEW t \in 0 .. RetryMax, DueIn(b, t) PROVE Queue'
  <2>1. wait' \in [Body -> 0 .. RetryMax] BY <1>1 DEF DueIn, Queue
  <2>2. ahead' \in [Body -> SUBSET Body]
    <3>1. \A c \in Body : ahead'[c] \in SUBSET Body BY <1>1 DEF DueIn, Queue, Behind
    <3> QED BY <1>1, <3>1 DEF DueIn
  <2> QED BY <2>1, <2>2 DEF Queue
<1>2. ASSUME NotDue(b) PROVE Queue'
  <2>1. wait' \in [Body -> 0 .. RetryMax] BY <1>2 DEF NotDue, Queue
  <2>2. \A c \in Body : ahead'[c] \in SUBSET Body BY <1>2 DEF NotDue, Queue
  <2> QED BY <1>2, <2>1, <2>2 DEF NotDue, Queue
<1> QED BY <1>1, <1>2

Answers ==
  /\ accepted \subseteq Body
  /\ serving \in [Request -> (Body \X {"record", "existing", "audit"})
                               \cup {<< None, "idle" >>}]
  /\ aborts \in 0 .. MaxAborts

LEMMA FieldsStep ==
  ASSUME IInv, Queue, Answers, [Next]_vars
  PROVE  Queue' /\ Answers'
<1>1. ASSUME NEW r \in Request, NEW b \in Body, Receive(r, b) PROVE Queue' /\ Answers'
  BY <1>1 DEF Receive, Queue, Answers, stored
<1>2. ASSUME NEW r \in Request, Serve(r) PROVE Queue' /\ Answers'
  <2>1. Answers'
    BY <1>2 DEF Serve, Record, Existing, Audit, Answer, Refuse, Answers
  <2>2. Queue'
    <3>1. ASSUME NEW b \in Body, Inserted(b) PROVE Queue'
      BY <3>1, QueueStep DEF Inserted, Queue
    <3>2. CASE UNCHANGED stored BY <3>2 DEF stored, Queue
    <3> QED BY <1>2, <3>1, <3>2 DEF Serve, Record, Existing, Audit
  <2> QED BY <2>1, <2>2
<1>3. ASSUME NEW w \in Worker, ScheduleRetry(w) \/ MarkFailed(w) \/ MarkEnriched(w)
      PROVE  Queue' /\ Answers'
  <2>1. Answers' BY <1>3 DEF ScheduleRetry, MarkFailed, MarkEnriched, Answers
  <2>2. CASE UNCHANGED << wait, ahead >> BY <2>1, <2>2 DEF Queue
  <2> DEFINE b == job[w].body
  <2>3. b \in Body
    BY <1>3 DEF ScheduleRetry, MarkFailed, MarkEnriched, IInv, Hands, Types, Listed
  <2>4. CASE NotDue(b) BY <2>1, <2>3, <2>4, QueueStep
  <2>5. CASE DueIn(b, Backoff(job[w].attempts))
    BY <2>1, <2>3, <2>5, BackoffBounded, QueueStep
  <2> QED
    BY <1>3, <2>1, <2>2, <2>4, <2>5 DEF ScheduleRetry, MarkFailed, MarkEnriched
<1>4. ASSUME NEW w \in Worker, NEW j \in list[w], Fetch(w, j) PROVE Queue' /\ Answers'
  BY <1>4 DEF Fetch, Queue, Answers, stored
<1>5. ASSUME NEW w \in Worker, BeginPass(w) \/ Create(w) PROVE Queue' /\ Answers'
  BY <1>5 DEF BeginPass, Create, EndItem, Goto, Queue, Answers, stored
<1>6. ASSUME NEW w \in Worker, Abort(w) PROVE Queue' /\ Answers'
  BY <1>6 DEF Abort, Queue, Answers, stored
<1>7. CASE Tick BY <1>7 DEF Tick, Queue, Answers
<1>8. ASSUME NEW b \in Body, Expire(b) PROVE Queue' /\ Answers'
  <2>1. Queue' BY <1>8, QueueStep DEF Expire
  <2>2. Answers' BY <1>8 DEF Expire, Answers
  <2> QED BY <2>1, <2>2
<1>9. CASE UNCHANGED vars BY <1>9 DEF vars, stored, Queue, Answers
<1> QED
  BY <1>1, <1>2, <1>3, <1>4, <1>5, <1>6, <1>7, <1>8, <1>9 DEF Next, Enrich

\* Every variable keeps its type, and an instance that still counts a failure of
\* a batch it listed before takes the attempts past the maximum by no more than
\* one for every other instance.
THEOREM TypeCorrect == Spec => []TypeOK
<1>1. Init => Single /\ Counted /\ Queue /\ Answers
  <2> SUFFICES ASSUME Init PROVE Single /\ Counted /\ Queue /\ Answers OBVIOUS
  <2>1. Single BY DEF Init, Single
  <2>2. Counted BY DEF Init, Counted, Recorded
  <2> QED BY <2>1, <2>2 DEF Init, Queue, Answers
<1>2. IInv /\ Single /\ Counted /\ Queue /\ Answers /\ [Next]_vars
        => Single' /\ Counted' /\ Queue' /\ Answers'
  BY CountedStep, FieldsStep
<1>3. IInv /\ Counted /\ Queue /\ Answers => TypeOK
  <2> SUFFICES ASSUME IInv, Counted, Queue, Answers PROVE TypeOK OBVIOUS
  <2>1. ASSUME NEW b \in Body, Recorded(b)
        PROVE  delivery[b].attempts < MaxAttempts + Cardinality(Worker)
    <3>1. delivery[b].attempts \in Nat BY <2>1, Records DEF IInv, Types, Recorded
    <3>2. Retriers(b) \in SUBSET Worker BY DEF Retriers
    <3>3. Cardinality(Retriers(b)) \in Nat /\ Cardinality(Worker) \in Nat BY <3>2, Sizes
    <3> QED BY <2>1, <3>1, <3>3 DEF Counted, Countable
  <2> QED BY <2>1 DEF TypeOK, IInv, Types, Queue, Answers
<1> QED BY <1>1, <1>2, <1>3, Invariance, PTL DEF Spec
=============================================================================
