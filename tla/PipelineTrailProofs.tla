---------------------- MODULE PipelineTrailProofs ----------------------
(***************************************************************************)
(* What PipelineTrail promises, proved for any number of deliveries,       *)
(* reviews, purges, documents inserted across a purge and upsets.          *)
(***************************************************************************)
EXTENDS PipelineTrail, FiniteSetTheorems, WellFoundedInduction, TLAPS

USE BoundsAssumption

-----------------------------------------------------------------------------
(***************************************************************************)
(* The inductive invariant                                                 *)
(***************************************************************************)
Pull == Closed \cup {"open"}
Doc  == [id : Nat \ {0}, parent : Nat, run : Nat, status : Status, pull : Pull,
         key : Named \cup {"issueKey"}]
Jobs == [makes : DOMAIN Source, from : Nat, run : Nat, pull : Pull, stale : BOOLEAN]

Purges ==
  [step : 0 .. 9, item : Nat, runs : SUBSET Nat, clean : BOOLEAN,
   answer : {"none", "not_found", "purged", "orphaned"}]
Views ==
  [at : ChainKind \cup {"idle", "answered"}, run : Nat, review : Nat, from : Nat,
   chain : [ChainKind -> Status \cup {"none"}]]

Typed ==
  /\ docs \in [Kind -> SUBSET Doc] /\ raced \in 0 .. MaxRaces
  /\ hand \in [Loop -> Jobs \cup {None}]
  /\ \A w \in Loop :
       hand[w] # None /\ hand[w].makes = "deployment" => hand[w].pull \in Closed
  /\ purge \in Purges /\ view \in Views
  /\ deliveries \in 0 .. MaxArrivals /\ reviews \in 0 .. MaxArrivals
  /\ upsets \in 0 .. MaxUpsets /\ purges \in 0 .. MaxPurges

\* All that is referred to is below some bound: there is a fresh id.
Under(n) ==
  /\ \A k \in Kind : \A d \in Of(k) : d.id <= n /\ d.parent <= n /\ d.run <= n
  /\ \A w \in Busy : hand[w].from <= n /\ hand[w].run <= n
  /\ purge.item <= n /\ \A r \in purge.runs : r <= n
  /\ view.run <= n /\ view.review <= n /\ view.from <= n
Bounded == \E n \in Nat : Under(n)

\* Ids are unique in their collection; there is one item, and one child of most
\* kinds for a parent; a run stays as it was made, and the later stages end as
\* they can.
Identified == \A k \in Kind : \A d, e \in Of(k) : d.id = e.id => d = e
OneItem == \A d, e \in Of("item") : d = e
Single == {"selection", "execution", "publication", "deployment"}
OneChild == \A k \in Single : \A d, e \in Of(k) : d.parent = e.parent => d = e
RunsQueued == \A d \in Of("run") : d.status = "queued" /\ d.run = d.id
Outcomes ==
  /\ \A d \in Of("review") : d.status \in {"pending", "approved", "rejected"}
  /\ \A d \in Of("execution") : d.status \in {"succeeded", "failed"}
  /\ \A d \in Of("publication") : d.status \in {"published", "failed"}

\* What is in hand, and was not swept since it was read, can still be built on.
KnownRun(r) == \E d \in Of("run") : d.run = r
Sound(j) ==
  /\ j.makes \notin {"item", "verdict"} =>
       Has(Source[j.makes], j.from, Behind[j.makes])
  /\ j.makes = "review" => j.run = j.from /\ Authorized(j.from)
  /\ raced = 0 /\ j.makes \in ChainKind => KnownRun(j.run)
Hands == \A w \in Busy : ~hand[w].stale => Sound(hand[w])

\* The trail, with what keeps it whole: a reviewed run has its selection, and
\* all that follows a run carries the id of one that is there.
Trail ==
  raced = 0 =>
    /\ \A k \in Kind \ {"delivery", "item"} : \A d \in Of(k) :
         Has(Source[k], d.parent, Behind[k])
    /\ \A v \in Of("review") : v.run = v.parent /\ Authorized(v.run)
    /\ \A k \in ChainKind : \A d \in Of(k) : KnownRun(d.run)

\* A purge has emptied the collections it has passed, unless something was
\* inserted meanwhile, and knows all that it has to find - but for deliveries
\* under a key that the item it did not find would have told it.
Swept == {PurgeOrder[i] : i \in {x \in 1 .. 9 : x < purge.step}}
Whole == {"selection", "run", "analysis"}
Unnamed(d) == purge.item = 0 /\ d.key # "issueKey"
Progress ==
  purge.step # 0 =>
    /\ purge.answer = "none"
    /\ purge.clean =>
         /\ \A k \in Swept \cap Whole : Of(k) = {}
         /\ "delivery" \in Swept => \A d \in Of("delivery") : Unnamed(d)
         /\ \A d \in Of("item") : d.id = purge.item
    /\ raced = 0 =>
         /\ \A k \in Swept \ {"delivery"} : Of(k) = {}
         /\ \A d \in Of("item") : d.id = purge.item
         /\ \A k \in ChainKind \cup {"run"} : \A d \in Of(k) : d.run \in purge.runs

Data == Typed /\ Bounded
Order == Identified /\ OneItem /\ OneChild /\ RunsQueued /\ Outcomes
IInv == Data /\ Order /\ Hands /\ Trail /\ Progress /\ PurgeClears

-----------------------------------------------------------------------------
(***************************************************************************)
(* Fresh ids                                                               *)
(***************************************************************************)
\* A bounded set of numbers that is not empty has a greatest one: of the sets of
\* numbers above each of them, one is minimal.
LEMMA Greatest ==
  ASSUME NEW S \in SUBSET Nat, S # {}, NEW n \in Nat, \A x \in S : x <= n
  PROVE  Max(S) \in S /\ \A x \in S : x <= Max(S)
<1> DEFINE Above(x) == {y \in S : y > x}
<1> DEFINE T == {Above(x) : x \in S}
<1>1. T \subseteq FiniteSubsetsOf(S) /\ T # {}
  <2> SUFFICES ASSUME NEW x \in S PROVE IsFiniteSet(Above(x))
    BY DEF FiniteSubsetsOf
  <2> QED BY FS_BoundedSetOfNaturals
<1>2. IsWellFoundedOn(StrictSubsetOrdering(S), FiniteSubsetsOf(S))
  BY FS_StrictSubsetOrderingWellFounded
<1>3. PICK m \in T : \A t \in T : ~ << t, m >> \in StrictSubsetOrdering(S)
  <2> HIDE DEF T
  <2> QED BY <1>1, <1>2, WFMin, Zenon
<1>4. PICK x \in S : m = Above(x) BY <1>3
<1>5. ASSUME NEW y \in S, y > x PROVE FALSE
  <2>1. Above(y) \subseteq Above(x)
    <3>1. ASSUME NEW z \in S, z > y PROVE z > x BY <1>5, <3>1
    <3> QED BY <3>1
  <2>2. y \in Above(x) /\ y \notin Above(y) BY <1>5
  <2>3. << Above(y), Above(x) >> \in StrictSubsetOrdering(S)
    BY <2>1, <2>2 DEF StrictSubsetOrdering
  <2> QED BY <1>3, <1>4, <2>3
<1>6. \A y \in S : x >= y BY <1>5
<1>7. Max(S) \in S /\ \A y \in S : Max(S) >= y BY <1>6 DEF Max
<1> QED BY <1>7

\* What is referred to is a number below the bound.
LEMMA ReferredBelow ==
  ASSUME Typed, NEW n \in Nat, Under(n), NEW k \in Kind
  PROVE  Referred(k) \in SUBSET (0 .. n)
<1> SUFFICES ASSUME NEW x \in Referred(k) PROVE x \in 0 .. n OBVIOUS
<1>1. CASE x \in {d.id : d \in Of(k)} BY <1>1 DEF Typed, Under, Of, Doc
<1>2. CASE x \in UNION {{d.parent : d \in Of(c)} :
                       c \in {y \in Kind : y # "delivery" /\ Source[y] = k}}
  BY <1>2 DEF Typed, Under, Of, Doc
<1>3. CASE x \in {hand[w].from : w \in {y \in Busy : Source[hand[y].makes] = k}}
  BY <1>3 DEF Typed, Under, Busy, Jobs
<1>4. CASE /\ k = "run"
           /\ x \in (UNION {{d.run : d \in Of(c)} : c \in Kind})
                     \cup {hand[w].run : w \in Busy} \cup purge.runs \cup {view.run}
  <2>1. CASE x \in UNION {{d.run : d \in Of(c)} : c \in Kind} BY <2>1 DEF Typed, Under, Of, Doc
  <2>2. CASE x \in {hand[w].run : w \in Busy} BY <2>2 DEF Typed, Under, Busy, Jobs
  <2>3. CASE x \in purge.runs \cup {view.run} BY <2>3 DEF Typed, Purges, Views, Under
  <2> QED BY <1>4, <2>1, <2>2, <2>3
<1>5. CASE x \in {purge.item, view.review, view.from}
  <2>1. purge.item \in Nat BY DEF Typed, Purges
  <2>2. view.review \in Nat /\ view.from \in Nat BY DEF Typed, Purges, Views
  <2> QED BY <1>5, <2>1, <2>2 DEF Under
<1> QED BY <1>1, <1>2, <1>3, <1>4, <1>5 DEF Referred

\* A fresh id is above all that is referred to, and just above the bound at most.
LEMMA FreshIsNew ==
  ASSUME Typed, NEW n \in Nat, Under(n), NEW k \in Kind
  PROVE  /\ Fresh(k) \in Nat \ {0} /\ Fresh(k) <= n + 1
         /\ \A x \in Referred(k) : x < Fresh(k)
<1> DEFINE S == {0} \cup Referred(k)
<1>1. S \in SUBSET Nat /\ S # {} /\ \A x \in S : x <= n /\ x \in Nat BY ReferredBelow
<1>2. Fresh(k) = 1 + Max(S) BY DEF Fresh
<1> HIDE DEF S
<1>3. Max(S) \in S /\ \A x \in S : x <= Max(S) BY <1>1, Greatest
<1>4. Max(S) \in Nat /\ Max(S) <= n BY <1>1, <1>3
<1>5. \A x \in S : x < 1 + Max(S) BY <1>1, <1>3, <1>4
<1>6. Referred(k) \subseteq S BY DEF S
<1> QED BY <1>2, <1>4, <1>5, <1>6

-----------------------------------------------------------------------------
(***************************************************************************)
(* What happens to the documents                                           *)
(***************************************************************************)
\* The changes of status: what is past its gate stays so.
Moves(k, s, t) ==
  \/ t = s
  \/ k \in {"delivery", "deployment"}
  \/ k = "item" /\ s \in {"received", "pending_approval"}
  \/ k = "selection" /\ s \in {"pending", "failed"}
  \/ k = "review" /\ s = "pending" /\ t \in {"approved", "rejected"}
Becomes(k, d, e) ==
  /\ e.id = d.id /\ e.parent = d.parent /\ e.run = d.run /\ e.key = d.key
  /\ Moves(k, d.status, e.status)

\* Documents change, but none comes or goes.
Evolution(D, E) ==
  /\ E \in [Kind -> SUBSET Doc]
  /\ \A k \in Kind : \A d \in D[k] : \E e \in E[k] : Becomes(k, d, e)
  /\ \A k \in Kind : \A e \in E[k] : \E d \in D[k] : Becomes(k, d, e)
  /\ \A k \in Kind : \A d, e \in E[k] : d.id = e.id => d = e

\* Nothing changes, and so nothing comes or goes.
LEMMA Still == ASSUME Typed, Identified PROVE Evolution(docs, docs)
  BY DEF Typed, Identified, Of, Evolution, Becomes, Moves

\* A new status that the kind of document may take is such a change.
LEMMA MarkEvolves ==
  ASSUME Typed, Identified, NEW k \in Kind, NEW x, NEW t \in Status, Mark(k, x, t),
         \A d \in docs[k] : d.id = x => Moves(k, d.status, t)
  PROVE  Evolution(docs, docs')
<1> DEFINE G(d) == IF d.id = x THEN [d EXCEPT !.status = t] ELSE d
<1>1. docs \in [Kind -> SUBSET Doc] BY DEF Typed
<1>2. docs' = [docs EXCEPT ![k] = {G(d) : d \in docs[k]}] BY DEF Mark
<1>3. \A d \in docs[k] : G(d) \in Doc /\ Becomes(k, d, G(d))
  BY <1>1 DEF Doc, Becomes, Moves
<1>4. \A d, e \in docs[k] : d.id = e.id => d = e BY DEF Identified, Of
<1> HIDE DEF G
<1>5. docs'[k] = {G(d) : d \in docs[k]} /\ \A c \in Kind : c # k => docs'[c] = docs[c]
  BY <1>1, <1>2
<1>6. docs' \in [Kind -> SUBSET Doc] BY <1>1, <1>2, <1>3
<1>7. \A c \in Kind : \A d, e \in docs'[c] : d.id = e.id => d = e
  <2>1. \A d, e \in docs'[k] : d.id = e.id => d = e BY <1>3, <1>4, <1>5 DEF Becomes
  <2> QED BY <2>1, <1>5 DEF Identified, Of
<1>8. \A c \in Kind \ {k} : \A d \in docs[c] : d \in docs'[c] /\ Becomes(c, d, d)
  BY <1>5 DEF Becomes, Moves
<1>9. \A c \in Kind : \A d \in docs[c] : \E e \in docs'[c] : Becomes(c, d, e) BY <1>3, <1>5, <1>8
<1>10. \A c \in Kind : \A e \in docs'[c] : \E d \in docs[c] : Becomes(c, d, e) BY <1>3, <1>5, <1>8
<1> QED BY <1>6, <1>7, <1>9, <1>10 DEF Evolution

\* The write to the parent that follows a creation is such a change, and leaves
\* the collection of the child alone.
LEMMA FollowEvolves ==
  ASSUME Typed, Identified, NEW k \in Kind, NEW p
  PROVE  Evolution(docs, WithFollow(k, p)) /\ WithFollow(k, p)[k] = docs[k]
<1>1. CASE k \notin {"item", "analysis"} BY <1>1, Still DEF WithFollow
<1>2. CASE k \in {"item", "analysis"}
  <2> DEFINE G(d) == IF d.id = p THEN Followed(k, d) ELSE d
  <2> DEFINE c == Source[k]
  <2> DEFINE E == WithFollow(k, p)
  <2>1. docs \in [Kind -> SUBSET Doc] BY DEF Typed
  <2>2. c \in Kind /\ c # k /\ c \in {"delivery", "item"} /\ (k = "analysis" => c = "item")
        /\ (k = "item" => c = "delivery")
    BY <1>2 DEF Source, Kind
  <2>3. E = [docs EXCEPT ![c] = {G(d) : d \in docs[c]}] BY <1>2 DEF WithFollow
  <2>4. \A d \in docs[c] : G(d) \in Doc /\ Becomes(c, d, G(d))
    BY <1>2, <2>1, <2>2 DEF Doc, Becomes, Moves, Followed, Status
  <2>5. \A d, e \in docs[c] : d.id = e.id => d = e BY <2>2 DEF Identified, Of
  <2> HIDE DEF G, c, E
  <2>6. E[c] = {G(d) : d \in docs[c]} /\ \A x \in Kind : x # c => E[x] = docs[x]
    BY <2>1, <2>2, <2>3
  <2>7. E \in [Kind -> SUBSET Doc] BY <2>1, <2>2, <2>3, <2>4
  <2>8. \A x \in Kind : \A d, e \in E[x] : d.id = e.id => d = e
    <3>1. \A d, e \in E[c] : d.id = e.id => d = e BY <2>4, <2>5, <2>6 DEF Becomes
    <3> QED BY <3>1, <2>6 DEF Identified, Of
  <2>9. \A x \in Kind \ {c} : \A d \in docs[x] : d \in E[x] /\ Becomes(x, d, d)
    BY <2>6 DEF Becomes, Moves
  <2>10. \A x \in Kind : \A d \in docs[x] : \E e \in E[x] : Becomes(x, d, e) BY <2>4, <2>6, <2>9
  <2>11. \A x \in Kind : \A e \in E[x] : \E d \in docs[x] : Becomes(x, d, e) BY <2>4, <2>6, <2>9
  <2>12. Evolution(docs, E) BY <2>7, <2>8, <2>10, <2>11 DEF Evolution
  <2>13. E[k] = docs[k] BY <2>2, <2>6
  <2> QED BY <2>12, <2>13 DEF E
<1> QED BY <1>1, <1>2

\* So is the end of a pull request.
LEMMA PullEvolves ==
  ASSUME Typed, Identified, NEW d, ClosePull(d)
  PROVE  Evolution(docs, docs')
<1> DEFINE k == "publication"
<1>0. k \in Kind BY DEF Kind
<1>1. docs \in [Kind -> SUBSET Doc] /\ d \in docs[k] BY DEF Typed, ClosePull, Of
<1>2. PICK o \in Closed : docs' = [docs EXCEPT ![k] = (@ \ {d}) \cup {[d EXCEPT !.pull = o]}]
  BY DEF ClosePull
<1> DEFINE e == [d EXCEPT !.pull = o]
<1>3. e \in Doc /\ Becomes(k, d, e) BY <1>0, <1>1 DEF Doc, Pull, Becomes, Moves
<1> HIDE DEF e
<1>4. docs' = [docs EXCEPT ![k] = (docs[k] \ {d}) \cup {e}] BY <1>2 DEF e
<1> HIDE DEF k
<1>5. docs'[k] = (docs[k] \ {d}) \cup {e} /\ \A c \in Kind : c # k => docs'[c] = docs[c]
  BY <1>0, <1>1, <1>4
<1>6. docs' \in [Kind -> SUBSET Doc] BY <1>0, <1>1, <1>3, <1>4
<1>7. \A c \in Kind : \A x, y \in docs'[c] : x.id = y.id => x = y
  BY <1>0, <1>1, <1>3, <1>5 DEF Identified, Of, Becomes
<1>8. \A c \in Kind : \A x \in docs[c] : Becomes(c, x, x) BY DEF Becomes, Moves
<1>9. \A c \in Kind : \A x \in docs[c] : \E y \in docs'[c] : Becomes(c, x, y)
  BY <1>0, <1>1, <1>3, <1>5, <1>8
<1>10. \A c \in Kind : \A y \in docs'[c] : \E x \in docs[c] : Becomes(c, x, y)
  BY <1>0, <1>1, <1>3, <1>5, <1>8
<1> QED BY <1>6, <1>7, <1>9, <1>10 DEF Evolution

\* Nothing is lost.
Kept ==
  /\ docs' \in [Kind -> SUBSET Doc]
  /\ \A k \in Kind : \A d \in docs[k] : \E e \in docs'[k] : Becomes(k, d, e)

\* What a later document rests on is still there, and still past its gate.
LEMMA HasKept ==
  ASSUME Typed, Kept, NEW k \in (DOMAIN Behind) \ {"item"}, NEW id,
         Has(Source[k], id, Behind[k])
  PROVE  Has(Source[k], id, Behind[k])'
<1>1. Source[k] \in Kind BY DEF Source, Behind, Kind
<1>2. PICK d \in docs[Source[k]] : d.id = id /\ d.status \in Behind[k] BY DEF Has, Of
<1>3. PICK e \in docs'[Source[k]] : Becomes(Source[k], d, e) BY <1>1, <1>2 DEF Kept
<1>4. e.status \in Status BY <1>1, <1>3 DEF Kept, Doc
<1>5. e.id = id /\ Moves(Source[k], d.status, e.status) BY <1>2, <1>3 DEF Becomes
<1>6. e.status \in Behind[k] BY <1>2, <1>4, <1>5 DEF Moves, Behind, Source
<1> QED BY <1>3, <1>5, <1>6 DEF Has, Of

\* So is the selection of a run, and the run itself.
LEMMA AuthorizedKept ==
  ASSUME Kept, NEW r, Authorized(r) PROVE Authorized(r)'
<1>1. "selection" \in Kind BY DEF Kind
<1>2. PICK s \in docs["selection"] : s.parent = r /\ s.status = "selected"
  BY DEF Authorized, Children, Of
<1>3. PICK e \in docs'["selection"] : Becomes("selection", s, e) BY <1>1, <1>2 DEF Kept
<1>4. e.parent = r /\ e.status = "selected" BY <1>2, <1>3 DEF Becomes, Moves
<1> QED BY <1>3, <1>4 DEF Authorized, Children, Of

LEMMA RunKept ==
  ASSUME Kept, NEW r, KnownRun(r) PROVE KnownRun(r)'
<1>1. "run" \in Kind BY DEF Kind
<1>2. PICK s \in docs["run"] : s.run = r BY DEF KnownRun, Of
<1>3. PICK e \in docs'["run"] : Becomes("run", s, e) BY <1>1, <1>2 DEF Kept
<1> QED BY <1>2, <1>3 DEF KnownRun, Of, Becomes

\* What is sound in hand stays so while nothing is lost.
LEMMA SoundKept ==
  ASSUME Typed, Kept, raced' = 0 => raced = 0, NEW j \in Jobs, Sound(j)
  PROVE  Sound(j)'
<1>1. ASSUME j.makes \notin {"item", "verdict"} PROVE Has(Source[j.makes], j.from, Behind[j.makes])'
  <2>1. j.makes \in (DOMAIN Behind) \ {"item"} BY <1>1 DEF Jobs, Behind, Source
  <2> QED BY <1>1, <2>1, HasKept DEF Sound
<1>2. ASSUME j.makes = "review" PROVE j.run = j.from /\ Authorized(j.from)'
  BY <1>2, AuthorizedKept DEF Sound
<1>3. ASSUME raced' = 0, j.makes \in ChainKind PROVE KnownRun(j.run)'
  BY <1>3, RunKept DEF Sound
<1> QED BY <1>1, <1>2, <1>3 DEF Sound

\* A step that changes documents, adds none and removes none keeps the order
\* among them, whatever it does to what is in hand.
LEMMA EvolveStep ==
  ASSUME IInv, Typed', Evolution(docs, docs'), UNCHANGED << raced, purge >>
  PROVE  Order' /\ Trail' /\ Progress' /\ PurgeClears'
<1> USE DEF Of
<1>1. Typed /\ Kept BY DEF IInv, Data, Evolution, Kept
<1>2. \A k \in Kind : \A e \in docs'[k] : \E d \in docs[k] : Becomes(k, d, e) BY DEF Evolution
<1>3. \A k \in Kind : docs[k] = {} => docs'[k] = {} BY <1>2
<1>4. {"item", "selection", "run", "review", "analysis", "delivery"} \subseteq Kind
      /\ ChainKind \subseteq Kind
  BY DEF Kind, ChainKind
<1>5. Order'
  <2>1. Identified' BY DEF Evolution, Identified
  <2>2. OneItem' BY <1>2, <1>4, <2>1 DEF IInv, Order, OneItem, Identified, Becomes
  <2>3. OneChild'
    BY <1>2, <1>4, <2>1 DEF IInv, Order, OneChild, Single, ChainKind, Identified, Becomes
  <2>4. RunsQueued' BY <1>2, <1>4 DEF IInv, Order, RunsQueued, Becomes, Moves
  <2>5. Outcomes'
    BY <1>2, <1>4 DEF IInv, Order, Outcomes, ChainKind, Becomes, Moves
  <2> QED BY <2>1, <2>2, <2>3, <2>4, <2>5 DEF Order
<1>6. Trail'
  <2> SUFFICES ASSUME raced = 0 PROVE Trail' BY DEF Trail
  <2>1. ASSUME NEW k \in Kind \ {"delivery", "item"}, NEW e \in docs'[k]
        PROVE  Has(Source[k], e.parent, Behind[k])'
    <3>1. PICK d \in docs[k] : Becomes(k, d, e) BY <1>2, <2>1
    <3>2. Has(Source[k], d.parent, Behind[k]) BY <3>1 DEF IInv, Trail
    <3>3. k \in (DOMAIN Behind) \ {"item"} BY <2>1 DEF Behind, Kind
    <3>4. e.parent = d.parent BY <3>1 DEF Becomes
    <3>5. Has(Source[k], e.parent, Behind[k]) BY <3>2, <3>4
    <3> QED BY <1>1, <3>3, <3>5, HasKept
  <2>2. ASSUME NEW e \in docs'["review"] PROVE e.run = e.parent /\ Authorized(e.run)'
    <3>1. PICK d \in docs["review"] : Becomes("review", d, e) BY <1>2, <1>4, <2>2
    <3>2. e.run = e.parent /\ Authorized(e.run) BY <3>1 DEF IInv, Trail, Becomes
    <3> QED BY <1>1, <3>2, AuthorizedKept
  <2>3. ASSUME NEW k \in ChainKind, NEW e \in docs'[k] PROVE KnownRun(e.run)'
    <3>1. PICK d \in docs[k] : Becomes(k, d, e) BY <1>2, <1>4, <2>3
    <3>2. KnownRun(e.run) BY <3>1 DEF IInv, Trail, Becomes
    <3> QED BY <1>1, <3>2, RunKept
  <2> QED BY <2>1, <2>2, <2>3 DEF Trail
<1>7. Progress'
  <2> SUFFICES ASSUME purge.step # 0 PROVE Progress' BY DEF Progress
  <2>1. Swept \subseteq Kind /\ Swept' = Swept
    BY <1>1 DEF Swept, PurgeOrder, Kind, Typed
  <2>2. purge.clean => \A k \in Swept \cap Whole : docs'[k] = {}
    BY <1>3, <2>1 DEF IInv, Progress
  <2>3. purge.clean \/ raced = 0 => \A e \in docs'["item"] : e.id = purge.item
    BY <1>2, <1>4 DEF IInv, Progress, Becomes
  <2>4. raced = 0 => \A k \in Swept \ {"delivery"} : docs'[k] = {}
    BY <1>3, <2>1 DEF IInv, Progress
  <2>5. raced = 0 => \A k \in ChainKind \cup {"run"} : \A e \in docs'[k] : e.run \in purge.runs
    BY <1>2, <1>4 DEF IInv, Progress, Becomes
  <2>6. purge.answer = "none" BY DEF IInv, Progress
  <2>7. purge.clean /\ "delivery" \in Swept => \A e \in docs'["delivery"] : Unnamed(e)
    BY <1>2, <1>4 DEF IInv, Progress, Becomes, Unnamed
  <2> QED BY <2>1, <2>2, <2>3, <2>4, <2>5, <2>6, <2>7 DEF Progress, Whole, Unnamed
<1>8. PurgeClears'
  <2>1. \A e \in docs'["delivery"] : \E d \in docs["delivery"] : e.key = d.key
    BY <1>2, <1>4 DEF Becomes
  <2> QED BY <1>3, <1>4, <2>1 DEF IInv, PurgeClears
<1> QED BY <1>5, <1>6, <1>7, <1>8

\* What a document of some kinds may be when it is made.
Ends ==
  [run |-> {"queued"}, review |-> {"pending"}, execution |-> {"succeeded", "failed"},
   publication |-> {"published", "failed"}]

\* A step that adds the child its parent does not have yet - and, where nothing
\* is swept meanwhile, adds it to a parent it may have - keeps the order and the
\* trail.
LEMMA InsertStep ==
  ASSUME IInv, NEW k \in Kind, NEW p \in Nat, NEW r \in Nat, NEW s \in Status,
         NEW stale \in BOOLEAN, Insert(k, p, r, s, stale),
         k # "delivery" => ~Taken(k, p),
         k \in {"run", "review", "execution", "publication"} => s \in Ends[k],
         raced' = 0 =>
           /\ k \notin {"delivery", "item"} => Has(Source[k], p, Behind[k])
           /\ k = "review" => r = p /\ Authorized(p)
           /\ k \in ChainKind => KnownRun(r)
  PROVE  /\ Kept /\ raced' \in 0 .. MaxRaces /\ (raced' = 0 => raced = 0)
         /\ \A c \in Kind : \A e \in docs'[c] :
              \/ \E d \in docs[c] : Becomes(c, d, e)
              \/ c = k /\ e.id = Fresh(k) /\ e.parent = p /\ e.run \in {r, Fresh(k)}
         /\ Order' /\ Trail' /\ Progress' /\ PurgeClears'
<1> USE DEF Of
<1> DEFINE id == Fresh(k)
<1> DEFINE E == WithFollow(k, p)
<1>0. PICK key \in Keys(k) :
        docs' = [E EXCEPT ![k] = E[k] \cup
          {[id |-> id, parent |-> p, run |-> IF k = "run" THEN id ELSE r,
            status |-> s, pull |-> "open", key |-> key]}]
  BY DEF Insert
<1> DEFINE new == [id |-> id, parent |-> p, run |-> IF k = "run" THEN id ELSE r,
                   status |-> s, pull |-> "open", key |-> key]
<1>1. Typed /\ Identified BY DEF IInv, Data, Order
<1>2. PICK n \in Nat : Under(n) BY DEF IInv, Data, Bounded
<1>3. id \in Nat \ {0} /\ \A x \in Referred(k) : x < id BY <1>1, <1>2, FreshIsNew
<1>4. \A d \in docs[k] : d.id < id
  <2>1. \A d \in docs[k] : d.id \in Referred(k) BY DEF Referred
  <2> QED BY <1>3, <2>1
<1>5. Evolution(docs, E) /\ E[k] = docs[k] BY <1>1, FollowEvolves
<1>6. docs' = [E EXCEPT ![k] = E[k] \cup {new}] BY <1>0
<1>7. new \in Doc /\ new.parent = p /\ new.status = s /\ new.id = id
      /\ (k # "run" => new.run = r) /\ (k = "run" => new.run = id)
  BY <1>0, <1>3 DEF Doc, Pull, Keys
<1> HIDE DEF id, new, E
<1>8. docs'[k] = docs[k] \cup {new} /\ \A c \in Kind : c # k => docs'[c] = E[c]
  BY <1>5, <1>6 DEF Evolution
<1>9. Kept
  <2>1. docs' \in [Kind -> SUBSET Doc] BY <1>5, <1>6, <1>7 DEF Evolution
  <2>2. \A d \in docs[k] : Becomes(k, d, d) BY DEF Becomes, Moves
  <2> QED BY <2>1, <2>2, <1>5, <1>8 DEF Kept, Evolution
<1>10. \A c \in Kind \ {k} : \A e \in docs'[c] : \E d \in docs[c] : Becomes(c, d, e)
  BY <1>5, <1>8 DEF Evolution
<1>11. Identified'
  <2>1. \A c \in Kind \ {k} : \A d, e \in docs'[c] : d.id = e.id => d = e
    BY <1>5, <1>8 DEF Evolution
  <2>2. \A d, e \in docs'[k] : d.id = e.id => d = e
    <3>1. \A d \in docs[k] : d.id \in Nat BY <1>1 DEF Typed, Doc
    <3> QED BY <3>1, <1>1, <1>3, <1>4, <1>7, <1>8 DEF Identified
  <2> QED BY <2>1, <2>2 DEF Identified
<1>12. {"item", "selection", "run", "review"} \subseteq Kind /\ ChainKind \subseteq Kind
  BY DEF Kind, ChainKind
<1>13. OneItem'
  <2>1. CASE k = "item"
    <3>1. docs[k] = {} BY <2>1 DEF Taken
    <3> QED BY <2>1, <3>1, <1>8 DEF OneItem
  <2>2. CASE k # "item"
    BY <2>2, <1>10, <1>11, <1>12 DEF IInv, Order, OneItem, Identified, Becomes
  <2> QED BY <2>1, <2>2
<1>14. OneChild'
  <2> SUFFICES ASSUME NEW c \in Single, NEW d \in docs'[c], NEW e \in docs'[c], d.parent = e.parent
               PROVE  d = e
    BY DEF OneChild
  <2>1. CASE k = c
    <3>1. Children(k, p) = {} BY <2>1 DEF Taken, Single
    <3>2. \A x \in docs[k] : x.parent # p BY <3>1 DEF Children
    <3> QED BY <2>1, <3>2, <1>7, <1>8 DEF IInv, Order, OneChild
  <2>2. CASE k # c
    <3>1. c \in Kind \ {k} BY <2>2 DEF Single, Kind
    <3> QED BY <3>1, <1>10, <1>11 DEF IInv, Order, OneChild, Identified, Becomes
  <2> QED BY <2>1, <2>2
<1>23. Outcomes'
  <2> DEFINE Can == [review |-> {"pending", "approved", "rejected"},
                     execution |-> {"succeeded", "failed"},
                     publication |-> {"published", "failed"}]
  <2>1. ASSUME NEW c \in {"review", "execution", "publication"}, NEW e \in docs'[c]
        PROVE  e.status \in Can[c]
    <3>1. \A d \in docs[c] : d.status \in Can[c] BY DEF IInv, Order, Outcomes
    <3>2. CASE c = k
      <4>1. s \in Can[c] BY <3>2 DEF Ends
      <4> QED BY <2>1, <3>1, <3>2, <4>1, <1>7, <1>8
    <3>3. CASE c # k
      <4>1. c \in Kind \ {k} BY <3>3 DEF Kind
      <4>2. PICK d \in docs[c] : Becomes(c, d, e) BY <2>1, <4>1, <1>10
      <4> QED BY <2>1, <3>1, <4>2 DEF Becomes, Moves
    <3> QED BY <3>2, <3>3
  <2> QED BY <2>1 DEF Outcomes
<1>15. RunsQueued'
  <2>1. CASE k = "run" BY <2>1, <1>7, <1>8 DEF IInv, Order, RunsQueued, Ends
  <2>2. CASE k # "run" BY <2>2, <1>10, <1>12 DEF IInv, Order, RunsQueued, Becomes, Moves
  <2> QED BY <2>1, <2>2
<1>16. /\ purge' = [purge EXCEPT !.clean = FALSE]
       /\ \/ raced' = raced + 1 /\ raced < MaxRaces
          \/ raced' = raced /\ purge.step = 0
  BY DEF Insert
<1>17. purge'.clean = FALSE /\ purge'.step = purge.step /\ purge'.answer = purge.answer
  BY <1>1, <1>16 DEF Typed
<1>18. raced \in Nat /\ raced' \in 0 .. MaxRaces /\ (raced' = 0 => raced = 0 /\ purge.step = 0)
  BY <1>1, <1>16 DEF Typed
<1>19. Progress' BY <1>17, <1>18 DEF IInv, Progress
<1>20. PurgeClears' BY <1>17 DEF PurgeClears
<1>21. Trail'
  <2> SUFFICES ASSUME raced' = 0 PROVE Trail' BY DEF Trail
  <2>1. raced = 0 BY <1>18
  <2>2. ASSUME NEW c \in Kind \ {"delivery", "item"}, NEW e \in docs'[c]
        PROVE  Has(Source[c], e.parent, Behind[c])'
    <3>1. Has(Source[c], e.parent, Behind[c])
      <4>1. CASE c # k \/ e \in docs[k]
        <5>1. PICK d \in docs[c] : d.parent = e.parent BY <2>2, <4>1, <1>8, <1>10 DEF Becomes
        <5> QED BY <2>1, <5>1 DEF IInv, Trail
      <4>2. CASE c = k /\ e = new BY <2>2, <4>2, <1>7
      <4> QED BY <2>2, <4>1, <4>2, <1>8
    <3>2. c \in (DOMAIN Behind) \ {"item"} BY <2>2 DEF Behind, Kind
    <3> QED BY <1>1, <1>9, <3>1, <3>2, HasKept
  <2>3. ASSUME NEW e \in docs'["review"] PROVE e.run = e.parent /\ Authorized(e.run)'
    <3>1. e.run = e.parent /\ Authorized(e.run)
      <4>1. CASE k # "review" \/ e \in docs[k]
        <5>1. PICK d \in docs["review"] : d.run = e.run /\ d.parent = e.parent
          BY <2>3, <4>1, <1>8, <1>10, <1>12 DEF Becomes
        <5> QED BY <2>1, <5>1 DEF IInv, Trail
      <4>2. CASE k = "review" /\ e = new BY <4>2, <1>7
      <4> QED BY <2>3, <4>1, <4>2, <1>8
    <3> QED BY <1>9, <3>1, AuthorizedKept
  <2>4. ASSUME NEW c \in ChainKind, NEW e \in docs'[c] PROVE KnownRun(e.run)'
    <3>1. KnownRun(e.run)
      <4>1. CASE c # k \/ e \in docs[k]
        <5>1. PICK d \in docs[c] : d.run = e.run BY <2>4, <4>1, <1>8, <1>10, <1>12 DEF Becomes
        <5> QED BY <2>1, <5>1 DEF IInv, Trail
      <4>2. CASE c = k /\ e = new BY <2>4, <4>2, <1>7 DEF ChainKind
      <4> QED BY <2>4, <4>1, <4>2, <1>8
    <3> QED BY <1>9, <3>1, RunKept
  <2> QED BY <2>2, <2>3, <2>4 DEF Trail
<1>22. \A c \in Kind : \A e \in docs'[c] :
        \/ \E d \in docs[c] : Becomes(c, d, e)
        \/ c = k /\ e.id = Fresh(k) /\ e.parent = p /\ e.run \in {r, Fresh(k)}
  <2>1. \A d \in docs[k] : Becomes(k, d, d) BY DEF Becomes, Moves
  <2>2. id = Fresh(k) BY DEF id
  <2> QED BY <1>7, <1>8, <1>10, <2>1, <2>2
<1> QED BY <1>9, <1>11, <1>13, <1>14, <1>15, <1>18, <1>19, <1>20, <1>21, <1>22, <1>23 DEF Order

\* What is in hand stays sound while nothing is lost.
LEMMA HandsStep ==
  ASSUME IInv, Kept, raced' = 0 => raced = 0,
         \A w \in Loop :
           \/ hand'[w] \in {None, hand[w]}
           \/ \E j \in Jobs : hand'[w] = j /\ Sound(j)'
  PROVE  Hands'
<1>1. Typed BY DEF IInv, Data
<1> SUFFICES ASSUME NEW w \in Loop, hand'[w] # None, ~hand'[w].stale
             PROVE  Sound(hand[w])'
  BY DEF Hands, Busy
<1>2. CASE hand'[w] = hand[w]
  <2>1. hand[w] \in Jobs /\ Sound(hand[w]) BY <1>1, <1>2 DEF Typed, IInv, Hands, Busy
  <2>2. \A j \in Jobs : Sound(j) => Sound(j)' BY <1>1, SoundKept
  <2>3. PICK j \in Jobs : j = hand[w] BY <2>1
  <2>4. Sound(j) BY <2>1, <2>3
  <2>5. Sound(j)' /\ hand'[w] = j BY <2>2, <2>3, <2>4, <1>2
  <2> QED BY <2>5 DEF Sound
<1>3. CASE \E j \in Jobs : hand'[w] = j /\ Sound(j)'
  <2>1. PICK j \in Jobs : hand'[w] = j /\ Sound(j)' BY <1>3
  <2> QED BY <2>1 DEF Sound
<1> QED BY <1>2, <1>3

-----------------------------------------------------------------------------
(***************************************************************************)
(* The purge                                                               *)
(***************************************************************************)
\* "Latest stage first": a document's parent is deleted after it.
LEMMA ChildrenFirst ==
  ASSUME NEW i \in 1 .. 9, NEW c \in Kind \ {"delivery", "item"},
         Source[c] = PurgeOrder[i]
  PROVE  \E j \in 1 .. 9 : j < i /\ PurgeOrder[j] = c
<1>1. CASE Source[c] = "deployment" BY <1>1 DEF Source, Kind
<1>2. CASE Source[c] = "publication"
  <2>1. c = "deployment" /\ i = 2 BY <1>2 DEF Source, Kind, PurgeOrder
  <2> QED BY <2>1 DEF PurgeOrder
<1>3. CASE Source[c] = "execution"
  <2>1. c = "publication" /\ i = 3 BY <1>3 DEF Source, Kind, PurgeOrder
  <2> QED BY <2>1 DEF PurgeOrder
<1>4. CASE Source[c] = "review"
  <2>1. c = "execution" /\ i = 4 BY <1>4 DEF Source, Kind, PurgeOrder
  <2> QED BY <2>1 DEF PurgeOrder
<1>5. CASE Source[c] = "run"
  <2>1. c \in {"review", "selection"} /\ i = 6 BY <1>5 DEF Source, Kind, PurgeOrder
  <2>2. PurgeOrder[4] = "review" /\ PurgeOrder[5] = "selection" BY DEF PurgeOrder
  <2> QED BY <2>1, <2>2
<1>6. CASE Source[c] = "item"
  <2>1. c \in {"run", "analysis"} /\ i = 9 BY <1>6 DEF Source, Kind, PurgeOrder
  <2>2. PurgeOrder[6] = "run" /\ PurgeOrder[7] = "analysis" BY DEF PurgeOrder
  <2> QED BY <2>1, <2>2
<1> QED BY <1>1, <1>2, <1>3, <1>4, <1>5, <1>6 DEF Source, Kind

\* A pass over one collection leaves a shorter trail.
LEMMA SweepStep ==
  ASSUME IInv, Sweep
  PROVE  Order' /\ Hands' /\ Trail' /\ Progress' /\ PurgeClears'
<1> USE DEF Of
<1> DEFINE i == purge.step
<1> DEFINE k == PurgeOrder[i]
<1>1. Typed BY DEF IInv, Data
<1>2. i \in 1 .. 9 /\ raced' = raced /\ Len(PurgeOrder) = 9
  BY <1>1 DEF Typed, Purges, Sweep, PurgeOrder
<1>3. k \in Kind BY <1>2 DEF PurgeOrder, Kind
<1>4. docs' = [docs EXCEPT ![k] = {d \in docs[k] : ~Doomed(k, d)}] BY DEF Sweep
<1>5. /\ docs'[k] = {d \in docs[k] : ~Doomed(k, d)}
      /\ \A c \in Kind : c # k => docs'[c] = docs[c]
  BY <1>1, <1>3, <1>4 DEF Typed
<1>6. \A c \in Kind : docs'[c] \subseteq docs[c] BY <1>5
<1>7. {"item", "selection", "run", "review", "analysis", "delivery"} \subseteq Kind
      /\ ChainKind \subseteq Kind
  BY DEF Kind, ChainKind
<1>8. Order'
  <2>1. (Identified /\ OneItem /\ RunsQueued /\ Outcomes)'
    BY <1>6, <1>7 DEF IInv, Order, Identified, OneItem, RunsQueued, Outcomes, ChainKind
  <2>2. OneChild'
    <3>1. Single \subseteq Kind BY DEF Single, Kind
    <3> QED BY <1>6, <3>1 DEF IInv, Order, OneChild
  <2> QED BY <2>1, <2>2 DEF Order
<1>9. Hands'
  <2> SUFFICES ASSUME NEW w \in Loop, hand'[w] # None PROVE hand'[w].stale
    BY DEF Hands, Busy
  <2>1. hand[w] # None /\ hand'[w] = [hand[w] EXCEPT !.stale = TRUE] BY DEF Sweep
  <2>2. hand[w] \in Jobs BY <1>1, <2>1 DEF Typed
  <2> QED BY <2>1, <2>2 DEF Jobs
<1>10. k \in Whole => docs'[k] = {} BY <1>5 DEF Whole, Doomed
<1>11. (purge.clean \/ raced = 0) /\ k = "item" => docs'[k] = {}
  BY <1>2, <1>5 DEF IInv, Progress, Doomed
<1>12. raced = 0 /\ k # "delivery" => docs'[k] = {}
  <2>1. k # "delivery" =>
          k \in {"deployment", "publication", "execution", "review"} \cup Whole \cup {"item"}
    BY <1>3 DEF Kind, Whole
  <2>2. raced = 0 /\ k \in {"deployment", "publication", "execution", "review"} => docs'[k] = {}
    BY <1>2, <1>5 DEF IInv, Progress, Doomed, ChainKind
  <2> QED BY <2>1, <2>2, <1>10, <1>11
<1>20. k = "delivery" => \A d \in docs'["delivery"] : Unnamed(d)
  BY <1>5 DEF Doomed, Unnamed
<1>13. \A c \in Swept : c \in Kind /\ (raced = 0 /\ c # "delivery" => docs'[c] = {})
  <2>1. \A c \in Swept : c \in Kind BY DEF Swept, PurgeOrder, Kind
  <2>2. raced = 0 => \A c \in Swept \ {"delivery"} : docs[c] = {}
    BY <1>2 DEF IInv, Progress
  <2> QED BY <2>1, <2>2, <1>6
<1>14. \A j \in 1 .. 9 : j < i => PurgeOrder[j] \in Swept BY DEF Swept
<1>15. \A j \in 1 .. 9 : PurgeOrder[j] = k => j = i
  <2> SUFFICES ASSUME NEW j \in 1 .. 9, PurgeOrder[j] = PurgeOrder[i] PROVE j = i OBVIOUS
  <2> QED BY <1>2 DEF PurgeOrder
<1>16. Trail'
  <2> SUFFICES ASSUME raced = 0 PROVE Trail' BY <1>2 DEF Trail
  <2>1. ASSUME NEW c \in Kind \ {"delivery", "item"}, NEW d \in docs'[c]
        PROVE  Has(Source[c], d.parent, Behind[c])'
    <3>1. Has(Source[c], d.parent, Behind[c]) BY <1>6, <2>1 DEF IInv, Trail
    <3>2. Source[c] # k
      <4> SUFFICES ASSUME Source[c] = k PROVE FALSE OBVIOUS
      <4>1. PICK j \in 1 .. 9 : j < i /\ PurgeOrder[j] = c BY <1>2, ChildrenFirst
      <4> QED BY <4>1, <1>13, <1>14, <2>1
    <3>3. Source[c] \in Kind BY <2>1 DEF Source, Kind
    <3> QED BY <3>1, <3>2, <3>3, <1>5 DEF Has
  <2>2. ASSUME NEW v \in docs'["review"] PROVE v.run = v.parent /\ Authorized(v.run)'
    <3>1. v.run = v.parent /\ Authorized(v.run) BY <1>6, <1>7, <2>2 DEF IInv, Trail
    <3>2. k # "selection"
      <4> SUFFICES ASSUME k = "selection" PROVE FALSE OBVIOUS
      <4>1. i = 5 BY <1>2 DEF PurgeOrder
      <4>2. "review" \in Swept
        <5>1. PurgeOrder[4] = "review" BY DEF PurgeOrder
        <5> QED BY <4>1, <5>1, <1>14
      <4> QED BY <4>2, <1>13, <2>2
    <3> QED BY <3>1, <3>2, <1>5, <1>7 DEF Authorized, Children
  <2>3. ASSUME NEW c \in ChainKind, NEW d \in docs'[c] PROVE KnownRun(d.run)'
    <3>1. KnownRun(d.run) BY <1>6, <1>7, <2>3 DEF IInv, Trail
    <3>2. k # "run"
      <4> SUFFICES ASSUME k = "run" PROVE FALSE OBVIOUS
      <4>1. i = 6 BY <1>2 DEF PurgeOrder
      <4>2. c \in Swept
        <5>1. c \in {PurgeOrder[1], PurgeOrder[2], PurgeOrder[3], PurgeOrder[4], PurgeOrder[5]}
          BY DEF ChainKind, PurgeOrder
        <5> QED BY <4>1, <5>1, <1>14
      <4>3. c # "delivery" BY DEF ChainKind
      <4> QED BY <4>2, <4>3, <1>13, <2>3
    <3> QED BY <3>1, <3>2, <1>5, <1>7 DEF KnownRun
  <2> QED BY <2>1, <2>2, <2>3 DEF Trail
<1>17. purge.answer = "none" BY <1>2 DEF IInv, Progress
<1>18. CASE i # 9
  <2>1. purge' = [purge EXCEPT !.step = @ + 1] BY <1>2, <1>18 DEF Sweep
  <2>2. /\ purge'.step = i + 1 /\ purge'.item = purge.item /\ purge'.runs = purge.runs
        /\ purge'.clean = purge.clean /\ purge'.answer = "none"
    BY <1>1, <1>17, <2>1 DEF Typed
  <2>3. Swept' \subseteq Swept \cup {k}
    <3>1. \A j \in 1 .. 9 : j < i + 1 => j < i \/ j = i BY <1>2
    <3> QED BY <2>2, <3>1 DEF Swept
  <2>4. purge.clean => \A c \in Swept' \cap Whole : docs'[c] = {}
    BY <1>2, <1>6, <1>10, <1>13, <2>3 DEF IInv, Progress
  <2>5. purge.clean \/ raced = 0 => \A d \in docs'["item"] : d.id = purge.item
    BY <1>2, <1>6, <1>7 DEF IInv, Progress
  <2>6. raced = 0 => \A c \in Swept' \ {"delivery"} : docs'[c] = {}
    BY <1>12, <1>13, <2>3
  <2>7. raced = 0 => \A c \in ChainKind \cup {"run"} : \A d \in docs'[c] : d.run \in purge.runs
    BY <1>2, <1>6, <1>7 DEF IInv, Progress
  <2>10. purge.clean /\ "delivery" \in Swept' => \A d \in docs'["delivery"] : Unnamed(d)
    <3>1. purge.clean /\ "delivery" \in Swept => \A d \in docs["delivery"] : Unnamed(d)
      BY <1>2 DEF IInv, Progress
    <3> QED BY <1>6, <1>7, <1>20, <2>3, <3>1
  <2>8. Progress'
    BY <1>2, <2>2, <2>4, <2>5, <2>6, <2>7, <2>10 DEF Progress, Whole, Unnamed
  <2>9. PurgeClears' BY <2>2 DEF PurgeClears
  <2> QED BY <1>8, <1>9, <1>16, <2>8, <2>9
<1>19. CASE i = 9
  <2> DEFINE answer == IF purge.item = 0 THEN "orphaned" ELSE "purged"
  <2>1. purge' = [NoPurge EXCEPT !.clean = purge.clean, !.answer = answer]
    BY <1>2, <1>19 DEF Sweep, Answer
  <2>2. purge'.step = 0 /\ purge'.clean = purge.clean /\ purge'.answer = answer
    BY <2>1 DEF NoPurge
  <2>3. k = "item" BY <1>19 DEF PurgeOrder
  <2>4. \A c \in Kind \ {"item"} : c \in Swept
    <3>1. \A c \in Kind \ {"item"} : \E j \in 1 .. 8 : PurgeOrder[j] = c
      <4>1. /\ PurgeOrder[1] = "deployment" /\ PurgeOrder[2] = "publication"
            /\ PurgeOrder[3] = "execution" /\ PurgeOrder[4] = "review"
            /\ PurgeOrder[5] = "selection" /\ PurgeOrder[6] = "run"
            /\ PurgeOrder[7] = "analysis" /\ PurgeOrder[8] = "delivery"
        BY DEF PurgeOrder
      <4>2. 1 \in 1 .. 8 /\ 2 \in 1 .. 8 /\ 3 \in 1 .. 8 /\ 4 \in 1 .. 8 /\ 5 \in 1 .. 8
            /\ 6 \in 1 .. 8 /\ 7 \in 1 .. 8 /\ 8 \in 1 .. 8
        OBVIOUS
      <4> HIDE DEF k
      <4> QED BY <4>1, <4>2 DEF Kind
    <3>2. \A j \in 1 .. 8 : PurgeOrder[j] \in Swept BY <1>14, <1>19
    <3> QED BY <3>1, <3>2
  <2>5. purge.clean => docs'["item"] = {} BY <1>11, <2>3
  <2>6. purge.clean => \A c \in Whole : docs'[c] = {}
    <3>1. Whole \subseteq Swept /\ Whole \subseteq Kind BY <1>7, <2>4 DEF Whole
    <3> QED BY <3>1, <1>2, <1>6 DEF IInv, Progress
  <2>7. raced = 0 => \A c \in Kind \ {"delivery"} : docs'[c] = {}
    BY <1>12, <1>13, <2>3, <2>4
  <2>10. purge.clean => \A d \in docs'["delivery"] : Unnamed(d)
    <3>1. "delivery" \in Swept BY <1>7, <2>4
    <3> QED BY <3>1, <1>2, <1>6, <1>7 DEF IInv, Progress
  <2>8. PurgeClears'
    BY <1>2, <2>2, <2>5, <2>6, <2>7, <2>10 DEF PurgeClears, Whole, Unnamed
  <2>9. Progress' BY <2>2 DEF Progress
  <2> QED BY <1>8, <1>9, <1>16, <2>8, <2>9
<1> QED BY <1>18, <1>19

\* A purge that begins knows all there is, and one without anything to delete
\* finds none of the later documents either.
LEMMA BeginStep ==
  ASSUME IInv, BeginPurge
  PROVE  Progress' /\ PurgeClears'
<1> USE DEF Of
<1>1. Typed /\ UNCHANGED << docs, raced >> BY DEF IInv, Data, BeginPurge, store
<1>2. CASE docs["item"] \cup Ticketed = {}
  <2>1. purge' = [NoPurge EXCEPT !.answer = "not_found"] BY <1>2 DEF BeginPurge
  <2>2. purge'.step = 0 /\ purge'.answer = "not_found" BY <2>1 DEF NoPurge
  <2>3. docs["item"] = {} /\ docs["run"] = {} /\ docs["selection"] = {} BY <1>2 DEF Ticketed
  <2>4. ASSUME raced = 0, NEW k \in Kind \ {"delivery"} PROVE docs[k] = {}
    <3>1. CASE k \in ChainKind BY <2>3, <2>4, <3>1 DEF IInv, Trail, KnownRun
    <3>2. CASE k = "analysis"
      <4> SUFFICES ASSUME NEW d \in docs[k] PROVE FALSE OBVIOUS
      <4>1. Has(Source[k], d.parent, Behind[k]) BY <2>4, <3>2 DEF IInv, Trail, Kind
      <4>2. Source[k] = "item" BY <3>2 DEF Source
      <4> QED BY <2>3, <4>1, <4>2 DEF Has
    <3> QED BY <2>3, <2>4, <3>1, <3>2 DEF Kind, ChainKind
  <2>5. Progress' BY <2>2 DEF Progress
  <2>6. PurgeClears' BY <1>1, <2>2, <2>3, <2>4 DEF PurgeClears
  <2> QED BY <2>5, <2>6
<1>3. CASE docs["item"] \cup Ticketed # {}
  <2>1. purge' = [NoPurge EXCEPT !.step = 1, !.runs = {d.run : d \in Ticketed},
                    !.item = IF docs["item"] = {} THEN 0
                             ELSE (CHOOSE d \in docs["item"] : TRUE).id]
    BY <1>3 DEF BeginPurge
  <2>2. /\ purge'.step = 1 /\ purge'.answer = "none" /\ purge'.runs = {d.run : d \in Ticketed}
        /\ purge'.item = IF docs["item"] = {} THEN 0
                         ELSE (CHOOSE d \in docs["item"] : TRUE).id
    BY <2>1 DEF NoPurge
  <2>3. \A d \in docs["item"] : d.id = purge'.item
    <3> SUFFICES ASSUME NEW d \in docs["item"] PROVE d.id = purge'.item OBVIOUS
    <3>1. (CHOOSE x \in docs["item"] : TRUE) = d BY DEF IInv, Order, OneItem
    <3> QED BY <3>1, <2>2
  <2>4. Swept' = {} BY <2>2 DEF Swept
  <2>5. ASSUME raced = 0, NEW k \in ChainKind \cup {"run"}, NEW d \in docs[k]
        PROVE  d.run \in purge'.runs
    <3>1. KnownRun(d.run) BY <2>5 DEF IInv, Trail, KnownRun
    <3> QED BY <2>2, <3>1 DEF KnownRun, Ticketed
  <2>6. Progress' BY <1>1, <2>2, <2>3, <2>4, <2>5 DEF Progress
  <2>7. PurgeClears' BY <2>2 DEF PurgeClears
  <2> QED BY <2>6, <2>7
<1> QED BY <1>2, <1>3

\* A purge that ends without an answer promises nothing.
LEMMA AnswerStep ==
  ASSUME Answer("none") PROVE Progress' /\ PurgeClears'
<1>1. purge'.step = 0 /\ purge'.answer = "none" BY DEF Answer, NoPurge
<1> QED BY <1>1 DEF Progress, PurgeClears

\* What does not touch the documents leaves their order alone.
LEMMA StillStep ==
  ASSUME IInv, UNCHANGED << docs, raced >>
  PROVE  Order' /\ Trail' /\ Kept
<1>1. Order' BY DEF IInv, Order, Identified, OneItem, OneChild, RunsQueued, Outcomes, Of
<1>2. Trail' BY DEF IInv, Trail, Has, Authorized, Children, KnownRun, Of
<1>3. Kept BY DEF IInv, Data, Typed, Kept, Becomes, Moves
<1> QED BY <1>1, <1>2, <1>3

\* Nor does it disturb a purge.
LEMMA StillPurge ==
  ASSUME IInv, UNCHANGED << docs, raced, purge >>
  PROVE  Progress' /\ PurgeClears'
<1>1. Swept' = Swept BY DEF Swept
<1>2. Progress' BY <1>1 DEF IInv, Progress, Unnamed, Of
<1>3. PurgeClears' BY DEF IInv, PurgeClears, Of
<1> QED BY <1>2, <1>3

-----------------------------------------------------------------------------
(***************************************************************************)
(* Every action keeps the invariant                                        *)
(***************************************************************************)
\* A step that sweeps nothing: what was there is there, and what was not has an
\* id that nothing refers to.
Steady ==
  /\ Kept
  /\ \A k \in Kind : \A e \in docs'[k] :
       (\E d \in docs[k] : Becomes(k, d, e)) \/ e.id \notin Referred(k)

\* A change of documents brings none.
LEMMA EvolutionSteady == ASSUME Evolution(docs, docs') PROVE Steady
  BY DEF Evolution, Steady, Kept

\* Hands that are only let go of.
Dropped ==
  /\ hand' \in [Loop -> Jobs \cup {None}]
  /\ \A w \in Loop : hand'[w] \in {None, hand[w]}

\* A step that changes documents, and may end an item in hand.
LEMMA ChangeStep ==
  ASSUME IInv, Evolution(docs, docs'), Dropped, UNCHANGED << raced, counters, purge, view >>
  PROVE  IInv' /\ Steady
<1>1. Typed BY DEF IInv, Data
<1>2. Typed' BY <1>1 DEF Typed, Evolution, Dropped, counters
<1>3. Order' /\ Trail' /\ Progress' /\ PurgeClears' BY <1>2, EvolveStep
<1>4. Kept BY DEF Evolution, Kept
<1>5. Hands' BY <1>4, HandsStep DEF Dropped
<1>6. Bounded'
  <2>1. PICK n \in Nat : Under(n) BY DEF IInv, Data, Bounded
  <2>2. \A k \in Kind : \A e \in docs'[k] : e.id <= n /\ e.parent <= n /\ e.run <= n
    BY <2>1 DEF Under, Evolution, Becomes, Of
  <2>3. \A w \in Loop : hand'[w] # None => hand'[w].from <= n /\ hand'[w].run <= n
    BY <2>1 DEF Under, Busy, Dropped
  <2>4. Under(n)' BY <2>1, <2>2, <2>3 DEF Under, Busy, Of
  <2> QED BY <2>4 DEF Bounded
<1> QED BY <1>2, <1>3, <1>5, <1>6, EvolutionSteady DEF IInv, Data

\* A step that adds a document, and may end an item in hand.
LEMMA AddStep ==
  ASSUME IInv, NEW k \in Kind, NEW p \in Nat, NEW r \in Nat, NEW s \in Status,
         NEW stale \in BOOLEAN, Insert(k, p, r, s, stale),
         k # "delivery" => ~Taken(k, p),
         k \in {"run", "review", "execution", "publication"} => s \in Ends[k],
         raced' = 0 =>
           /\ k \notin {"delivery", "item"} => Has(Source[k], p, Behind[k])
           /\ k = "review" => r = p /\ Authorized(p)
           /\ k \in ChainKind => KnownRun(r),
         \A n \in Nat : Under(n) => p <= n /\ r <= n,
         Dropped, deliveries' \in 0 .. MaxArrivals, UNCHANGED << reviews, purges, upsets >>
  PROVE  IInv' /\ Steady
<1>1. Typed BY DEF IInv, Data
<1>2. /\ Kept /\ raced' \in 0 .. MaxRaces /\ (raced' = 0 => raced = 0)
      /\ \A c \in Kind : \A e \in docs'[c] :
              \/ \E d \in docs[c] : Becomes(c, d, e)
              \/ c = k /\ e.id = Fresh(k) /\ e.parent = p /\ e.run \in {r, Fresh(k)}
      /\ Order' /\ Trail' /\ Progress' /\ PurgeClears'
  BY InsertStep
<1>3. Hands' BY <1>2, HandsStep DEF Dropped
<1>4. purge' = [purge EXCEPT !.clean = FALSE] /\ view' \in {view, NoView} BY DEF Insert
<1>5. purge' \in Purges /\ purge'.item = purge.item /\ purge'.runs = purge.runs
  BY <1>1, <1>4 DEF Typed, Purges
<1>6. NoView \in Views BY DEF NoView, NoChain, Views
<1>7. Typed'
  BY <1>1, <1>2, <1>4, <1>5, <1>6 DEF Typed, Kept, Dropped
<1>8. Bounded'
  <2>1. PICK n \in Nat : Under(n) BY DEF IInv, Data, Bounded
  <2>2. Fresh(k) \in Nat /\ Fresh(k) <= n + 1 BY <1>1, <2>1, FreshIsNew
  <2>3. \A c \in Kind : \A e \in docs'[c] : e.id <= n + 1 /\ e.parent <= n + 1 /\ e.run <= n + 1
    <3>1. \A c \in Kind : \A d \in docs[c] :
            d.id \in Nat /\ d.parent \in Nat /\ d.run \in Nat
            /\ d.id <= n /\ d.parent <= n /\ d.run <= n
      BY <1>1, <2>1 DEF Under, Of, Typed, Doc
    <3>2. p <= n /\ r <= n BY <2>1
    <3> QED BY <1>2, <2>2, <3>1, <3>2 DEF Becomes
  <2>4. \A w \in Loop : hand'[w] # None => hand'[w].from <= n + 1 /\ hand'[w].run <= n + 1
    BY <1>1, <2>1 DEF Under, Busy, Dropped, Typed, Jobs
  <2>5. purge'.item <= n + 1 /\ \A x \in purge'.runs : x <= n + 1
    BY <1>1, <1>5, <2>1 DEF Under, Typed, Purges, Views
  <2>6. view'.run <= n + 1 /\ view'.review <= n + 1 /\ view'.from <= n + 1
    <3>1. view.run \in Nat /\ view.review \in Nat /\ view.from \in Nat
      BY <1>1 DEF Typed, Views
    <3>2. NoView.run = 0 /\ NoView.review = 0 /\ NoView.from = 0 BY DEF NoView
    <3> QED BY <1>4, <2>1, <3>1, <3>2 DEF Under
  <2>7. Under(n + 1)' BY <2>3, <2>4, <2>5, <2>6 DEF Under, Busy, Of
  <2> QED BY <2>7 DEF Bounded
<1>9. Steady
  <2>1. PICK n \in Nat : Under(n) BY DEF IInv, Data, Bounded
  <2>2. Fresh(k) \in Nat /\ \A x \in Referred(k) : x < Fresh(k) BY <1>1, <2>1, FreshIsNew
  <2>3. Fresh(k) \notin Referred(k) BY <2>2
  <2> QED BY <1>2, <2>3 DEF Steady
<1> QED BY <1>2, <1>3, <1>7, <1>8, <1>9 DEF IInv, Data

\* What is taken in hand can be built on.
LEMMA PickSound ==
  ASSUME IInv, NEW w \in Loop, NEW k \in Makes[w], NEW d \in Of(Source[k]), Ready(k, d)
  PROVE  Job(k, d) \in Jobs /\ Sound(Job(k, d)) /\ (k = "deployment" => d.pull \in Closed)
<1> USE DEF Of
<1>1. Typed /\ k \in DOMAIN Source /\ Source[k] \in Kind
  BY DEF IInv, Data, Makes, Loop, Source, Kind
<1>2. d \in Doc BY <1>1 DEF Typed
<1>3. k = "deployment" => d.pull \in Closed BY <1>2 DEF Ready, Decided, Doc, Pull
<1> DEFINE j == Job(k, d)
<1>4. j \in Jobs BY <1>1, <1>2 DEF Job, Jobs, Doc
<1>5. j.makes = k /\ j.from = d.id /\ j.run = d.run BY DEF Job
<1> HIDE DEF j
<1>6. k \notin {"item", "verdict"} => d.status \in Behind[k]
  <2>1. CASE k \in {"selection", "review"}
    BY <2>1, <1>1 DEF IInv, Order, RunsQueued, Behind, Source
  <2>2. CASE k = "analysis" BY <2>2, <1>2 DEF Behind, Doc
  <2>3. CASE k \in {"run", "execution", "publication", "deployment"}
    <3>1. k = "run" => d.status = "approved" BY DEF Ready
    <3>2. k = "execution" => d.status = "approved" BY DEF Ready
    <3>3. k = "publication" => d.status = "succeeded" BY DEF Ready
    <3>4. k = "deployment" => d.status = "published" BY DEF Ready
    <3> QED BY <2>3, <3>1, <3>2, <3>3, <3>4 DEF Behind
  <2>4. k \in {"item", "analysis", "run", "selection", "review", "execution",
               "publication", "deployment", "verdict"}
    BY DEF Makes, Loop
  <2> QED BY <2>1, <2>2, <2>3, <2>4
<1>7. k \notin {"item", "verdict"} => Has(Source[k], d.id, Behind[k]) BY <1>6 DEF Has
<1>8. k = "review" => d.run = d.id /\ Authorized(d.id)
  BY <1>1 DEF IInv, Order, RunsQueued, Source, Ready, Accessible
<1>9. raced = 0 /\ k \in ChainKind => KnownRun(d.run)
  <2> SUFFICES ASSUME raced = 0, k \in ChainKind PROVE KnownRun(d.run) OBVIOUS
  <2>1. CASE k \in {"selection", "review"} BY <2>1 DEF Source, KnownRun
  <2>2. CASE k \in {"execution", "publication", "deployment"}
    BY <2>2 DEF Source, ChainKind, IInv, Trail
  <2> QED BY <2>1, <2>2 DEF ChainKind
<1>10. Sound(j) BY <1>5, <1>7, <1>8, <1>9 DEF Sound
<1> QED BY <1>3, <1>4, <1>10 DEF j

\* Taking something in hand; the deployment row is claimed with it.
LEMMA PickStep == ASSUME IInv, NEW w \in Loop, Pick(w) PROVE IInv' /\ Steady
<1>1. Typed /\ Identified BY DEF IInv, Data, Order
<1>0. PICK k \in Makes[w] : \E d \in Of(Source[k]) :
        /\ Ready(k, d)
        /\ hand' = [hand EXCEPT ![w] = Job(k, d)]
        /\ IF k = "verdict" THEN Mark("deployment", d.id, "running") ELSE UNCHANGED docs
  BY DEF Pick
<1>2. PICK d \in Of(Source[k]) :
        /\ Ready(k, d)
        /\ hand' = [hand EXCEPT ![w] = Job(k, d)]
        /\ IF k = "verdict" THEN Mark("deployment", d.id, "running") ELSE UNCHANGED docs
  BY <1>0
<1>3. Job(k, d) \in Jobs /\ Sound(Job(k, d)) /\ (k = "deployment" => d.pull \in Closed)
  BY <1>2, PickSound
<1>4. Evolution(docs, docs')
  <2>1. CASE k = "verdict"
    <3>1. Mark("deployment", d.id, "running") BY <1>2, <2>1
    <3>2. "deployment" \in Kind /\ "running" \in Status BY DEF Kind, Status
    <3>3. \A x \in docs["deployment"] : Moves("deployment", x.status, "running") BY DEF Moves
    <3> QED BY <1>1, <3>1, <3>2, <3>3, MarkEvolves
  <2>2. CASE k # "verdict"
    <3>1. docs' = docs BY <1>2, <2>2
    <3> QED BY <1>1, <3>1, Still
  <2> QED BY <2>1, <2>2
<1>5. UNCHANGED << raced, deliveries, purges, upsets, purge, view >> BY DEF Pick
<1>6. PICK j \in Jobs : j = Job(k, d) /\ Sound(j) BY <1>3
<1>7. /\ hand' = [hand EXCEPT ![w] = j] /\ j.makes = k /\ j.from = d.id /\ j.run = d.run
      /\ j.pull = d.pull
  BY <1>2, <1>6 DEF Job
<1>8. reviews' \in 0 .. MaxArrivals
  BY <1>1 DEF Pick, Typed
<1>9. Typed' BY <1>1, <1>3, <1>4, <1>5, <1>7, <1>8 DEF Typed, Evolution
<1>10. Order' /\ Trail' /\ Progress' /\ PurgeClears' BY <1>4, <1>5, <1>9, EvolveStep
<1>11. Kept BY <1>4 DEF Evolution, Kept
<1>12. Sound(j)' BY <1>1, <1>5, <1>6, <1>11, SoundKept
<1>13. \A x \in Loop : hand'[x] \in {hand[x], j} BY <1>1, <1>7 DEF Typed
<1>14. Hands' BY <1>5, <1>11, <1>12, <1>13, HandsStep
<1>15. Bounded'
  <2>1. PICK n \in Nat : Under(n) BY DEF IInv, Data, Bounded
  <2>2. \A c \in Kind : \A e \in docs'[c] : e.id <= n /\ e.parent <= n /\ e.run <= n
    BY <1>4, <2>1 DEF Under, Evolution, Becomes, Of
  <2>3. d.id <= n /\ d.run <= n
    <3>1. Source[k] \in Kind BY DEF Makes, Loop, Source, Kind
    <3> QED BY <2>1, <3>1 DEF Under
  <2>4. \A x \in Loop : hand'[x] # None => hand'[x].from <= n /\ hand'[x].run <= n
    BY <1>7, <1>13, <2>1, <2>3 DEF Under, Busy
  <2>5. Under(n)' BY <1>5, <2>1, <2>2, <2>4 DEF Under, Busy, Of
  <2> QED BY <2>5 DEF Bounded
<1> QED BY <1>4, <1>9, <1>10, <1>14, <1>15, EvolutionSteady DEF IInv, Data

\* What is in hand is let go of.
LEMMA Release ==
  ASSUME Typed, NEW w \in Loop, hand' = [hand EXCEPT ![w] = None]
  PROVE  Dropped
BY DEF Typed, Dropped

\* A document is created, or found to be there and its parent followed up.
LEMMA CreateStep == ASSUME IInv, NEW w \in Loop, Create(w) PROVE IInv' /\ Steady
<1>1. Typed /\ Identified BY DEF IInv, Data, Order
<1>2. hand[w] \in Jobs /\ hand[w].makes # "verdict" BY <1>1 DEF Typed, Create
<1>3. PICK j \in Jobs : j = hand[w] BY <1>2
<1>4. /\ UNCHANGED counters /\ hand' = [hand EXCEPT ![w] = None]
      /\ \/ ~Taken(j.makes, j.from) /\ \E s \in Born(j) : Insert(j.makes, j.from, j.run, s, j.stale)
         \/ docs' = WithFollow(j.makes, j.from) /\ UNCHANGED << raced, purge, view >>
  BY <1>3 DEF Create
<1>5. Dropped BY <1>1, <1>4, Release
<1>6. j.makes \in Kind \ {"delivery"} BY <1>2, <1>3 DEF Jobs, Source, Kind
<1>7. CASE docs' = WithFollow(j.makes, j.from) /\ UNCHANGED << raced, purge, view >>
  <2>1. Evolution(docs, docs') BY <1>1, <1>6, <1>7, FollowEvolves
  <2> QED BY <1>4, <1>5, <1>7, <2>1, ChangeStep
<1>8. CASE ~Taken(j.makes, j.from) /\ \E s \in Born(j) : Insert(j.makes, j.from, j.run, s, j.stale)
  <2>1. PICK s \in Born(j) : Insert(j.makes, j.from, j.run, s, j.stale) BY <1>8
  <2>2. j.from \in Nat /\ j.run \in Nat /\ j.stale \in BOOLEAN BY DEF Jobs
  <2>3. j.makes = "deployment" => j.pull \in Closed BY <1>1, <1>2, <1>3 DEF Typed, Create
  <2>4. /\ s \in Status
        /\ j.makes \in {"run", "review", "execution", "publication"} => s \in Ends[j.makes]
    <3>1. s \in Status BY <1>6, <2>1, <2>3 DEF Born, Kind, Status, Closed
    <3>2. ASSUME j.makes = "run" PROVE s \in Ends[j.makes] BY <2>1, <3>2 DEF Born, Ends
    <3>3. ASSUME j.makes = "review" PROVE s \in Ends[j.makes] BY <2>1, <3>3 DEF Born, Ends
    <3>4. ASSUME j.makes = "execution" PROVE s \in Ends[j.makes] BY <2>1, <3>4 DEF Born, Ends
    <3>5. ASSUME j.makes = "publication" PROVE s \in Ends[j.makes] BY <2>1, <3>5 DEF Born, Ends
    <3> QED BY <3>1, <3>2, <3>3, <3>4, <3>5
  <2>5. \A n \in Nat : Under(n) => j.from <= n /\ j.run <= n
    BY <1>3 DEF Under, Busy, Create
  <2>6. raced' = 0 => raced = 0 /\ ~j.stale BY <1>1, <2>1, <2>2 DEF Insert, Typed
  <2>7. ~j.stale => Sound(j) BY <1>3 DEF IInv, Hands, Busy, Create
  <2>8. raced' = 0 =>
          /\ j.makes \notin {"delivery", "item"} => Has(Source[j.makes], j.from, Behind[j.makes])
          /\ j.makes = "review" => j.run = j.from /\ Authorized(j.from)
          /\ j.makes \in ChainKind => KnownRun(j.run)
    BY <1>2, <1>3, <2>6, <2>7 DEF Sound
  <2>9. deliveries' \in 0 .. MaxArrivals /\ UNCHANGED << reviews, purges, upsets >>
    BY <1>1, <1>4 DEF counters, Typed
  <2> QED BY <1>5, <1>6, <1>8, <2>1, <2>2, <2>4, <2>5, <2>8, <2>9, AddStep
<1> QED BY <1>4, <1>7, <1>8

\* The outcome of a deployment.
LEMMA DeployStep == ASSUME IInv, Deploy PROVE IInv' /\ Steady
<1>1. Typed /\ Identified BY DEF IInv, Data, Order
<1>2. PICK s \in {"succeeded", "unvalidated", "failed"} :
        Mark("deployment", hand["pipeline"].from, s)
  BY DEF Deploy
<1>3. "deployment" \in Kind /\ s \in Status BY DEF Kind, Status
<1>4. PICK x : x = hand["pipeline"].from OBVIOUS
<1>5. \A d \in docs["deployment"] : Moves("deployment", d.status, s) BY DEF Moves
<1>6. Evolution(docs, docs') BY <1>1, <1>2, <1>3, <1>4, <1>5, MarkEvolves
<1>7. Dropped BY <1>1, Release DEF Deploy, Loop
<1> QED BY <1>6, <1>7, ChangeStep DEF Deploy

\* The changes that operators, GitHub and the matcher make.
LEMMA Unhanded == ASSUME Typed, UNCHANGED hand PROVE Dropped
  BY DEF Typed, Dropped

\* One gate.
LEMMA DecideStep ==
  ASSUME IInv, NEW k \in {"item", "review", "selection"}, NEW t \in Status,
         NEW f \in {"pending_approval", "pending"}, Decide(k, f, t),
         k = "item" <=> f = "pending_approval", k = "review" => t \in {"approved", "rejected"}
  PROVE  IInv' /\ Steady
<1>1. Typed /\ Identified BY DEF IInv, Data, Order
<1>2. PICK d \in docs[k] : d.status = f /\ Mark(k, d.id, t) BY DEF Decide, Of
<1>3. k \in Kind BY DEF Kind
<1>4. \A e \in docs[k] : e.id = d.id => Moves(k, e.status, t)
  BY <1>1, <1>2, <1>3 DEF Identified, Of, Moves
<1>5. Evolution(docs, docs') BY <1>1, <1>2, <1>3, <1>4, MarkEvolves
<1>6. Dropped BY <1>1, Unhanded DEF Decide
<1> QED BY <1>5, <1>6, ChangeStep DEF Decide

\* The three gates.
LEMMA GatesStep == ASSUME IInv, Gates PROVE IInv' /\ Steady
<1>1. {"approved", "rejected", "selected"} \subseteq Status BY DEF Status
<1>2. CASE \E s \in {"approved", "rejected"} : Decide("item", "pending_approval", s)
  BY <1>1, <1>2, DecideStep
<1>3. CASE \E s \in {"approved", "rejected"} : Decide("review", "pending", s)
  BY <1>1, <1>3, DecideStep
<1>4. CASE Decide("selection", "pending", "selected") BY <1>1, <1>4, DecideStep
<1> QED BY <1>2, <1>3, <1>4 DEF Gates

\* A failed match is matched again.
LEMMA RematchStep == ASSUME IInv, NEW d \in Of("selection"), Rematch(d) PROVE IInv' /\ Steady
<1>1. Typed /\ Identified BY DEF IInv, Data, Order
<1>2. "selection" \in Kind /\ "pending" \in Status BY DEF Kind, Status
<1>3. Mark("selection", d.id, "pending") /\ d.status = "failed" BY DEF Rematch
<1>4. \A e \in docs["selection"] : e.id = d.id => Moves("selection", e.status, "pending")
  BY <1>2, <1>3, <1>1 DEF Identified, Of, Moves
<1>5. Evolution(docs, docs') BY <1>1, <1>2, <1>3, <1>4, MarkEvolves
<1>6. Dropped BY <1>1, Unhanded DEF Rematch
<1> QED BY <1>5, <1>6, ChangeStep DEF Rematch

\* A pull request is merged or closed.
LEMMA ClosePullStep == ASSUME IInv, NEW d \in Of("publication"), ClosePull(d) PROVE IInv' /\ Steady
<1>1. Typed /\ Identified BY DEF IInv, Data, Order
<1>2. Evolution(docs, docs') BY <1>1, PullEvolves
<1>3. Dropped BY <1>1, Unhanded DEF ClosePull
<1> QED BY <1>2, <1>3, ChangeStep DEF ClosePull

\* A webhook delivers the ticket.
LEMMA ArriveStep == ASSUME IInv, Arrive PROVE IInv' /\ Steady
<1>1. Typed BY DEF IInv, Data
<1>2. Dropped BY <1>1, Unhanded DEF Arrive
<1>3. "delivery" \in Kind /\ "pending" \in Status BY DEF Kind, Status
<1>4. 0 \in Nat /\ FALSE \in BOOLEAN OBVIOUS
<1>5. Insert("delivery", 0, 0, "pending", FALSE) /\ UNCHANGED << reviews, purges, upsets >>
  BY DEF Arrive
<1>6. deliveries' \in 0 .. MaxArrivals BY <1>1 DEF Arrive, Typed
<1>7. "delivery" \notin ChainKind BY DEF ChainKind
<1>8. \A n \in Nat : 0 <= n OBVIOUS
<1> QED BY <1>2, <1>3, <1>4, <1>5, <1>6, <1>7, <1>8, AddStep

\* The requests that end a purge and a status request.
LEMMA AnswerType ==
  ASSUME Typed, NEW a \in {"none", "not_found", "purged", "orphaned"}, Answer(a)
  PROVE  purge' \in Purges /\ purge'.item = 0 /\ purge'.runs = {}
<1>1. purge' = [step |-> 0, item |-> 0, runs |-> {}, clean |-> purge.clean, answer |-> a]
  BY DEF Answer, NoPurge
<1>2. purge.clean \in BOOLEAN BY DEF Typed, Purges
<1> QED BY <1>1, <1>2 DEF Purges

\* An answered request refers to nothing.
LEMMA AnsweredType ==
  ASSUME NEW v \in Views
  PROVE  /\ Answered(v) \in Views
         /\ Answered(v).run = 0 /\ Answered(v).review = 0 /\ Answered(v).from = 0
<1>1. Answered(v) = [at |-> "answered", run |-> 0, review |-> 0, from |-> 0, chain |-> v.chain]
  <2>1. NoView = [at |-> "idle", run |-> 0, review |-> 0, from |-> 0, chain |-> NoChain]
    BY DEF NoView
  <2>2. Answered(v) = [NoView EXCEPT !.at = "answered", !.chain = v.chain] BY DEF Answered
  <2>3. PICK c : c = v.chain OBVIOUS
  <2> QED BY <2>1, <2>2, <2>3
<1>2. v.chain \in [ChainKind -> Status \cup {"none"}] BY DEF Views
<1> QED BY <1>1, <1>2 DEF Views

\* A purge begins, or empties one collection.
LEMMA PurgeStep == ASSUME IInv, Purging PROVE IInv' /\ (Steady \/ Sweep)
<1>1. Typed BY DEF IInv, Data
<1>2. PICK n \in Nat : Under(n) BY DEF IInv, Data, Bounded
<1> USE DEF Of
<1>3. CASE BeginPurge
  <2>1. UNCHANGED << store, deliveries, reviews, upsets, hand, view >> BY <1>3 DEF BeginPurge
  <2>2. purges' \in 0 .. MaxPurges BY <1>1, <1>3 DEF BeginPurge, Typed
  <2>3. {"item", "run", "selection"} \subseteq Kind BY DEF Kind
  <2>4. \A d \in Ticketed : d.run \in Nat /\ d.run <= n
    BY <1>1, <1>2, <2>3 DEF Ticketed, Typed, Doc, Under
  <2> DEFINE i == IF docs["item"] = {} THEN 0 ELSE (CHOOSE d \in docs["item"] : TRUE).id
  <2>5. i \in Nat /\ i <= n BY <1>1, <1>2, <2>3 DEF Typed, Doc, Under
  <2> DEFINE R == {d.run : d \in Ticketed}
  <2>6. R \in SUBSET Nat /\ \A x \in R : x <= n BY <2>4
  <2>7. \/ purge' = [NoPurge EXCEPT !.answer = "not_found"]
        \/ purge' = [NoPurge EXCEPT !.step = 1, !.runs = R, !.item = i]
    BY <1>3 DEF BeginPurge
  <2> HIDE DEF i, R
  <2>8. \/ purge' = [step |-> 0, item |-> 0, runs |-> {}, clean |-> TRUE,
                     answer |-> "not_found"]
        \/ purge' = [step |-> 1, item |-> i, runs |-> R, clean |-> TRUE, answer |-> "none"]
    BY <2>7 DEF NoPurge
  <2>9. /\ purge' \in Purges /\ purge'.item \in {0, i}
        /\ purge'.runs = {} \/ purge'.runs = R
    <3>1. CASE purge' = [step |-> 0, item |-> 0, runs |-> {}, clean |-> TRUE,
                         answer |-> "not_found"]
      BY <3>1 DEF Purges
    <3>2. CASE purge' = [step |-> 1, item |-> i, runs |-> R, clean |-> TRUE, answer |-> "none"]
      BY <2>5, <2>6, <3>2 DEF Purges
    <3> QED BY <2>8, <3>1, <3>2
  <2>10. Typed' BY <1>1, <2>1, <2>2, <2>9 DEF Typed, store
  <2>11. purge'.item <= n /\ \A x \in purge'.runs : x <= n
    <3>1. purge'.item <= n BY <2>5, <2>9
    <3>2. \A x \in purge'.runs : x <= n BY <2>6, <2>9
    <3> QED BY <3>1, <3>2
  <2>12. Under(n)' BY <1>2, <2>1, <2>11 DEF Under, Busy, store
  <2>13. Order' /\ Trail' /\ Kept BY <2>1, StillStep DEF store
  <2>14. Hands' BY <2>1, <2>13, HandsStep DEF store
  <2>15. Progress' /\ PurgeClears' BY <1>3, BeginStep
  <2>16. Steady BY <2>1, <2>13 DEF Steady, Becomes, Moves, store
  <2> QED BY <2>10, <2>12, <2>13, <2>14, <2>15, <2>16 DEF IInv, Data, Bounded
<1>4. CASE Sweep
  <2>1. Order' /\ Hands' /\ Trail' /\ Progress' /\ PurgeClears' BY <1>4, SweepStep
  <2>2. UNCHANGED << raced, counters, view >> BY <1>4 DEF Sweep
  <2>3. docs' \in [Kind -> SUBSET Doc] /\ \A k \in Kind : docs'[k] \subseteq docs[k]
    BY <1>1, <1>4 DEF Sweep, Typed
  <2>4. hand' = [w \in Loop |-> IF hand[w] = None THEN None ELSE [hand[w] EXCEPT !.stale = TRUE]]
    BY <1>4 DEF Sweep
  <2>5. ASSUME NEW w \in Loop
        PROVE  \/ hand'[w] = None
               \/ /\ hand[w] # None /\ hand'[w] \in Jobs /\ hand'[w].makes = hand[w].makes
                  /\ hand'[w].pull = hand[w].pull
                  /\ hand'[w].from = hand[w].from /\ hand'[w].run = hand[w].run
    <3>1. hand[w] \in Jobs \cup {None} BY <1>1 DEF Typed
    <3>2. CASE hand[w] = None BY <2>4, <3>2
    <3>3. CASE hand[w] # None
      <4>1. hand'[w] = [hand[w] EXCEPT !.stale = TRUE] /\ hand[w] \in Jobs BY <2>4, <3>1, <3>3
      <4> QED BY <3>3, <4>1 DEF Jobs
    <3> QED BY <3>2, <3>3
  <2>6. hand' \in [Loop -> Jobs \cup {None}] BY <2>4, <2>5
  <2>7. purge' \in Purges /\ purge'.item \in {0, purge.item} /\ purge'.runs \in {{}, purge.runs}
    <3>1. CASE purge.step = Len(PurgeOrder)
      <4>1. PICK a \in {"purged", "orphaned"} : Answer(a) BY <1>4, <3>1 DEF Sweep
      <4> QED BY <1>1, <4>1, AnswerType
    <3>2. CASE purge.step # Len(PurgeOrder)
      <4>1. purge' = [purge EXCEPT !.step = purge.step + 1] BY <1>4, <3>2 DEF Sweep
      <4>2. purge.step + 1 \in 0 .. 9 BY <1>1, <3>2 DEF Typed, Purges, PurgeOrder
      <4> QED BY <1>1, <4>1, <4>2 DEF Typed, Purges
    <3> QED BY <3>1, <3>2
  <2>8. Typed' BY <1>1, <2>2, <2>3, <2>5, <2>6, <2>7 DEF Typed, counters
  <2>9. Under(n)'
    <3>1. \A k \in Kind : \A d \in docs'[k] : d.id <= n /\ d.parent <= n /\ d.run <= n
      BY <1>2, <2>3 DEF Under
    <3>2. \A w \in Loop : hand'[w] # None => hand'[w].from <= n /\ hand'[w].run <= n
      BY <1>2, <2>5 DEF Under, Busy
    <3>3. purge'.item <= n /\ \A x \in purge'.runs : x <= n BY <1>2, <2>7 DEF Under
    <3> QED BY <1>2, <2>2, <3>1, <3>2, <3>3 DEF Under, Busy
  <2> QED BY <1>4, <2>1, <2>8, <2>9 DEF IInv, Data, Bounded
<1> QED BY <1>3, <1>4 DEF Purging

\* A read of the run status touches nothing else.
LEMMA ViewStep == ASSUME IInv, Viewing PROVE IInv' /\ Steady
<1>1. Typed BY DEF IInv, Data
<1>2. PICK n \in Nat : Under(n) BY DEF IInv, Data, Bounded
<1> USE DEF Of
<1>3. UNCHANGED << docs, raced, counters, hand, purge >>
  BY DEF Viewing, ReadNext, EndView, BeginView, store
<1> DEFINE Fits(v) == v \in Views /\ v.run <= n /\ v.review <= n /\ v.from <= n
<1>4. Fits(view) BY <1>1, <1>2 DEF Typed, Under
<1>5. Fits(NoView) /\ NoView.run = 0 BY DEF NoView, NoChain, Views
<1>6. \A k \in Kind : \A d \in docs[k] :
        d.id \in Nat /\ d.id <= n /\ d.status \in Status /\ d.run \in Nat /\ d.run <= n
  BY <1>1, <1>2 DEF Typed, Under, Doc
<1>7. \A v \in Views : Fits(Answered(v))
  <2>1. 0 <= n OBVIOUS
  <2> QED BY <2>1, AnsweredType
<1>9. Fits(view')
  <2>1. CASE EndView BY <1>5, <2>1 DEF EndView
  <2>2. CASE \E d \in docs["run"] : BeginView(d.id)
    <3>1. PICK d \in docs["run"] : view' = [NoView EXCEPT !.at = "selection", !.run = d.id]
      BY <2>2 DEF BeginView
    <3>2. d.id \in Nat /\ d.id <= n BY <1>6, <3>1 DEF Kind
    <3> QED BY <1>5, <3>1, <3>2 DEF Views, ChainKind
  <2>3. CASE ReadNext
    <3> DEFINE k == view.at
    <3> DEFINE found == Lookup(k)
    <3> DEFINE d == CHOOSE x \in found : TRUE
    <3> DEFINE read == [view EXCEPT !.at = NextRead[k], !.from = d.id,
                              !.review = IF k = "review" THEN d.id ELSE @,
                              !.chain = [IF k = "review" THEN NoChain ELSE @
                                           EXCEPT ![k] = d.status]]
    <3>1. k \in ChainKind BY <2>3 DEF ReadNext
    <3>2. k \in Kind BY <3>1 DEF ChainKind, Kind
    <3>3. found \subseteq docs[k] BY DEF Lookup, Children
    <3>4. view' = IF found = {}
                   THEN IF k = "selection" THEN [view EXCEPT !.at = "review"]
                                           ELSE Answered(view)
                   ELSE IF k = "deployment" THEN Answered(read) ELSE read
      BY <2>3 DEF ReadNext
    <3>5. CASE found = {}
      <4>1. CASE k = "selection"
        <5>1. view' = [view EXCEPT !.at = "review"] BY <3>4, <3>5, <4>1
        <5> QED BY <1>4, <5>1 DEF Views, ChainKind
      <4>2. CASE k # "selection" BY <1>4, <1>7, <3>4, <3>5, <4>2
      <4> QED BY <4>1, <4>2
    <3>6. CASE found # {}
      <4>1. d \in docs[k] BY <3>3, <3>6
      <4>2. d.id \in Nat /\ d.id <= n /\ d.status \in Status BY <1>6, <3>2, <4>1
      <4> DEFINE c == [IF k = "review" THEN NoChain ELSE view.chain EXCEPT ![k] = d.status]
      <4> DEFINE v == IF k = "review" THEN d.id ELSE view.review
      <4>3. c \in [ChainKind -> Status \cup {"none"}]
        <5>1. view.chain \in [ChainKind -> Status \cup {"none"}] BY <1>4 DEF Views
        <5>2. NoChain \in [ChainKind -> Status \cup {"none"}] BY DEF NoChain
        <5> QED BY <4>2, <5>1, <5>2
      <4>4. v \in Nat /\ v <= n BY <1>4, <4>2 DEF Views
      <4>5. NextRead[k] \in ChainKind \cup {"answered"} BY <3>1 DEF NextRead, ChainKind
      <4>6. read = [view EXCEPT !.at = NextRead[k], !.from = d.id, !.review = v, !.chain = c]
        OBVIOUS
      <4>7. PICK x, y : x = d.id /\ y = NextRead[k] OBVIOUS
      <4> HIDE DEF c, v, d, read
      <4>8. read = [view EXCEPT !.at = y, !.from = x, !.review = v, !.chain = c] BY <4>6, <4>7
      <4>9. Fits(read) BY <1>4, <4>2, <4>3, <4>4, <4>5, <4>7, <4>8 DEF Views
      <4>10. Fits(Answered(read)) BY <1>7, <4>9
      <4> QED BY <3>4, <3>6, <4>9, <4>10
    <3> QED BY <3>5, <3>6
  <2> QED BY <2>1, <2>2, <2>3 DEF Viewing
<1> HIDE DEF Fits
<1>10. Typed' BY <1>1, <1>3, <1>9 DEF Typed, counters, Fits
<1>11. Under(n)' BY <1>2, <1>3, <1>9 DEF Under, Busy, Fits
<1>12. Order' /\ Trail' /\ Kept BY <1>3, StillStep
<1>13. Hands' BY <1>3, <1>12, HandsStep
<1>14. Progress' /\ PurgeClears' BY <1>3, StillPurge
<1>15. Steady BY <1>3, <1>12 DEF Steady, Becomes, Moves
<1> QED BY <1>10, <1>11, <1>12, <1>13, <1>14, <1>15 DEF IInv, Data, Bounded

\* What is lost is lost from the hands, the purge and the view only.
LEMMA LossStep == ASSUME IInv, Throw \/ Crash PROVE IInv' /\ Steady
<1>1. Typed BY DEF IInv, Data
<1>2. PICK n \in Nat : Under(n) BY DEF IInv, Data, Bounded
<1>3. UNCHANGED << docs, raced, deliveries, reviews, purges >> BY DEF Throw, Crash, store
<1>4. upsets' \in 0 .. MaxUpsets BY <1>1 DEF Throw, Crash, Upset, Typed
<1>5. Dropped
  <2>1. CASE UNCHANGED hand BY <1>1, <2>1, Unhanded
  <2>2. CASE \E w \in Loop : hand' = [hand EXCEPT ![w] = None] BY <1>1, <2>2, Release
  <2>3. CASE hand' = [w \in Loop |-> None] BY <2>3 DEF Dropped
  <2> QED BY <2>1, <2>2, <2>3 DEF Throw, Crash
<1>6. purge' = purge \/ Answer("none") BY DEF Throw, Crash
<1>7. purge' \in Purges /\ purge'.item \in {0, purge.item} /\ purge'.runs \in {{}, purge.runs}
  <2>1. CASE purge' = purge BY <1>1, <2>1 DEF Typed
  <2>2. CASE Answer("none") BY <1>1, <2>2, AnswerType
  <2> QED BY <1>6, <2>1, <2>2
<1>8. view' \in {view, NoView} BY DEF Throw, Crash
<1>9. NoView \in Views /\ NoView.run = 0 /\ NoView.review = 0 /\ NoView.from = 0
  BY DEF NoView, NoChain, Views
<1>10. Typed' BY <1>1, <1>3, <1>4, <1>5, <1>7, <1>8, <1>9 DEF Typed, Dropped
<1>11. Under(n)'
  <2>1. \A w \in Loop : hand'[w] # None => hand'[w].from <= n /\ hand'[w].run <= n
    BY <1>2, <1>5 DEF Under, Busy, Dropped
  <2>2. purge'.item <= n /\ \A x \in purge'.runs : x <= n BY <1>2, <1>7 DEF Under
  <2>3. view'.run <= n /\ view'.review <= n /\ view'.from <= n
    BY <1>2, <1>8, <1>9 DEF Under
  <2> QED BY <1>2, <1>3, <2>1, <2>2, <2>3 DEF Under, Busy, Of
<1>12. Order' /\ Trail' /\ Kept BY <1>3, StillStep
<1>13. Hands' BY <1>3, <1>5, <1>12, HandsStep DEF Dropped
<1>14. Progress' /\ PurgeClears' BY <1>3, <1>6, StillPurge, AnswerStep
<1>15. Steady BY <1>3, <1>12 DEF Steady, Becomes, Moves
<1> QED BY <1>10, <1>11, <1>12, <1>13, <1>14, <1>15 DEF IInv, Data, Bounded

\* All steps together.
LEMMA InvStep == IInv /\ [Next]_vars => IInv' /\ (Steady \/ Sweep)
<1> SUFFICES ASSUME IInv, [Next]_vars PROVE IInv' /\ (Steady \/ Sweep) OBVIOUS
<1>1. CASE \E w \in Loop : Working(w)
  <2>1. PICK w \in Loop : Working(w) BY <1>1
  <2> QED BY <2>1, PickStep, CreateStep, DeployStep DEF Working
<1>2. CASE Purging BY <1>2, PurgeStep
<1>3. CASE Viewing BY <1>3, ViewStep
<1>4. CASE Outside
  BY <1>4, ArriveStep, GatesStep, LossStep, RematchStep, ClosePullStep DEF Outside
<1>5. CASE UNCHANGED vars
  <2>1. UNCHANGED << docs, raced, counters, hand, purge, view >> BY <1>5 DEF vars, store
  <2>2. Typed /\ Identified BY DEF IInv, Data, Order
  <2>3. Evolution(docs, docs') BY <2>1, <2>2, Still
  <2>4. Dropped BY <2>1, <2>2, Unhanded
  <2> QED BY <2>1, <2>3, <2>4, ChangeStep
<1> QED BY <1>1, <1>2, <1>3, <1>4, <1>5 DEF Next

\* At the start there is nothing at all.
LEMMA Initially == Init => IInv
<1> SUFFICES ASSUME Init PROVE IInv OBVIOUS
<1> USE DEF Of
<1>1. /\ docs = [k \in Kind |-> {}] /\ raced = 0 /\ hand = [w \in Loop |-> None]
      /\ purge = NoPurge /\ view = NoView
      /\ deliveries = 0 /\ reviews = 0 /\ purges = 0 /\ upsets = 0
  BY DEF Init
<1>2. NoPurge \in Purges /\ NoPurge.item = 0 /\ NoPurge.runs = {} /\ NoPurge.step = 0
      /\ NoPurge.answer = "none"
  BY DEF NoPurge, Purges
<1>3. NoView \in Views /\ NoView.run = 0 /\ NoView.review = 0 /\ NoView.from = 0
  BY DEF NoView, NoChain, Views
<1>4. \A k \in Kind : docs[k] = {} BY <1>1
<1>5. /\ {"item", "selection", "run", "review", "execution", "publication"} \subseteq Kind
      /\ ChainKind \subseteq Kind /\ Single \subseteq Kind
  BY DEF Kind, ChainKind, Single
<1>6. \A w \in Loop : hand[w] = None BY <1>1
<1>7. Typed BY <1>1, <1>2, <1>3, <1>6 DEF Typed
<1>8. Under(0) BY <1>1, <1>2, <1>3, <1>4, <1>6 DEF Under, Busy
<1>9. Order BY <1>4, <1>5 DEF Order, Identified, OneItem, OneChild, RunsQueued, Outcomes
<1>10. Hands /\ Trail BY <1>4, <1>5, <1>6 DEF Hands, Busy, Trail
<1>11. Progress /\ PurgeClears BY <1>1, <1>2 DEF Progress, PurgeClears
<1> QED BY <1>7, <1>8, <1>9, <1>10, <1>11 DEF IInv, Data, Bounded

\* The invariant holds always.
LEMMA Invariance == Spec => []IInv
<1>1. Init => IInv BY Initially
<1>2. IInv /\ [Next]_vars => IInv' BY InvStep
<1> QED BY <1>1, <1>2, PTL DEF Spec

-----------------------------------------------------------------------------
(***************************************************************************)
(* The run status: what has been read                                      *)
(***************************************************************************)
\* What the request has not read yet, before each of its reads; what it has read
\* last, and the status which the next document rests on.
Unread ==
  [selection |-> ChainKind, review |-> ChainKind \ {"selection"},
   execution |-> ChainKind \ {"review"},
   publication |-> {"publication", "deployment"}, deployment |-> {"deployment"}]
ReadLast ==
  [review |-> "selection", execution |-> "review", publication |-> "execution",
   deployment |-> "publication"]
Gate ==
  [review |-> "selected", execution |-> "approved", publication |-> "succeeded",
   deployment |-> "published"]
Key == IF view.at = "review" THEN view.run ELSE view.from

\* While it is there, the document read last is as it was read, and belongs to
\* the review and the run.
Chained ==
  /\ view.at \in {"selection", "review"} => view.review = 0
  /\ view.at \in {"execution", "publication", "deployment"} =>
       /\ view.review # 0
       /\ \A v \in Of("review") : v.id = view.review => v.parent = view.run
  /\ view.at = "execution" =>
       /\ view.from = view.review
       /\ view.chain["review"] \in {"pending", "approved", "rejected"}
  /\ view.at = "publication" =>
       /\ view.chain["execution"] \in {"succeeded", "failed"}
       /\ \A e \in Of("execution") : e.id = view.from =>
            e.parent = view.review /\ e.status = view.chain["execution"]
  /\ view.at = "deployment" =>
       /\ view.chain["publication"] \in {"published", "failed"}
       /\ \A p \in Of("publication") : p.id = view.from =>
            /\ p.status = view.chain["publication"]
            /\ \A e \in Of("execution") : e.id = p.parent => e.parent = view.review

\* Either what has been read so far was the whole truth at some time, or there
\* is more to be read, and what was read last was past its gate.
Told ==
  view.at \in ChainKind \ {"selection"} =>
    \/ StageOf(view.chain) \in witnessed
    \/ Children(view.at, Key) # {} /\ view.chain[ReadLast[view.at]] = Gate[view.at]

Reads ==
  /\ view.at # "idle" => raced = 0
  /\ view.at \in ChainKind =>
       Present \subseteq witnessed /\ \A k \in Unread[view.at] : view.chain[k] = "none"
  /\ Chained /\ Told /\ StageWasCurrent

-----------------------------------------------------------------------------
(***************************************************************************)
(* The run status: the stage as it is                                      *)
(***************************************************************************)
\* The stage depends on the last document of the chain and its status only.
LEMMA SameStage ==
  ASSUME NEW a, NEW b,
         \/ /\ a.publication = "none" /\ b.publication = "none"
            /\ a.execution = "none" /\ b.execution = "none"
            /\ a.review = "none" /\ b.review = "none" /\ a.selection = b.selection
         \/ /\ a.publication = "none" /\ b.publication = "none"
            /\ a.execution = "none" /\ b.execution = "none"
            /\ a.review = b.review /\ a.review \in {"pending", "approved", "rejected"}
         \/ /\ a.publication = "none" /\ b.publication = "none"
            /\ a.execution = b.execution /\ a.execution \in {"succeeded", "failed"}
         \/ /\ a.publication = b.publication /\ a.publication \in {"published", "failed"}
            /\ a.deployment = b.deployment
  PROVE  StageOf(a) = StageOf(b)
<1>1. CASE /\ a.publication = "none" /\ b.publication = "none"
           /\ a.execution = "none" /\ b.execution = "none"
           /\ a.review = "none" /\ b.review = "none" /\ a.selection = b.selection
  BY <1>1 DEF StageOf
<1>2. CASE /\ a.publication = "none" /\ b.publication = "none"
           /\ a.execution = "none" /\ b.execution = "none"
           /\ a.review = b.review /\ a.review \in {"pending", "approved", "rejected"}
  BY <1>2 DEF StageOf
<1>3. CASE /\ a.publication = "none" /\ b.publication = "none"
           /\ a.execution = b.execution /\ a.execution \in {"succeeded", "failed"}
  BY <1>3 DEF StageOf
<1>4. CASE /\ a.publication = b.publication /\ a.publication \in {"published", "failed"}
           /\ a.deployment = b.deployment
  BY <1>4 DEF StageOf
<1> QED BY <1>1, <1>2, <1>3, <1>4

\* The status of the only document of a set.
LEMMA StatusOfOne ==
  ASSUME NEW S, NEW x \in S, \A y \in S : y = x PROVE StatusIn(S) = x.status
<1>1. (CHOOSE d \in S : TRUE) = x OBVIOUS
<1> QED BY <1>1 DEF StatusIn

\* What follows no document, or one: nothing, or its children.
LEMMA AfterNone == ASSUME NEW k PROVE After(k, {}) = {} BY DEF After
LEMMA AfterOne ==
  ASSUME NEW k, NEW S, NEW p \in S, \A q \in S : q = p
  PROVE  After(k, S) = Children(k, p.id)
BY DEF After, Children

\* The chain below a review as it is.
Chain(v) == ChainNow(v.parent, v.id)
Now ==
  \A v \in Of("review") :
    /\ Chain(v).review = v.status
    /\ Children("execution", v.id) = {} =>
         Chain(v).execution = "none" /\ Chain(v).publication = "none"
    /\ \A e \in Children("execution", v.id) :
         /\ Chain(v).execution = e.status
         /\ Children("publication", e.id) = {} => Chain(v).publication = "none"
         /\ \A p \in Children("publication", e.id) :
              /\ Chain(v).publication = p.status
              /\ Children("deployment", p.id) = {} => Chain(v).deployment = "none"
              /\ \A d \in Children("deployment", p.id) : Chain(v).deployment = d.status

\* The statuses of the chain are those of the only documents there are.
LEMMA NowIs == IInv => Now
<1> SUFFICES ASSUME IInv, NEW v \in Of("review")
             PROVE  /\ Chain(v).review = v.status
                    /\ Children("execution", v.id) = {} =>
                         Chain(v).execution = "none" /\ Chain(v).publication = "none"
                    /\ \A e \in Children("execution", v.id) :
                         /\ Chain(v).execution = e.status
                         /\ Children("publication", e.id) = {} => Chain(v).publication = "none"
                         /\ \A p \in Children("publication", e.id) :
                              /\ Chain(v).publication = p.status
                              /\ Children("deployment", p.id) = {} => Chain(v).deployment = "none"
                              /\ \A d \in Children("deployment", p.id) :
                                   Chain(v).deployment = d.status
  BY DEF Now
<1> DEFINE R == {d \in Children("review", v.parent) : d.id = v.id}
<1> DEFINE E == After("execution", R)
<1> DEFINE P == After("publication", E)
<1> DEFINE D == After("deployment", P)
<1>1. /\ Chain(v).review = StatusIn(R) /\ Chain(v).execution = StatusIn(E)
      /\ Chain(v).publication = StatusIn(P) /\ Chain(v).deployment = StatusIn(D)
  BY DEF Chain, ChainNow
<1>2. v \in R /\ \A q \in R : q = v
  BY DEF IInv, Order, Identified, Children, Of, Kind
<1>3. StatusIn({}) = "none" BY DEF StatusIn
<1>4. E = Children("execution", v.id) BY <1>2, AfterOne
<1>5. \A k \in Single : \A x : \A d, e \in Children(k, x) : d = e
  BY DEF IInv, Order, OneChild, Children, Of
<1> HIDE DEF R
<1>6. Chain(v).review = v.status BY <1>1, <1>2, StatusOfOne
<1>7. ASSUME Children("execution", v.id) = {}
      PROVE  Chain(v).execution = "none" /\ Chain(v).publication = "none"
  BY <1>1, <1>3, <1>4, <1>7, AfterNone
<1>8. ASSUME NEW e \in Children("execution", v.id)
      PROVE  /\ Chain(v).execution = e.status
             /\ Children("publication", e.id) = {} => Chain(v).publication = "none"
             /\ \A p \in Children("publication", e.id) :
                  /\ Chain(v).publication = p.status
                  /\ Children("deployment", p.id) = {} => Chain(v).deployment = "none"
                  /\ \A d \in Children("deployment", p.id) : Chain(v).deployment = d.status
  <2>1. e \in E /\ \A q \in E : q = e BY <1>4, <1>5, <1>8 DEF Single
  <2> HIDE DEF E
  <2>2. P = Children("publication", e.id) BY <2>1, AfterOne
  <2>3. Chain(v).execution = e.status BY <1>1, <2>1, StatusOfOne
  <2>4. Children("publication", e.id) = {} => Chain(v).publication = "none"
    BY <1>1, <1>3, <2>2
  <2>5. ASSUME NEW p \in Children("publication", e.id)
        PROVE  /\ Chain(v).publication = p.status
               /\ Children("deployment", p.id) = {} => Chain(v).deployment = "none"
               /\ \A d \in Children("deployment", p.id) : Chain(v).deployment = d.status
    <3>1. p \in P /\ \A q \in P : q = p BY <1>5, <2>2, <2>5 DEF Single
    <3> HIDE DEF P
    <3>2. D = Children("deployment", p.id) BY <3>1, AfterOne
    <3>3. Chain(v).publication = p.status BY <1>1, <3>1, StatusOfOne
    <3>4. ASSUME NEW d \in D PROVE Chain(v).deployment = d.status
      <4>1. \A q \in D : q = d BY <1>5, <3>2, <3>4 DEF Single
      <4> HIDE DEF D
      <4> QED BY <1>1, <3>4, <4>1, StatusOfOne
    <3> QED BY <1>1, <1>3, <3>2, <3>3, <3>4
  <2> QED BY <2>3, <2>4, <2>5
<1> QED BY <1>6, <1>7, <1>8

\* A run without a review has a selection at most.
LEMMA BareIs ==
  IInv => \A r : /\ ChainNow(r, 0).review = "none" /\ ChainNow(r, 0).execution = "none"
                 /\ ChainNow(r, 0).publication = "none"
                 /\ ChainNow(r, 0).selection = StatusIn(Children("selection", r))
<1> SUFFICES ASSUME IInv, NEW r
             PROVE  /\ ChainNow(r, 0).review = "none" /\ ChainNow(r, 0).execution = "none"
                    /\ ChainNow(r, 0).publication = "none"
                    /\ ChainNow(r, 0).selection = StatusIn(Children("selection", r))
  OBVIOUS
<1> DEFINE R == {d \in Children("review", r) : d.id = 0}
<1>1. R = {} BY DEF IInv, Data, Typed, Doc, Children, Of, Kind
<1>2. StatusIn({}) = "none" BY DEF StatusIn
<1>3. After("execution", R) = {} /\ After("publication", After("execution", R)) = {}
  BY <1>1, AfterNone
<1>4. /\ ChainNow(r, 0).review = StatusIn(R)
      /\ ChainNow(r, 0).execution = StatusIn(After("execution", R))
      /\ ChainNow(r, 0).publication = StatusIn(After("publication", After("execution", R)))
      /\ ChainNow(r, 0).selection = StatusIn(Children("selection", r))
  BY DEF ChainNow
<1> QED BY <1>1, <1>2, <1>3, <1>4

\* What the stage is, and so what a chain of statuses must say to tell it.
Bare(c) == c.review = "none" /\ c.execution = "none" /\ c.publication = "none"
Showing ==
  view.at \in ChainKind \ {"selection"} =>
    /\ view.review = 0 /\ Children("review", view.run) = {} =>
         \A c : Bare(c) /\ c.selection = StatusIn(Children("selection", view.run)) =>
           StageOf(c) \in Present
    /\ \A v \in Of("review") : v.id = view.review /\ v.parent = view.run =>
         /\ Children("execution", v.id) = {} =>
              \A c : c.review = v.status /\ c.execution = "none" /\ c.publication = "none" =>
                StageOf(c) \in Present
         /\ \A e \in Children("execution", v.id) :
              /\ Children("publication", e.id) = {} =>
                   \A c : c.execution = e.status /\ c.publication = "none" =>
                     StageOf(c) \in Present
              /\ \A p \in Children("publication", e.id) :
                   /\ Children("deployment", p.id) = {} =>
                        \A c : c.publication = p.status /\ c.deployment = "none" =>
                          StageOf(c) \in Present
                   /\ \A d \in Children("deployment", p.id) :
                        \A c : c.publication = p.status /\ c.deployment = d.status =>
                          StageOf(c) \in Present

\* The stage shown is the one that these statuses tell.
LEMMA Shown == IInv => Showing
<1> SUFFICES ASSUME IInv, view.at \in ChainKind \ {"selection"} PROVE Showing BY DEF Showing
<1>1. Now /\ view.at # "selection" BY NowIs
<1>2. ASSUME view.review = 0, Children("review", view.run) = {}, NEW c, Bare(c),
             c.selection = StatusIn(Children("selection", view.run))
      PROVE  StageOf(c) \in Present
  <2>1. Present = {StageOf(ChainNow(view.run, 0))} BY <1>1, <1>2 DEF Present
  <2>2. PICK r : r = view.run OBVIOUS
  <2>3. /\ ChainNow(r, 0).review = "none" /\ ChainNow(r, 0).execution = "none"
        /\ ChainNow(r, 0).publication = "none"
        /\ ChainNow(r, 0).selection = StatusIn(Children("selection", r))
    BY BareIs
  <2>4. StageOf(c) = StageOf(ChainNow(r, 0)) BY <1>2, <2>2, <2>3, SameStage DEF Bare
  <2> QED BY <2>1, <2>2, <2>4
<1>3. ASSUME NEW v \in Of("review"), v.id = view.review, v.parent = view.run
      PROVE  /\ Children("execution", v.id) = {} =>
                  \A c : c.review = v.status /\ c.execution = "none" /\ c.publication = "none" =>
                    StageOf(c) \in Present
             /\ \A e \in Children("execution", v.id) :
                  /\ Children("publication", e.id) = {} =>
                       \A c : c.execution = e.status /\ c.publication = "none" =>
                         StageOf(c) \in Present
                  /\ \A p \in Children("publication", e.id) :
                       /\ Children("deployment", p.id) = {} =>
                            \A c : c.publication = p.status /\ c.deployment = "none" =>
                              StageOf(c) \in Present
                       /\ \A d \in Children("deployment", p.id) :
                            \A c : c.publication = p.status /\ c.deployment = d.status =>
                              StageOf(c) \in Present
  <2>1. v.id \in Nat \ {0} /\ v.status \in Status
    BY <1>3 DEF IInv, Data, Typed, Doc, Of, Kind
  <2>2. Present = {StageOf(Chain(v))}
    BY <1>1, <1>3, <2>1 DEF Present, Chain, Exists, Has
  <2>3. v.status \in {"pending", "approved", "rejected"} BY <1>3 DEF IInv, Order, Outcomes
  <2>4. ASSUME Children("execution", v.id) = {}, NEW c,
               c.review = v.status, c.execution = "none", c.publication = "none"
        PROVE  StageOf(c) \in Present
    <3>1. Chain(v).review = v.status /\ Chain(v).execution = "none" /\ Chain(v).publication = "none"
      BY <1>1, <1>3, <2>4 DEF Now
    <3>2. StageOf(c) = StageOf(Chain(v)) BY <2>3, <2>4, <3>1, SameStage
    <3> QED BY <2>2, <3>2
  <2>5. ASSUME NEW e \in Children("execution", v.id), Children("publication", e.id) = {}, NEW c,
               c.execution = e.status, c.publication = "none"
        PROVE  StageOf(c) \in Present
    <3>1. Chain(v).execution = e.status /\ Chain(v).publication = "none"
      BY <1>1, <1>3, <2>5 DEF Now
    <3>2. e.status \in {"succeeded", "failed"} BY DEF IInv, Order, Outcomes, Children
    <3>3. StageOf(c) = StageOf(Chain(v)) BY <2>5, <3>1, <3>2, SameStage
    <3> QED BY <2>2, <3>3
  <2>6. ASSUME NEW e \in Children("execution", v.id), NEW p \in Children("publication", e.id),
               Children("deployment", p.id) = {}, NEW c,
               c.publication = p.status, c.deployment = "none"
        PROVE  StageOf(c) \in Present
    <3>1. Chain(v).publication = p.status /\ Chain(v).deployment = "none"
      BY <1>1, <1>3, <2>6 DEF Now
    <3>2. p.status \in {"published", "failed"} BY DEF IInv, Order, Outcomes, Children
    <3>3. StageOf(c) = StageOf(Chain(v)) BY <2>6, <3>1, <3>2, SameStage
    <3> QED BY <2>2, <3>3
  <2>7. ASSUME NEW e \in Children("execution", v.id), NEW p \in Children("publication", e.id),
               NEW d \in Children("deployment", p.id), NEW c,
               c.publication = p.status, c.deployment = d.status
        PROVE  StageOf(c) \in Present
    <3>1. Chain(v).publication = p.status /\ Chain(v).deployment = d.status
      BY <1>1, <1>3, <2>7 DEF Now
    <3>2. p.status \in {"published", "failed"} BY DEF IInv, Order, Outcomes, Children
    <3>3. StageOf(c) = StageOf(Chain(v)) BY <2>7, <3>1, <3>2, SameStage
    <3> QED BY <2>2, <3>3
  <2> QED BY <2>4, <2>5, <2>6, <2>7
<1> QED BY <1>2, <1>3 DEF Showing

\* Only a read, its end or a new request moves the status request; all else
\* leaves it alone or, when something is inserted across a purge or the service
\* is lost, ends it.
LEMMA Elsewhere ==
  ASSUME IInv, Next, ~Viewing
  PROVE  (view' = view /\ raced' = raced) \/ view' = NoView
<1>1. ASSUME NEW w \in Loop, Working(w) PROVE (view' = view /\ raced' = raced) \/ view' = NoView
  BY <1>1 DEF Working, Pick, Create, Deploy, Insert
<1>2. CASE Purging BY <1>2 DEF Purging, BeginPurge, Sweep, store
<1>3. CASE Outside
  BY <1>3 DEF Outside, Arrive, Gates, Decide, Throw, Crash, Rematch, ClosePull, Insert, store
<1> QED BY <1>1, <1>2, <1>3 DEF Next

-----------------------------------------------------------------------------
(***************************************************************************)
(* The run status: the reads stay true                                     *)
(***************************************************************************)
\* What something refers to is not inserted any more.
LEMMA OfOld ==
  ASSUME IInv, Steady \/ Sweep, NEW k \in Kind, NEW e \in docs'[k], e.id \in Referred(k)
  PROVE  \E d \in docs[k] : Becomes(k, d, e)
<1>1. CASE Steady BY <1>1 DEF Steady
<1>2. CASE Sweep
  <2>1. docs'[k] \subseteq docs[k] BY <1>2 DEF Sweep, IInv, Data, Typed
  <2> QED BY <2>1 DEF Becomes, Moves
<1> QED BY <1>1, <1>2

\* The document read last stays as it was read.
LEMMA ChainedStays ==
  ASSUME IInv, Steady \/ Sweep, Chained, view' = view
  PROVE  Chained'
<1> USE DEF Of
<1>1. {"review", "execution", "publication"} \subseteq Kind BY DEF Kind
<1>2. ASSUME view.at \in {"execution", "publication", "deployment"}, NEW v \in docs'["review"],
             v.id = view.review
      PROVE  v.parent = view.run
  <2>1. v.id \in Referred("review") BY <1>2 DEF Referred
  <2>2. PICK d \in docs["review"] : Becomes("review", d, v) BY <1>1, <2>1, OfOld
  <2> QED BY <1>2, <2>2 DEF Chained, Becomes
<1>3. ASSUME view.at = "publication", NEW e \in docs'["execution"], e.id = view.from
      PROVE  e.parent = view.review /\ e.status = view.chain["execution"]
  <2>1. Source["publication"] = "execution" /\ "publication" \in ChainKind
    BY DEF Source, ChainKind
  <2>2. e.id \in Referred("execution") BY <1>3, <2>1 DEF Referred
  <2>3. PICK d \in docs["execution"] : Becomes("execution", d, e) BY <1>1, <2>2, OfOld
  <2>4. e.id = d.id /\ e.parent = d.parent /\ e.status = d.status BY <2>3 DEF Becomes, Moves
  <2> QED BY <1>3, <2>4 DEF Chained
<1>4. ASSUME view.at = "deployment", NEW p \in docs'["publication"], p.id = view.from
      PROVE  /\ p.status = view.chain["publication"]
             /\ \A e \in docs'["execution"] : e.id = p.parent => e.parent = view.review
  <2>1. /\ Source["deployment"] = "publication" /\ "deployment" \in ChainKind
        /\ Source["publication"] = "execution" /\ "publication" # "delivery"
    BY DEF Source, ChainKind
  <2>2. p.id \in Referred("publication") BY <1>4, <2>1 DEF Referred
  <2>3. PICK q \in docs["publication"] : Becomes("publication", q, p) BY <1>1, <2>2, OfOld
  <2>4. p.id = q.id /\ p.parent = q.parent /\ p.status = q.status BY <2>3 DEF Becomes, Moves
  <2>5. p.status = view.chain["publication"] BY <1>4, <2>4 DEF Chained
  <2>6. ASSUME NEW e \in docs'["execution"], e.id = p.parent PROVE e.parent = view.review
    <3>1. e.id \in {d.parent : d \in docs["publication"]} BY <2>4, <2>6
    <3>2. e.id \in Referred("execution") BY <1>1, <2>1, <3>1 DEF Referred
    <3>3. PICK d \in docs["execution"] : Becomes("execution", d, e) BY <1>1, <3>2, OfOld
    <3>4. e.id = d.id /\ e.parent = d.parent BY <3>3 DEF Becomes
    <3> QED BY <1>4, <2>4, <2>6, <3>4 DEF Chained
  <2> QED BY <2>5, <2>6
<1>5. /\ view'.at \in {"selection", "review"} => view'.review = 0
      /\ view'.at \in {"execution", "publication", "deployment"} => view'.review # 0
      /\ view'.at = "execution" =>
           /\ view'.from = view'.review
           /\ view'.chain["review"] \in {"pending", "approved", "rejected"}
      /\ view'.at = "publication" => view'.chain["execution"] \in {"succeeded", "failed"}
      /\ view'.at = "deployment" => view'.chain["publication"] \in {"published", "failed"}
  BY DEF Chained
<1> QED BY <1>2, <1>3, <1>4, <1>5 DEF Chained

\* The parent of a child which is swept away is still there, as it was read: what
\* was told is the stage now, if the last of the children is gone.
LEMMA SweptTold ==
  ASSUME IInv, IInv', Sweep, Reads, view' = view, view.at \in ChainKind \ {"selection"},
         Children(view.at, Key) # {}, view.chain[ReadLast[view.at]] = Gate[view.at],
         Children(view.at, Key)' = {}
  PROVE  StageOf(view.chain) \in Present'
<1> USE DEF Of
<1> DEFINE k == view.at
<1> DEFINE c == view.chain
<1>1. raced = 0 /\ Trail /\ Typed /\ Chained
  BY DEF Reads, IInv, Data, ChainKind
<1>2. k \in Kind \ {"delivery", "item"} BY DEF ChainKind, Kind
<1>3. PICK b \in docs[k] : b.parent = Key BY DEF Children
<1>4. b \notin docs'[k] BY <1>3 DEF Children, Key
<1>5. \A x \in Kind \ {k} : docs'[x] = docs[x] BY <1>1, <1>2, <1>3, <1>4 DEF Sweep, Typed
<1>6. Has(Source[k], Key, Behind[k]) BY <1>1, <1>2, <1>3 DEF Trail
<1>7. Showing'
  <2>1. (IInv => Showing)' BY Shown, PTL
  <2> QED BY <2>1
<1>8. {"selection", "review", "execution", "publication", "deployment"} \subseteq Kind BY DEF Kind
<1>9. /\ \A x \in docs["execution"] : Has("review", x.parent, {"approved"})
      /\ \A x \in docs["publication"] : Has("execution", x.parent, {"succeeded"})
  <2>1. /\ Source["execution"] = "review" /\ Behind["execution"] = {"approved"}
        /\ Source["publication"] = "execution" /\ Behind["publication"] = {"succeeded"}
    BY DEF Source, Behind
  <2>2. {"execution", "publication"} \subseteq Kind \ {"delivery", "item"} BY DEF Kind
  <2>3. \A x \in docs["execution"] : Has(Source["execution"], x.parent, Behind["execution"])
    BY <1>1, <2>2 DEF Trail
  <2>4. \A x \in docs["publication"] : Has(Source["publication"], x.parent, Behind["publication"])
    BY <1>1, <2>2 DEF Trail
  <2> QED BY <2>1, <2>3, <2>4
<1>10. CASE k = "review"
  <2>1. b.run = b.parent /\ Authorized(b.run) BY <1>1, <1>3, <1>10 DEF Trail
  <2>2. Key = view.run BY <1>10 DEF Key
  <2>3. PICK s \in docs["selection"] : s.parent = view.run /\ s.status = "selected"
    BY <1>3, <2>1, <2>2 DEF Authorized, Children
  <2>4. s \in Children("selection", view.run)' BY <1>5, <1>8, <1>10, <2>3 DEF Children
  <2>5. \A x \in Children("selection", view.run)' : x = s
    BY <2>4 DEF IInv, Order, OneChild, Single, Children
  <2>6. StatusIn(Children("selection", view.run))' = s.status
    <3>1. (CHOOSE x \in Children("selection", view.run)' : TRUE) = s BY <2>4, <2>5
    <3> QED BY <2>4, <3>1 DEF StatusIn
  <2>7. Bare(c) /\ c.selection = "selected"
    BY <1>10 DEF Reads, Unread, ChainKind, Bare, ReadLast, Gate
  <2>8. view.review = 0 /\ Children("review", view.run)' = {}
    BY <1>1, <1>10 DEF Chained, Key, Children
  <2> QED BY <1>7, <1>10, <2>3, <2>6, <2>7, <2>8 DEF Showing
<1>11. CASE k = "execution"
  <2>1. Key = view.review BY <1>1, <1>11 DEF Key, Chained
  <2>2. PICK v \in docs["review"] : v.id = view.review /\ v.status = "approved"
    BY <1>6, <1>11, <2>1 DEF Has, Source, Behind
  <2>3. v.parent = view.run BY <1>1, <1>11, <2>2 DEF Chained
  <2>4. v \in docs'["review"] BY <1>5, <1>8, <1>11, <2>2
  <2>5. Children("execution", v.id)' = {} BY <1>11, <2>1, <2>2 DEF Key, Children
  <2>6. c.review = v.status /\ c.execution = "none" /\ c.publication = "none"
    BY <1>11, <2>2 DEF Reads, Unread, ChainKind, ReadLast, Gate
  <2> QED BY <1>7, <1>11, <2>2, <2>3, <2>4, <2>5, <2>6 DEF Showing
<1>12. CASE k = "publication"
  <2>1. Key = view.from BY <1>12 DEF Key
  <2>2. PICK e \in docs["execution"] : e.id = view.from /\ e.status = "succeeded"
    BY <1>6, <1>12, <2>1 DEF Has, Source, Behind
  <2>3. e.parent = view.review BY <1>1, <1>12, <2>2 DEF Chained
  <2>4. Has("review", view.review, {"approved"}) BY <1>9, <2>2, <2>3
  <2>5. PICK v \in docs["review"] : v.id = view.review BY <2>4 DEF Has
  <2>6. v.parent = view.run BY <1>1, <1>12, <2>5 DEF Chained
  <2>7. v \in docs'["review"] /\ e \in docs'["execution"] BY <1>5, <1>8, <1>12, <2>2, <2>5
  <2>8. e \in Children("execution", v.id)' BY <2>3, <2>5, <2>7 DEF Children
  <2>9. Children("publication", e.id)' = {} BY <1>12, <2>1, <2>2 DEF Key, Children
  <2>10. c.execution = e.status /\ c.publication = "none"
    BY <1>12, <2>2 DEF Reads, Unread, ChainKind, ReadLast, Gate
  <2> QED BY <1>7, <1>12, <2>5, <2>6, <2>7, <2>8, <2>9, <2>10 DEF Showing
<1>13. CASE k = "deployment"
  <2>1. Key = view.from BY <1>13 DEF Key
  <2>2. PICK p \in docs["publication"] : p.id = view.from /\ p.status = "published"
    BY <1>6, <1>13, <2>1 DEF Has, Source, Behind
  <2>3. Has("execution", p.parent, {"succeeded"}) BY <1>9, <2>2
  <2>4. PICK e \in docs["execution"] : e.id = p.parent BY <2>3 DEF Has
  <2>5. e.parent = view.review BY <1>1, <1>13, <2>2, <2>4 DEF Chained
  <2>6. Has("review", view.review, {"approved"}) BY <1>9, <2>4, <2>5
  <2>7. PICK v \in docs["review"] : v.id = view.review BY <2>6 DEF Has
  <2>8. v.parent = view.run BY <1>1, <1>13, <2>7 DEF Chained
  <2>9. v \in docs'["review"] /\ e \in docs'["execution"] /\ p \in docs'["publication"]
    BY <1>5, <1>8, <1>13, <2>2, <2>4, <2>7
  <2>10. e \in Children("execution", v.id)' /\ p \in Children("publication", e.id)'
    BY <2>4, <2>5, <2>7, <2>9 DEF Children
  <2>11. Children("deployment", p.id)' = {} BY <1>13, <2>1, <2>2 DEF Key, Children
  <2>12. c.publication = p.status /\ c.deployment = "none"
    BY <1>13, <2>2 DEF Reads, Unread, ChainKind, ReadLast, Gate
  <2> QED BY <1>7, <1>13, <2>7, <2>8, <2>9, <2>10, <2>11, <2>12 DEF Showing
<1> QED BY <1>10, <1>11, <1>12, <1>13 DEF ChainKind

\* Whatever else happens, what has been read was true.
LEMMA ReadsStay ==
  ASSUME IInv, IInv', Reads, Steady \/ Sweep, Witness, view' = view, raced' = raced
  PROVE  Reads'
<1>1. view.at # "idle" => raced' = 0 BY DEF Reads
<1>2. Chained' BY ChainedStays DEF Reads
<1>3. CASE view.at \in ChainKind
  <2>1. view.at \notin {"idle", "answered"} BY <1>3 DEF ChainKind
  <2>2. witnessed' = witnessed \cup Present' BY <2>1 DEF Witness
  <2>3. \A k \in Unread[view.at] : view.chain[k] = "none" BY <1>3 DEF Reads
  <2>4. Told'
    <3> SUFFICES ASSUME view.at # "selection"
                 PROVE  \/ StageOf(view.chain) \in witnessed'
                        \/ /\ Children(view.at, Key)' # {}
                           /\ view.chain[ReadLast[view.at]] = Gate[view.at]
      BY DEF Told, Key, Children
    <3>1. CASE StageOf(view.chain) \in witnessed BY <2>2, <3>1
    <3>2. CASE /\ Children(view.at, Key) # {}
               /\ view.chain[ReadLast[view.at]] = Gate[view.at]
      <4>1. CASE Steady
        <5>1. view.at \in Kind BY <1>3 DEF ChainKind, Kind
        <5>2. PICK d \in docs[view.at] : d.parent = Key BY <3>2 DEF Children, Of
        <5>3. PICK e \in docs'[view.at] : Becomes(view.at, d, e)
          BY <4>1, <5>1, <5>2 DEF Steady, Kept
        <5>4. e.parent = Key /\ Key' = Key BY <5>2, <5>3 DEF Becomes, Key
        <5>5. Children(view.at, Key)' # {} BY <5>3, <5>4 DEF Children, Of
        <5> QED BY <3>2, <5>5
      <4>2. CASE Sweep /\ Children(view.at, Key)' = {}
        BY <1>3, <2>2, <3>2, <4>2, SweptTold
      <4> QED BY <3>2, <4>1, <4>2
    <3> QED BY <1>3, <3>1, <3>2 DEF Reads, Told
  <2>5. StageWasCurrent' BY <2>1 DEF StageWasCurrent
  <2> QED BY <1>1, <1>2, <2>2, <2>3, <2>4, <2>5 DEF Reads
<1>4. CASE view.at = "answered"
  <2>1. witnessed' = witnessed \cap {StageOf(view.chain)} BY <1>4 DEF Witness
  <2>2. StageOf(view.chain) \in witnessed BY <1>4 DEF Reads, StageWasCurrent
  <2>3. StageWasCurrent' BY <2>1, <2>2 DEF StageWasCurrent
  <2>4. view'.at \notin ChainKind BY <1>4 DEF ChainKind
  <2> QED BY <1>1, <1>2, <2>3, <2>4 DEF Reads, Told
<1>5. CASE view.at = "idle"
  <2>1. view'.at = "idle" /\ view'.at \notin ChainKind BY <1>5 DEF ChainKind
  <2> QED BY <1>2, <2>1 DEF Reads, Told, StageWasCurrent
<1> QED BY <1>3, <1>4, <1>5 DEF IInv, Data, Typed, Views

\* No request, nothing to tell.
LEMMA ReadsEnd == ASSUME view' = NoView PROVE Reads'
<1>1. view'.at = "idle" /\ view'.at \notin ChainKind BY DEF NoView, ChainKind
<1> QED BY <1>1 DEF Reads, Chained, Told, StageWasCurrent

\* A new request has read nothing yet.
LEMMA ReadsBegin == ASSUME NEW r, BeginView(r) PROVE Reads'
<1>1. /\ view' = [NoView EXCEPT !.at = "selection", !.run = r]
      /\ raced = 0 /\ UNCHANGED << docs, raced >>
  BY DEF BeginView, store
<1>2. view'.at = "selection" /\ view'.review = 0 /\ view'.chain = NoChain BY <1>1 DEF NoView
<1>3. Present' = {} BY <1>2 DEF Present
<1>4. \A k \in Unread["selection"] : NoChain[k] = "none" BY DEF Unread, NoChain
<1> QED BY <1>1, <1>2, <1>3, <1>4 DEF Reads, Chained, Told, StageWasCurrent

\* A stuttering step changes none of it.
LEMMA ReadsStutter == ASSUME Reads, UNCHANGED vars PROVE Reads'
<1>1. UNCHANGED << docs, raced, view, witnessed >> BY DEF vars, store
<1>2. Present' = Present
  BY <1>1 DEF Present, Children, Exists, Has, ChainNow, After, Of
<1>3. Chained' BY <1>1 DEF Reads, Chained, Of
<1>4. Told' BY <1>1 DEF Reads, Told, Children, Key, Of
<1>5. StageWasCurrent' BY <1>1 DEF Reads, StageWasCurrent
<1> QED BY <1>1, <1>2, <1>3, <1>4, <1>5 DEF Reads

-----------------------------------------------------------------------------
(***************************************************************************)
(* The run status: the reads                                               *)
(***************************************************************************)
\* The trail upwards, and its only ways down.
LEMMA Upwards ==
  ASSUME IInv, raced = 0
  PROVE  /\ \A v \in Of("review") : Authorized(v.parent)
         /\ \A e \in Of("execution") : Has("review", e.parent, {"approved"})
         /\ \A p \in Of("publication") : Has("execution", p.parent, {"succeeded"})
         /\ \A d \in Of("deployment") : Has("publication", d.parent, {"published"})
<1>1. /\ Source["execution"] = "review" /\ Behind["execution"] = {"approved"}
      /\ Source["publication"] = "execution" /\ Behind["publication"] = {"succeeded"}
      /\ Source["deployment"] = "publication" /\ Behind["deployment"] = {"published"}
  BY DEF Source, Behind
<1>2. {"execution", "publication", "deployment"} \subseteq Kind \ {"delivery", "item"} BY DEF Kind
<1>3. \A k \in {"execution", "publication", "deployment"} : \A d \in Of(k) :
        Has(Source[k], d.parent, Behind[k])
  BY <1>2 DEF IInv, Trail
<1>4. \A v \in Of("review") : Authorized(v.parent) BY DEF IInv, Trail
<1>5. \A e \in Of("execution") : Has("review", e.parent, {"approved"}) BY <1>1, <1>3
<1>6. \A p \in Of("publication") : Has("execution", p.parent, {"succeeded"}) BY <1>1, <1>3
<1>7. \A d \in Of("deployment") : Has("publication", d.parent, {"published"}) BY <1>1, <1>3
<1> QED BY <1>4, <1>5, <1>6, <1>7

\* A read leaves the documents, and the stage they show, as they are.
LEMMA ReadKeeps ==
  ASSUME IInv, IInv', Reads, ReadNext
  PROVE  /\ docs' = docs /\ raced' = 0 /\ raced = 0 /\ view.at \in ChainKind
         /\ Chained /\ Present \subseteq witnessed /\ Showing /\ Showing'
         /\ \A k \in Unread[view.at] : view.chain[k] = "none"
<1>1. (IInv => Showing)' BY Shown, PTL
<1>2. Showing BY Shown
<1>3. view.at # "idle" BY DEF ReadNext, ChainKind
<1> QED BY <1>1, <1>2, <1>3 DEF ReadNext, Reads, store

\* What one read writes down.
LEMMA ReadFields ==
  ASSUME Typed, ReadNext, Lookup(view.at) # {}, view.at # "deployment"
  PROVE  \E d \in Lookup(view.at) :
           /\ view'.at = NextRead[view.at] /\ view'.run = view.run /\ view'.from = d.id
           /\ view'.review = IF view.at = "review" THEN d.id ELSE view.review
           /\ view'.chain = [IF view.at = "review" THEN NoChain ELSE view.chain
                               EXCEPT ![view.at] = d.status]
<1> DEFINE d == CHOOSE x \in Lookup(view.at) : TRUE
<1> DEFINE v == IF view.at = "review" THEN d.id ELSE view.review
<1> DEFINE c == [IF view.at = "review" THEN NoChain ELSE view.chain
                   EXCEPT ![view.at] = d.status]
<1>1. d \in Lookup(view.at) OBVIOUS
<1>2. view' = [view EXCEPT !.at = NextRead[view.at], !.from = d.id, !.review = v, !.chain = c]
  BY DEF ReadNext
<1>3. PICK a, f : a = NextRead[view.at] /\ f = d.id OBVIOUS
<1>4. view' = [view EXCEPT !.at = a, !.from = f, !.review = v, !.chain = c] BY <1>2, <1>3
<1>5. view \in Views BY DEF Typed
<1> HIDE DEF v, c
<1>6. /\ view'.at = a /\ view'.run = view.run /\ view'.from = f /\ view'.review = v
      /\ view'.chain = c
  BY <1>4, <1>5 DEF Views
<1> QED BY <1>1, <1>3, <1>6 DEF v, c

\* The run has no review at all, if it has no latest one.
LEMMA NoLatest ==
  ASSUME IInv, view.at \in ChainKind \ {"selection"}, Lookup(view.at) = {}
  PROVE  Children(view.at, Key) = {}
<1>1. CASE view.at = "review"
  <2> SUFFICES ASSUME Children("review", view.run) # {} PROVE FALSE BY <1>1 DEF Key
  <2> DEFINE S == {v.id : v \in Children("review", view.run)}
  <2>1. PICK n \in Nat : Under(n) BY DEF IInv, Data, Bounded
  <2>2. "review" \in Kind BY DEF Kind
  <2>3. S \in SUBSET Nat /\ S # {} /\ \A x \in S : x <= n
    BY <2>1, <2>2 DEF IInv, Data, Typed, Doc, Under, Children, Of
  <2> HIDE DEF S
  <2>4. Max(S) \in S /\ \A x \in S : x <= Max(S) BY <2>3, Greatest
  <2> USE DEF S
  <2>5. PICK v \in Children("review", view.run) : v.id = Max(S) BY <2>4
  <2>6. \A w \in Children("review", view.run) : w.id <= v.id BY <2>4, <2>5
  <2>7. Latest(v) BY <2>5, <2>6 DEF Latest, Children
  <2>8. v \in Lookup("review") BY <2>5, <2>7 DEF Lookup
  <2> QED BY <1>1, <2>8
<1>2. CASE view.at # "review" BY <1>2 DEF Lookup, Key
<1> QED BY <1>1, <1>2

\* The last read: what it tells is in the past.
LEMMA ReadsAnswer ==
  ASSUME Witness, raced' = 0, view'.at = "answered", StageOf(view'.chain) \in witnessed
  PROVE  Reads'
<1>1. witnessed' = witnessed \cap {StageOf(view'.chain)} BY DEF Witness
<1>2. view'.at \notin ChainKind BY DEF ChainKind
<1> QED BY <1>1, <1>2 DEF Reads, Chained, Told, StageWasCurrent

\* Nothing found: the answer is what was told before.
LEMMA ReadNothing ==
  ASSUME IInv, IInv', Reads, ReadNext, Witness, view.at # "selection", Lookup(view.at) = {}
  PROVE  Reads'
<1>1. raced' = 0 /\ view.at \in ChainKind BY ReadKeeps
<1>2. Children(view.at, Key) = {} BY <1>1, NoLatest
<1>3. StageOf(view.chain) \in witnessed BY <1>1, <1>2 DEF Reads, Told
<1>4. view' = Answered(view) BY DEF ReadNext
<1>5. PICK c : c = view.chain OBVIOUS
<1>6. view' = [NoView EXCEPT !.at = "answered", !.chain = c] BY <1>4, <1>5 DEF Answered
<1>7. view'.at = "answered" /\ view'.chain = view.chain BY <1>5, <1>6 DEF NoView
<1> QED BY <1>1, <1>3, <1>7, ReadsAnswer

\* The selection, which may be missing.
LEMMA ReadSelection ==
  ASSUME IInv, IInv', Reads, ReadNext, Witness, view.at = "selection"
  PROVE  Reads'
<1> USE DEF Of
<1> DEFINE r == view.run
<1> DEFINE s == StatusIn(Children("selection", r))
<1>1. /\ docs' = docs /\ raced' = 0 /\ raced = 0 /\ view.at \in ChainKind
      /\ Chained /\ Present \subseteq witnessed /\ Showing'
      /\ \A k \in Unread[view.at] : view.chain[k] = "none"
  BY ReadKeeps
<1>2. Typed BY DEF IInv, Data
<1>3. view.review = 0 /\ \A k \in ChainKind : view.chain[k] = "none"
  BY <1>1 DEF Chained, Unread
<1>4. \A x, y \in Children("selection", r) : x = y BY DEF IInv, Order, OneChild, Single, Children
<1>5. view.chain \in [ChainKind -> Status \cup {"none"}] BY <1>2 DEF Typed, Views
<1>6. /\ view'.at = "review" /\ view'.run = r /\ view'.review = 0
      /\ view'.chain["selection"] = s
      /\ \A k \in ChainKind \ {"selection"} : view'.chain[k] = "none"
  <2>1. CASE Lookup("selection") = {}
    <3>1. view' = [view EXCEPT !.at = "review"] BY <2>1 DEF ReadNext
    <3>2. s = "none" BY <2>1 DEF Lookup, StatusIn
    <3>3. view'.at = "review" /\ view'.run = r /\ view'.review = 0 /\ view'.chain = view.chain
      BY <1>2, <1>3, <3>1 DEF Typed, Views
    <3> QED BY <1>3, <3>2, <3>3 DEF ChainKind
  <2>2. CASE Lookup("selection") # {}
    <3>1. PICK d \in Lookup("selection") :
            /\ view'.at = NextRead["selection"] /\ view'.run = r
            /\ view'.review = view.review
            /\ view'.chain = [view.chain EXCEPT !["selection"] = d.status]
      BY <1>2, <2>2, ReadFields
    <3>2. s = d.status BY <1>4, <3>1, StatusOfOne DEF Lookup
    <3>3. "selection" \in ChainKind BY DEF ChainKind
    <3>4. NextRead["selection"] = "review" BY DEF NextRead
    <3> HIDE DEF s
    <3> QED BY <1>3, <1>5, <3>1, <3>2, <3>3, <3>4
  <2> QED BY <2>1, <2>2
<1>7. witnessed' = witnessed \cup Present' BY <1>3, <1>6 DEF Witness
<1>8. Told'
  <2>1. CASE Children("review", r) = {}
    <3>1. Children("review", view.run)' = {} BY <1>1, <1>6, <2>1 DEF Children
    <3>2. StatusIn(Children("selection", view.run))' = s BY <1>1, <1>6 DEF StatusIn, Children
    <3>3. Bare(view'.chain) BY <1>6 DEF Bare, ChainKind
    <3>4. view'.at \in ChainKind \ {"selection"} BY <1>6 DEF ChainKind
    <3>5. StageOf(view'.chain) \in Present' BY <1>1, <1>6, <3>1, <3>2, <3>3, <3>4 DEF Showing
    <3> QED BY <1>7, <3>5 DEF Told
  <2>2. CASE Children("review", r) # {}
    <3>1. PICK v \in docs["review"] : v.parent = r BY <2>2 DEF Children
    <3>2. Authorized(r) BY <1>1, <3>1, Upwards
    <3>3. PICK x \in Children("selection", r) : x.status = "selected" BY <3>2 DEF Authorized
    <3>4. s = "selected" BY <1>4, <3>3, StatusOfOne
    <3>5. Children("review", Key)' # {} BY <1>1, <1>6, <3>1 DEF Children, Key
    <3>6. view'.chain[ReadLast["review"]] = Gate["review"] BY <1>6, <3>4 DEF ReadLast, Gate
    <3> QED BY <1>6, <3>5, <3>6 DEF Told
  <2> QED BY <2>1, <2>2
<1>9. Chained' BY <1>6 DEF Chained
<1>10. \A k \in Unread["review"] : view'.chain[k] = "none" BY <1>6 DEF Unread
<1> QED BY <1>1, <1>6, <1>7, <1>8, <1>9, <1>10 DEF Reads, StageWasCurrent

\* The latest review.
LEMMA ReadReview ==
  ASSUME IInv, IInv', Reads, ReadNext, Witness, view.at = "review", Lookup("review") # {}
  PROVE  Reads'
<1> USE DEF Of
<1>1. /\ docs' = docs /\ raced' = 0 /\ raced = 0 /\ view.at \in ChainKind /\ Showing'
      /\ Present \subseteq witnessed
  BY ReadKeeps
<1>2. Typed /\ "review" \in Kind BY DEF IInv, Data, Kind
<1>3. PICK v \in Lookup("review") :
        /\ view'.at = NextRead["review"] /\ view'.run = view.run /\ view'.from = v.id
        /\ view'.review = v.id /\ view'.chain = [NoChain EXCEPT !["review"] = v.status]
  BY <1>2, ReadFields
<1>4. v \in docs["review"] /\ v.parent = view.run BY <1>3 DEF Lookup, Children
<1>5. v.id # 0 /\ v.status \in {"pending", "approved", "rejected"}
  BY <1>2, <1>4 DEF Typed, Doc, IInv, Order, Outcomes
<1>6. \A x \in docs["review"] : x.id = v.id => x = v BY <1>2, <1>4 DEF IInv, Order, Identified
<1>7. NextRead["review"] = "execution" BY DEF NextRead
<1>8. view'.chain["review"] = v.status /\ \A k \in ChainKind \ {"review"} : view'.chain[k] = "none"
  BY <1>3 DEF NoChain, ChainKind
<1>9. Present' \subseteq witnessed'
  BY <1>3, <1>7 DEF Witness
<1>10. Told'
  <2>1. CASE Children("execution", v.id) = {}
    <3>1. Children("execution", v.id)' = {} BY <1>1, <2>1 DEF Children
    <3>2. view'.chain.execution = "none" /\ view'.chain.publication = "none" BY <1>8 DEF ChainKind
    <3>3. view'.at \in ChainKind \ {"selection"} BY <1>3, <1>7 DEF ChainKind
    <3>4. StageOf(view'.chain) \in Present'
      BY <1>1, <1>3, <1>4, <1>8, <3>1, <3>2, <3>3 DEF Showing
    <3> QED BY <1>9, <3>4 DEF Told
  <2>2. CASE Children("execution", v.id) # {}
    <3>1. PICK e \in docs["execution"] : e.parent = v.id BY <2>2 DEF Children
    <3>2. Has("review", v.id, {"approved"}) BY <1>1, <3>1, Upwards
    <3>3. v.status = "approved" BY <1>6, <3>2 DEF Has
    <3>4. Children("execution", Key)' # {} BY <1>1, <1>3, <1>7, <3>1 DEF Children, Key
    <3>5. view'.chain[ReadLast["execution"]] = Gate["execution"]
      BY <1>8, <3>3 DEF ReadLast, Gate
    <3> QED BY <1>3, <1>7, <3>4, <3>5 DEF Told
  <2> QED BY <2>1, <2>2
<1>11. Chained' BY <1>1, <1>3, <1>4, <1>5, <1>6, <1>7, <1>8 DEF Chained
<1>12. \A k \in Unread["execution"] : view'.chain[k] = "none" BY <1>8 DEF Unread
<1> QED BY <1>1, <1>3, <1>7, <1>9, <1>10, <1>11, <1>12 DEF Reads, StageWasCurrent

\* Its execution.
LEMMA ReadExecution ==
  ASSUME IInv, IInv', Reads, ReadNext, Witness, view.at = "execution", Lookup("execution") # {}
  PROVE  Reads'
<1> USE DEF Of
<1>1. /\ docs' = docs /\ raced' = 0 /\ raced = 0 /\ view.at \in ChainKind /\ Showing'
      /\ Chained /\ Present \subseteq witnessed
      /\ \A k \in Unread["execution"] : view.chain[k] = "none"
  BY ReadKeeps
<1>2. Typed /\ {"review", "execution"} \subseteq Kind BY DEF IInv, Data, Kind
<1>3. PICK e \in Lookup("execution") :
        /\ view'.at = NextRead["execution"] /\ view'.run = view.run /\ view'.from = e.id
        /\ view'.review = view.review
        /\ view'.chain = [view.chain EXCEPT !["execution"] = e.status]
  BY <1>2, ReadFields
<1>4. view.review # 0 /\ view.from = view.review
      /\ \A v \in docs["review"] : v.id = view.review => v.parent = view.run
  BY <1>1 DEF Chained
<1>5. e \in docs["execution"] /\ e.parent = view.review BY <1>3, <1>4 DEF Lookup, Children
<1>6. e.status \in {"succeeded", "failed"} BY <1>5 DEF IInv, Order, Outcomes
<1>7. \A x \in docs["execution"] : x.id = e.id => x = e BY <1>2, <1>5 DEF IInv, Order, Identified
<1>8. NextRead["execution"] = "publication" BY DEF NextRead
<1>9. view.chain \in [ChainKind -> Status \cup {"none"}] BY <1>2 DEF Typed, Views
<1>10. /\ view'.chain["execution"] = e.status
       /\ view'.chain["publication"] = "none" /\ view'.chain["deployment"] = "none"
  BY <1>1, <1>3, <1>9 DEF ChainKind, Unread
<1>11. Present' \subseteq witnessed' BY <1>3, <1>8 DEF Witness
<1>12. Told'
  <2>1. CASE Children("publication", e.id) = {}
    <3>1. Has("review", view.review, {"approved"}) BY <1>1, <1>5, Upwards
    <3>2. PICK v \in docs["review"] : v.id = view.review BY <3>1 DEF Has
    <3>3. v \in Of("review")' /\ v.id = view'.review /\ v.parent = view'.run
      BY <1>1, <1>3, <1>4, <3>2
    <3>4. e \in Children("execution", v.id)' /\ Children("publication", e.id)' = {}
      BY <1>1, <1>5, <2>1, <3>2 DEF Children
    <3>5. view'.chain.execution = e.status /\ view'.chain.publication = "none" BY <1>10
    <3>6. view'.at \in ChainKind \ {"selection"} BY <1>3, <1>8 DEF ChainKind
    <3>7. StageOf(view'.chain) \in Present' BY <1>1, <3>3, <3>4, <3>5, <3>6 DEF Showing
    <3> QED BY <1>11, <3>7 DEF Told
  <2>2. CASE Children("publication", e.id) # {}
    <3>1. PICK p \in docs["publication"] : p.parent = e.id BY <2>2 DEF Children
    <3>2. Has("execution", e.id, {"succeeded"}) BY <1>1, <3>1, Upwards
    <3>3. e.status = "succeeded" BY <1>7, <3>2 DEF Has
    <3>4. Children("publication", Key)' # {} BY <1>1, <1>3, <1>8, <3>1 DEF Children, Key
    <3>5. view'.chain[ReadLast["publication"]] = Gate["publication"]
      BY <1>10, <3>3 DEF ReadLast, Gate
    <3> QED BY <1>3, <1>8, <3>4, <3>5 DEF Told
  <2> QED BY <2>1, <2>2
<1>13. Chained'
  BY <1>1, <1>3, <1>4, <1>5, <1>6, <1>7, <1>8, <1>10 DEF Chained
<1>14. \A k \in Unread["publication"] : view'.chain[k] = "none" BY <1>10 DEF Unread
<1>15. view'.at = "publication" BY <1>3, <1>8
<1> QED BY <1>1, <1>11, <1>12, <1>13, <1>14, <1>15 DEF Reads, StageWasCurrent

\* Its publication.
LEMMA ReadPublication ==
  ASSUME IInv, IInv', Reads, ReadNext, Witness, view.at = "publication",
         Lookup("publication") # {}
  PROVE  Reads'
<1> USE DEF Of
<1>1. /\ docs' = docs /\ raced' = 0 /\ raced = 0 /\ view.at \in ChainKind /\ Showing'
      /\ Chained /\ Present \subseteq witnessed
      /\ \A k \in Unread["publication"] : view.chain[k] = "none"
  BY ReadKeeps
<1>2. Typed /\ {"execution", "publication"} \subseteq Kind BY DEF IInv, Data, Kind
<1>3. PICK p \in Lookup("publication") :
        /\ view'.at = NextRead["publication"] /\ view'.run = view.run /\ view'.from = p.id
        /\ view'.review = view.review
        /\ view'.chain = [view.chain EXCEPT !["publication"] = p.status]
  BY <1>2, ReadFields
<1>4. /\ view.review # 0
      /\ \A v \in docs["review"] : v.id = view.review => v.parent = view.run
      /\ \A e \in docs["execution"] : e.id = view.from => e.parent = view.review
  BY <1>1 DEF Chained
<1>5. p \in docs["publication"] /\ p.parent = view.from BY <1>3 DEF Lookup, Children
<1>6. p.status \in {"published", "failed"} BY <1>5 DEF IInv, Order, Outcomes
<1>7. \A x \in docs["publication"] : x.id = p.id => x = p
  BY <1>2, <1>5 DEF IInv, Order, Identified
<1>8. NextRead["publication"] = "deployment" BY DEF NextRead
<1>9. view.chain \in [ChainKind -> Status \cup {"none"}] BY <1>2 DEF Typed, Views
<1>10. view'.chain["publication"] = p.status /\ view'.chain["deployment"] = "none"
  BY <1>1, <1>3, <1>9 DEF ChainKind, Unread
<1>11. Present' \subseteq witnessed' BY <1>3, <1>8 DEF Witness
<1>12. Told'
  <2>1. CASE Children("deployment", p.id) = {}
    <3>1. PICK e \in docs["execution"] : e.id = p.parent BY <1>1, <1>5, Upwards DEF Has
    <3>2. PICK v \in docs["review"] : v.id = e.parent BY <1>1, Upwards DEF Has
    <3>3. e.parent = view.review BY <1>4, <1>5, <3>1
    <3>4. v \in Of("review")' /\ v.id = view'.review /\ v.parent = view'.run
      BY <1>1, <1>3, <1>4, <3>2, <3>3
    <3>5. /\ e \in Children("execution", v.id)' /\ p \in Children("publication", e.id)'
          /\ Children("deployment", p.id)' = {}
      BY <1>1, <1>5, <2>1, <3>1, <3>2 DEF Children
    <3>6. view'.chain.publication = p.status /\ view'.chain.deployment = "none" BY <1>10
    <3>7. view'.at \in ChainKind \ {"selection"} BY <1>3, <1>8 DEF ChainKind
    <3>8. StageOf(view'.chain) \in Present' BY <1>1, <3>4, <3>5, <3>6, <3>7 DEF Showing
    <3> QED BY <1>11, <3>8 DEF Told
  <2>2. CASE Children("deployment", p.id) # {}
    <3>1. PICK d \in docs["deployment"] : d.parent = p.id BY <2>2 DEF Children
    <3>2. Has("publication", p.id, {"published"}) BY <1>1, <3>1, Upwards
    <3>3. p.status = "published" BY <1>7, <3>2 DEF Has
    <3>4. Children("deployment", Key)' # {} BY <1>1, <1>3, <1>8, <3>1 DEF Children, Key
    <3>5. view'.chain[ReadLast["deployment"]] = Gate["deployment"]
      BY <1>10, <3>3 DEF ReadLast, Gate
    <3> QED BY <1>3, <1>8, <3>4, <3>5 DEF Told
  <2> QED BY <2>1, <2>2
<1>13. Chained'
  BY <1>1, <1>3, <1>4, <1>5, <1>6, <1>7, <1>8, <1>10 DEF Chained
<1>14. \A k \in Unread["deployment"] : view'.chain[k] = "none" BY <1>10 DEF Unread
<1>15. view'.at = "deployment" BY <1>3, <1>8
<1> QED BY <1>1, <1>11, <1>12, <1>13, <1>14, <1>15 DEF Reads, StageWasCurrent

\* Its deployment, the last read.
LEMMA ReadDeployment ==
  ASSUME IInv, IInv', Reads, ReadNext, Witness, view.at = "deployment",
         Lookup("deployment") # {}
  PROVE  Reads'
<1> USE DEF Of
<1>1. /\ docs' = docs /\ raced' = 0 /\ raced = 0 /\ view.at \in ChainKind /\ Showing
      /\ Chained /\ Present \subseteq witnessed
  BY ReadKeeps
<1>2. Typed /\ "publication" \in Kind BY DEF IInv, Data, Kind
<1> DEFINE d == CHOOSE x \in Lookup("deployment") : TRUE
<1>3. d \in docs["deployment"] /\ d.parent = view.from BY DEF Lookup, Children
<1>4. PICK s : s = d.status OBVIOUS
<1> DEFINE c == [view.chain EXCEPT !["deployment"] = s]
<1>5. view'.at = "answered" /\ view'.chain = c
  <2> DEFINE v == [view EXCEPT !.at = NextRead["deployment"], !.from = d.id,
                     !.review = view.review, !.chain = c]
  <2>1. view' = Answered(v) BY <1>4 DEF ReadNext
  <2>2. v.chain = c BY <1>2 DEF Typed, Views
  <2>3. PICK x : x = v.chain OBVIOUS
  <2>4. view' = [NoView EXCEPT !.at = "answered", !.chain = x] BY <2>1, <2>3 DEF Answered
  <2> QED BY <2>2, <2>3, <2>4 DEF NoView
<1>6. view.chain \in [ChainKind -> Status \cup {"none"}] BY <1>2 DEF Typed, Views
<1>7. c.publication = view.chain["publication"] /\ c.deployment = d.status
  BY <1>4, <1>6 DEF ChainKind
<1> HIDE DEF c, d
<1>8. PICK p \in docs["publication"] : p.id = d.parent BY <1>1, <1>3, Upwards DEF Has
<1>9. PICK e \in docs["execution"] : e.id = p.parent BY <1>1, Upwards DEF Has
<1>10. PICK v \in docs["review"] : v.id = e.parent BY <1>1, Upwards DEF Has
<1>11. /\ p.status = view.chain["publication"] /\ e.parent = view.review
       /\ v.parent = view.run
  BY <1>1, <1>3, <1>8, <1>9, <1>10 DEF Chained
<1>12. /\ e \in Children("execution", v.id) /\ p \in Children("publication", e.id)
       /\ d \in Children("deployment", p.id)
  BY <1>3, <1>8, <1>9, <1>10 DEF Children
<1>13. view.at \in ChainKind \ {"selection"} BY DEF ChainKind
<1>14. StageOf(c) \in Present
  BY <1>1, <1>7, <1>10, <1>11, <1>12, <1>13 DEF Showing
<1> QED BY <1>1, <1>5, <1>14, ReadsAnswer

\* Every step keeps true what a status request has read.
LEMMA ReadsStep == IInv /\ Reads /\ [Next]_vars => Reads'
<1> SUFFICES ASSUME IInv, Reads, [Next]_vars PROVE Reads' OBVIOUS
<1>1. IInv' /\ (Steady \/ Sweep) BY InvStep
<1>2. CASE UNCHANGED vars BY <1>2, ReadsStutter
<1>3. CASE Next /\ ~Viewing
  <2>1. Witness BY <1>3 DEF Next
  <2>2. (view' = view /\ raced' = raced) \/ view' = NoView BY <1>3, Elsewhere
  <2> QED BY <1>1, <2>1, <2>2, ReadsStay, ReadsEnd
<1>4. CASE Next /\ Viewing
  <2>1. Witness BY <1>4 DEF Next
  <2>2. CASE EndView BY <2>2, ReadsEnd DEF EndView
  <2>3. CASE \E d \in Of("run") : BeginView(d.id)
    <3>1. PICK d \in Of("run") : BeginView(d.id) BY <2>3
    <3>2. PICK r : r = d.id OBVIOUS
    <3> QED BY <3>1, <3>2, ReadsBegin
  <2>4. CASE ReadNext
    <3>1. view.at \in ChainKind BY <2>4 DEF ReadNext
    <3>2. CASE view.at = "selection" BY <1>1, <2>1, <2>4, <3>2, ReadSelection
    <3>3. CASE view.at # "selection" /\ Lookup(view.at) = {}
      BY <1>1, <2>1, <2>4, <3>3, ReadNothing
    <3>4. CASE view.at # "selection" /\ Lookup(view.at) # {}
      BY <1>1, <2>1, <2>4, <3>1, <3>4, ReadReview, ReadExecution, ReadPublication,
         ReadDeployment DEF ChainKind
    <3> QED BY <3>2, <3>3, <3>4
  <2> QED BY <1>4, <2>2, <2>3, <2>4 DEF Viewing
<1> QED BY <1>2, <1>3, <1>4

-----------------------------------------------------------------------------
(***************************************************************************)
(* The theorems                                                            *)
(***************************************************************************)
\* Every variable keeps its type, also the ids that are made up as the trail
\* grows and shrinks.
THEOREM TypeCorrect == Spec => []TypeOK
<1>1. IInv => TypeOK
  <2> SUFFICES ASSUME Typed PROVE TypeOK BY DEF IInv, Data
  <2>1. DOMAIN docs = Kind /\ \A k \in Kind : docs[k] \subseteq Doc BY DEF Typed
  <2>2. \A k \in Kind : \A d \in docs[k] :
          /\ d.id \in Nat \ {0} /\ d.pull \in Closed \cup {"open"}
          /\ d.parent \in Nat /\ d.run \in Nat /\ d.status \in Status
          /\ d.key \in Named \cup {"issueKey"}
    BY <2>1 DEF Doc, Pull
  <2>3. \A w \in Loop : hand[w] # None =>
          hand[w] \in [makes : DOMAIN Source, from : Nat, run : Nat,
                       pull : Closed \cup {"open"}, stale : BOOLEAN]
    BY DEF Typed, Jobs, Pull
  <2>4. purge.step \in 0 .. Len(PurgeOrder) BY DEF Typed, Purges, PurgeOrder
  <2>5. view.at \in ChainKind \cup {"idle", "answered"} BY DEF Typed, Views
  <2> QED BY <2>1, <2>2, <2>3, <2>4, <2>5 DEF Typed, TypeOK
<1> QED BY <1>1, Invariance, PTL

\* Whatever loops, operators, crashes and interrupted purges do, a document
\* that was not inserted across a purge has its parent, past its gate.
THEOREM TrailStaysWhole == Spec => []TrailIsWhole
<1>1. IInv => TrailIsWhole
  <2> SUFFICES ASSUME IInv, raced = 0 PROVE TrailIsWhole BY DEF TrailIsWhole
  <2>1. \A k \in Kind \ {"delivery", "item"} : \A d \in Of(k) : Has(Source[k], d.parent, Behind[k])
    BY DEF IInv, Trail
  <2>2. ASSUME NEW v \in Of("review"), NEW s \in Children("selection", v.run)
        PROVE  s.status = "selected"
    <3>1. PICK t \in Children("selection", v.run) : t.status = "selected"
      BY <2>2 DEF IInv, Trail, Authorized
    <3>2. s = t BY <2>2, <3>1 DEF IInv, Order, OneChild, Single, Children
    <3> QED BY <3>1, <3>2
  <2> QED BY <2>1, <2>2 DEF TrailIsWhole
<1> QED BY <1>1, Invariance, PTL

\* A purge that answered has left nothing of the ticket, whatever earlier purges
\* left half done - but for deliveries if the item was gone before: then those
\* that name the ticket by its customer-facing key stay.
THEOREM PurgeLeavesNothing == Spec => []PurgeClears
<1>1. IInv => PurgeClears BY DEF IInv
<1> QED BY <1>1, Invariance, PTL

\* The stage a status request answers, read after read while loops, operators,
\* crashes and a purge go on, is one the run was in while they were made.
THEOREM StageIsNoMixture == Spec => []StageWasCurrent
<1>1. Init => Reads
  <2> SUFFICES ASSUME Init PROVE Reads OBVIOUS
  <2>1. view.at = "idle" /\ view.at \notin ChainKind BY DEF Init, NoView, ChainKind
  <2> QED BY <2>1 DEF Reads, Chained, Told, StageWasCurrent
<1>2. IInv /\ Reads /\ [Next]_vars => Reads' BY ReadsStep
<1>3. Reads => StageWasCurrent BY DEF Reads
<1> QED BY <1>1, <1>2, <1>3, Invariance, PTL DEF Spec

\* Only a purge takes documents away.  Nothing else - a retry, a crash, an error,
\* an operator - loses one, or lets one go back behind a gate it has passed, and
\* a new document never takes an id that anything refers to, gone or not.
THEOREM OnlyPurgesRemove == Spec => [][Sweep \/ Steady]_vars
<1>1. IInv /\ [Next]_vars => [Sweep \/ Steady]_vars BY InvStep
<1> QED BY <1>1, Invariance, PTL DEF Spec
=============================================================================
