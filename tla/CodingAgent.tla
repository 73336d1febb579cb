---------------------------- MODULE CodingAgent ----------------------------
(***************************************************************************)
(* The coding agent and its GitHub access: an operator's request to        *)
(* propose changes (api/coding-agent.ts, pipeline/coding-agent-trigger.ts, *)
(* coding-agent/service.ts) or to suggest files (api/suggested-files.ts)   *)
(* passes the checks of github-access/service.ts and github-app/access.ts, *)
(* reads the confirmed branch call by call with the tokens of TokenIssuer, *)
(* and asks the provider.  Meanwhile the registry, the run's chain of      *)
(* approvals and the branch are changed by others, tokens are revoked, and *)
(* GitHub, the provider and the database fail.                             *)
(*                                                                         *)
(* All requests are about one run.  Nothing is stored before the review,   *)
(* whose register is in ChangeReview; audit entries only report.           *)
(***************************************************************************)
EXTENDS TokenIssuer, FiniteSets, Sequences

CONSTANTS
  Path,        \* files of the repository, in a fixed order of reading
  Unsafe,      \* those no change may name: secrets, workflows, escapes
  Uneditable,  \* those that are not suggested: binaries, locks, builds
  Content,     \* contents a file may have
  Absent,      \* the content of a file the branch does not have
  Start,       \* contents of the branch at the start
  Asked,       \* the requests operators make
  MaxPaths,    \* most files one request names, most files suggested
  MaxChanges,  \* bound: changes of a proposal
  MaxUpsets    \* bound: how often others interfere

Links == {"selection", "run", "item", "analysis"}
Requests ==
  [kind : {"agent"}, paths : {P \in SUBSET Path : P # {} /\ Cardinality(P) <= MaxPaths}]
    \cup [kind : {"suggest"}, paths : {{}}]
Item == [path : Path, operation : {"create", "modify"}]
Change == [path : Path, operation : {"create", "modify"}, hash : Content]

ASSUME AgentAssumption ==
  /\ None \notin Links
  /\ Unsafe \subseteq Path /\ Uneditable \subseteq Path
  /\ Absent \in Content
  /\ Start \in [Path -> Content]
  /\ Asked \subseteq Requests
  /\ MaxPaths \in Nat /\ MaxChanges \in Nat /\ MaxUpsets \in Nat

VARIABLES
  entry,    \* installation of the active registry entry, None without one
  missing,  \* the link of the run's chain that does not hold, or None
  branch,   \* contents of the confirmed branch
  outside,  \* whether GitHub, the provider and the database do well
  upsets,   \* how often others have interfered
  request,  \* what each caller asks for
  at,       \* how far it has come in its passage; 0 when it is answered
  inst,     \* the installation it was authorized for
  read,     \* the contents it has read
  changes,  \* the changes it proposes
  answer,   \* what it was answered
  had,      \* history: contents the branch has had since it began
  granted   \* history: what held at some time since it began

envVars == << entry, missing, branch, outside, upsets >>
callerVars == << request, at, inst, read, changes, answer >>
vars == << issuerVars, envVars, callerVars, had, granted >>

\* What a request passes, in the order of its awaited calls.
AgentPassage ==
  << "selection", "entry", "token", "analysis", "run", "item", "selection",
     "entry", "token", "metadata", "files", "plan", "changes", "review" >>
SuggestPassage ==
  << "run", "item", "selection", "entry", "token", "ref", "commit", "tree",
     "suggestion" >>

Gate(c) ==
  IF at[c] = 0 THEN "answered"
    ELSE (IF request[c].kind = "agent" THEN AgentPassage ELSE SuggestPassage)[at[c]]

Refused == [kind |-> "refused"]
Answers ==
  {Refused} \cup [kind : {"review"}, changes : SUBSET Change]
            \cup [kind : {"suggestion"}, paths : SUBSET Path]

TypeOK ==
  /\ IssuerTypeOK
  /\ entry \in Installation \cup {None}
  /\ missing \in Links \cup {None}
  /\ branch \in [Path -> Content]
  /\ outside \in {"well", "ill"}
  /\ upsets \in 0..MaxUpsets
  /\ request \in [Caller -> Requests]
  /\ at \in [Caller -> 0..14]
  /\ inst \in [Caller -> Installation \cup {None}]
  /\ read \in [Caller -> [Path -> Content]]
  /\ changes \in [Caller -> SUBSET Change]
  /\ answer \in [Caller -> Answers]
  /\ had \in [Caller -> SUBSET (Path \X Content)]
  /\ granted \in [Caller -> SUBSET (Installation \cup Links)]
  /\ \A c \in Caller : request[c].kind = "suggest" => at[c] <= 9

Nothing == [p \in Path |-> Absent]

Init ==
  /\ IssuerInit
  /\ entry \in Installation
  /\ missing \in {None, "selection"}
  /\ branch = Start
  /\ outside = "well"
  /\ upsets = 0
  /\ request = [c \in Caller |-> [kind |-> "suggest", paths |-> {}]]
  /\ at = [c \in Caller |-> 0]
  /\ inst = [c \in Caller |-> None]
  /\ read = [c \in Caller |-> Nothing]
  /\ changes = [c \in Caller |-> {}]
  /\ answer = [c \in Caller |-> Refused]
  /\ had = [c \in Caller |-> {}]
  /\ granted = [c \in Caller |-> {}]

Snapshot == {<< p, branch[p] >> : p \in Path}
Holding == (Links \ {missing}) \cup ({entry} \ {None})

-----------------------------------------------------------------------------
(***************************************************************************)
(* A caller's passage                                                      *)
(***************************************************************************)
\* A well-formed request of an authenticated operator.
Begin(c) ==
  /\ at[c] = 0
  /\ \E r \in Asked : request' = [request EXCEPT ![c] = r]
  /\ at' = [at EXCEPT ![c] = 1]
  /\ had' = [had EXCEPT ![c] = Snapshot]
  /\ granted' = [granted EXCEPT ![c] = Holding]
  /\ answer' = [answer EXCEPT ![c] = Refused]
  /\ UNCHANGED << issuerVars, envVars, inst, read, changes >>

Advance(c) == at' = [at EXCEPT ![c] = @ + 1]

\* The files an answer is about: for the rest no history is kept.
About(a) ==
  CASE a.kind = "review" -> {x.path : x \in a.changes}
    [] a.kind = "suggestion" -> a.paths
    [] OTHER -> {}

\* The request is answered; what it worked with is dropped.
Finish(c, a) ==
  /\ at' = [at EXCEPT ![c] = 0]
  /\ answer' = [answer EXCEPT ![c] = a]
  /\ inst' = [inst EXCEPT ![c] = None]
  /\ read' = [read EXCEPT ![c] = Nothing]
  /\ changes' = [changes EXCEPT ![c] = {}]
  /\ had' = [had EXCEPT ![c] = {h \in @ : h[1] \in About(a)}]
  /\ granted' = [granted EXCEPT ![c] = {}]
  /\ UNCHANGED request

\* Mutated form of Check: an item that is no longer approved is let through.
CheckLenient(c) ==
  /\ Gate(c) \in Links
  /\ IF missing = Gate(c) /\ Gate(c) # "item"
       THEN Finish(c, Refused)
       ELSE Advance(c) /\ UNCHANGED << request, inst, read, changes, answer, had, granted >>
  /\ UNCHANGED << issuerVars, envVars >>

\* A link of the chain is read: the selection is confirmed, the run is queued
\* or running, its item approved, its analysis completed.
Check(c) ==
  /\ Gate(c) \in Links
  /\ IF missing = Gate(c)
       THEN Finish(c, Refused)
       ELSE Advance(c) /\ UNCHANGED << request, inst, read, changes, answer, had, granted >>
  /\ UNCHANGED << issuerVars, envVars >>

\* The live registry must still have an active entry for the repository, with
\* an installation; owner, repository and branch are the selection's.
Authorize(c) ==
  /\ Gate(c) = "entry"
  /\ IF entry = None
       THEN Finish(c, Refused)
       ELSE /\ inst' = [inst EXCEPT ![c] = entry]
            /\ Advance(c)
            /\ UNCHANGED << request, read, changes, answer, had, granted >>
  /\ UNCHANGED << issuerVars, envVars >>

Calls == {"token", "metadata", "files", "ref", "commit", "tree"}

\* With a token in hand the call of this gate is sent; to have a token is all
\* the gate "token" is about.
Go(c, t) ==
  IF Gate(c) = "token"
    THEN Advance(c) /\ call' = [call EXCEPT ![c] = None]
    ELSE call' = [call EXCEPT ![c] = Sent(inst[c], t)] /\ UNCHANGED at

\* Every call asks the issuer anew.
Ask(c) ==
  /\ Gate(c) \in Calls /\ call[c] = None
  /\ \/ Usable(inst[c]) /\ Go(c, cache[inst[c]]) /\ UNCHANGED << cache, asking >>
     \/ Await(c, inst[c]) /\ UNCHANGED at
  /\ UNCHANGED << envVars, request, inst, read, changes, answer, had, granted >>

\* GitHub answers the request for a token, or fails to.
Issue(c) ==
  /\ \/ Reply(c, Fresh)
     \/ outside = "ill" /\ Reply(c, None)
  /\ UNCHANGED << envVars, callerVars, had, granted >>

\* A caller takes up the settled answer.
Resume(c) ==
  /\ In(c, "holds")
  /\ cache' = Kept(c)
  /\ IF call[c].token = None
       THEN Finish(c, Refused) /\ call' = [call EXCEPT ![c] = None]
       ELSE Go(c, call[c].token) /\ UNCHANGED << request, inst, read, changes, answer, had, granted >>
  /\ UNCHANGED << envVars, asking >>

NextPath(c) == CHOOSE p \in request[c].paths : read[c][p] = Absent

\* The answer to the call of this gate: the head of the branch is read file by
\* file, or as the tree of the commit it points at.
Served(c) ==
  LET p == NextPath(c)
      seen == [read[c] EXCEPT ![p] = branch[p]]
  IN CASE Gate(c) = "files" ->
            /\ branch[p] # Absent
            /\ read' = [read EXCEPT ![c] = seen]
            /\ at' = IF \A q \in request[c].paths : seen[q] # Absent
                       THEN [at EXCEPT ![c] = @ + 1] ELSE at
       [] Gate(c) = "ref" -> read' = [read EXCEPT ![c] = branch] /\ Advance(c)
       [] OTHER -> Advance(c) /\ UNCHANGED read

\* GitHub answers, refuses the token or does not have the file, or the call
\* fails; the first failure ends the passage and the cached token stays.
Respond(c) ==
  /\ In(c, "sent")
  /\ call' = [call EXCEPT ![c] = None]
  /\ \/ /\ Accepted(call[c].token)
        /\ Served(c)
        /\ UNCHANGED << request, inst, changes, answer, had, granted >>
     \/ /\ \/ outside = "ill"
           \/ ~Accepted(call[c].token)
           \/ Gate(c) = "files" /\ branch[NextPath(c)] = Absent
        /\ Finish(c, Refused)
  /\ UNCHANGED << envVars, cache, asking >>

\* Mutated form of Context: a request joins the execution under way for its
\* run, as if both had the same service and its map.
ContextJoined(c) ==
  LET Ahead == {d \in Caller : request[d].kind = "agent" /\ at[d] > at[c]}
  IN IF Ahead = {} THEN read[c] ELSE read[CHOOSE d \in Ahead : TRUE]

\* The files of its own execution: the services, and their maps of executions
\* under way, are built for every request (index.ts).
Context(c) == read[c]

\* A safe path; a file of the context is modified, any other created.
ReferenceOK(c, x) ==
  x.path \notin Unsafe /\ (x.operation = "modify" <=> Context(c)[x.path] # Absent)

\* The provider fails, or its answer has not the shape or the order asked for.
ProviderFails(c) == outside = "ill" /\ Finish(c, Refused)

\* The provider's plan is kept when all its items are in order.  What remains
\* of it are the names of its items.
Plan(c) ==
  /\ Gate(c) = "plan"
  /\ \/ /\ \E item \in Item : ReferenceOK(c, item)
        /\ Advance(c)
        /\ UNCHANGED << request, inst, read, changes, answer, had, granted >>
     \/ ProviderFails(c)
  /\ UNCHANGED << issuerVars, envVars >>

\* A modification carries the hash of the content that was read.
Hashed(c, x) ==
  [path |-> x.path, operation |-> x.operation,
   hash |-> IF x.operation = "modify" THEN Context(c)[x.path] ELSE Absent]

\* The provider's changes: one that is out of order, or names no item of the
\* plan, ends the passage.
Propose(c) ==
  /\ Gate(c) = "changes"
  /\ \/ /\ \E raw \in SUBSET Item :
             /\ raw # {} /\ Cardinality(raw) <= MaxChanges
             /\ \A x \in raw : ReferenceOK(c, x)
             /\ changes' = [changes EXCEPT ![c] = {Hashed(c, x) : x \in raw}]
        /\ Advance(c)
        /\ UNCHANGED << request, inst, read, answer, had, granted >>
     \/ ProviderFails(c)
  /\ UNCHANGED << issuerVars, envVars >>

\* The proposal gets its review, or the one it has.
Review(c) ==
  /\ Gate(c) = "review"
  /\ Finish(c, [kind |-> "review", changes |-> changes[c]])
  /\ UNCHANGED << issuerVars, envVars >>

Suggestible(c) == {p \in Path \ Uneditable : read[c][p] # Absent}

\* What the model names of the listing, or keywords when it names none of it.
Suggestions(c) == {P \in SUBSET Suggestible(c) : Cardinality(P) <= MaxPaths}

Suggest(c) ==
  /\ Gate(c) = "suggestion"
  /\ \E P \in Suggestions(c) :
       Finish(c, [kind |-> "suggestion", paths |-> P])
  /\ UNCHANGED << issuerVars, envVars >>

\* The database fails: the request is answered with an error.
Throw(c) ==
  /\ Gate(c) \in Links \cup {"entry", "review", "suggestion"}
  /\ outside = "ill"
  /\ Finish(c, Refused)
  /\ UNCHANGED << issuerVars, envVars >>

-----------------------------------------------------------------------------
(***************************************************************************)
(* The others                                                              *)
(***************************************************************************)
Upset == upsets < MaxUpsets /\ upsets' = upsets + 1

Note(set) ==
  granted' = [c \in Caller |-> IF at[c] = 0 THEN granted[c] ELSE granted[c] \cup set]

Push(p, v) ==
  /\ Upset /\ branch[p] # v
  /\ branch' = [branch EXCEPT ![p] = v]
  /\ had' = [c \in Caller |-> IF at[c] = 0 THEN had[c] ELSE had[c] \cup {<< p, v >>}]
  /\ UNCHANGED << issuerVars, callerVars, entry, missing, outside, granted >>

EditEntry(e) ==
  /\ Upset /\ entry # e
  /\ entry' = e
  /\ Note({e} \ {None})
  /\ UNCHANGED << issuerVars, callerVars, missing, branch, outside, had >>

\* A purge takes the run, its item or the analysis away; a repeated analysis
\* fails.
Lose(l) ==
  /\ Upset /\ missing = None
  /\ missing' = l
  /\ UNCHANGED << issuerVars, callerVars, entry, branch, outside, had, granted >>

\* The selection is confirmed, an analysis succeeds after all.  What a purge took
\* does not come back in the code; here it may.
Regain ==
  /\ missing # None
  /\ missing' = None
  /\ Note({missing})
  /\ UNCHANGED << issuerVars, callerVars, entry, branch, outside, upsets, had >>

RevokeTokens(i) ==
  /\ Upset /\ Revoke(i)
  /\ UNCHANGED << callerVars, entry, missing, branch, outside, had, granted >>

Worsen ==
  /\ Upset /\ outside = "well"
  /\ outside' = "ill"
  /\ UNCHANGED << issuerVars, callerVars, entry, missing, branch, had, granted >>

Mend ==
  /\ outside = "ill"
  /\ outside' = "well"
  /\ UNCHANGED << issuerVars, callerVars, entry, missing, branch, upsets, had, granted >>

Clock == Tick /\ UNCHANGED << envVars, callerVars, had, granted >>

Proceed(c) ==
  \/ Check(c) \/ Authorize(c) \/ Ask(c) \/ Issue(c) \/ Resume(c) \/ Respond(c)
  \/ Plan(c) \/ Propose(c) \/ Review(c) \/ Suggest(c) \/ Throw(c)

Others ==
  \/ \E p \in Path, v \in Content : Push(p, v)
  \/ \E e \in Installation \cup {None} : EditEntry(e)
  \/ \E l \in Links \ {"selection"} : Lose(l)
  \/ Regain
  \/ \E i \in Installation : RevokeTokens(i)
  \/ Worsen
  \/ Mend

Next == (\E c \in Caller : Begin(c) \/ Proceed(c)) \/ Others \/ Clock

\* A request's calls are answered or time out; the clock does not stop.
Fairness == (\A c \in Caller : WF_vars(Proceed(c))) /\ SF_vars(Clock)

Spec == Init /\ [][Next]_vars /\ Fairness

-----------------------------------------------------------------------------
\* A proposal is about the files its own request named, though requests for
\* one run overlap: it modifies those with the content the branch had while
\* the request was under way, and creates none of them (changes.ts:80-96).
ProposalIsAboutItsRequest ==
  \A c \in Caller : at[c] = 0 /\ answer[c].kind = "review" =>
    /\ answer[c].changes # {}
    /\ \A x \in answer[c].changes :
         /\ x.path \notin Unsafe
         /\ x.operation = "modify" <=> x.path \in request[c].paths
         /\ x.operation = "modify" => << x.path, x.hash >> \in had[c]

\* GitHub is only asked for a repository in the name of an installation the
\* registry granted since the request began, for a run that was ready, with an
\* approved item and a confirmed selection at some time since then
\* (github-access/service.ts:301-305, access.ts:129-132).
AccessWasGranted ==
  \A c \in Caller : In(c, "sent") =>
    {call[c].inst, "run", "item", "selection"} \subseteq granted[c]

\* Every request is answered, also when it shares another's request for a
\* token, which then fails or times out.
Answered == \A c \in Caller : at[c] # 0 ~> at[c] = 0

Healthy == outside = "well" /\ missing = None /\ entry # None

Fails(c) ==
  /\ at[c] # 0 /\ at'[c] = 0 /\ answer'[c] = Refused
  /\ \A p \in request[c].paths : branch[p] # Absent

\* Once all is well, requests for files the branch has stop being refused: a
\* revoked token that stays cached, or a failure that was shared, does not
\* last (token-issuer.ts:151-165).
Recovers == <>[]Healthy => <>[][\A c \in Caller : ~Fails(c)]_vars
=============================================================================
