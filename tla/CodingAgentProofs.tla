------------------------- MODULE CodingAgentProofs -------------------------
(***************************************************************************)
(* What GitHub is asked for, with which token, and what is proposed,       *)
(* proved of CodingAgent for any number of requests, installations, files  *)
(* and interferences, any lifetime of a token, and any margin that covers  *)
(* the timeout.                                                            *)
(***************************************************************************)
EXTENDS CodingAgent, TLAPS

USE IssuerAssumption, NoneAssumption, AgentAssumption

-----------------------------------------------------------------------------
(***************************************************************************)
(* The inductive invariant                                                 *)
(***************************************************************************)
\* A token that was sent had more life than the margin when it was; one that
\* is about to be sent has it still.
InTime(d) ==
  /\ d.state = "sent" => d.token \in Token /\ d.token.left + d.age > Margin
  /\ d.state = "holds" => d.token = None \/ (d.token \in Token /\ d.token.left > Margin)

Tokens ==
  /\ cache \in [Installation -> {None} \cup Token]
  /\ call \in [Caller -> {None} \cup Call]
  /\ \A c \in Caller : call[c] # None => InTime(call[c])

PassageTypes ==
  /\ entry \in Installation \cup {None}
  /\ missing \in Links \cup {None}
  /\ request \in [Caller -> Requests]
  /\ at \in [Caller -> 0..14]
  /\ \A c \in Caller : request[c].kind = "suggest" => at[c] <= 9
  /\ inst \in [Caller -> Installation \cup {None}]
  /\ granted \in [Caller -> SUBSET (Installation \cup Links)]

GateOf(r, n) == (IF r.kind = "agent" THEN AgentPassage ELSE SuggestPassage)[n]

\* What a caller at work has passed was granted since it began, and so is
\* what holds now.
Passed(c) ==
  /\ Links \ {missing} \subseteq granted[c]
  /\ entry # None => entry \in granted[c]
  /\ \A n \in 1..14 : n < at[c] =>
       /\ GateOf(request[c], n) \in Links => GateOf(request[c], n) \in granted[c]
       /\ GateOf(request[c], n) = "entry" => inst[c] \in Installation \cap granted[c]

Passages == PassageTypes /\ \A c \in Caller : at[c] # 0 => Passed(c)

\* A call is one of the gate the caller is at, in the name it was authorized for.
CallAtGate(c) ==
  call[c] # None =>
    /\ Gate(c) \in Calls
    /\ call[c].inst = inst[c]
    /\ call[c].state = "sent" => Gate(c) # "token"

Linked == \A c \in Caller : CallAtGate(c)

IInv == Tokens /\ Passages /\ Linked

-----------------------------------------------------------------------------
(***************************************************************************)
(* The two passages                                                        *)
(***************************************************************************)
LEMMA AgentGates ==
  /\ AgentPassage[1] = "selection" /\ AgentPassage[2] = "entry"
  /\ AgentPassage[3] = "token" /\ AgentPassage[4] = "analysis"
  /\ AgentPassage[5] = "run" /\ AgentPassage[6] = "item"
  /\ AgentPassage[7] = "selection" /\ AgentPassage[8] = "entry"
  /\ AgentPassage[9] = "token" /\ AgentPassage[10] = "metadata"
  /\ AgentPassage[11] = "files" /\ AgentPassage[12] = "plan"
  /\ AgentPassage[13] = "changes" /\ AgentPassage[14] = "review"
  BY DEF AgentPassage

LEMMA SuggestGates ==
  /\ SuggestPassage[1] = "run" /\ SuggestPassage[2] = "item"
  /\ SuggestPassage[3] = "selection" /\ SuggestPassage[4] = "entry"
  /\ SuggestPassage[5] = "token" /\ SuggestPassage[6] = "ref"
  /\ SuggestPassage[7] = "commit" /\ SuggestPassage[8] = "tree"
  /\ SuggestPassage[9] = "suggestion"
  BY DEF SuggestPassage

LEMMA Kinds == \A r \in Requests : r.kind \in {"agent", "suggest"}
  BY DEF Requests

LEMMA GateIs ==
  ASSUME PassageTypes, NEW c \in Caller
  PROVE  /\ at[c] = 0 => Gate(c) = "answered"
         /\ at[c] # 0 => Gate(c) = GateOf(request[c], at[c])
  BY DEF Gate, GateOf

\* Who calls has been authorized; who calls with a token in hand has passed
\* the selection, the run and the item as well.
LEMMA CallGates ==
  ASSUME Passages, NEW c \in Caller, Gate(c) \in Calls
  PROVE  /\ at[c] # 0
         /\ inst[c] \in Installation \cap granted[c]
         /\ Gate(c) # "token" => {"run", "item", "selection"} \subseteq granted[c]
<1>1. at[c] # 0 BY DEF Gate, Calls
<1>2. Passed(c) /\ at[c] \in 1..14 BY <1>1 DEF Passages, PassageTypes
<1>3. request[c] \in Requests BY DEF Passages, PassageTypes
<1>4. CASE request[c].kind = "agent"
  <2>1. at[c] \in {3, 9, 10, 11}
    BY <1>1, <1>2, <1>4, AgentGates DEF Gate, Calls
  <2>2. \A n \in 1..14 : GateOf(request[c], n) = AgentPassage[n] BY <1>4 DEF GateOf
  <2>3. GateOf(request[c], 2) = "entry" BY <2>2, AgentGates
  <2>4. inst[c] \in Installation \cap granted[c] BY <1>2, <2>1, <2>3 DEF Passed
  <2>5. ASSUME Gate(c) # "token" PROVE {"run", "item", "selection"} \subseteq granted[c]
    <3>1. at[c] \in {10, 11} BY <1>1, <1>4, <2>1, <2>5, AgentGates DEF Gate
    <3>2. GateOf(request[c], 5) = "run" /\ GateOf(request[c], 6) = "item"
          /\ GateOf(request[c], 7) = "selection"
      BY <2>2, AgentGates
    <3> QED BY <1>2, <3>1, <3>2 DEF Passed, Links
  <2> QED BY <1>1, <2>4, <2>5
<1>5. CASE request[c].kind = "suggest"
  <2>1. at[c] \in {5, 6, 7, 8}
    BY <1>1, <1>2, <1>5, SuggestGates DEF Gate, Calls, Passages, PassageTypes
  <2>2. \A n \in 1..9 : GateOf(request[c], n) = SuggestPassage[n] BY <1>5 DEF GateOf
  <2>3. GateOf(request[c], 4) = "entry" /\ GateOf(request[c], 1) = "run"
        /\ GateOf(request[c], 2) = "item" /\ GateOf(request[c], 3) = "selection"
    BY <2>2, SuggestGates
  <2> QED BY <1>1, <1>2, <2>1, <2>3 DEF Passed, Links
<1> QED BY <1>3, <1>4, <1>5, Kinds

-----------------------------------------------------------------------------
(***************************************************************************)
(* What a step does to the passages                                        *)
(***************************************************************************)
LEMMA FinishStep ==
  ASSUME IInv, NEW c \in Caller, NEW a, Finish(c, a), UNCHANGED << entry, missing >>,
         UNCHANGED cache \/ cache' = Kept(c), Tokens',
         \A d \in Caller \ {c} : call'[d] = call[d], call'[c] = None
  PROVE  IInv'
<1>1. PassageTypes' BY DEF IInv, Passages, PassageTypes, Finish
<1>2. \A d \in Caller \ {c} :
        /\ at'[d] = at[d] /\ inst'[d] = inst[d] /\ granted'[d] = granted[d]
        /\ request'[d] = request[d]
  BY DEF IInv, Passages, PassageTypes, Finish
<1>3. at'[c] = 0 BY DEF IInv, Passages, PassageTypes, Finish
<1>4. Passages' BY <1>1, <1>2, <1>3 DEF IInv, Passages, Passed
<1>5. Linked' BY <1>2 DEF IInv, Linked, CallAtGate, Gate
<1> QED BY <1>4, <1>5 DEF IInv

LEMMA AdvanceStep ==
  ASSUME IInv, NEW c \in Caller, at[c] # 0, Gate(c) \notin {"review", "suggestion"},
         Advance(c), UNCHANGED << request, granted, entry, missing >>, Tokens',
         \A d \in Caller \ {c} : call'[d] = call[d], call'[c] = None,
         Gate(c) \in Links => Gate(c) # missing,
         IF Gate(c) = "entry"
           THEN entry # None /\ inst' = [inst EXCEPT ![c] = entry] ELSE UNCHANGED inst
  PROVE  IInv'
<1>1. at[c] \in 1..14 /\ request[c] \in Requests /\ at'[c] = at[c] + 1
  BY DEF IInv, Passages, PassageTypes, Advance
<1>2. at[c] # 14 /\ (request[c].kind = "suggest" => at[c] # 9)
  BY <1>1, Kinds, AgentGates, SuggestGates DEF Gate, IInv, Passages, PassageTypes
<1>3. PassageTypes'
  BY <1>1, <1>2 DEF IInv, Passages, PassageTypes, Advance
<1>4. Passed(c)'
  <2>1. Passed(c) BY DEF IInv, Passages
  <2>2. Links \ {missing} \subseteq granted[c] /\ (entry # None => entry \in granted[c])
    BY <2>1 DEF Passed
  <2>3. inst'[c] = (IF Gate(c) = "entry" THEN entry ELSE inst[c])
    BY DEF IInv, Passages, PassageTypes
  <2>4. ASSUME NEW n \in 1..14, n < at'[c]
        PROVE  /\ GateOf(request[c], n) \in Links => GateOf(request[c], n) \in granted[c]
               /\ GateOf(request[c], n) = "entry" => inst'[c] \in Installation \cap granted[c]
    <3>1. CASE n = at[c]
      <4>1. GateOf(request[c], n) = Gate(c) BY <1>1, <3>1 DEF Gate, GateOf
      <4>2. entry \in Installation \cup {None} BY DEF IInv, Passages, PassageTypes
      <4> QED BY <2>2, <2>3, <4>1, <4>2
    <3>2. CASE n < at[c]
      <4>1. entry \in Installation \cup {None} BY DEF IInv, Passages, PassageTypes
      <4> QED BY <2>1, <2>2, <2>3, <3>2, <4>1 DEF Passed
    <3> QED BY <1>1, <2>4, <3>1, <3>2
  <2> QED BY <2>2, <2>4 DEF Passed
<1>5. \A d \in Caller \ {c} : at'[d] = at[d] /\ inst'[d] = inst[d]
  BY DEF IInv, Passages, PassageTypes, Advance
<1>6. Passages'
  <2> SUFFICES ASSUME NEW d \in Caller, at'[d] # 0 PROVE Passed(d)'
    BY <1>3 DEF Passages
  <2>1. CASE d = c BY <1>4, <2>1
  <2>2. CASE d # c BY <1>5, <2>2 DEF IInv, Passages, Passed
  <2> QED BY <2>1, <2>2
<1>7. Linked' BY <1>5 DEF IInv, Linked, CallAtGate, Gate
<1> QED BY <1>6, <1>7 DEF IInv

\* A step that leaves the passages where they are; what is granted grows.
LEMMA WorldStep ==
  ASSUME IInv, UNCHANGED << request, at, inst >>, Tokens',
         entry' \in Installation \cup {None}, missing' \in Links \cup {None},
         granted' \in [Caller -> SUBSET (Installation \cup Links)],
         \A c \in Caller : granted[c] \subseteq granted'[c],
         \A c \in Caller : at[c] # 0 =>
           Links \ {missing'} \subseteq granted'[c]
             /\ (entry' # None => entry' \in granted'[c]),
         \A c \in Caller : call'[c] # None =>
           /\ Gate(c) \in Calls /\ call'[c].inst = inst[c]
           /\ call'[c].state = "sent" => Gate(c) # "token"
  PROVE  IInv'
<1>1. PassageTypes' BY DEF IInv, Passages, PassageTypes
<1>2. Passages'
  <2> SUFFICES ASSUME NEW c \in Caller, at[c] # 0 PROVE Passed(c)'
    BY <1>1 DEF Passages
  <2> QED BY DEF IInv, Passages, Passed
<1>3. Linked' BY DEF Linked, CallAtGate, Gate
<1> QED BY <1>2, <1>3 DEF IInv

-----------------------------------------------------------------------------
(***************************************************************************)
(* Every step keeps it                                                     *)
(***************************************************************************)
LEMMA Initially == Init => IInv
  BY DEF Init, IssuerInit, IInv, Tokens, Passages, PassageTypes, Linked, CallAtGate,
         Requests, Links

LEMMA SentInTime ==
  ASSUME NEW i \in Installation, NEW t \in Token, t.left > Margin
  PROVE  Sent(i, t) \in Call /\ InTime(Sent(i, t)) /\ Sent(i, t).inst = i
  BY DEF Sent, Call, InTime, Token

\* A caller at a gate that calls nobody has no call.
LEMMA Idle ==
  ASSUME IInv, NEW c \in Caller, Gate(c) \notin Calls
  PROVE  call[c] = None
  BY DEF IInv, Linked, CallAtGate

\* The steps that call nobody.
LEMMA LocalStep ==
  ASSUME IInv, NEW c \in Caller,
         Check(c) \/ Authorize(c) \/ Plan(c) \/ Propose(c) \/ Review(c) \/ Suggest(c) \/ Throw(c)
  PROVE  IInv'
<1>1. Gate(c) \in Links \cup {"entry", "plan", "changes", "review", "suggestion"}
  BY DEF Check, Authorize, Plan, Propose, Review, Suggest, Throw
<1>2. call[c] = None /\ at[c] # 0 BY <1>1, Idle DEF Links, Calls, Gate
<1>3. UNCHANGED << issuerVars, entry, missing >>
  BY DEF Check, Authorize, Plan, Propose, Review, Suggest, Throw, envVars
<1>4. Tokens' BY <1>3 DEF IInv, Tokens, issuerVars
<1>5. ASSUME NEW a, Finish(c, a) PROVE IInv'
  BY <1>2, <1>3, <1>4, <1>5, FinishStep DEF issuerVars
<1>6. ASSUME Advance(c), UNCHANGED << request, granted >>,
             Gate(c) \notin {"review", "suggestion"},
             Gate(c) \in Links => Gate(c) # missing,
             IF Gate(c) = "entry"
               THEN entry # None /\ inst' = [inst EXCEPT ![c] = entry] ELSE UNCHANGED inst
      PROVE  IInv'
  <2>1. (\A d \in Caller \ {c} : call'[d] = call[d]) /\ call'[c] = None
        /\ UNCHANGED << request, granted, entry, missing >>
    BY <1>2, <1>3, <1>6 DEF issuerVars
  <2> QED BY <1>2, <1>4, <1>6, <2>1, AdvanceStep
<1>7. CASE Check(c) BY <1>5, <1>6, <1>7 DEF Check, Links
<1>8. CASE Authorize(c) BY <1>5, <1>6, <1>8 DEF Authorize, Links
<1>9. CASE Plan(c) BY <1>5, <1>6, <1>9 DEF Plan, ProviderFails, Links
<1>10. CASE Propose(c) BY <1>5, <1>6, <1>10 DEF Propose, ProviderFails, Links
<1>11. CASE Review(c) \/ Suggest(c) \/ Throw(c)
  BY <1>5, <1>11 DEF Review, Suggest, Throw
<1> QED BY <1>7, <1>8, <1>9, <1>10, <1>11

\* With a usable token the call is sent, or the gate was to have one.
LEMMA GoStep ==
  ASSUME IInv, NEW c \in Caller, Gate(c) \in Calls, NEW t \in Token, t.left > Margin,
         Go(c, t), cache' \in [Installation -> {None} \cup Token],
         UNCHANGED << envVars, request, inst, granted >>
  PROVE  IInv'
<1>1. inst[c] \in Installation /\ at[c] # 0 BY CallGates DEF IInv
<1>2. CASE Gate(c) = "token"
  <2>1. call' = [call EXCEPT ![c] = None] /\ Advance(c) BY <1>2 DEF Go
  <2>2. Tokens' BY <2>1 DEF IInv, Tokens
  <2>3. (\A d \in Caller \ {c} : call'[d] = call[d]) /\ call'[c] = None
    BY <2>1 DEF IInv, Tokens
  <2> QED BY <1>1, <1>2, <2>1, <2>2, <2>3, AdvanceStep DEF Links, envVars
<1>3. CASE Gate(c) # "token"
  <2> DEFINE s == Sent(inst[c], t)
  <2>1. call' = [call EXCEPT ![c] = s] /\ UNCHANGED at BY <1>3 DEF Go
  <2>2. s \in Call /\ InTime(s) /\ s.inst = inst[c] BY <1>1, SentInTime
  <2> HIDE DEF s
  <2>3. Tokens' BY <2>1, <2>2 DEF IInv, Tokens
  <2>4. \A d \in Caller : call'[d] # None =>
          /\ Gate(d) \in Calls /\ call'[d].inst = inst[d]
          /\ call'[d].state = "sent" => Gate(d) # "token"
    BY <1>3, <2>1, <2>2 DEF IInv, Tokens, Linked, CallAtGate
  <2>5. UNCHANGED << request, at, inst, entry, missing, granted >>
    BY <2>1 DEF envVars
  <2> QED BY <2>3, <2>4, <2>5, WorldStep DEF IInv, Passages, PassageTypes, Passed
<1> QED BY <1>2, <1>3

LEMMA AskStep == ASSUME IInv, NEW c \in Caller, Ask(c) PROVE IInv'
<1>1. Gate(c) \in Calls /\ UNCHANGED << envVars, request, inst, granted >> BY DEF Ask
<1>2. inst[c] \in Installation BY <1>1, CallGates DEF IInv
<1>3. CASE Usable(inst[c]) /\ Go(c, cache[inst[c]]) /\ UNCHANGED cache
  <2>1. cache[inst[c]] \in Token /\ cache[inst[c]].left > Margin
    BY <1>2, <1>3 DEF Usable, IInv, Tokens
  <2> QED BY <1>1, <1>3, <2>1, GoStep DEF IInv, Tokens
<1>4. CASE Await(c, inst[c]) /\ UNCHANGED at
  <2> DEFINE s == Waits(inst[c], asking[inst[c]] = None)
  <2>1. call' = [call EXCEPT ![c] = s] /\ UNCHANGED << cache, at >> BY <1>4 DEF Await
  <2>2. s \in Call /\ InTime(s) /\ s.inst = inst[c] /\ s.state = "waits"
    BY <1>2 DEF Waits, Call, InTime
  <2> HIDE DEF s
  <2>3. Tokens' BY <2>1, <2>2 DEF IInv, Tokens
  <2>4. \A d \in Caller : call'[d] # None =>
          /\ Gate(d) \in Calls /\ call'[d].inst = inst[d]
          /\ call'[d].state = "sent" => Gate(d) # "token"
    BY <1>1, <2>1, <2>2 DEF IInv, Tokens, Linked, CallAtGate
  <2>5. UNCHANGED << request, at, inst, entry, missing, granted >>
    BY <1>1, <2>1 DEF envVars
  <2> QED BY <2>3, <2>4, <2>5, WorldStep DEF IInv, Passages, PassageTypes, Passed
<1> QED BY <1>3, <1>4 DEF Ask

\* A step of the issuer that keeps what every call is about.
LEMMA CallsStep ==
  ASSUME IInv, Tokens', UNCHANGED << entry, missing, request, at, inst, granted >>,
         \A d \in Caller : call'[d] # None =>
           /\ call[d] # None /\ call'[d].inst = call[d].inst
           /\ call'[d].state = "sent" => call[d].state = "sent"
  PROVE  IInv'
<1>1. \A d \in Caller : call'[d] # None =>
        /\ Gate(d) \in Calls /\ call'[d].inst = inst[d]
        /\ call'[d].state = "sent" => Gate(d) # "token"
  BY DEF IInv, Linked, CallAtGate
<1> QED BY <1>1, WorldStep DEF IInv, Passages, PassageTypes, Passed

LEMMA IssueStep == ASSUME IInv, NEW c \in Caller, Issue(c) PROVE IInv'
<1>1. PICK t : t \in {Fresh, None} /\ Reply(c, t) BY DEF Issue
<1>2. Fresh \in Token /\ Fresh.left > Margin BY DEF Fresh, Token
<1>3. UNCHANGED << entry, missing, request, at, inst, granted >>
  BY DEF Issue, envVars, callerVars
<1>4. ASSUME NEW d \in Caller, call'[d] # call[d]
      PROVE  /\ call[d] # None
             /\ call'[d] \in Call /\ InTime(call'[d])
             /\ call'[d].inst = call[d].inst /\ call'[d].state = "holds"
  <2>1. /\ call[d] # None /\ call[d] \in Call
        /\ call'[d] = [call[d] EXCEPT !.state = "holds", !.token = t, !.age = 0]
    BY <1>1, <1>4 DEF Reply, In, IInv, Tokens
  <2>2. t = None \/ (t \in Token /\ t.left > Margin) BY <1>1, <1>2
  <2>3. t \in {None} \cup Token /\ 0 \in 0..Timeout BY <2>2
  <2>4. call'[d] \in Call /\ call'[d].inst = call[d].inst BY <2>1, <2>3 DEF Call
  <2>5. call'[d].state = "holds" /\ call'[d].token = t BY <2>1 DEF Call
  <2> QED BY <2>1, <2>2, <2>4, <2>5 DEF InTime
<1>5. Tokens'
  BY <1>1, <1>4 DEF Reply, IInv, Tokens
<1> QED BY <1>3, <1>4, <1>5, CallsStep

LEMMA ResumeStep == ASSUME IInv, NEW c \in Caller, Resume(c) PROVE IInv'
<1>1. /\ call[c] \in Call /\ InTime(call[c]) /\ call[c].state = "holds"
      /\ Gate(c) \in Calls /\ call[c] # None
  BY DEF Resume, In, IInv, Tokens, Linked, CallAtGate
<1>2. cache' \in [Installation -> {None} \cup Token]
  BY <1>1 DEF Resume, Kept, IInv, Tokens, Call
<1>3. CASE call[c].token = None
  <2>1. call' = [call EXCEPT ![c] = None] /\ Finish(c, Refused) BY <1>3 DEF Resume
  <2>2. Tokens' BY <1>2, <2>1 DEF IInv, Tokens
  <2>3. cache' = Kept(c) /\ UNCHANGED << entry, missing >> BY DEF Resume, envVars
  <2>4. (\A d \in Caller \ {c} : call'[d] = call[d]) /\ call'[c] = None
    BY <2>1 DEF IInv, Tokens
  <2> QED BY <2>1, <2>2, <2>3, <2>4, FinishStep
<1>4. CASE call[c].token # None
  <2>1. call[c].token \in Token /\ call[c].token.left > Margin BY <1>1, <1>4 DEF InTime
  <2>2. Go(c, call[c].token) /\ UNCHANGED << envVars, request, inst, granted >>
    BY <1>4 DEF Resume
  <2> QED BY <1>1, <1>2, <2>1, <2>2, GoStep
<1> QED BY <1>3, <1>4

LEMMA RespondStep == ASSUME IInv, NEW c \in Caller, Respond(c) PROVE IInv'
<1>1. /\ call' = [call EXCEPT ![c] = None] /\ UNCHANGED << cache, entry, missing >>
      /\ Gate(c) \in Calls /\ Gate(c) # "token"
  BY DEF Respond, In, envVars, IInv, Linked, CallAtGate
<1>2. Tokens' BY <1>1 DEF IInv, Tokens
<1>3. (\A d \in Caller \ {c} : call'[d] = call[d]) /\ call'[c] = None
  BY <1>1 DEF IInv, Tokens
<1>4. CASE Finish(c, Refused) BY <1>1, <1>2, <1>3, <1>4, FinishStep
<1>5. CASE Served(c) /\ UNCHANGED << request, inst, granted >>
  <2>1. at[c] # 0 BY <1>1, CallGates DEF IInv
  <2>2. at' = [at EXCEPT ![c] = @ + 1] \/ at' = at BY <1>5 DEF Served, Advance
  <2>3. CASE at' = [at EXCEPT ![c] = @ + 1]
    BY <1>1, <1>2, <1>3, <1>5, <2>1, <2>3, AdvanceStep DEF Advance, Links, Calls
  <2>4. CASE at' = at
    BY <1>1, <1>2, <1>3, <1>5, <2>4, CallsStep
  <2> QED BY <2>2, <2>3, <2>4
<1> QED BY <1>4, <1>5 DEF Respond

LEMMA ClockStep == ASSUME IInv, Clock PROVE IInv'
<1>1. MayTick /\ UNCHANGED << entry, missing, request, at, inst, granted >>
  BY DEF Clock, Tick, envVars, callerVars
<1>2. ASSUME NEW t \in {None} \cup Token
      PROVE  /\ OneLess(t) \in {None} \cup Token
             /\ t \in Token /\ t # None => OneLess(t) \in Token
             /\ t \in Token /\ t.left > 0 /\ t # None => OneLess(t).left = t.left - 1
             /\ t = None => OneLess(t) = t
  BY DEF OneLess, Token
<1>3. cache' \in [Installation -> {None} \cup Token]
  BY <1>2 DEF Clock, Tick, IInv, Tokens
<1>4. ASSUME NEW d \in Caller, call'[d] # None
      PROVE  /\ call[d] # None /\ call'[d].inst = call[d].inst
             /\ call'[d].state = call[d].state
             /\ call'[d] \in Call /\ InTime(call'[d])
  <2>1. /\ call[d] # None
        /\ call'[d] = [call[d] EXCEPT !.token = OneLess(@),
                         !.age = IF call[d].state = "sent" \/ call[d].own THEN @ + 1 ELSE @]
    BY <1>4 DEF Clock, Tick, Pass, IInv, Tokens
  <2>2. call[d] \in Call /\ InTime(call[d]) BY <2>1 DEF IInv, Tokens
  <2>3. call[d].state # "holds" /\ call[d].age < Timeout
    BY <1>1, <2>1, <2>2 DEF MayTick, In, Call
  <2>4. /\ call'[d].inst = call[d].inst /\ call'[d].state = call[d].state
        /\ call'[d].token = OneLess(call[d].token)
        /\ call'[d] \in Call
    <3>1. /\ OneLess(call[d].token) \in {None} \cup Token
          /\ call[d].age \in 0..Timeout /\ call[d].age + 1 \in 0..Timeout
      BY <1>2, <2>2, <2>3 DEF Call
    <3> QED BY <2>1, <2>2, <3>1 DEF Call
  <2>5. ASSUME call[d].state = "sent"
        PROVE  call'[d].token \in Token /\ call'[d].token.left + call'[d].age > Margin
    <3>1. /\ call[d].token \in Token /\ call[d].token.left + call[d].age > Margin
          /\ call[d].age \in 0..Timeout /\ call[d].token.left \in Nat
      BY <2>2, <2>5 DEF InTime, Call, Token
    <3>2. call'[d].age = call[d].age + 1 BY <2>1, <2>2, <2>5 DEF Call
    <3>3. call[d].token.left > 0 BY <2>3, <3>1
    <3> QED BY <1>2, <2>4, <3>1, <3>2, <3>3
  <2> QED BY <2>1, <2>3, <2>4, <2>5 DEF InTime
<1>5. Tokens' BY <1>3, <1>4 DEF Clock, Tick, IInv, Tokens
<1> QED BY <1>1, <1>4, <1>5, CallsStep

LEMMA RevokeStep == ASSUME IInv, NEW i \in Installation, RevokeTokens(i) PROVE IInv'
<1>1. Revoke(i) /\ UNCHANGED << entry, missing, request, at, inst, granted >>
  BY DEF RevokeTokens, callerVars
<1>2. ASSUME NEW t \in {None} \cup Token
      PROVE  /\ Dead(t) \in {None} \cup Token
             /\ t \in Token => Dead(t) \in Token /\ Dead(t).left = t.left
             /\ t = None => Dead(t) = None
  BY DEF Dead, Token
<1>3. cache' \in [Installation -> {None} \cup Token]
  BY <1>1, <1>2 DEF Revoke, IInv, Tokens
<1>4. ASSUME NEW d \in Caller, call'[d] # None
      PROVE  /\ call[d] # None /\ call'[d].inst = call[d].inst
             /\ call'[d].state = call[d].state
             /\ call'[d] \in Call /\ InTime(call'[d])
  <2>1. CASE call'[d] = call[d] BY <1>4, <2>1 DEF IInv, Tokens
  <2>2. CASE call[d] # None /\ call'[d] = [call[d] EXCEPT !.token = Dead(@)]
    <3>1. call[d] \in Call /\ InTime(call[d]) BY <2>2 DEF IInv, Tokens
    <3>2. /\ call'[d] \in Call /\ call'[d].inst = call[d].inst
          /\ call'[d].state = call[d].state /\ call'[d].age = call[d].age
          /\ call'[d].token = Dead(call[d].token)
      BY <1>2, <2>2, <3>1 DEF Call
    <3> QED BY <1>2, <2>2, <3>1, <3>2 DEF InTime
  <2> QED BY <1>1, <2>1, <2>2 DEF Revoke, IInv, Tokens
<1>5. Tokens' BY <1>1, <1>3, <1>4 DEF Revoke, IInv, Tokens
<1> QED BY <1>1, <1>4, <1>5, CallsStep

\* The registry, the chain of approvals, the branch and the services.
LEMMA OutsideStep ==
  ASSUME IInv,
         \/ \E p \in Path, v \in Content : Push(p, v)
         \/ \E e \in Installation \cup {None} : EditEntry(e)
         \/ \E l \in Links \ {"selection"} : Lose(l)
         \/ Regain \/ Worsen \/ Mend
  PROVE  IInv'
<1>1. UNCHANGED << cache, call, request, at, inst >>
  BY DEF Push, EditEntry, Lose, Regain, Worsen, Mend, issuerVars, callerVars
<1>2. Tokens' BY <1>1 DEF IInv, Tokens
<1>3. \A c \in Caller : call'[c] # None =>
        /\ Gate(c) \in Calls /\ call'[c].inst = inst[c]
        /\ call'[c].state = "sent" => Gate(c) # "token"
  BY <1>1 DEF IInv, Linked, CallAtGate
<1>4. ASSUME UNCHANGED << entry, granted >>, missing' \in Links \cup {None},
             missing' = missing \/ missing = None
      PROVE  IInv'
  <2>1. Links \ {missing'} \subseteq Links \ {missing} BY <1>4
  <2>2. \A c \in Caller : at[c] # 0 =>
          Links \ {missing'} \subseteq granted'[c]
            /\ (entry' # None => entry' \in granted'[c])
    BY <1>4, <2>1 DEF IInv, Passages, Passed
  <2>3. entry' \in Installation \cup {None} /\ missing' \in Links \cup {None}
        /\ granted' \in [Caller -> SUBSET (Installation \cup Links)]
        /\ \A c \in Caller : granted[c] \subseteq granted'[c]
    BY <1>4 DEF IInv, Passages, PassageTypes
  <2> QED BY <1>1, <1>2, <1>3, <2>2, <2>3, WorldStep
<1>5. CASE Worsen \/ Mend \/ \E p \in Path, v \in Content : Push(p, v)
  BY <1>4, <1>5 DEF Worsen, Mend, Push, IInv, Passages, PassageTypes
<1>6. ASSUME NEW l \in Links, Lose(l) PROVE IInv'
  BY <1>4, <1>6 DEF Lose
<1>7. ASSUME NEW G \in SUBSET (Installation \cup Links), Note(G),
             entry' \in Installation \cup {None},
             entry' # entry => entry' = None \/ entry' \in G,
             missing' \in Links \cup {None}, missing' = missing \/ missing \in G
      PROVE  IInv'
  <2>1. \A c \in Caller : granted'[c] = IF at[c] = 0 THEN granted[c] ELSE granted[c] \cup G
    BY <1>7 DEF Note
  <2>2. granted' \in [Caller -> SUBSET (Installation \cup Links)]
    BY <1>7 DEF Note, IInv, Passages, PassageTypes
  <2>3. ASSUME NEW c \in Caller, at[c] # 0
        PROVE  Links \ {missing'} \subseteq granted'[c]
                 /\ (entry' # None => entry' \in granted'[c])
    <3>1. /\ Links \ {missing} \subseteq granted[c]
          /\ entry # None => entry \in granted[c]
      BY <2>3 DEF IInv, Passages, Passed
    <3> QED BY <1>7, <2>1, <2>3, <3>1
  <2> QED BY <1>1, <1>2, <1>3, <1>7, <2>1, <2>2, <2>3, WorldStep
<1>8. ASSUME NEW e \in Installation \cup {None}, EditEntry(e) PROVE IInv'
  BY <1>7, <1>8 DEF EditEntry, IInv, Passages, PassageTypes
<1>9. CASE Regain
  <2>1. missing \in Links BY <1>9 DEF Regain, IInv, Passages, PassageTypes
  <2>2. Note({missing}) /\ UNCHANGED entry /\ missing' = None BY <1>9 DEF Regain
  <2> QED BY <1>7, <2>1, <2>2 DEF IInv, Passages, PassageTypes
<1> QED BY <1>5, <1>6, <1>8, <1>9

\* A request starts with all that holds.
LEMMA BeginStep == ASSUME IInv, NEW c \in Caller, Begin(c) PROVE IInv'
<1>1. call[c] = None BY Idle DEF Begin, Gate, Calls
<1>2. UNCHANGED << cache, call, inst, entry, missing >> BY DEF Begin, issuerVars, envVars
<1>3. Tokens' BY <1>2 DEF IInv, Tokens
<1>4. at' = [at EXCEPT ![c] = 1] /\ granted' = [granted EXCEPT ![c] = Holding]
  BY DEF Begin
<1>5. PICK r \in Asked : request' = [request EXCEPT ![c] = r] BY DEF Begin
<1>6. Holding \subseteq Installation \cup Links
  BY DEF Holding, IInv, Passages, PassageTypes
<1>7. PassageTypes' BY <1>2, <1>4, <1>5, <1>6 DEF IInv, Passages, PassageTypes
<1>8. Passages'
  <2> SUFFICES ASSUME NEW d \in Caller, at'[d] # 0 PROVE Passed(d)'
    BY <1>7 DEF Passages
  <2>1. CASE d = c
    BY <1>2, <1>4, <2>1 DEF Passed, Holding, IInv, Passages, PassageTypes
  <2>2. CASE d # c
    BY <1>2, <1>4, <1>5, <2>2 DEF Passed, IInv, Passages, PassageTypes
  <2> QED BY <2>1, <2>2
<1>9. Linked'
  <2> SUFFICES ASSUME NEW d \in Caller PROVE CallAtGate(d)' BY DEF Linked
  <2>1. CASE d = c BY <1>1, <1>2, <2>1 DEF CallAtGate
  <2>2. CASE d # c
    BY <1>2, <1>4, <1>5, <2>2
    DEF CallAtGate, Gate, IInv, Linked, Passages, PassageTypes
  <2> QED BY <2>1, <2>2
<1> QED BY <1>3, <1>8, <1>9 DEF IInv

LEMMA InvStep == ASSUME IInv, [Next]_vars PROVE IInv'
<1>1. ASSUME NEW c \in Caller, Proceed(c) PROVE IInv'
  BY <1>1, LocalStep, AskStep, IssueStep, ResumeStep, RespondStep DEF Proceed
<1>2. ASSUME Others PROVE IInv' BY <1>2, OutsideStep, RevokeStep DEF Others
<1>3. CASE UNCHANGED vars
  BY <1>3 DEF vars, issuerVars, envVars, callerVars, IInv, Tokens, Passages, PassageTypes,
              Passed, Linked, CallAtGate, Gate
<1> QED BY <1>1, <1>2, <1>3, BeginStep, ClockStep DEF Next

\* The inductive invariant holds.
THEOREM Invariance == Spec => []IInv
  BY Initially, InvStep, PTL DEF Spec

-----------------------------------------------------------------------------
(***************************************************************************)
(* What GitHub is asked                                                    *)
(***************************************************************************)

\* GitHub is never sent an expired token: the margin a token keeps is no less
\* than the time the call that carries it may take.
THEOREM CredentialsLast == Spec => []NoExpiredCredential
<1>1. IInv => NoExpiredCredential
  <2> SUFFICES ASSUME IInv, NEW c \in Caller, In(c, "sent") PROVE call[c].token.left > 0
    BY DEF NoExpiredCredential
  <2>1. call[c] \in Call /\ InTime(call[c]) /\ call[c].state = "sent"
    BY DEF In, IInv, Tokens
  <2>2. call[c].age \in 0..Timeout /\ call[c].token.left \in Nat
    BY <2>1 DEF InTime, Call, Token
  <2> QED BY <2>1, <2>2 DEF InTime
<1> QED BY <1>1, Invariance, PTL

\* Whatever is changed under way, GitHub is asked in the name of an
\* installation, and for a run, item and selection, that were all in order at
\* some time since the request began.
THEOREM AccessGranted == Spec => []AccessWasGranted
<1>1. IInv => AccessWasGranted
  <2> SUFFICES ASSUME IInv, NEW c \in Caller, In(c, "sent")
               PROVE  {call[c].inst, "run", "item", "selection"} \subseteq granted[c]
    BY DEF AccessWasGranted
  <2>1. Gate(c) \in Calls /\ Gate(c) # "token" /\ call[c].inst = inst[c]
    BY DEF In, IInv, Linked, CallAtGate
  <2> QED BY <2>1, CallGates DEF IInv
<1> QED BY <1>1, Invariance, PTL

-----------------------------------------------------------------------------
(***************************************************************************)
(* The data of the executions                                              *)
(***************************************************************************)
Data ==
  /\ asking \in [Installation -> {None} \cup Caller]
  /\ branch \in [Path -> Content]
  /\ outside \in {"well", "ill"}
  /\ upsets \in 0..MaxUpsets
  /\ read \in [Caller -> [Path -> Content]]
  /\ changes \in [Caller -> SUBSET Change]
  /\ answer \in [Caller -> Answers]
  /\ had \in [Caller -> SUBSET (Path \X Content)]

\* The work of one caller stays typed, whatever it is answered.
LEMMA FinishData ==
  ASSUME Data, NEW c \in Caller, NEW a \in Answers, Finish(c, a),
         UNCHANGED << branch, outside, upsets, asking >>
  PROVE  Data'
<1>1. Nothing \in [Path -> Content] BY DEF Nothing
<1>2. {h \in had[c] : h[1] \in About(a)} \in SUBSET (Path \X Content) BY DEF Data
<1> QED BY <1>1, <1>2 DEF Finish, Data

LEMMA Replies ==
  /\ Refused \in Answers
  /\ \A X \in SUBSET Change : [kind |-> "review", changes |-> X] \in Answers
  /\ \A P \in SUBSET Path : [kind |-> "suggestion", paths |-> P] \in Answers
  BY DEF Answers

LEMMA LocalData ==
  ASSUME IInv, Data, NEW c \in Caller,
         Check(c) \/ Authorize(c) \/ Plan(c) \/ Propose(c) \/ Review(c) \/ Suggest(c) \/ Throw(c)
  PROVE  Data'
<1>1. UNCHANGED << branch, outside, upsets, asking >>
  BY DEF Check, Authorize, Plan, Propose, Review, Suggest, Throw, envVars, issuerVars
<1>2. CASE Finish(c, Refused) BY <1>1, <1>2, Replies, FinishData
<1>3. CASE UNCHANGED << read, changes, answer, had >> BY <1>1, <1>3 DEF Data
<1>4. CASE Review(c)
  <2>1. changes[c] \in SUBSET Change BY DEF Data
  <2> QED BY <1>1, <1>4, <2>1, Replies, FinishData DEF Review
<1>5. CASE Suggest(c)
  <2>1. PICK P \in Suggestions(c) : Finish(c, [kind |-> "suggestion", paths |-> P])
    BY <1>5 DEF Suggest
  <2>2. P \in SUBSET Path BY DEF Suggestions, Suggestible
  <2> QED BY <1>1, <2>1, <2>2, Replies, FinishData
<1>6. ASSUME NEW raw \in SUBSET Item, UNCHANGED << read, answer, had >>,
             changes' = [changes EXCEPT ![c] = {Hashed(c, x) : x \in raw}]
      PROVE  Data'
  <2>1. \A x \in Item : Hashed(c, x) \in Change
    BY DEF Hashed, Context, Item, Change, Data
  <2>2. {Hashed(c, x) : x \in raw} \in SUBSET Change BY <2>1
  <2> QED BY <1>1, <1>6, <2>2 DEF Data
<1>7. CASE Propose(c)
  BY <1>2, <1>6, <1>7 DEF Propose, ProviderFails
<1> QED
  BY <1>2, <1>3, <1>4, <1>5, <1>7 DEF Check, Authorize, Plan, ProviderFails, Throw

LEMMA CallData ==
  ASSUME IInv, Data, NEW c \in Caller, Ask(c) \/ Issue(c) \/ Resume(c) \/ Respond(c)
  PROVE  Data'
<1>1. UNCHANGED << branch, outside, upsets >>
  BY DEF Ask, Issue, Resume, Respond, envVars
<1>2. CASE Ask(c) BY <1>1, <1>2 DEF Ask, Await, Data
<1>3. CASE Issue(c) BY <1>1, <1>3 DEF Issue, Reply, callerVars, Data
<1>4. CASE Finish(c, Refused) /\ UNCHANGED asking BY <1>1, <1>4, Replies, FinishData
<1>5. CASE Resume(c) BY <1>1, <1>4, <1>5 DEF Resume, Data
<1>6. CASE Respond(c) /\ Served(c) /\ UNCHANGED << changes, answer, had >>
  <2>1. UNCHANGED asking BY <1>6 DEF Respond
  <2>2. read' \in [Caller -> [Path -> Content]]
    <3>1. CASE UNCHANGED read BY <3>1 DEF Data
    <3>2. CASE read' = [read EXCEPT ![c] = branch] BY <3>2 DEF Data
    <3>3. CASE read' = [read EXCEPT ![c] =
                 [read[c] EXCEPT ![NextPath(c)] = branch[NextPath(c)]]]
               /\ Gate(c) = "files" /\ branch[NextPath(c)] # Absent
      <4> DEFINE seen == [read[c] EXCEPT ![NextPath(c)] = branch[NextPath(c)]]
      <4>1. \A p \in Path : seen[p] \in Content BY DEF Data
      <4>2. seen \in [Path -> Content] BY <4>1 DEF Data
      <4> HIDE DEF seen
      <4> QED BY <3>3, <4>2 DEF Data, seen
    <3> QED BY <1>6, <3>1, <3>2, <3>3 DEF Served
  <2> QED BY <1>1, <1>6, <2>1, <2>2 DEF Data
<1> QED BY <1>2, <1>3, <1>4, <1>5, <1>6 DEF Respond

LEMMA DataStep == ASSUME IInv, Data, [Next]_vars PROVE Data'
<1>1. ASSUME NEW c \in Caller, Begin(c) PROVE Data'
  <2>1. Snapshot \in SUBSET (Path \X Content) BY DEF Snapshot, Data
  <2> QED BY <1>1, <2>1, Replies DEF Begin, Data, issuerVars, envVars
<1>2. ASSUME NEW c \in Caller, Proceed(c) PROVE Data'
  BY <1>2, LocalData, CallData DEF Proceed
<1>3. ASSUME NEW p \in Path, NEW v \in Content, Push(p, v) PROVE Data'
  <2>1. had' \in [Caller -> SUBSET (Path \X Content)]
    BY <1>3 DEF Push, Data
  <2> QED BY <1>3, <2>1 DEF Push, Upset, Data, issuerVars, callerVars
<1>4. ASSUME \/ \E e \in Installation \cup {None} : EditEntry(e)
             \/ \E l \in Links \ {"selection"} : Lose(l)
             \/ Regain \/ Worsen \/ Mend
      PROVE  Data'
  <2>1. UNCHANGED << asking, branch, read, changes, answer, had >>
    BY <1>4 DEF EditEntry, Lose, Regain, Worsen, Mend, issuerVars, callerVars
  <2>2. outside' \in {"well", "ill"}
    BY <1>4 DEF EditEntry, Lose, Regain, Worsen, Mend, Data
  <2>3. upsets' = upsets \/ Upset BY <1>4 DEF EditEntry, Lose, Regain, Worsen, Mend
  <2> QED BY <2>1, <2>2, <2>3 DEF Upset, Data
<1>5. ASSUME NEW i \in Installation, RevokeTokens(i) PROVE Data'
  BY <1>5 DEF RevokeTokens, Revoke, Upset, Data, callerVars
<1>6. CASE Clock BY <1>6 DEF Clock, Tick, Data, envVars, callerVars
<1>7. CASE UNCHANGED vars BY <1>7 DEF vars, issuerVars, envVars, callerVars, Data
<1> QED BY <1>1, <1>2, <1>3, <1>4, <1>5, <1>6, <1>7 DEF Next, Others

LEMMA DataInitially == Init => Data
  BY Replies DEF Init, IssuerInit, Data, Nothing

\* Every variable keeps its type.
THEOREM TypeCorrect == Spec => []TypeOK
<1>1. IInv /\ Data => TypeOK
  BY DEF IInv, Tokens, Passages, PassageTypes, Data, TypeOK, IssuerTypeOK
<1> QED BY <1>1, DataInitially, DataStep, Invariance, PTL DEF Spec

-----------------------------------------------------------------------------
(***************************************************************************)
(* What a proposal is about                                                *)
(***************************************************************************)
\* What a proposal must be, for the request it answers and the contents the
\* branch has had meanwhile.
AboutRequest(X, r, h) ==
  /\ X # {}
  /\ \A x \in X :
       /\ x.path \notin Unsafe
       /\ x.operation = "modify" <=> x.path \in r.paths
       /\ x.operation = "modify" => << x.path, x.hash >> \in h

\* The context of an execution under way holds files of its own request only,
\* each with a content the branch has had; it is incomplete until the gate
\* "files" is passed and complete from there on.
Reading(c) ==
  /\ \A p \in Path : read[c][p] # Absent =>
       p \in request[c].paths /\ << p, read[c][p] >> \in had[c]
  /\ at[c] <= 11 => \E p \in request[c].paths : read[c][p] = Absent
  /\ at[c] >= 12 => \A p \in request[c].paths : read[c][p] # Absent
  /\ at[c] = 14 => AboutRequest(changes[c], request[c], had[c])

Work(c) ==
  /\ at[c] = 0 => read[c] = Nothing
  /\ at[c] # 0 => Snapshot \subseteq had[c]
  /\ at[c] # 0 /\ request[c].kind = "agent" => Reading(c)
  /\ at[c] = 0 /\ answer[c].kind = "review" =>
       AboutRequest(answer[c].changes, request[c], had[c])

Executions == \A c \in Caller : Work(c)

\* Of the other callers a step of c changes nothing.
OnlyOf(c) ==
  /\ UNCHANGED branch
  /\ \A d \in Caller \ {c} :
       /\ at'[d] = at[d] /\ request'[d] = request[d] /\ read'[d] = read[d]
       /\ changes'[d] = changes[d] /\ answer'[d] = answer[d] /\ had'[d] = had[d]

LEMMA OneCaller ==
  ASSUME Executions, NEW c \in Caller, OnlyOf(c), Work(c)'
  PROVE  Executions'
<1> SUFFICES ASSUME NEW d \in Caller PROVE Work(d)' BY DEF Executions
<1>1. CASE d = c BY <1>1
<1>2. CASE d # c BY <1>2 DEF Executions, OnlyOf, Work, Reading, Snapshot
<1> QED BY <1>1, <1>2

\* A step that changes nothing of the callers' work.
LEMMA StillWork ==
  ASSUME Executions, UNCHANGED << branch, at, request, read, changes, answer, had >>
  PROVE  Executions'
BY DEF Executions, Work, Reading, Snapshot

LEMMA FinishWork ==
  ASSUME IInv, Data, Executions, NEW c \in Caller, NEW a \in Answers, Finish(c, a),
         UNCHANGED branch,
         a.kind = "review" => AboutRequest(a.changes, request[c], had[c])
  PROVE  Executions'
<1>1. /\ at'[c] = 0 /\ read'[c] = Nothing /\ answer'[c] = a
      /\ had'[c] = {h \in had[c] : h[1] \in About(a)} /\ UNCHANGED request
  BY DEF Finish, IInv, Passages, PassageTypes, Data
<1>2. OnlyOf(c) BY DEF OnlyOf, Finish, IInv, Passages, PassageTypes, Data
<1>3. ASSUME a.kind = "review" PROVE AboutRequest(a.changes, request[c], had'[c])
  <2>1. About(a) = {x.path : x \in a.changes} BY <1>3 DEF About
  <2>2. \A x \in a.changes : x.path \in About(a) /\ << x.path, x.hash >>[1] = x.path
    BY <2>1
  <2> QED BY <1>1, <1>3, <2>2 DEF AboutRequest
<1>4. Work(c)' BY <1>1, <1>3 DEF Work
<1> QED BY <1>2, <1>4, OneCaller

\* Which gates of an execution come before its files and after them.
LEMMA AgentAt ==
  ASSUME PassageTypes, NEW c \in Caller, at[c] # 0
  PROVE  /\ at[c] \in 1..14
         /\ request[c].kind = "agent" /\ Gate(c) \notin {"files", "changes", "review"} =>
              at[c] \notin {11, 13, 14}
         /\ Gate(c) = "files" => request[c].kind = "agent" /\ at[c] = 11
         /\ Gate(c) = "changes" => request[c].kind = "agent" /\ at[c] = 13
         /\ Gate(c) = "review" => request[c].kind = "agent" /\ at[c] = 14
         /\ Gate(c) = "ref" => request[c].kind = "suggest"
<1>1. at[c] \in 1..14 /\ request[c].kind \in {"agent", "suggest"}
  BY Kinds DEF PassageTypes
<1>2. CASE request[c].kind = "agent" BY <1>1, <1>2, AgentGates DEF Gate
<1>3. CASE request[c].kind = "suggest"
  <2>1. at[c] \in 1..9 BY <1>1, <1>3 DEF PassageTypes
  <2> QED BY <1>1, <1>3, <2>1, SuggestGates DEF Gate
<1> QED BY <1>1, <1>2, <1>3

LEMMA AdvanceWork ==
  ASSUME IInv, Data, Executions, NEW c \in Caller, at[c] # 0, Advance(c),
         Gate(c) \notin {"files", "changes", "review"},
         UNCHANGED << branch, request, changes, answer, had >>,
         UNCHANGED read \/ (Gate(c) = "ref" /\ read' = [read EXCEPT ![c] = branch])
  PROVE  Executions'
<1>1. PassageTypes /\ Work(c) BY DEF IInv, Passages, Executions
<1>2. at[c] \in 1..14 /\ at'[c] = at[c] + 1 BY <1>1, AgentAt DEF Advance, PassageTypes
<1>3. OnlyOf(c) BY <1>1 DEF OnlyOf, Advance, PassageTypes, Data
<1>4. Work(c)'
  <2>1. CASE request[c].kind = "agent"
    <3>1. at[c] \notin {11, 13, 14} /\ UNCHANGED read BY <1>1, <2>1, AgentAt
    <3> QED BY <1>1, <1>2, <2>1, <3>1 DEF Work, Reading, Snapshot
  <2>2. CASE request[c].kind # "agent" BY <1>1, <1>2, <2>2 DEF Work, Snapshot
  <2> QED BY <2>1, <2>2
<1> QED BY <1>3, <1>4, OneCaller

\* The answer to a call: a file of the request is read as the branch has it.
LEMMA FilesWork ==
  ASSUME IInv, Data, Executions, NEW c \in Caller, Gate(c) = "files", Served(c),
         UNCHANGED << branch, request, changes, answer, had >>
  PROVE  Executions'
<1> DEFINE p == NextPath(c)
           seen == [read[c] EXCEPT ![p] = branch[p]]
<1>1. PassageTypes /\ Work(c) BY DEF IInv, Passages, Executions
<1>2. at[c] = 11 /\ request[c].kind = "agent" BY <1>1, AgentAt DEF Gate
<1>3. Reading(c) /\ Snapshot \subseteq had[c] BY <1>1, <1>2 DEF Work
<1>4. p \in request[c].paths BY <1>2, <1>3 DEF NextPath, Reading
<1>5. request[c].paths \subseteq Path BY <1>1 DEF PassageTypes, Requests
<1>6. branch[p] # Absent /\ read' = [read EXCEPT ![c] = seen]
      /\ at' = IF \A q \in request[c].paths : seen[q] # Absent
                 THEN [at EXCEPT ![c] = @ + 1] ELSE at
  BY DEF Served
<1>7. << p, branch[p] >> \in had[c] BY <1>3, <1>4, <1>5 DEF Snapshot
<1>8. \A q \in Path : seen[q] = IF q = p THEN branch[p] ELSE read[c][q] BY DEF Data
<1> HIDE DEF p, seen
<1>9. read'[c] = seen BY <1>6 DEF Data
<1>10. OnlyOf(c) BY <1>1, <1>6 DEF OnlyOf, PassageTypes, Data
<1>11. \A q \in Path : seen[q] # Absent =>
         q \in request[c].paths /\ << q, seen[q] >> \in had[c]
  BY <1>3, <1>4, <1>7, <1>8 DEF Reading
<1>12. IF \A q \in request[c].paths : seen[q] # Absent THEN at'[c] = 12 ELSE at'[c] = 11
  BY <1>1, <1>2, <1>6 DEF PassageTypes
<1>13. Reading(c)' BY <1>9, <1>11, <1>12 DEF Reading
<1>14. Work(c)' BY <1>2, <1>3, <1>12, <1>13 DEF Work, Snapshot
<1> QED BY <1>10, <1>14, OneCaller

\* The provider's changes are about the files of this execution's own context.
LEMMA ProposeWork ==
  ASSUME IInv, Data, Executions, NEW c \in Caller, Propose(c)
  PROVE  Executions'
<1>1. PassageTypes /\ Work(c) /\ Gate(c) = "changes" /\ UNCHANGED branch
  BY DEF IInv, Passages, Executions, Propose, envVars
<1>2. at[c] = 13 /\ request[c].kind = "agent" BY <1>1, AgentAt DEF Gate
<1>3. Reading(c) /\ Snapshot \subseteq had[c] BY <1>1, <1>2 DEF Work
<1>4. CASE ProviderFails(c)
  BY <1>1, <1>4, Replies, FinishWork DEF ProviderFails, Refused
<1>5. ASSUME NEW raw \in SUBSET Item, raw # {}, \A x \in raw : ReferenceOK(c, x),
             changes' = [changes EXCEPT ![c] = {Hashed(c, x) : x \in raw}],
             Advance(c), UNCHANGED << request, read, answer, had >>
      PROVE  Executions'
  <2>1. changes'[c] = {Hashed(c, x) : x \in raw} /\ at'[c] = 14
    BY <1>1, <1>2, <1>5 DEF Advance, PassageTypes, Data
  <2>2. ASSUME NEW x \in raw
        PROVE  /\ Hashed(c, x).path \notin Unsafe
               /\ Hashed(c, x).operation = "modify" <=> Hashed(c, x).path \in request[c].paths
               /\ Hashed(c, x).operation = "modify" =>
                    << Hashed(c, x).path, Hashed(c, x).hash >> \in had[c]
    <3>1. x.path \in Path /\ ReferenceOK(c, x) BY <1>5, <2>2 DEF Item
    <3>2. read[c][x.path] # Absent <=> x.path \in request[c].paths
      <4>1. \A p \in request[c].paths : read[c][p] # Absent BY <1>2, <1>3 DEF Reading
      <4> QED BY <1>3, <3>1, <4>1 DEF Reading
    <3>3. read[c][x.path] # Absent => << x.path, read[c][x.path] >> \in had[c]
      BY <1>3, <3>1 DEF Reading
    <3>4. /\ Hashed(c, x).path = x.path /\ Hashed(c, x).operation = x.operation
          /\ x.operation = "modify" => Hashed(c, x).hash = read[c][x.path]
      BY DEF Hashed, Context
    <3> QED BY <3>1, <3>2, <3>3, <3>4 DEF ReferenceOK, Context
  <2>3. AboutRequest(changes'[c], request[c], had[c])
    BY <1>5, <2>1, <2>2 DEF AboutRequest
  <2>4. OnlyOf(c) BY <1>1, <1>5 DEF OnlyOf, Advance, PassageTypes, Data
  <2>5. Work(c)' BY <1>1, <1>2, <1>3, <1>5, <2>1, <2>3 DEF Work, Reading, Snapshot
  <2> QED BY <2>4, <2>5, OneCaller
<1> QED BY <1>4, <1>5 DEF Propose

LEMMA ProceedWork ==
  ASSUME IInv, Data, Executions, NEW c \in Caller, Proceed(c)
  PROVE  Executions'
<1>1. PassageTypes BY DEF IInv, Passages
<1>2. CASE Finish(c, Refused) /\ UNCHANGED branch
  BY <1>2, Replies, FinishWork DEF Refused
<1>3. CASE Check(c) \/ Authorize(c) \/ Plan(c)
  <2>1. at[c] # 0 /\ Gate(c) \notin {"files", "changes", "review"} /\ UNCHANGED branch
    BY <1>3 DEF Check, Authorize, Plan, Gate, Links, envVars
  <2> QED
    BY <1>2, <1>3, <2>1, AdvanceWork DEF Check, Authorize, Plan, ProviderFails
<1>4. CASE Review(c)
  <2>1. at[c] = 14 /\ request[c].kind = "agent"
    BY <1>1, <1>4, AgentAt DEF Review, Gate
  <2>2. AboutRequest(changes[c], request[c], had[c])
    BY <2>1 DEF Executions, Work, Reading
  <2>3. changes[c] \in SUBSET Change BY DEF Data
  <2> QED BY <1>4, <2>2, <2>3, Replies, FinishWork DEF Review, envVars
<1>5. CASE Suggest(c)
  <2>1. PICK P \in Suggestions(c) : Finish(c, [kind |-> "suggestion", paths |-> P])
    BY <1>5 DEF Suggest
  <2>2. P \in SUBSET Path BY DEF Suggestions, Suggestible
  <2> QED BY <1>5, <2>1, <2>2, Replies, FinishWork DEF Suggest, envVars
<1>6. CASE Throw(c) BY <1>2, <1>6 DEF Throw, envVars
<1>7. ASSUME NEW t, Go(c, t), Gate(c) \in Calls,
             UNCHANGED << branch, request, read, changes, answer, had >>
      PROVE  Executions'
  <2>1. at[c] # 0 BY <1>7 DEF Gate, Calls
  <2> QED BY <1>7, <2>1, AdvanceWork, StillWork DEF Go
<1>8. CASE Ask(c)
  <2>1. CASE Go(c, cache[inst[c]]) BY <1>7, <1>8, <2>1 DEF Ask, envVars
  <2>2. CASE UNCHANGED at BY <1>8, <2>2, StillWork DEF Ask, envVars
  <2> QED BY <1>8, <2>1, <2>2 DEF Ask
<1>9. CASE Issue(c) BY <1>9, StillWork DEF Issue, envVars, callerVars
<1>10. CASE Resume(c)
  <2>1. Gate(c) \in Calls BY <1>10 DEF Resume, In, IInv, Linked, CallAtGate
  <2> QED BY <1>2, <1>7, <1>10, <2>1 DEF Resume, envVars
<1>11. CASE Respond(c)
  <2>1. at[c] # 0 /\ Gate(c) \in Calls /\ UNCHANGED branch
    BY <1>11 DEF Respond, In, IInv, Linked, CallAtGate, Gate, Calls, envVars
  <2>2. CASE Served(c) /\ UNCHANGED << request, changes, answer, had >>
    <3>1. CASE Gate(c) = "files" BY <2>1, <2>2, <3>1, FilesWork
    <3>2. CASE Gate(c) # "files"
      BY <2>1, <2>2, <3>2, AdvanceWork DEF Served, Calls
    <3> QED BY <3>1, <3>2
  <2> QED BY <1>2, <1>11, <2>1, <2>2 DEF Respond
<1> QED
  BY <1>3, <1>4, <1>5, <1>6, <1>8, <1>9, <1>10, <1>11, ProposeWork DEF Proceed

LEMMA WorkStep ==
  ASSUME IInv, Data, Executions, [Next]_vars
  PROVE  Executions'
<1>1. ASSUME NEW c \in Caller, Begin(c) PROVE Executions'
  <2>1. PICK r \in Asked : request' = [request EXCEPT ![c] = r] BY <1>1 DEF Begin
  <2>2. /\ at'[c] = 1 /\ request'[c] = r /\ had'[c] = Snapshot /\ read'[c] = Nothing
        /\ OnlyOf(c)
    BY <1>1, <2>1
    DEF Begin, envVars, OnlyOf, IInv, Passages, PassageTypes, Data, Executions, Work
  <2>3. ASSUME r.kind = "agent" PROVE r.paths # {} /\ r.paths \subseteq Path
    BY <2>3 DEF Requests
  <2>4. Work(c)'
    <3>1. Snapshot' = Snapshot BY <2>2 DEF OnlyOf, Snapshot
    <3>2. \A p \in Path : Nothing[p] = Absent BY DEF Nothing
    <3> QED BY <2>2, <2>3, <3>1, <3>2 DEF Work, Reading
  <2> QED BY <2>2, <2>4, OneCaller
<1>2. ASSUME NEW c \in Caller, Proceed(c) PROVE Executions' BY <1>2, ProceedWork
<1>3. ASSUME NEW p \in Path, NEW v \in Content, Push(p, v) PROVE Executions'
  <2> SUFFICES ASSUME NEW c \in Caller PROVE Work(c)' BY DEF Executions
  <2>1. /\ branch' = [branch EXCEPT ![p] = v]
        /\ UNCHANGED << at, request, read, changes, answer >>
        /\ had'[c] = IF at[c] = 0 THEN had[c] ELSE had[c] \cup {<< p, v >>}
    BY <1>3 DEF Push, callerVars
  <2>2. Work(c) BY DEF Executions
  <2>3. ASSUME at[c] # 0 PROVE Snapshot' \subseteq had'[c]
    <3>1. \A q \in Path : branch'[q] = IF q = p THEN v ELSE branch[q] BY <2>1 DEF Data
    <3> QED BY <2>1, <2>2, <2>3, <3>1 DEF Work, Snapshot
  <2>4. had[c] \subseteq had'[c] BY <2>1
  <2> QED BY <2>1, <2>2, <2>3, <2>4 DEF Work, Reading, AboutRequest
<1>4. CASE \/ \E e \in Installation \cup {None} : EditEntry(e)
           \/ \E l \in Links \ {"selection"} : Lose(l)
           \/ \E i \in Installation : RevokeTokens(i)
           \/ Regain \/ Worsen \/ Mend \/ Clock \/ UNCHANGED vars
  <2>1. UNCHANGED << branch, at, request, read, changes, answer, had >>
    BY <1>4
    DEF EditEntry, Lose, RevokeTokens, Regain, Worsen, Mend, Clock, envVars, callerVars, vars
  <2> QED BY <2>1, StillWork
<1> QED BY <1>1, <1>2, <1>3, <1>4 DEF Next, Others

\* A proposal is about the files its own request named, with contents the branch
\* had while it was under way, and creates none of them, though executions of
\* one run overlap and the branch moves.
THEOREM ProposalAboutItsRequest == Spec => []ProposalIsAboutItsRequest
<1>1. Init => Executions
  <2> SUFFICES ASSUME Init, NEW c \in Caller PROVE Work(c) BY DEF Executions
  <2>1. at[c] = 0 /\ read[c] = Nothing /\ answer[c].kind = "refused"
    BY DEF Init, Refused
  <2> QED BY <2>1 DEF Work
<1>2. Executions => ProposalIsAboutItsRequest
  BY DEF Executions, Work, AboutRequest, ProposalIsAboutItsRequest
<1> QED BY <1>1, <1>2, DataInitially, DataStep, WorkStep, Invariance, PTL DEF Spec
=============================================================================
