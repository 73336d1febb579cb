---------------------------- MODULE TokenIssuer ----------------------------
(***************************************************************************)
(* Installation tokens and the requests that carry them: the cache and the *)
(* shared requests of github-app/token-issuer.ts, one per process, and the *)
(* way every call of github-app/real-client.ts obtains a token just before *)
(* it is sent.  Time is what is left of a token's life.  A caller has at   *)
(* most one call: it waits for a token, holds the settled answer, or waits *)
(* for GitHub's answer to what it sent.                                    *)
(***************************************************************************)
EXTENDS Naturals

CONSTANTS
  Caller,        \* requests of the process that use GitHub
  Installation,  \* installations of the GitHub App
  Lifetime,      \* life of a fresh token
  Margin,        \* a token with no more life than this is not reused
  Timeout,       \* the longest a call may take
  None           \* no token, no call

ASSUME IssuerAssumption ==
  /\ Lifetime \in Nat /\ Margin \in Nat /\ Timeout \in Nat
  /\ Timeout <= Margin /\ Margin < Lifetime
ASSUME NoneAssumption == None \notin Caller \cup Installation

VARIABLES
  cache,   \* the token kept for each installation
  asking,  \* the caller whose request for a token others share (inFlight)
  call     \* what each caller awaits

issuerVars == << cache, asking, call >>

\* live: not revoked by GitHub.
Token == [left : 0..Lifetime, live : BOOLEAN]
Fresh == [left |-> Lifetime, live |-> TRUE]

\* own: the caller asked for the token itself.
Call ==
  [state : {"waits", "holds", "sent"}, inst : Installation,
   token : {None} \cup Token, own : BOOLEAN, age : 0..Timeout]

IssuerTypeOK ==
  /\ cache \in [Installation -> {None} \cup Token]
  /\ asking \in [Installation -> {None} \cup Caller]
  /\ call \in [Caller -> {None} \cup Call]

IssuerInit ==
  /\ cache = [i \in Installation |-> None]
  /\ asking = [i \in Installation |-> None]
  /\ call = [c \in Caller |-> None]

\* GitHub accepts the token.
Accepted(t) == t.left > 0 /\ t.live

In(c, state) == call[c] # None /\ call[c].state = state

-----------------------------------------------------------------------------
\* Mutated form of Usable: no margin is kept, so a token may expire under way.
UsableToTheEnd(i) == cache[i] # None /\ cache[i].left > 0

\* Mutated form of Usable: the expiry of a cached token is not looked at.
UsableForever(i) == cache[i] # None

Usable(i) == cache[i] # None /\ cache[i].left > Margin

\* The call a caller sends with a token in hand.
Sent(i, t) == [state |-> "sent", inst |-> i, token |-> t, own |-> FALSE, age |-> 0]

Waits(i, own) == [state |-> "waits", inst |-> i, token |-> None, own |-> own, age |-> 0]

\* Without a usable token a caller shares the request under way for the same
\* installation, or makes it.
Await(c, i) ==
  /\ ~Usable(i)
  /\ call' = [call EXCEPT ![c] = Waits(i, asking[i] = None)]
  /\ asking' = IF asking[i] = None THEN [asking EXCEPT ![i] = c] ELSE asking
  /\ UNCHANGED cache

\* Mutated form of Reply: the request stays listed as under way when it failed.
ReplyKeepingFailure(c, t) ==
  LET i == call[c].inst IN
  /\ In(c, "waits") /\ call[c].own
  /\ asking' = IF t = None THEN asking ELSE [asking EXCEPT ![i] = None]
  /\ call' = [d \in Caller |->
                IF In(d, "waits") /\ call[d].inst = i
                  THEN [call[d] EXCEPT !.state = "holds", !.token = t, !.age = 0]
                  ELSE call[d]]
  /\ UNCHANGED cache

\* GitHub's answer to the request for a token, or its timeout, reaches all who
\* share it; a failure (None) like a token.  The request is no longer shared.
Reply(c, t) ==
  LET i == call[c].inst IN
  /\ In(c, "waits") /\ call[c].own
  /\ asking' = [asking EXCEPT ![i] = None]
  /\ call' = [d \in Caller |->
                IF In(d, "waits") /\ call[d].inst = i
                  THEN [call[d] EXCEPT !.state = "holds", !.token = t, !.age = 0]
                  ELSE call[d]]
  /\ UNCHANGED cache

\* The one who asked keeps a token, some microtasks after the request stopped
\* being shared: a call that falls between asks once more.
Kept(c) ==
  IF call[c].own /\ call[c].token # None
    THEN [cache EXCEPT ![call[c].inst] = call[c].token]
    ELSE cache

-----------------------------------------------------------------------------
OneLess(t) == IF t = None \/ t.left = 0 THEN t ELSE [t EXCEPT !.left = @ - 1]

\* Settled answers are taken up before the clock moves, and no call outlives
\* its timeout.
MayTick ==
  \A c \in Caller :
    ~In(c, "holds") /\ (In(c, "sent") \/ In(c, "waits") => call[c].age < Timeout)

Pass(d) ==
  IF d = None THEN None
    ELSE [d EXCEPT !.token = OneLess(@),
                   !.age = IF d.state = "sent" \/ d.own THEN @ + 1 ELSE @]

Tick ==
  /\ MayTick
  /\ cache' = [i \in Installation |-> OneLess(cache[i])]
  /\ call' = [c \in Caller |-> Pass(call[c])]
  /\ UNCHANGED asking

Dead(t) == IF t = None THEN t ELSE [t EXCEPT !.live = FALSE]

\* GitHub revokes the tokens of an installation.
Revoke(i) ==
  /\ cache' = [cache EXCEPT ![i] = Dead(@)]
  /\ call' = [c \in Caller |->
                IF call[c] # None /\ call[c].inst = i
                  THEN [call[c] EXCEPT !.token = Dead(@)] ELSE call[c]]
  /\ UNCHANGED asking

-----------------------------------------------------------------------------
\* No request reaches GitHub with an expired token, however long it was under
\* way and whatever request obtained the token: the margin covers the timeout
\* (token-issuer.ts:153).
NoExpiredCredential == \A c \in Caller : In(c, "sent") => call[c].token.left > 0

=============================================================================
