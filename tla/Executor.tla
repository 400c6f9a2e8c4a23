------------------------------ MODULE Executor ------------------------------
(***************************************************************************)
(* What happens to one client request between the handlers and upstream    *)
(* (internal/proxy/executor.go): picking a credential, getting a token for *)
(* it, binding the request to one durable version of the credential and    *)
(* one route, sending, refreshing once after a 401, failing over; and the  *)
(* model listing and billing calls, which share the same checks.           *)
(*                                                                         *)
(* Tokens and health have modules of their own (TokenRefresh, Selector).   *)
(* Here EnsureToken and ForceRefresh may return any token, with or without *)
(* a rotation, and Pick any candidate; what matters is how the answers are *)
(* checked against records and settings that change all the time.          *)
(***************************************************************************)
EXTENDS Naturals, FiniteSets

CONSTANTS
  Creds,        \* credential ids
  Requests,     \* goroutines serving a request
  Tokens,       \* token sets
  MaxAttempts,  \* Executor.MaxAttempts
  MaxChanges,   \* bound: changes of credentials and settings
  None          \* nothing yet

ASSUME ConstantsOK ==
  MaxAttempts \in Nat /\ MaxChanges \in Nat /\ IsFiniteSet(Requests)

VARIABLES
  stored,     \* the durable record of each credential
  route,      \* the revision of the runtime settings, which fix the route
  request,    \* what each goroutine is doing
  reserved,   \* places taken in the selector, by credential
  changes     \* counter against MaxChanges

vars == <<stored, route, request, reserved, changes>>

\* A record: `there` tells a credential from one that was deleted.
Credential == [there : BOOLEAN, revision : Nat, token : Tokens, enabled : BOOLEAN]

Kinds == {"post", "models", "billing"}

\* pick: the next attempt; load .. decide: up to sending; recheck .. rebind:
\* after a 401; streaming: the body is open and its close gives the place back.
Attempting == {"load", "ensure", "reread", "bind", "before", "resolve", "after", "verify",
               "decide", "send", "recheck", "force", "rebind"}
Stages == {"idle", "pick", "streaming"} \cup Attempting

Request ==
  [pc : Stages, kind : Kinds, cred : Creds \cup {None}, attempts : 0..MaxAttempts,
   candidates : SUBSET Creds, tried : SUBSET Creds, blamed : SUBSET Creds, retry : BOOLEAN,
   token : Tokens \cup {None}, bound : Credential \cup {None},
   before : Nat, client : Nat, after : Nat,
   verified : Credential \cup {None}, seen : Nat]

Idle ==
  [pc |-> "idle", kind |-> "post", cred |-> None, attempts |-> 0,
   candidates |-> {}, tried |-> {}, blamed |-> {}, retry |-> FALSE,
   token |-> None, bound |-> None,
   before |-> 0, client |-> 0, after |-> 0, verified |-> None, seen |-> 0]

\* The request's record of its credential, as a reader finds it now.
Latest(r) == stored[request[r].cred]

Enabled == {c \in Creds : stored[c].there /\ stored[c].enabled}

-----------------------------------------------------------------------------
\* How a step leaves the attempt.
Goes(r, fields) ==
  /\ request' = [request EXCEPT ![r] = fields]
  /\ UNCHANGED reserved

\* Requests with a place in the selector; billing calls take none.
Holds(req) == req.pc \in Attempting \cup {"streaming"} /\ req.kind # "billing"

GiveBack(r) ==
  reserved' = [reserved EXCEPT ![request[r].cred] =
                 IF Holds(request[r]) THEN @ - 1 ELSE @]

\* The loop's next turn; a billing call has only one.
NextAttempt(r, tried, blamed) ==
  IF request[r].kind = "billing" THEN Idle
  ELSE [Idle EXCEPT !.pc = "pick", !.kind = request[r].kind,
                    !.attempts = request[r].attempts,
                    !.candidates = request[r].candidates,
                    !.tried = tried, !.blamed = blamed]

\* releaseSelection, and the next attempt may take other credentials only ...
Release(r) ==
  /\ request' = [request EXCEPT ![r] = NextAttempt(r, @.tried, @.blamed)]
  /\ GiveBack(r)

\* ... or this one again: the caller's view was retired, nothing failed.
Restart(r) ==
  /\ request' = [request EXCEPT ![r] = NextAttempt(r, @.tried \ {@.cred}, @.blamed)]
  /\ GiveBack(r)

\* Mutant of Blame: the credential stays eligible.
BlameAndRetry(r) ==
  /\ request' = [request EXCEPT
       ![r] = NextAttempt(r, @.tried \ {@.cred}, @.blamed \cup {@.cred})]
  /\ GiveBack(r)

\* MarkFailure or MarkQuotaExhausted: the failure is the credential's.
Blame(r) ==
  /\ request' = [request EXCEPT ![r] = NextAttempt(r, @.tried, @.blamed \cup {@.cred})]
  /\ GiveBack(r)

\* The caller has its answer.
Answer(r) == request' = [request EXCEPT ![r] = Idle] /\ GiveBack(r)

\* A record that no longer is what the attempt was based on: try it again
\* unless it is gone or, for post, disabled.
Superseded(r, latest) ==
  IF latest.there /\ (latest.enabled \/ request[r].kind = "models")
  THEN Restart(r) ELSE Release(r)

Step(r, pc) == request[r].pc = pc /\ UNCHANGED <<stored, route, changes>>

\* A credential's record is patched while there is one.
Patch(c, credential) ==
  /\ changes < MaxChanges
  /\ changes' = changes + 1
  /\ stored[c].there
  /\ stored' = [stored EXCEPT ![c] = credential]

Bumped(credential) == [credential EXCEPT !.revision = @ + 1]

\* observeRateLimit and touchLastUsed, which write what an answer says unless
\* it says nothing or was written a moment ago.
Noted(r) ==
  LET c == request[r].cred
  IN Patch(c, Bumped(stored[c])) \/ UNCHANGED <<stored, changes>>

-----------------------------------------------------------------------------
(***************************************************************************)
(* Picking a credential.                                                   *)
(***************************************************************************)
\* post starts from the candidate list, which may come from the cache and be
\* older than the records; a billing call names its credential.
Begin(r, candidates) ==
  /\ Step(r, "idle")
  /\ Goes(r, [Idle EXCEPT !.pc = "pick", !.candidates = candidates])

BeginModels(r) ==
  /\ Step(r, "idle")
  /\ Goes(r, [Idle EXCEPT !.pc = "pick", !.kind = "models"])

BeginBilling(r, c) ==
  /\ Step(r, "idle")
  /\ stored[c].there
  /\ Goes(r, [Idle EXCEPT !.pc = "ensure", !.kind = "billing", !.cred = c])

\* Mutant of AttemptsLeft: one too many.
OneMoreAttempt(r) == request[r].attempts <= MaxAttempts

AttemptsLeft(r) == request[r].attempts < MaxAttempts

\* ListModels lists the stored credentials at each turn and has them at hand;
\* post loads the one picked.
Pick(r, c) ==
  /\ Step(r, "pick")
  /\ AttemptsLeft(r)
  /\ c \notin request[r].tried
  /\ c \in IF request[r].kind = "models" THEN Enabled ELSE request[r].candidates
  /\ request' = [request EXCEPT
       ![r].pc = IF request[r].kind = "models" THEN "ensure" ELSE "load",
       ![r].cred = c,
       ![r].attempts = @ + 1,
       ![r].tried = @ \cup {c}]
  /\ reserved' = [reserved EXCEPT ![c] = @ + 1]

\* Pick refuses, the attempts are used up or the client is gone.
GiveUp(r) == Step(r, "pick") /\ Goes(r, Idle)

\* Mutant of Load: a credential that is gone keeps its place.
LoadAndForget(r) ==
  /\ Step(r, "load")
  /\ Goes(r, IF Latest(r).there
             THEN [request[r] EXCEPT !.pc = "ensure", !.bound = Latest(r)]
             ELSE NextAttempt(r, request[r].tried, request[r].blamed))

Load(r) ==
  /\ Step(r, "load")
  /\ IF Latest(r).there
     THEN Goes(r, [request[r] EXCEPT !.pc = "ensure", !.bound = Latest(r)])
     ELSE Release(r)

-----------------------------------------------------------------------------
(***************************************************************************)
(* A token, a record and a route that belong together.                     *)
(***************************************************************************)
Obtained(r) == IF request[r].pc = "ensure" THEN "bind" ELSE "rebind"

\* EnsureToken or ForceRefresh returns a token ...
GetToken(r, token) ==
  /\ Step(r, "ensure") \/ Step(r, "force")
  /\ Goes(r, [request[r] EXCEPT !.pc = Obtained(r), !.token = token])

\* ... which a rotation has just stored ...
Rotate(r, token) ==
  /\ request[r].pc \in {"ensure", "force"}
  /\ Patch(request[r].cred, [Bumped(Latest(r)) EXCEPT !.token = token])
  /\ Goes(r, [request[r] EXCEPT !.pc = Obtained(r), !.token = token])
  /\ UNCHANGED route

\* ... or ErrRefreshInvalidated ...
TokenInvalidated(r) == (Step(r, "ensure") \/ Step(r, "force")) /\ Restart(r)

\* ... or an error, which post blames on the credential unless the refresh
\* token that failed has been replaced meanwhile.
EnsureFails(r) ==
  /\ Step(r, "ensure")
  /\ CASE request[r].kind = "post"    -> Goes(r, [request[r] EXCEPT !.pc = "reread"])
       [] request[r].kind = "models"  -> Release(r) \/ Blame(r)
       [] request[r].kind = "billing" -> Release(r)

\* Of two token sets that differ, the refresh tokens may be the same.
Reread(r) ==
  /\ Step(r, "reread")
  /\ \/ Latest(r).there /\ Latest(r).token # request[r].bound.token /\ Restart(r)
     \/ Blame(r)

RefreshFails(r) == Step(r, "force") /\ Blame(r)

\* The token must be the durable one, of a credential still enabled; a billing
\* call is also made for a disabled one.
Usable(r, latest) ==
  /\ latest.there
  /\ latest.enabled \/ request[r].kind = "billing"
  /\ latest.token = request[r].token

Bind(r) ==
  /\ Step(r, "bind") \/ Step(r, "rebind")
  /\ IF Usable(r, Latest(r))
     THEN Goes(r, [request[r] EXCEPT !.pc = "before", !.bound = Latest(r)])
     ELSE Superseded(r, Latest(r))

\* The route's revision, the client built for the record and the route as
\* they are, and the revision again, except on the retry after a 401.
ReadRouteBefore(r) ==
  /\ Step(r, "before")
  /\ Goes(r, [request[r] EXCEPT !.pc = "resolve", !.before = route])

Resolve(r) ==
  /\ Step(r, "resolve")
  /\ Goes(r, [request[r] EXCEPT !.pc = IF request[r].retry THEN "verify" ELSE "after",
                                !.client = route, !.after = request[r].before])

ResolveFails(r) ==
  /\ Step(r, "resolve")
  /\ IF request[r].kind = "post" /\ ~request[r].retry THEN Blame(r) ELSE Release(r)

ReadRouteAfter(r) ==
  /\ Step(r, "after")
  /\ Goes(r, [request[r] EXCEPT !.pc = "verify", !.after = route])

Verify(r) ==
  /\ Step(r, "verify")
  /\ Goes(r, [request[r] EXCEPT !.pc = "decide", !.verified = Latest(r), !.seen = route])

\* Mutant of Unchanged: the two reads around the client seem enough.
UnchangedRoute(r) ==
  /\ request[r].before = request[r].after
  /\ request[r].verified.revision = request[r].bound.revision
  /\ Usable(r, request[r].verified)

Unchanged(r) ==
  /\ request[r].before = request[r].after
  /\ route = request[r].after
  /\ request[r].verified.revision = request[r].bound.revision
  /\ Usable(r, request[r].verified)

Decide(r) ==
  /\ Step(r, "decide")
  /\ IF Unchanged(r) THEN Goes(r, [request[r] EXCEPT !.pc = "send"])
     ELSE Superseded(r, request[r].verified)

-----------------------------------------------------------------------------
(***************************************************************************)
(* Upstream's answers.                                                     *)
(***************************************************************************)
\* A 2xx: post's body is streamed and holds its place until it is closed,
\* unless there is no limit or the headers say the quota is used up.
Succeed(r) ==
  /\ request[r].pc = "send"
  /\ \/ request[r].kind = "post" /\ Goes(r, [request[r] EXCEPT !.pc = "streaming"])
     \/ Answer(r)
  /\ Noted(r) /\ UNCHANGED route

Close(r) == Step(r, "streaming") /\ Answer(r)

\* A 426, or another status that is the client's to deal with: after the
\* retry only a 426 is.
PassOn(r) == Step(r, "send") /\ request[r].kind = "post" /\ Answer(r)

\* No answer, 402, 403, 429, 5xx; after the retry any other status.
Refuse(r) ==
  /\ request[r].pc = "send"
  /\ Noted(r) /\ UNCHANGED route
  /\ CASE request[r].kind = "post"    -> Blame(r)
       [] request[r].kind = "models"  -> Release(r) \/ Blame(r)
       [] request[r].kind = "billing" -> Release(r)

Unauthorized(r) ==
  /\ Step(r, "send")
  /\ request[r].kind = "post" /\ ~request[r].retry
  /\ Goes(r, [request[r] EXCEPT !.pc = "recheck"])

\* Only a request whose record and route still stand may ask for a grant.
Recheck(r) ==
  LET latest == Latest(r)
  IN /\ Step(r, "recheck")
     /\ IF ~latest.there THEN Release(r)
        ELSE IF /\ latest.enabled
                /\ latest.revision = request[r].verified.revision
                /\ route = request[r].after
        THEN Goes(r, [request[r] EXCEPT !.pc = "force", !.retry = TRUE])
        ELSE Superseded(r, latest)

-----------------------------------------------------------------------------
(***************************************************************************)
(* Everything else that writes records and settings.                       *)
(***************************************************************************)
Change(c, credential) == Patch(c, credential) /\ UNCHANGED <<route, request, reserved>>

\* Health, last use, priority: any PatchCredential.
Touch(c) == Change(c, Bumped(stored[c]))

\* An import, a device login, somebody else's rotation.
ReplaceTokens(c, token) ==
  Change(c, [Bumped(stored[c]) EXCEPT !.token = token])

SetEnabled(c, enabled) ==
  Change(c, [Bumped(stored[c]) EXCEPT !.enabled = enabled])

DeleteCredential(c) ==
  Change(c, [Bumped(stored[c]) EXCEPT !.there = FALSE])

\* PUT /settings: the manager's revision and the clients change together.
UpdateSettings ==
  /\ changes < MaxChanges
  /\ changes' = changes + 1
  /\ route' = route + 1
  /\ UNCHANGED <<stored, request, reserved>>

-----------------------------------------------------------------------------
Init ==
  /\ \E token \in [Creds -> Tokens], enabled \in [Creds -> BOOLEAN] :
       stored = [c \in Creds |-> [there |-> TRUE, revision |-> 1,
                                 token |-> token[c], enabled |-> enabled[c]]]
  /\ route = 1
  /\ request = [r \in Requests |-> Idle]
  /\ reserved = [c \in Creds |-> 0]
  /\ changes = 0

Serve(r) ==
  \/ \E candidates \in SUBSET Creds : Begin(r, candidates)
  \/ BeginModels(r)
  \/ \E c \in Creds : BeginBilling(r, c) \/ Pick(r, c)
  \/ GiveUp(r) \/ Load(r)
  \/ \E token \in Tokens : GetToken(r, token) \/ Rotate(r, token)
  \/ TokenInvalidated(r) \/ EnsureFails(r) \/ Reread(r) \/ RefreshFails(r)
  \/ Bind(r) \/ ReadRouteBefore(r) \/ Resolve(r) \/ ResolveFails(r)
  \/ ReadRouteAfter(r) \/ Verify(r) \/ Decide(r)
  \/ Succeed(r) \/ Close(r) \/ PassOn(r) \/ Refuse(r) \/ Unauthorized(r) \/ Recheck(r)

Next ==
  \/ \E r \in Requests : Serve(r)
  \/ \E c \in Creds : \/ Touch(c) \/ DeleteCredential(c)
                      \/ \E token \in Tokens : ReplaceTokens(c, token)
                      \/ \E enabled \in BOOLEAN : SetEnabled(c, enabled)
  \/ UpdateSettings

Spec == Init /\ [][Next]_vars

-----------------------------------------------------------------------------
(***************************************************************************)
(* Properties.                                                             *)
(***************************************************************************)
\* Records, requests and the places taken have the shape the code gives them,
\* and a request never makes more than MaxAttempts attempts.
TypeOK ==
  /\ stored \in [Creds -> Credential]
  /\ route \in Nat
  /\ request \in [Requests -> Request]
  /\ reserved \in [Creds -> Nat]
  /\ changes \in 0..MaxChanges

\* The reads before a send are a snapshot: at the last look at the record, all
\* that goes out together (the token, the record the client was built for, the
\* route it was built for) was what was stored then, for a credential in use.
\* The code reads the four one after the other while settings, imports and
\* rotations change them, and on the retry after a 401 looks once less.
SentAsStored ==
  \A r \in Requests :
    LET req == request[r]
    IN req.pc = "send" =>
         /\ req.client = req.seen
         /\ req.bound = req.verified
         /\ req.token = req.verified.token
         /\ req.verified.there
         /\ req.verified.enabled \/ req.kind = "billing"

Holders(c) == {r \in Requests : Holds(request[r]) /\ request[r].cred = c}

\* Whichever way an attempt ends (a stream is closed, a record is gone, a
\* token invalidated, a status passed on), its place in the selector is given
\* back once: the places taken are those of attempts under way.
PlacesReturned == \A c \in Creds : reserved[c] = Cardinality(Holders(c))

\* A request that has blamed a credential for a failure does not go back to it
\* in a later attempt, while one that merely was overtaken may be tried again.
BlamedNotRetried ==
  \A r \in Requests : request[r].pc \in Attempting => request[r].cred \notin request[r].blamed
=============================================================================
