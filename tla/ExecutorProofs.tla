--------------------------- MODULE ExecutorProofs ---------------------------
(***************************************************************************)
(* What a request sends was stored together, and every place it takes in   *)
(* the selector is given back, for any credentials, requests, tokens,      *)
(* attempts and changes of records and settings.                           *)
(***************************************************************************)
EXTENDS Executor, FiniteSetTheorems, TLAPS

-----------------------------------------------------------------------------
(***************************************************************************)
(* The invariant: one request against the records and the route.           *)
(***************************************************************************)
\* From binding to sending, the bound record fits the token, and it still is
\* the stored one if its revision is.
Fits(req, records) ==
  req.pc \in {"before", "resolve", "after", "verify", "decide", "send"} =>
    /\ req.bound \in Credential
    /\ req.bound.there
    /\ req.bound.enabled \/ req.kind = "billing"
    /\ req.bound.token = req.token
    /\ req.bound.revision <= records[req.cred].revision
    /\ req.bound.revision = records[req.cred].revision => req.bound = records[req.cred]

\* The reads of the route are in the order in which they were made.
Routed(req, now) ==
  /\ req.pc \in {"resolve", "after", "verify", "decide"} => req.before <= now
  /\ req.pc \in {"after", "verify", "decide"} => req.before <= req.client /\ req.client <= now
  /\ req.pc = "decide" => req.client <= req.seen /\ req.seen <= now

\* The record read last is the bound one if its revision is.
Checked(req) ==
  /\ req.pc = "decide" =>
       /\ req.verified \in Credential
       /\ req.verified.revision = req.bound.revision => req.verified = req.bound
  /\ req.pc = "send" => req.client = req.seen /\ req.bound = req.verified

\* What keeps a request off a credential it has blamed: the credential stays tried.
Blames(req) ==
  /\ req.blamed \subseteq req.tried
  /\ req.pc \in Attempting => req.cred \notin req.blamed
  /\ req.pc \in Attempting /\ req.kind # "billing" => req.cred \in req.tried
  /\ req.pc \in Attempting \cup {"streaming"} => req.cred \in Creds
  /\ req.pc = "pick" => req.kind # "billing"

Good(req, records, now) ==
  req \in Request /\ Fits(req, records) /\ Routed(req, now) /\ Checked(req) /\ Blames(req)

Stored == stored \in [Creds -> Credential] /\ route \in Nat /\ changes \in 0..MaxChanges

Serving == request \in [Requests -> Request] /\ \A r \in Requests : Good(request[r], stored, route)

Places == reserved \in [Creds -> Nat] /\ PlacesReturned

Inv == Stored /\ Serving /\ Places

-----------------------------------------------------------------------------
(***************************************************************************)
(* Records and settings only move on to new revisions.                     *)
(***************************************************************************)
Advances ==
  /\ stored' \in [Creds -> Credential] /\ route' \in Nat /\ changes' \in 0..MaxChanges
  /\ route <= route'
  /\ \A c \in Creds : /\ stored[c].revision <= stored'[c].revision
                      /\ stored[c].revision = stored'[c].revision => stored[c] = stored'[c]

LEMMA StillAdvances ==
  ASSUME Stored, UNCHANGED <<stored, route, changes>>
  PROVE  Advances
<1>1. \A c \in Creds : stored[c].revision \in Nat
  BY DEF Stored, Credential
<1> QED
  BY <1>1 DEF Stored, Advances

LEMMA PatchAdvances ==
  ASSUME Stored, NEW c \in Creds, NEW credential \in Credential,
         credential.revision = stored[c].revision + 1, Patch(c, credential), UNCHANGED route
  PROVE  Advances
<1>1. stored' \in [Creds -> Credential]
  BY DEF Stored, Patch
<1>2. changes' \in 0..MaxChanges
  BY ConstantsOK DEF Stored, Patch
<1>3. \A d \in Creds : stored[d].revision \in Nat
  BY DEF Stored, Credential
<1>4. \A d \in Creds : stored'[d] = IF d = c THEN credential ELSE stored[d]
  BY DEF Stored, Patch
<1>5. stored[c].revision < stored'[c].revision
  BY <1>3, <1>4
<1> QED
  BY <1>1, <1>2, <1>3, <1>4, <1>5 DEF Stored, Advances

LEMMA BumpedType ==
  ASSUME NEW credential \in Credential
  PROVE  /\ Bumped(credential) \in Credential
         /\ Bumped(credential).revision = credential.revision + 1
BY DEF Bumped, Credential

LEMMA RotatedType ==
  ASSUME NEW credential \in Credential, NEW token \in Tokens
  PROVE  /\ [credential EXCEPT !.token = token] \in Credential
         /\ [credential EXCEPT !.token = token].revision = credential.revision
BY DEF Credential

LEMMA EnabledType ==
  ASSUME NEW credential \in Credential, NEW enabled \in BOOLEAN
  PROVE  /\ [credential EXCEPT !.enabled = enabled] \in Credential
         /\ [credential EXCEPT !.enabled = enabled].revision = credential.revision
BY DEF Credential

LEMMA DeletedType ==
  ASSUME NEW credential \in Credential
  PROVE  /\ [credential EXCEPT !.there = FALSE] \in Credential
         /\ [credential EXCEPT !.there = FALSE].revision = credential.revision
BY DEF Credential

\* A request that does not move keeps its part of the invariant.
LEMMA GoodStays ==
  ASSUME Stored, Advances, NEW req, Good(req, stored, route)
  PROVE  Good(req, stored', route')
<1>1. req \in Request /\ Checked(req) /\ Blames(req)
  BY DEF Good
<1>2. Fits(req, stored')
  <2> SUFFICES ASSUME req.pc \in {"before", "resolve", "after", "verify", "decide", "send"}
               PROVE  Fits(req, stored')
    BY DEF Fits
  <2>1. req.cred \in Creds
    BY <1>1 DEF Blames, Attempting
  <2>2. /\ req.bound \in Credential
        /\ req.bound.revision <= stored[req.cred].revision
        /\ req.bound.revision = stored[req.cred].revision => req.bound = stored[req.cred]
    BY DEF Good, Fits
  <2>3. /\ req.bound.revision \in Nat
        /\ stored[req.cred].revision \in Nat
        /\ stored'[req.cred].revision \in Nat
    BY <2>1, <2>2 DEF Stored, Advances, Credential
  <2>4. /\ stored[req.cred].revision <= stored'[req.cred].revision
        /\ stored[req.cred].revision = stored'[req.cred].revision
             => stored[req.cred] = stored'[req.cred]
    BY <2>1 DEF Advances
  <2>5. /\ req.bound.revision <= stored'[req.cred].revision
        /\ req.bound.revision = stored'[req.cred].revision => req.bound = stored'[req.cred]
    BY <2>2, <2>3, <2>4
  <2> QED
    BY <2>5 DEF Good, Fits
<1>3. Routed(req, route')
  <2>1. req.before \in Nat /\ req.client \in Nat /\ req.seen \in Nat
    BY <1>1 DEF Request
  <2>2. route \in Nat /\ route' \in Nat /\ route <= route'
    BY DEF Stored, Advances
  <2> QED
    BY <2>1, <2>2 DEF Good, Routed
<1> QED
  BY <1>1, <1>2, <1>3 DEF Good

-----------------------------------------------------------------------------
(***************************************************************************)
(* Places in the selector.                                                 *)
(***************************************************************************)
\* The request goes on, with the place it has or without one.
KeepsPlace(r, req) ==
  /\ UNCHANGED reserved
  /\ Holds(req) <=> Holds(request[r])
  /\ Holds(req) => req.cred = request[r].cred

LEMMA HoldersFinite ==
  ASSUME NEW c \in Creds
  PROVE  IsFiniteSet(Holders(c)) /\ Cardinality(Holders(c)) \in Nat
<1>1. Holders(c) \in SUBSET Requests
  BY DEF Holders
<1> QED
  BY <1>1, ConstantsOK, FS_Subset, FS_CardinalityType

LEMMA PlaceKept ==
  ASSUME Places, request \in [Requests -> Request], NEW r \in Requests, NEW req,
         request' = [request EXCEPT ![r] = req], KeepsPlace(r, req)
  PROVE  Places'
<1>1. \A s \in Requests : request'[s] = IF s = r THEN req ELSE request[s]
  OBVIOUS
<1>2. ASSUME NEW c \in Creds PROVE Holders(c)' = Holders(c)
  BY <1>1 DEF Holders, KeepsPlace
<1> QED
  BY <1>2 DEF Places, PlacesReturned, KeepsPlace

LEMMA PlaceGivenBack ==
  ASSUME Places, request \in [Requests -> Request], NEW r \in Requests, NEW req,
         request' = [request EXCEPT ![r] = req], GiveBack(r), ~Holds(req),
         Holds(request[r]) => request[r].cred \in Creds
  PROVE  Places'
<1>1. \A s \in Requests : request'[s] = IF s = r THEN req ELSE request[s]
  OBVIOUS
<1>2. CASE ~Holds(request[r])
  <2>1. reserved' = reserved
    BY <1>2 DEF GiveBack, Places
  <2>2. ASSUME NEW c \in Creds PROVE Holders(c)' = Holders(c)
    BY <1>1, <1>2 DEF Holders
  <2> QED
    BY <2>1, <2>2 DEF Places, PlacesReturned
<1>3. ASSUME Holds(request[r]), NEW c \in Creds, c = request[r].cred PROVE Places'
  <2>1. \A d \in Creds : reserved'[d] = IF d = c THEN reserved[c] - 1 ELSE reserved[d]
    BY <1>3 DEF GiveBack, Places
  <2>2. reserved' = [d \in Creds |-> reserved'[d]]
    BY DEF GiveBack, Places
  <2>3. ASSUME NEW d \in Creds, d # c PROVE Holders(d)' = Holders(d)
    BY <1>1, <1>3, <2>3 DEF Holders
  <2>4. Holders(c)' = Holders(c) \ {r} /\ r \in Holders(c)
    BY <1>1, <1>3 DEF Holders
  <2>5. Cardinality(Holders(c)') = Cardinality(Holders(c)) - 1
    BY <2>4, HoldersFinite, FS_RemoveElement
  <2>6. \A d \in Creds : reserved'[d] = Cardinality(Holders(d)')
    BY <2>1, <2>3, <2>5 DEF Places, PlacesReturned
  <2>7. \A d \in Creds : Cardinality(Holders(d)) \in Nat
    BY HoldersFinite
  <2>8. Cardinality(Holders(c)') \in Nat
    <3>1. IsFiniteSet(Holders(c) \ {r})
      BY HoldersFinite, FS_RemoveElement
    <3> QED
      BY <2>4, <3>1, FS_CardinalityType
  <2>9. \A d \in Creds : reserved'[d] \in Nat
    BY <2>3, <2>6, <2>7, <2>8
  <2> QED
    BY <2>2, <2>6, <2>9 DEF Places, PlacesReturned
<1> QED
  BY <1>2, <1>3

LEMMA PlaceTaken ==
  ASSUME Places, request \in [Requests -> Request], NEW r \in Requests, NEW req,
         NEW c \in Creds, ~Holds(request[r]), Holds(req), req.cred = c,
         request' = [request EXCEPT ![r] = req], reserved' = [reserved EXCEPT ![c] = @ + 1]
  PROVE  Places'
<1>1. \A s \in Requests : request'[s] = IF s = r THEN req ELSE request[s]
  OBVIOUS
<1>2. reserved' \in [Creds -> Nat]
  BY DEF Places
<1>3. ASSUME NEW d \in Creds, d # c PROVE Holders(d)' = Holders(d)
  BY <1>1, <1>3 DEF Holders
<1>4. Holders(c)' = Holders(c) \cup {r} /\ r \notin Holders(c)
  BY <1>1 DEF Holders
<1>5. Cardinality(Holders(c)') = Cardinality(Holders(c)) + 1
  BY <1>4, HoldersFinite, FS_AddElement
<1> QED
  BY <1>2, <1>3, <1>5 DEF Places, PlacesReturned

-----------------------------------------------------------------------------
(***************************************************************************)
(* The ways a step leaves the request that takes it.                       *)
(***************************************************************************)
LEMMA Moved ==
  ASSUME Inv, Advances, Places', NEW r \in Requests, NEW req,
         request' = [request EXCEPT ![r] = req], Good(req, stored', route')
  PROVE  Inv'
<1>1. \A s \in Requests : request'[s] = IF s = r THEN req ELSE request[s]
  BY DEF Inv, Serving
<1>2. ASSUME NEW s \in Requests PROVE Good(request'[s], stored', route')
  <2>1. CASE s = r
    BY <1>1, <2>1
  <2>2. CASE s # r
    BY <1>1, <2>2, GoodStays DEF Inv, Serving
  <2> QED
    BY <2>1, <2>2
<1>3. request' \in [Requests -> Request]
  BY <1>2 DEF Inv, Serving, Good
<1>4. Stored' /\ Serving'
  BY <1>2, <1>3 DEF Stored, Serving, Advances
<1> QED
  BY <1>4 DEF Inv

LEMMA Went ==
  ASSUME Inv, Advances, NEW r \in Requests, NEW req, Goes(r, req),
         Good(req, stored', route'),
         Holds(req) <=> Holds(request[r]), Holds(req) => req.cred = request[r].cred
  PROVE  Inv'
<1>1. Places'
  BY PlaceKept DEF Goes, KeepsPlace, Inv, Serving
<1> QED
  BY <1>1, Moved DEF Goes

LEMMA IdleGood ==
  \A records, now : Good(Idle, records, now) /\ ~Holds(Idle)
<1>1. Idle \in Request
  BY ConstantsOK DEF Idle, Request, Stages, Kinds
<1>2. Idle.pc = "idle" /\ Idle.blamed = {} /\ Idle.tried = {}
  BY DEF Idle
<1> QED
  BY <1>1, <1>2 DEF Good, Fits, Routed, Checked, Blames, Holds, Attempting

LEMMA NextGood ==
  ASSUME NEW r \in Requests, request[r] \in Request,
         NEW tried \in SUBSET Creds, NEW blamed \in SUBSET Creds,
         request[r].kind # "billing" => blamed \subseteq tried
  PROVE  \A records, now : /\ Good(NextAttempt(r, tried, blamed), records, now)
                           /\ ~Holds(NextAttempt(r, tried, blamed))
<1> DEFINE next == NextAttempt(r, tried, blamed)
<1>1. CASE request[r].kind = "billing"
  BY <1>1, IdleGood DEF NextAttempt
<1>2. CASE request[r].kind # "billing"
  <2>1. next = [pc |-> "pick", kind |-> request[r].kind, cred |-> None,
                attempts |-> request[r].attempts, candidates |-> request[r].candidates,
                tried |-> tried, blamed |-> blamed, retry |-> FALSE,
                token |-> None, bound |-> None,
                before |-> 0, client |-> 0, after |-> 0, verified |-> None, seen |-> 0]
    BY <1>2 DEF NextAttempt, Idle
  <2>2. next \in Request
    BY <2>1 DEF Request, Stages
  <2>3. next.pc = "pick" /\ next.blamed \subseteq next.tried /\ next.kind # "billing"
    BY <1>2, <2>1
  <2> HIDE DEF next
  <2>4. \A records, now : Good(next, records, now) /\ ~Holds(next)
    BY <2>2, <2>3 DEF Good, Fits, Routed, Checked, Blames, Holds, Attempting
  <2> QED
    BY <2>4 DEF next
<1> QED
  BY <1>1, <1>2

\* An attempt ends.
LEMMA Left ==
  ASSUME Inv, Advances, NEW r \in Requests, request[r].pc \in Attempting \cup {"streaming"},
         \/ Release(r) \/ Answer(r)
         \/ request[r].pc \in Attempting /\ (Restart(r) \/ Blame(r))
  PROVE  Inv'
<1>1. /\ request \in [Requests -> Request] /\ request[r] \in Request
      /\ Good(request[r], stored, route) /\ Places
  BY DEF Inv, Serving
<1>2. /\ request[r].tried \in SUBSET Creds /\ request[r].blamed \in SUBSET Creds
      /\ request[r].blamed \subseteq request[r].tried /\ request[r].cred \in Creds
  BY <1>1 DEF Good, Blames, Request
<1>3. ASSUME NEW req, request' = [request EXCEPT ![r] = req], GiveBack(r),
             \A records, now : Good(req, records, now) /\ ~Holds(req)
      PROVE  Inv'
  BY <1>1, <1>2, <1>3, PlaceGivenBack, Moved
<1>4. CASE Release(r)
  BY <1>1, <1>2, <1>3, <1>4, NextGood DEF Release
<1>5. CASE Answer(r)
  BY <1>3, <1>5, IdleGood DEF Answer
<1>6. CASE request[r].pc \in Attempting /\ Restart(r)
  <2>1. request[r].blamed \subseteq request[r].tried \ {request[r].cred}
    BY <1>1, <1>2, <1>6 DEF Good, Blames
  <2> QED
    BY <1>1, <1>2, <1>3, <1>6, <2>1, NextGood DEF Restart
<1>7. CASE request[r].pc \in Attempting /\ Blame(r)
  <2>1. request[r].kind # "billing"
          => request[r].blamed \cup {request[r].cred} \subseteq request[r].tried
    BY <1>1, <1>2, <1>7 DEF Good, Blames
  <2> QED
    BY <1>1, <1>2, <1>3, <1>7, <2>1, NextGood DEF Blame
<1> QED
  BY <1>4, <1>5, <1>6, <1>7

-----------------------------------------------------------------------------
(***************************************************************************)
(* Every step keeps the invariant: the start and the choice of a           *)
(* credential.                                                             *)
(***************************************************************************)
LEMMA Known ==
  ASSUME Inv, NEW r \in Requests
  PROVE  /\ request[r] \in Request
         /\ Good(request[r], stored, route)
         /\ Stored /\ Places /\ request \in [Requests -> Request]
BY DEF Inv, Serving

LEMMA StepAdvances ==
  ASSUME Inv, NEW r \in Requests, NEW pc, Step(r, pc)
  PROVE  Advances /\ request[r].pc = pc /\ UNCHANGED <<stored, route, changes>>
BY StillAdvances DEF Step, Inv

LEMMA Started ==
  ASSUME Inv, NEW r \in Requests,
         \/ \E candidates \in SUBSET Creds : Begin(r, candidates)
         \/ BeginModels(r) \/ GiveUp(r)
         \/ \E c \in Creds : BeginBilling(r, c)
  PROVE  Inv'
<1>1. request[r] \in Request
  BY Known
<1>2. ASSUME NEW candidates \in SUBSET Creds, Begin(r, candidates) PROVE Inv'
  <2> DEFINE req == [Idle EXCEPT !.pc = "pick", !.candidates = candidates]
  <2>1. req \in Request /\ req.pc = "pick" /\ req.blamed = {} /\ req.kind # "billing"
    BY IdleGood DEF Good, Request, Stages, Idle
  <2>2. Advances /\ request[r].pc = "idle" /\ Goes(r, req)
    BY <1>2, StepAdvances DEF Begin
  <2> HIDE DEF req
  <2>3. Good(req, stored', route') /\ ~Holds(req) /\ ~Holds(request[r])
    BY <2>1, <2>2 DEF Good, Fits, Routed, Checked, Blames, Holds, Attempting
  <2> QED
    BY <2>2, <2>3, Went
<1>3. CASE BeginModels(r)
  <2> DEFINE req == [Idle EXCEPT !.pc = "pick", !.kind = "models"]
  <2>1. req \in Request /\ req.pc = "pick" /\ req.blamed = {} /\ req.kind # "billing"
    BY IdleGood DEF Good, Request, Stages, Kinds, Idle
  <2>2. Advances /\ request[r].pc = "idle" /\ Goes(r, req)
    BY <1>3, StepAdvances DEF BeginModels
  <2> HIDE DEF req
  <2>3. Good(req, stored', route') /\ ~Holds(req) /\ ~Holds(request[r])
    BY <2>1, <2>2 DEF Good, Fits, Routed, Checked, Blames, Holds, Attempting
  <2> QED
    BY <2>2, <2>3, Went
<1>4. ASSUME NEW c \in Creds, BeginBilling(r, c) PROVE Inv'
  <2> DEFINE req == [Idle EXCEPT !.pc = "ensure", !.kind = "billing", !.cred = c]
  <2>1. /\ req \in Request /\ req.pc = "ensure" /\ req.blamed = {} /\ req.cred \in Creds
        /\ req.kind = "billing"
    BY IdleGood DEF Good, Request, Stages, Kinds, Attempting, Idle
  <2>2. Advances /\ request[r].pc = "idle" /\ Goes(r, req)
    BY <1>4, StepAdvances DEF BeginBilling
  <2> HIDE DEF req
  <2>3. Good(req, stored', route') /\ ~Holds(req) /\ ~Holds(request[r])
    BY <2>1, <2>2 DEF Good, Fits, Routed, Checked, Blames, Holds, Attempting
  <2> QED
    BY <2>2, <2>3, Went
<1>5. CASE GiveUp(r)
  <2>1. Advances /\ request[r].pc = "pick" /\ Goes(r, Idle)
    BY <1>5, StepAdvances DEF GiveUp
  <2>2. ~Holds(request[r])
    BY <2>1 DEF Holds, Attempting
  <2> QED
    BY <2>1, <2>2, IdleGood, Went
<1> QED
  BY <1>2, <1>3, <1>4, <1>5

LEMMA Picked ==
  ASSUME Inv, NEW r \in Requests, NEW c \in Creds, Pick(r, c)
  PROVE  Inv'
<1> DEFINE old == request[r]
           req == [old EXCEPT !.pc = IF old.kind = "models" THEN "ensure" ELSE "load",
                              !.cred = c, !.attempts = @ + 1, !.tried = @ \cup {c}]
<1>1. old \in Request /\ Good(old, stored, route) /\ Places /\ request \in [Requests -> Request]
  BY Known
<1>2. Advances /\ old.pc = "pick" /\ UNCHANGED <<stored, route>>
  BY StepAdvances DEF Pick
<1>3. c \notin old.tried /\ old.attempts < MaxAttempts
  BY DEF Pick, AttemptsLeft
<1>4. /\ request' = [request EXCEPT ![r] = req]
      /\ reserved' = [reserved EXCEPT ![c] = @ + 1]
  BY <1>1 DEF Pick
<1>5. old.attempts + 1 \in 0..MaxAttempts
  BY <1>1, <1>3, ConstantsOK DEF Request
<1>6. req \in Request
  <2>1. (IF old.kind = "models" THEN "ensure" ELSE "load") \in Stages
    BY DEF Stages, Attempting
  <2>2. old.tried \cup {c} \in SUBSET Creds /\ c \in Creds \cup {None}
    BY <1>1 DEF Request
  <2> QED
    BY <1>1, <1>5, <2>1, <2>2 DEF Request
<1>7. /\ req.pc \in {"ensure", "load"} /\ req.cred = c /\ req.tried = old.tried \cup {c}
      /\ req.blamed = old.blamed /\ req.kind = old.kind
  BY <1>1 DEF Request
<1>8. old.blamed \subseteq old.tried
  BY <1>1 DEF Good, Blames
<1> HIDE DEF req
<1>9. Good(req, stored', route')
  BY <1>3, <1>6, <1>7, <1>8 DEF Good, Fits, Routed, Checked, Blames, Attempting
<1>10. ~Holds(request[r]) /\ Holds(req)
  BY <1>1, <1>2, <1>7 DEF Holds, Attempting, Good, Blames
<1>11. Places'
  BY <1>1, <1>4, <1>7, <1>10, PlaceTaken
<1> QED
  BY <1>2, <1>4, <1>9, <1>11, Moved

-----------------------------------------------------------------------------
(***************************************************************************)
(* Tokens.                                                                 *)
(***************************************************************************)
Attends(r, req) ==
  /\ request[r].pc \in Attempting /\ req.pc \in Attempting
  /\ req.kind = request[r].kind /\ req.cred = request[r].cred
  /\ req.tried = request[r].tried /\ req.blamed = request[r].blamed

\* An attempt that goes on keeps its place and its marks.
LEMMA Attended ==
  ASSUME Inv, Advances, NEW r \in Requests, NEW req \in Request, Goes(r, req), Attends(r, req),
         Fits(req, stored'), Routed(req, route'), Checked(req)
  PROVE  Inv'
<1>1. Good(request[r], stored, route)
  BY Known
<1>2. Blames(req)
  BY <1>1 DEF Good, Blames, Attends, Attempting
<1>3. Holds(req) <=> Holds(request[r])
  BY DEF Holds, Attends
<1> QED
  BY <1>2, <1>3, Went DEF Good, Attends

\* Before binding and after sending nothing is claimed of the attempt.
LEMMA Unbound ==
  ASSUME Inv, Advances, NEW r \in Requests, NEW req \in Request, Goes(r, req), Attends(r, req),
         req.pc \notin {"before", "resolve", "after", "verify", "decide", "send"}
  PROVE  Inv'
BY Attended DEF Fits, Routed, Checked

LEMMA LoadKeeps == ASSUME Inv, NEW r \in Requests, Load(r) PROVE Inv'
<1> DEFINE req == [request[r] EXCEPT !.pc = "ensure", !.bound = Latest(r)]
<1>1. Advances /\ request[r].pc = "load"
  BY StepAdvances DEF Load
<1>2. CASE Goes(r, req)
  <2>1. request[r] \in Request /\ Latest(r) \in Credential
    BY <1>1, Known DEF Good, Blames, Attempting, Stored, Latest
  <2>2. req \in Request /\ Attends(r, req) /\ req.pc = "ensure"
    BY <1>1, <2>1 DEF Request, Attends, Stages, Attempting
  <2> QED
    BY <1>1, <1>2, <2>2, Unbound
<1>3. CASE Release(r)
  BY <1>1, <1>3, Left DEF Attempting
<1> QED
  BY <1>2, <1>3 DEF Load

LEMMA TokenKeeps ==
  ASSUME Inv, NEW r \in Requests, NEW token \in Tokens, GetToken(r, token) \/ Rotate(r, token)
  PROVE  Inv'
<1> DEFINE req == [request[r] EXCEPT !.pc = Obtained(r), !.token = token]
<1>1. /\ request[r] \in Request /\ Good(request[r], stored, route) /\ Stored
      /\ request[r].pc \in {"ensure", "force"} /\ Goes(r, req)
  BY Known DEF GetToken, Rotate, Step
<1>2. request[r].cred \in Creds
  BY <1>1 DEF Good, Blames, Attempting
<1>3. Advances
  <2>1. CASE GetToken(r, token)
    BY <2>1, StepAdvances DEF GetToken
  <2>2. CASE Rotate(r, token)
    <3> DEFINE latest == stored[request[r].cred]
               rotated == [Bumped(latest) EXCEPT !.token = token]
    <3>1. latest \in Credential
      BY <1>1, <1>2 DEF Stored
    <3>2. rotated \in Credential /\ rotated.revision = latest.revision + 1
      BY <3>1, BumpedType, RotatedType
    <3> QED
      BY <1>1, <1>2, <2>2, <3>2, PatchAdvances DEF Rotate, Latest
  <2> QED
    BY <2>1, <2>2
<1>4. req \in Request /\ Attends(r, req) /\ req.pc \in {"bind", "rebind"}
  BY <1>1 DEF Request, Attends, Stages, Attempting, Obtained
<1> QED
  BY <1>1, <1>3, <1>4, Unbound

\* An attempt that ends on a token.
LEMMA TokenFailureKeeps ==
  ASSUME Inv, NEW r \in Requests,
         TokenInvalidated(r) \/ Reread(r) \/ RefreshFails(r)
  PROVE  Inv'
<1>1. Advances /\ request[r].pc \in {"ensure", "force", "reread"}
  BY StepAdvances DEF TokenInvalidated, Reread, RefreshFails
<1>2. Restart(r) \/ Blame(r)
  BY DEF TokenInvalidated, Reread, RefreshFails
<1> QED
  BY <1>1, <1>2, Left DEF Attempting

LEMMA EnsureFailureKeeps == ASSUME Inv, NEW r \in Requests, EnsureFails(r) PROVE Inv'
<1> DEFINE req == [request[r] EXCEPT !.pc = "reread"]
<1>1. Advances /\ request[r].pc = "ensure" /\ request[r] \in Request
  BY StepAdvances, Known DEF EnsureFails
<1>2. request[r].kind \in {"post", "models", "billing"}
  BY <1>1 DEF Request, Kinds
<1>3. CASE Goes(r, req)
  <2>1. req \in Request /\ Attends(r, req) /\ req.pc = "reread"
    BY <1>1 DEF Request, Attends, Stages, Attempting
  <2> QED
    BY <1>1, <1>3, <2>1, Unbound
<1>4. CASE Release(r) \/ Blame(r)
  BY <1>1, <1>4, Left DEF Attempting
<1> QED
  BY <1>2, <1>3, <1>4 DEF EnsureFails

\* A record that no longer is what the attempt was based on ends it.
LEMMA SupersededKeeps ==
  ASSUME Inv, Advances, NEW r \in Requests, request[r].pc \in Attempting,
         NEW latest, Superseded(r, latest)
  PROVE  Inv'
BY Left DEF Superseded

LEMMA BindKeeps == ASSUME Inv, NEW r \in Requests, Bind(r) PROVE Inv'
<1> DEFINE req == [request[r] EXCEPT !.pc = "before", !.bound = Latest(r)]
<1>1. /\ Advances /\ request[r].pc \in {"bind", "rebind"} /\ request[r] \in Request
      /\ UNCHANGED <<stored, route>>
  BY StepAdvances, Known DEF Bind
<1>2. CASE Usable(r, Latest(r)) /\ Goes(r, req)
  <2>1. Latest(r) \in Credential /\ Latest(r) = stored[request[r].cred]
    BY <1>1, Known DEF Good, Blames, Attempting, Stored, Latest
  <2>2. /\ req \in Request /\ Attends(r, req) /\ req.pc = "before"
        /\ req.bound = Latest(r) /\ req.token = request[r].token
    BY <1>1, <2>1 DEF Request, Attends, Stages, Attempting
  <2>3. Latest(r).revision \in Nat
    BY <2>1 DEF Credential
  <2> HIDE DEF req
  <2>4. Fits(req, stored')
    BY <1>1, <1>2, <2>1, <2>2, <2>3 DEF Fits, Usable, Attends
  <2>5. Routed(req, route') /\ Checked(req)
    BY <2>2 DEF Routed, Checked
  <2> QED
    BY <1>1, <1>2, <2>2, <2>4, <2>5, Attended DEF req
<1>3. CASE Superseded(r, Latest(r))
  BY <1>1, <1>3, SupersededKeeps DEF Attempting
<1> QED
  BY <1>2, <1>3 DEF Bind

-----------------------------------------------------------------------------
(***************************************************************************)
(* The route and the last look at the record.                              *)
(***************************************************************************)
LEMMA ReadBeforeKeeps == ASSUME Inv, NEW r \in Requests, ReadRouteBefore(r) PROVE Inv'
<1> DEFINE req == [request[r] EXCEPT !.pc = "resolve", !.before = route]
<1>1. /\ Advances /\ request[r].pc = "before" /\ request[r] \in Request /\ route \in Nat
      /\ Good(request[r], stored, route) /\ UNCHANGED <<stored, route>> /\ Goes(r, req)
  BY StepAdvances, Known DEF ReadRouteBefore, Stored
<1>2. /\ req \in Request /\ Attends(r, req) /\ req.pc = "resolve" /\ req.before = route
      /\ req.bound = request[r].bound /\ req.token = request[r].token
  BY <1>1 DEF Request, Attends, Stages, Attempting
<1> HIDE DEF req
<1>3. Fits(req, stored') /\ Routed(req, route') /\ Checked(req)
  BY <1>1, <1>2 DEF Good, Fits, Routed, Checked, Attends
<1> QED
  BY <1>1, <1>2, <1>3, Attended

LEMMA ResolveKeeps == ASSUME Inv, NEW r \in Requests, Resolve(r) PROVE Inv'
<1> DEFINE req == [request[r] EXCEPT !.pc = IF request[r].retry THEN "verify" ELSE "after",
                                     !.client = route, !.after = request[r].before]
<1>1. /\ Advances /\ request[r].pc = "resolve" /\ request[r] \in Request /\ route \in Nat
      /\ Good(request[r], stored, route) /\ UNCHANGED <<stored, route>> /\ Goes(r, req)
  BY StepAdvances, Known DEF Resolve, Stored
<1>2. /\ req \in Request /\ Attends(r, req) /\ req.pc \in {"verify", "after"}
      /\ req.before = request[r].before /\ req.client = route
      /\ req.bound = request[r].bound /\ req.token = request[r].token
  <2>1. (IF request[r].retry THEN "verify" ELSE "after") \in {"verify", "after"}
    OBVIOUS
  <2> QED
    BY <1>1, <2>1 DEF Request, Attends, Stages, Attempting
<1> HIDE DEF req
<1>3. Fits(req, stored') /\ Routed(req, route') /\ Checked(req)
  BY <1>1, <1>2 DEF Good, Fits, Routed, Checked, Attends
<1> QED
  BY <1>1, <1>2, <1>3, Attended

LEMMA ResolveFailsKeeps == ASSUME Inv, NEW r \in Requests, ResolveFails(r) PROVE Inv'
<1>1. Advances /\ request[r].pc = "resolve"
  BY StepAdvances DEF ResolveFails
<1> QED
  BY <1>1, Left DEF ResolveFails, Attempting

LEMMA ReadAfterKeeps == ASSUME Inv, NEW r \in Requests, ReadRouteAfter(r) PROVE Inv'
<1> DEFINE req == [request[r] EXCEPT !.pc = "verify", !.after = route]
<1>1. /\ Advances /\ request[r].pc = "after" /\ request[r] \in Request /\ route \in Nat
      /\ Good(request[r], stored, route) /\ UNCHANGED <<stored, route>> /\ Goes(r, req)
  BY StepAdvances, Known DEF ReadRouteAfter, Stored
<1>2. /\ req \in Request /\ Attends(r, req) /\ req.pc = "verify"
      /\ req.before = request[r].before /\ req.client = request[r].client
      /\ req.bound = request[r].bound /\ req.token = request[r].token
  BY <1>1 DEF Request, Attends, Stages, Attempting
<1> HIDE DEF req
<1>3. Fits(req, stored') /\ Routed(req, route') /\ Checked(req)
  BY <1>1, <1>2 DEF Good, Fits, Routed, Checked, Attends
<1> QED
  BY <1>1, <1>2, <1>3, Attended

\* What is read last is no older than what the attempt is bound to.
LEMMA VerifyKeeps == ASSUME Inv, NEW r \in Requests, Verify(r) PROVE Inv'
<1> DEFINE req == [request[r] EXCEPT !.pc = "decide", !.verified = Latest(r), !.seen = route]
<1>1. /\ Advances /\ request[r].pc = "verify" /\ request[r] \in Request /\ route \in Nat
      /\ Good(request[r], stored, route) /\ UNCHANGED <<stored, route>> /\ Goes(r, req)
  BY StepAdvances, Known DEF Verify, Stored
<1>2. Latest(r) \in Credential /\ Latest(r) = stored[request[r].cred]
  BY <1>1, Known DEF Good, Blames, Attempting, Stored, Latest
<1>3. /\ req \in Request /\ Attends(r, req) /\ req.pc = "decide"
      /\ req.before = request[r].before /\ req.client = request[r].client
      /\ req.bound = request[r].bound /\ req.token = request[r].token
      /\ req.verified = stored[request[r].cred] /\ req.seen = route
  BY <1>1, <1>2 DEF Request, Attends, Stages, Attempting
<1> HIDE DEF req
<1>4. Fits(req, stored')
  BY <1>1, <1>3 DEF Good, Fits, Attends
<1>5. Routed(req, route')
  BY <1>1, <1>3 DEF Good, Routed
<1>6. Checked(req)
  BY <1>1, <1>2, <1>3 DEF Good, Fits, Checked, Attends
<1> QED
  BY <1>1, <1>3, <1>4, <1>5, <1>6, Attended

\* The same revision before and after is that of the client built between.
LEMMA DecideKeeps == ASSUME Inv, NEW r \in Requests, Decide(r) PROVE Inv'
<1> DEFINE req == [request[r] EXCEPT !.pc = "send"]
<1>1. /\ Advances /\ request[r].pc = "decide" /\ request[r] \in Request /\ route \in Nat
      /\ Good(request[r], stored, route) /\ UNCHANGED <<stored, route>>
  BY StepAdvances, Known DEF Decide, Stored
<1>2. CASE Unchanged(r) /\ Goes(r, req)
  <2>1. /\ req \in Request /\ Attends(r, req) /\ req.pc = "send"
        /\ req.client = request[r].client /\ req.seen = request[r].seen
        /\ req.bound = request[r].bound /\ req.token = request[r].token
        /\ req.verified = request[r].verified
    BY <1>1 DEF Request, Attends, Stages, Attempting
  <2>2. /\ request[r].before \in Nat /\ request[r].client \in Nat /\ request[r].seen \in Nat
        /\ request[r].before <= request[r].client /\ request[r].client <= request[r].seen
        /\ request[r].seen <= route /\ request[r].before = route
    BY <1>1, <1>2 DEF Request, Good, Routed, Unchanged
  <2>3. request[r].client = request[r].seen
    BY <1>1, <2>2
  <2>4. request[r].bound = request[r].verified
    BY <1>1, <1>2 DEF Good, Checked, Unchanged
  <2> HIDE DEF req
  <2>5. Fits(req, stored')
    BY <1>1, <2>1 DEF Good, Fits, Attends
  <2>6. Routed(req, route') /\ Checked(req)
    BY <2>1, <2>3, <2>4 DEF Routed, Checked
  <2> QED
    BY <1>1, <1>2, <2>1, <2>5, <2>6, Attended DEF req
<1>3. CASE Superseded(r, request[r].verified)
  BY <1>1, <1>3, SupersededKeeps DEF Attempting
<1> QED
  BY <1>2, <1>3 DEF Decide

-----------------------------------------------------------------------------
(***************************************************************************)
(* Answers, and changes of records and settings.                           *)
(***************************************************************************)
LEMMA NotedAdvances ==
  ASSUME Inv, NEW r \in Requests, request[r].pc = "send", Noted(r), UNCHANGED route
  PROVE  Advances
<1> DEFINE c == request[r].cred
<1>1. c \in Creds /\ Stored
  BY Known DEF Good, Blames, Attempting
<1>2. CASE Patch(c, Bumped(stored[c]))
  <2>1. stored[c] \in Credential
    BY <1>1 DEF Stored
  <2> QED
    BY <1>1, <1>2, <2>1, BumpedType, PatchAdvances
<1>3. CASE UNCHANGED <<stored, changes>>
  BY <1>1, <1>3, StillAdvances
<1> QED
  BY <1>2, <1>3 DEF Noted

LEMMA SucceedKeeps == ASSUME Inv, NEW r \in Requests, Succeed(r) PROVE Inv'
<1> DEFINE req == [request[r] EXCEPT !.pc = "streaming"]
<1>1. Advances /\ request[r].pc = "send" /\ request[r] \in Request /\ Good(request[r], stored, route)
  BY NotedAdvances, Known DEF Succeed
<1>2. CASE request[r].kind = "post" /\ Goes(r, req)
  <2>1. /\ req \in Request /\ req.pc = "streaming" /\ req.cred = request[r].cred
        /\ req.kind = "post" /\ req.tried = request[r].tried /\ req.blamed = request[r].blamed
    BY <1>1, <1>2 DEF Request, Stages
  <2> HIDE DEF req
  <2>2. Good(req, stored', route')
    BY <1>1, <2>1 DEF Good, Fits, Routed, Checked, Blames, Attempting
  <2>3. Holds(req) /\ Holds(request[r])
    BY <1>1, <1>2, <2>1 DEF Holds, Attempting
  <2> QED
    BY <1>1, <1>2, <2>1, <2>2, <2>3, Went DEF req
<1>3. CASE Answer(r)
  BY <1>1, <1>3, Left DEF Attempting
<1> QED
  BY <1>2, <1>3 DEF Succeed

LEMMA RefuseKeeps == ASSUME Inv, NEW r \in Requests, Refuse(r) PROVE Inv'
<1>1. Advances /\ request[r].pc = "send" /\ request[r].kind \in Kinds
  BY NotedAdvances, Known DEF Refuse, Request
<1> QED
  BY <1>1, Left DEF Refuse, Kinds, Attempting

LEMMA AnswerKeeps == ASSUME Inv, NEW r \in Requests, Close(r) \/ PassOn(r) PROVE Inv'
<1>1. Advances /\ request[r].pc \in {"streaming", "send"} /\ Answer(r)
  BY StepAdvances DEF Close, PassOn
<1> QED
  BY <1>1, Left DEF Attempting

LEMMA UnauthorizedKeeps == ASSUME Inv, NEW r \in Requests, Unauthorized(r) PROVE Inv'
<1> DEFINE req == [request[r] EXCEPT !.pc = "recheck"]
<1>1. Advances /\ request[r].pc = "send" /\ request[r] \in Request /\ Goes(r, req)
  BY StepAdvances, Known DEF Unauthorized
<1>2. req \in Request /\ Attends(r, req) /\ req.pc = "recheck"
  BY <1>1 DEF Request, Attends, Stages, Attempting
<1> QED
  BY <1>1, <1>2, Unbound

LEMMA RecheckKeeps == ASSUME Inv, NEW r \in Requests, Recheck(r) PROVE Inv'
<1> DEFINE req == [request[r] EXCEPT !.pc = "force", !.retry = TRUE]
<1>1. Advances /\ request[r].pc = "recheck" /\ request[r] \in Request
  BY StepAdvances, Known DEF Recheck
<1>2. CASE Goes(r, req)
  <2>1. req \in Request /\ Attends(r, req) /\ req.pc = "force"
    BY <1>1 DEF Request, Attends, Stages, Attempting
  <2> QED
    BY <1>1, <1>2, <2>1, Unbound
<1>3. CASE Release(r)
  BY <1>1, <1>3, Left DEF Attempting
<1>4. CASE Superseded(r, Latest(r))
  BY <1>1, <1>4, SupersededKeeps DEF Attempting
<1> QED
  BY <1>2, <1>3, <1>4 DEF Recheck

\* Records and settings change under requests that stand still.
LEMMA OthersKeep ==
  ASSUME Inv, Advances, UNCHANGED <<request, reserved>>
  PROVE  Inv'
<1>1. \A r \in Requests : Good(request[r], stored', route')
  BY GoodStays DEF Inv, Serving
<1>2. \A c \in Creds : Holders(c)' = Holders(c)
  BY DEF Holders
<1> QED
  BY <1>1, <1>2 DEF Inv, Stored, Serving, Places, PlacesReturned, Advances

LEMMA ChangeKeeps ==
  ASSUME Inv, NEW c \in Creds,
         \/ Touch(c) \/ DeleteCredential(c)
         \/ \E token \in Tokens : ReplaceTokens(c, token)
         \/ \E enabled \in BOOLEAN : SetEnabled(c, enabled)
  PROVE  Inv'
<1>1. Stored /\ stored[c] \in Credential
  BY DEF Inv, Stored
<1>2. Bumped(stored[c]) \in Credential /\ Bumped(stored[c]).revision = stored[c].revision + 1
  BY <1>1, BumpedType
<1>3. ASSUME NEW credential \in Credential, credential.revision = stored[c].revision + 1,
             Change(c, credential)
      PROVE  Inv'
  BY <1>1, <1>3, PatchAdvances, OthersKeep DEF Change
<1>4. CASE Touch(c)
  BY <1>2, <1>3, <1>4 DEF Touch
<1>5. CASE DeleteCredential(c)
  BY <1>2, <1>3, <1>5, DeletedType DEF DeleteCredential
<1>6. ASSUME NEW token \in Tokens, ReplaceTokens(c, token) PROVE Inv'
  BY <1>2, <1>3, <1>6, RotatedType DEF ReplaceTokens
<1>7. ASSUME NEW enabled \in BOOLEAN, SetEnabled(c, enabled) PROVE Inv'
  BY <1>2, <1>3, <1>7, EnabledType DEF SetEnabled
<1> QED
  BY <1>4, <1>5, <1>6, <1>7

LEMMA SettingsKeep == ASSUME Inv, UpdateSettings PROVE Inv'
<1>1. route' \in Nat /\ route <= route' /\ changes' \in 0..MaxChanges
  BY ConstantsOK DEF UpdateSettings, Inv, Stored
<1>2. \A c \in Creds : stored[c].revision \in Nat
  BY DEF Inv, Stored, Credential
<1>3. stored' = stored /\ stored \in [Creds -> Credential]
  BY DEF UpdateSettings, Inv, Stored
<1>4. Advances
  BY <1>1, <1>2, <1>3 DEF Advances
<1> QED
  BY <1>4, OthersKeep DEF UpdateSettings

-----------------------------------------------------------------------------
LEMMA InitInv == Init => Inv
<1> SUFFICES ASSUME Init PROVE Inv
  OBVIOUS
<1>1. Stored
  <2>1. PICK token \in [Creds -> Tokens], enabled \in [Creds -> BOOLEAN] :
          stored = [c \in Creds |-> [there |-> TRUE, revision |-> 1,
                                    token |-> token[c], enabled |-> enabled[c]]]
    BY DEF Init
  <2>2. \A c \in Creds : stored[c] \in Credential
    BY <2>1 DEF Credential
  <2> QED
    BY <2>1, <2>2, ConstantsOK DEF Init, Stored
<1>2. Serving
  BY IdleGood DEF Init, Serving, Good
<1>3. \A c \in Creds : Holders(c) = {}
  BY IdleGood DEF Init, Holders
<1>4. Places
  BY <1>3, FS_EmptySet DEF Init, Places, PlacesReturned
<1> QED
  BY <1>1, <1>2, <1>4 DEF Inv

LEMMA StepInv == Inv /\ [Next]_vars => Inv'
<1> SUFFICES ASSUME Inv, [Next]_vars PROVE Inv'
  OBVIOUS
<1>1. ASSUME NEW r \in Requests, Serve(r) PROVE Inv'
  <2>1. CASE \/ \E candidates \in SUBSET Creds : Begin(r, candidates)
             \/ BeginModels(r) \/ GiveUp(r)
             \/ \E c \in Creds : BeginBilling(r, c)
    BY <2>1, Started
  <2>2. CASE \/ \E c \in Creds : Pick(r, c)
             \/ Load(r)
    BY <2>2, Picked, LoadKeeps
  <2>3. CASE \/ \E token \in Tokens : GetToken(r, token) \/ Rotate(r, token)
             \/ TokenInvalidated(r) \/ EnsureFails(r) \/ Reread(r) \/ RefreshFails(r)
             \/ Bind(r)
    BY <2>3, TokenKeeps, TokenFailureKeeps, EnsureFailureKeeps, BindKeeps
  <2>4. CASE \/ ReadRouteBefore(r) \/ Resolve(r) \/ ResolveFails(r)
             \/ ReadRouteAfter(r) \/ Verify(r) \/ Decide(r)
    BY <2>4, ReadBeforeKeeps, ResolveKeeps, ResolveFailsKeeps, ReadAfterKeeps, VerifyKeeps,
       DecideKeeps
  <2>5. CASE \/ Succeed(r) \/ Close(r) \/ PassOn(r) \/ Refuse(r)
             \/ Unauthorized(r) \/ Recheck(r)
    BY <2>5, SucceedKeeps, RefuseKeeps, AnswerKeeps, UnauthorizedKeeps, RecheckKeeps
  <2> QED
    BY <1>1, <2>1, <2>2, <2>3, <2>4, <2>5 DEF Serve
<1>2. ASSUME NEW c \in Creds,
             \/ Touch(c) \/ DeleteCredential(c)
             \/ \E token \in Tokens : ReplaceTokens(c, token)
             \/ \E enabled \in BOOLEAN : SetEnabled(c, enabled)
      PROVE  Inv'
  BY <1>2, ChangeKeeps
<1>3. CASE UpdateSettings
  BY <1>3, SettingsKeep
<1>4. CASE UNCHANGED vars
  BY <1>4, StillAdvances, OthersKeep DEF vars, Inv
<1> QED
  BY <1>1, <1>2, <1>3, <1>4 DEF Next

LEMMA Always == Spec => []Inv
BY InitInv, StepInv, PTL DEF Spec

\* executor.go: requests and the counts of reserved places keep their shape;
\* a count never goes below zero and no request makes more than MaxAttempts
\* attempts.
THEOREM TypeCorrect == Spec => []TypeOK
<1>1. Inv => TypeOK
  BY DEF Inv, Stored, Serving, Places, TypeOK
<1> QED
  BY <1>1, Always, PTL

\* The double look at record and route (executor.go:290 and :409) is a
\* snapshot: what is sent together was stored together.
THEOREM SendsSnapshots == Spec => []SentAsStored
<1>1. Inv => SentAsStored
  BY DEF Inv, Serving, Good, Fits, Checked, SentAsStored
<1> QED
  BY <1>1, Always, PTL

\* releaseSelection, markSuccess, markFailure and releaseOnClose together give
\* back every place once.
THEOREM NoPlaceLeaks == Spec => []PlacesReturned
<1>1. Inv => PlacesReturned
  BY DEF Inv, Places
<1> QED
  BY <1>1, Always, PTL

\* tried and the deletions from it keep a request off what it has blamed.
THEOREM BlameLasts == Spec => []BlamedNotRetried
<1>1. Inv => BlamedNotRetried
  BY DEF Inv, Serving, Good, Blames, BlamedNotRetried
<1> QED
  BY <1>1, Always, PTL
=============================================================================
