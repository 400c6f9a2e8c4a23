---------------------------- MODULE TokenRefresh ----------------------------
(***************************************************************************)
(* The life of the OAuth tokens of a credential: the in-process Refresher  *)
(* (internal/auth/refresh.go), the durable credential record it loads from *)
(* and persists to (internal/storage, through the callbacks built in       *)
(* internal/proxy/executor.go), the requests that ask it for tokens, the   *)
(* admin operations that replace, retire or delete tokens around it, and   *)
(* the OAuth provider, whose refresh tokens rotate.                        *)
(*                                                                         *)
(* A token set is a pair of serial numbers, one for the access token and   *)
(* one for the refresh token, drawn from a counter per credential.         *)
(***************************************************************************)
EXTENDS Naturals

CONSTANTS
  Creds,          \* credential ids
  Callers,        \* goroutines that need a token: requests, probes, admin
  Admins,         \* concurrent admin operations and import jobs
  MaxMint,        \* bound: token serials per credential
  MaxOps,         \* bound: admin operations started
  MaxFaults,      \* bound: crashes, storage errors and lost responses
  OperatorEdits   \* whether credentials.json may be edited in place

ASSUME ConstantsOK ==
  /\ MaxMint \in Nat /\ MaxOps \in Nat /\ MaxFaults \in Nat
  /\ OperatorEdits \in BOOLEAN
  /\ Creds # {}

VARIABLES
  disk,        \* the durable token set of each credential
  cache,       \* Refresher.cache
  generation,  \* Refresher.generation
  keyEpoch,    \* Refresher.keyEpoch
  flights,     \* singleflight calls in progress, by group key
  caller,      \* what each caller is doing
  admin,       \* what each admin operation is doing
  minted,      \* the last serial drawn for each credential
  spent,       \* provider: refresh tokens consumed by a rotation
  reused,      \* provider: refresh tokens presented after they were spent
  lost,        \* history: refresh tokens whose successor a fault destroyed
  ops, faults  \* counters against MaxOps and MaxFaults

memory   == <<cache, generation, keyEpoch>>
provider == <<spent, reused>>
budget   == <<ops, faults>>
vars == <<disk, memory, flights, caller, admin, minted, provider,
          lost, budget>>

Token  == [at : Nat, rt : Nat]
Absent == [at |-> 0, rt |-> 0]     \* no cache entry; no such credential

CallerPC == {"idle", "retry", "cache", "capture", "join", "wait", "verify"}
Stages   == {"borrow", "load", "check", "send", "persist", "commit", "done"}
Outcomes == {"none", "ok", "invalidated", "error"}
Kinds    == {"import", "device", "delete", "route", "settings"}

\* A caller at step pc that holds the token set cur of credential c.
CallerAt(pc, c, cur) == [pc |-> pc, cred |-> c, cur |-> cur, gen |-> 0, epoch |-> 0]

Idle == CallerAt("idle", CHOOSE c \in Creds : TRUE, Absent)
Rest == [pc |-> "idle", cred |-> CHOOSE c \in Creds : TRUE, kind |-> "route"]

CallerState == [pc : CallerPC, cred : Creds, cur : Token, gen : Nat, epoch : Nat]
FlightState == [cred : Creds, gen : Nat, epoch : Nat, stage : Stages,
                prev : Token, next : Token, out : Outcomes]
AdminState  == [pc : {"idle", "write", "post"}, cred : Creds, kind : Kinds]

\* tokenMaterialChanged: either half of the pair differs.
TokenMaterialChanged(left, right) == left.at # right.at \/ left.rt # right.rt

\* Mutant of GroupKey: a new flight after each invalidation.
KeyWithEpoch(c, gen, epoch) == <<c, gen, epoch>>

\* The key that serialises grants; it does not depend on the epochs.
GroupKey(c, gen, epoch) == c

\* Mutant of GenerationsCurrent: only InvalidateAll retires a flight.
GenerationOnly(f) == f.gen = generation

GenerationsCurrent(f) == f.gen = generation /\ f.epoch = keyEpoch[f.cred]

-----------------------------------------------------------------------------
\* Invalidate(key): forget the cached set and retire the epoch.
Invalidate(c) ==
  /\ cache' = [cache EXCEPT ![c] = Absent]
  /\ keyEpoch' = [keyEpoch EXCEPT ![c] = @ + 1]
  /\ UNCHANGED generation

\* InvalidateAll: a new generation in which every epoch starts again at zero.
InvalidateAll ==
  /\ cache' = [c \in Creds |-> Absent]
  /\ keyEpoch' = [c \in Creds |-> 0]
  /\ generation' = generation + 1

-----------------------------------------------------------------------------
(***************************************************************************)
(* Callers: EnsureToken, ForceRefreshToken and the re-reads around them.   *)
(***************************************************************************)
\* A goroutine reads the durable credential and asks for its token: through
\* EnsureAccess, or through ForceRefresh when `force`.
Snapshot(p, c, force) ==
  /\ caller' = [caller EXCEPT ![p] =
       IF disk[c] = Absent THEN Idle
       ELSE CallerAt(IF force THEN "capture" ELSE "cache", c, disk[c])]
  /\ UNCHANGED <<disk, memory, flights, admin, minted, provider, lost, budget>>

Begin(p, c, force) == caller[p].pc = "idle" /\ disk[c] # Absent /\ Snapshot(p, c, force)

\* ErrRefreshInvalidated: reload the credential and try again. Executor.post
\* allows a request max_attempts of these; a caller here stands for the
\* requests that keep coming for its credential.
Retry(p) == caller[p].pc = "retry" /\ Snapshot(p, caller[p].cred, FALSE)

\* EnsureAccess: the cached set before the snapshot; returned while it is
\* fresh, refreshed otherwise. Either may be found expired at any time.
EnsureAccess(p) ==
  LET cached == cache[caller[p].cred]
  IN /\ caller[p].pc = "cache"
     /\ \E fresh \in BOOLEAN :
          caller' = [caller EXCEPT
            ![p].cur = IF cached = Absent THEN @ ELSE cached,
            ![p].pc  = IF fresh THEN "verify" ELSE "capture"]
     /\ UNCHANGED <<disk, memory, flights, admin, minted, provider, lost, budget>>

\* ForceRefresh: capture the generations ...
Capture(p) ==
  /\ caller[p].pc = "capture"
  /\ caller' = [caller EXCEPT ![p].gen = generation,
                              ![p].epoch = keyEpoch[caller[p].cred],
                              ![p].pc = "join"]
  /\ UNCHANGED <<disk, memory, flights, admin, minted, provider, lost, budget>>

KeyOf(p) == GroupKey(caller[p].cred, caller[p].gen, caller[p].epoch)

NewFlight(p) ==
  [cred |-> caller[p].cred, gen |-> caller[p].gen, epoch |-> caller[p].epoch,
   stage |-> "borrow", prev |-> caller[p].cur, next |-> Absent, out |-> "none"]

\* ... then DoChan: join the flight of this key or start one.
Join(p) ==
  /\ caller[p].pc = "join"
  /\ caller' = [caller EXCEPT ![p].pc = "wait", ![p].cur = Absent]
  /\ flights' = [k \in DOMAIN flights \cup {KeyOf(p)} |->
                   IF k \in DOMAIN flights THEN flights[k] ELSE NewFlight(p)]
  /\ UNCHANGED <<disk, memory, admin, minted, provider, lost, budget>>

\* ctx.Done(): the waiter leaves, the flight goes on.
Abandon(p) ==
  /\ caller[p].pc = "wait"
  /\ caller' = [caller EXCEPT ![p] = Idle]
  /\ UNCHANGED <<disk, memory, flights, admin, minted, provider, lost, budget>>

\* The caller compares the tokens it was given with the durable credential
\* before it uses them, and starts again when they differ.
Verify(p) ==
  LET durable == disk[caller[p].cred]
  IN /\ caller[p].pc = "verify"
     /\ caller' = [caller EXCEPT ![p] =
          IF durable = Absent \/ ~TokenMaterialChanged(caller[p].cur, durable)
          THEN Idle ELSE CallerAt("retry", @.cred, Absent)]
     /\ UNCHANGED <<disk, memory, flights, admin, minted, provider, lost, budget>>

-----------------------------------------------------------------------------
(***************************************************************************)
(* The flight: the function that DoChan runs once per group key.           *)
(***************************************************************************)
Advance(k, stage) == flights' = [flights EXCEPT ![k].stage = stage]
Ended(f, out) == [cred |-> f.cred, gen |-> f.gen, epoch |-> f.epoch, stage |-> "done",
                  prev |-> Absent, next |-> f.next, out |-> out]
Finish(k, out) == flights' = [flights EXCEPT ![k] = Ended(@, out)]
At(k, stage) == k \in DOMAIN flights /\ flights[k].stage = stage

\* Borrow a newer refresh token from the cache.
Borrow(k) ==
  /\ At(k, "borrow")
  /\ LET c == flights[k].cred
     IN flights' = [flights EXCEPT ![k].stage = "load",
                      ![k].prev = IF cache[c] = Absent THEN @ ELSE cache[c]]
  /\ UNCHANGED <<disk, memory, caller, admin, minted, provider, lost, budget>>

\* Mutant of Load: keep the caller's token when the credential exists.
LoadTrusting(k) ==
  /\ At(k, "load")
  /\ IF disk[flights[k].cred] = Absent THEN Finish(k, "error") ELSE Advance(k, "check")
  /\ UNCHANGED <<disk, memory, caller, admin, minted, provider, lost, budget>>

\* Load the durable token and give up when the one held is not that one.
Load(k) ==
  /\ At(k, "load")
  /\ LET durable == disk[flights[k].cred]
     IN IF durable = Absent THEN Finish(k, "error")
        ELSE IF TokenMaterialChanged(flights[k].prev, durable)
        THEN Finish(k, "invalidated")
        ELSE flights' = [flights EXCEPT ![k].stage = "check", ![k].prev = durable]
  /\ UNCHANGED <<disk, memory, caller, admin, minted, provider, lost, budget>>

CheckGenerations(k) ==
  /\ At(k, "check")
  /\ IF GenerationsCurrent(flights[k]) THEN Advance(k, "send") ELSE Finish(k, "invalidated")
  /\ UNCHANGED <<disk, memory, caller, admin, minted, provider, lost, budget>>

\* oauth.Refresh succeeds: the provider rotates the refresh token or, when
\* it omits one, the old one stays in use.
Granted(k) ==
  LET f == flights[k]  c == f.cred  n == minted[c] + 1
  IN /\ At(k, "send")
     /\ f.prev.rt \notin spent[c]
     /\ n <= MaxMint
     /\ minted' = [minted EXCEPT ![c] = n]
     /\ \/ /\ flights' = [flights EXCEPT ![k].stage = "persist",
                                         ![k].next = [at |-> n, rt |-> n]]
           /\ spent' = [spent EXCEPT ![c] = @ \cup {f.prev.rt}]
        \/ /\ flights' = [flights EXCEPT ![k].stage = "persist",
                                         ![k].next = [at |-> n, rt |-> f.prev.rt]]
           /\ UNCHANGED spent
     /\ UNCHANGED <<disk, memory, caller, admin, reused, lost, budget>>

\* oauth.Refresh fails: refused because the token was spent before, or for
\* a reason that leaves the token as it was.
Refused(k) ==
  LET f == flights[k]  c == f.cred
  IN /\ At(k, "send")
     /\ Finish(k, "error")
     /\ reused' = [reused EXCEPT ![c] = @ \cup ({f.prev.rt} \cap spent[c])]
     /\ UNCHANGED <<disk, memory, caller, admin, minted, spent, lost, budget>>

\* The provider rotated, but its answer missed the flight's deadline.
ResponseLost(k) ==
  LET f == flights[k]  c == f.cred
  IN /\ At(k, "send")
     /\ f.prev.rt \notin spent[c]
     /\ faults < MaxFaults
     /\ faults' = faults + 1
     /\ spent' = [spent EXCEPT ![c] = @ \cup {f.prev.rt}]
     /\ lost'  = [lost EXCEPT ![c] = @ \cup {f.prev.rt}]
     /\ Finish(k, "error")
     /\ UNCHANGED <<disk, memory, caller, admin, minted, reused, ops>>

\* Mutant of StillCurrent: patch without comparing.
NoCompare(prev, durable) == TRUE

\* The compare of the compare-and-patch: the refresh token that was sent is
\* still the durable one.
StillCurrent(prev, durable) == prev.rt = durable.rt

\* Mutant of Persist: consult the epoch before the store.
PersistIfCurrent(k) ==
  LET f == flights[k]  c == f.cred
  IN /\ At(k, "persist")
     /\ IF disk[c] # Absent /\ StillCurrent(f.prev, disk[c]) /\ GenerationsCurrent(f)
        THEN Advance(k, "commit") /\ disk' = [disk EXCEPT ![c] = f.next]
        ELSE Finish(k, "invalidated") /\ UNCHANGED disk
     /\ UNCHANGED <<memory, caller, admin, minted, provider, lost, budget>>

\* commitIfCurrent, first half: persist whatever the epochs say.
Persist(k) ==
  LET f == flights[k]  c == f.cred
  IN /\ At(k, "persist")
     /\ IF disk[c] = Absent
        THEN Finish(k, "error") /\ UNCHANGED disk
        ELSE IF StillCurrent(f.prev, disk[c])
        THEN Advance(k, "commit") /\ disk' = [disk EXCEPT ![c] = f.next]
        ELSE Finish(k, "invalidated") /\ UNCHANGED disk
     /\ UNCHANGED <<memory, caller, admin, minted, provider, lost, budget>>

\* The write fails before its rename: nothing changes on disk.
PersistFails(k) ==
  LET f == flights[k]  c == f.cred
  IN /\ At(k, "persist")
     /\ faults < MaxFaults
     /\ faults' = faults + 1
     /\ lost' = [lost EXCEPT ![c] = @ \cup ({f.prev.rt} \cap spent[c])]
     /\ Finish(k, "error")
     /\ UNCHANGED <<disk, memory, caller, admin, minted, provider, ops>>

\* commitIfCurrent, second half: the cache, only in the same generation.
Commit(k) ==
  LET f == flights[k]
  IN /\ At(k, "commit")
     /\ IF GenerationsCurrent(f)
        THEN Finish(k, "ok") /\ cache' = [cache EXCEPT ![f.cred] = f.next]
        ELSE Finish(k, "invalidated") /\ UNCHANGED cache
     /\ UNCHANGED <<disk, generation, keyEpoch, caller, admin, minted,
                    provider, lost, budget>>

\* The flight's key is forgotten and every waiter gets the one result.
Deliver(k) ==
  LET f == flights[k]
      result == CASE f.out = "ok" -> CallerAt("verify", f.cred, f.next)
                  [] f.out = "invalidated" -> CallerAt("retry", f.cred, Absent)
                  [] OTHER -> Idle
  IN /\ At(k, "done")
     /\ flights' = [j \in DOMAIN flights \ {k} |-> flights[j]]
     /\ caller' = [p \in Callers |->
          IF caller[p].pc = "wait" /\ KeyOf(p) = k THEN result ELSE caller[p]]
     /\ UNCHANGED <<disk, memory, admin, minted, provider, lost, budget>>

-----------------------------------------------------------------------------
(***************************************************************************)
(* Operations around the refresher. Each is an optional invalidation, one  *)
(* write of the store, and an invalidation that only a written store       *)
(* reaches; requests and flights run between the three.                    *)
(***************************************************************************)
\* Imports (BeforeStore) and settings invalidate everything first; deletion,
\* purge and route changes their own key; device login nothing.
BeforeWrite(kind, c) ==
  CASE kind \in {"import", "settings"} -> InvalidateAll
    [] kind \in {"delete", "route"}    -> Invalidate(c)
    [] OTHER                           -> UNCHANGED memory

\* Mutant of AfterWrite: the second invalidation is forgotten.
NoSecondInvalidation(kind, c) == UNCHANGED memory

\* OnStored, the second call of the handlers, Invalidate(cred.ID) of device.go.
AfterWrite(kind, c) == IF kind = "settings" THEN InvalidateAll ELSE Invalidate(c)

StartOp(a, kind, c) ==
  /\ admin[a].pc = "idle"
  /\ ops < MaxOps
  /\ ops' = ops + 1
  /\ BeforeWrite(kind, c)
  /\ admin' = [admin EXCEPT ![a] = [pc |-> "write", kind |-> kind, cred |-> c]]
  /\ UNCHANGED <<disk, flights, caller, minted, provider, lost, faults>>

\* What an upsert stores: a token set of a new login, or an access token
\* alone, which leaves the stored refresh token in place.
StoreTokens(c) ==
  LET n == minted[c] + 1
  IN /\ n <= MaxMint
     /\ minted' = [minted EXCEPT ![c] = n]
     /\ \E rt \in {n, disk[c].rt} : disk' = [disk EXCEPT ![c] = [at |-> n, rt |-> rt]]

WriteOp(a) ==
  LET c == admin[a].cred  kind == admin[a].kind
  IN /\ admin[a].pc = "write"
     /\ kind # "settings" => disk[c] # Absent
     /\ \/ kind \in {"import", "device"} /\ StoreTokens(c)
        \/ kind = "delete" /\ disk' = [disk EXCEPT ![c] = Absent] /\ UNCHANGED minted
        \/ kind \in {"route", "settings"} /\ UNCHANGED <<disk, minted>>
     /\ admin' = [admin EXCEPT ![a].pc = "post"]
     /\ UNCHANGED <<memory, flights, caller, provider, lost, budget>>

\* The store refuses the write (unknown id, I/O error) or, for an upsert,
\* the account is a new one under a fresh id: nothing follows for this key.
WriteOpFails(a) ==
  /\ admin[a].pc = "write"
  /\ admin' = [admin EXCEPT ![a] = Rest]
  /\ UNCHANGED <<disk, memory, flights, caller, minted, provider, lost, budget>>

FinishOp(a) ==
  /\ admin[a].pc = "post"
  /\ AfterWrite(admin[a].kind, admin[a].cred)
  /\ admin' = [admin EXCEPT ![a] = Rest]
  /\ UNCHANGED <<disk, flights, caller, minted, provider, lost, budget>>

-----------------------------------------------------------------------------
\* The operator replaces the tokens of a credential in credentials.json; the
\* store notices by the file's stamp.
OperatorEdit(c) ==
  /\ OperatorEdits
  /\ ops < MaxOps
  /\ ops' = ops + 1
  /\ disk[c] # Absent
  /\ StoreTokens(c)
  /\ UNCHANGED <<memory, flights, caller, admin, provider, lost, faults>>

\* Refresh tokens whose successor only a flight holds.
InFlightOnly(c) == {flights[k].prev.rt : k \in {j \in DOMAIN flights :
                      flights[j].cred = c /\ flights[j].stage = "persist"}}

\* The process dies and starts again: memory is lost, the disk is not.
Crash ==
  /\ faults < MaxFaults
  /\ faults' = faults + 1
  /\ cache' = [c \in Creds |-> Absent]
  /\ generation' = 0
  /\ keyEpoch' = [c \in Creds |-> 0]
  /\ lost' = [c \in Creds |-> lost[c] \cup (InFlightOnly(c) \cap spent[c])]
  /\ flights' = [k \in {} |-> FALSE]
  /\ caller' = [p \in Callers |-> Idle]
  /\ admin' = [a \in Admins |-> Rest]
  /\ UNCHANGED <<disk, minted, provider, ops>>

-----------------------------------------------------------------------------
Init ==
  /\ disk = [c \in Creds |-> [at |-> 1, rt |-> 1]]
  /\ cache = [c \in Creds |-> Absent]
  /\ generation = 0
  /\ keyEpoch = [c \in Creds |-> 0]
  /\ flights = [k \in {} |-> FALSE]
  /\ caller = [p \in Callers |-> Idle]
  /\ admin = [a \in Admins |-> Rest]
  /\ minted = [c \in Creds |-> 1]
  /\ spent = [c \in Creds |-> {}]
  /\ reused = [c \in Creds |-> {}]
  /\ lost = [c \in Creds |-> {}]
  /\ ops = 0
  /\ faults = 0

CallerStep(p) == Retry(p) \/ EnsureAccess(p) \/ Capture(p) \/ Join(p) \/ Verify(p)

FlightStep(k) ==
  \/ Borrow(k) \/ Load(k) \/ CheckGenerations(k) \/ Granted(k) \/ Refused(k)
  \/ Persist(k) \/ Commit(k) \/ Deliver(k)

Request(p) == \E c \in Creds, force \in BOOLEAN : Begin(p, c, force)

Next ==
  \/ \E p \in Callers : Request(p) \/ CallerStep(p) \/ Abandon(p)
  \/ \E k \in DOMAIN flights : FlightStep(k) \/ ResponseLost(k) \/ PersistFails(k)
  \/ \E a \in Admins : \/ \E kind \in Kinds, c \in Creds : StartOp(a, kind, c)
                        \/ WriteOp(a) \/ WriteOpFails(a) \/ FinishOp(a)
  \/ \E c \in Creds : OperatorEdit(c)
  \/ Crash

Spec == Init /\ [][Next]_vars

(***************************************************************************)
(* Goroutines that can run do run: the callers, the flight (bounded by its *)
(* timeout, so the provider's answer or an error arrives) and the admin    *)
(* operations. Requests, expiry, faults and operators are under no duty.   *)
(***************************************************************************)
Fairness ==
  /\ \A p \in Callers : WF_vars(CallerStep(p))
  /\ \A c \in Creds : WF_vars(FlightStep(c))
  /\ \A a \in Admins : WF_vars(WriteOp(a) \/ WriteOpFails(a) \/ FinishOp(a))

FairSpec == Spec /\ Fairness

-----------------------------------------------------------------------------
(***************************************************************************)
(* Properties.                                                             *)
(***************************************************************************)
TypeOK ==
  /\ disk \in [Creds -> Token]
  /\ cache \in [Creds -> Token]
  /\ generation \in Nat
  /\ keyEpoch \in [Creds -> Nat]
  /\ DOMAIN flights \subseteq Creds
  /\ flights \in [DOMAIN flights -> FlightState]
  /\ caller \in [Callers -> CallerState]
  /\ admin \in [Admins -> AdminState]
  /\ minted \in [Creds -> Nat]
  /\ spent \in [Creds -> SUBSET Nat]
  /\ reused \in [Creds -> SUBSET Nat]
  /\ lost \in [Creds -> SUBSET Nat]
  /\ ops \in Nat
  /\ faults \in Nat

\* A refresh token already consumed by a rotation is presented again only
\* when a fault destroyed its successor: stale snapshots, joined flights,
\* invalidations and imports never cause it (the provider would answer a
\* reuse by revoking the whole family).
NoReuse == \A c \in Creds : reused[c] \subseteq lost[c]

\* A rotation is never dropped. Whenever the durable refresh token has been
\* consumed at the provider, either a flight is about to persist its
\* successor or a fault destroyed it; invalidation alone never does.
RotationKept ==
  \A c \in Creds : disk[c].rt \in spent[c] =>
    \/ disk[c].rt \in lost[c]
    \/ \E k \in DOMAIN flights : /\ flights[k].cred = c
                                 /\ flights[k].stage = "persist"
                                 /\ flights[k].prev.rt = disk[c].rt

\* The cache disagrees with the disk only while something that will repair
\* it is under way: an operation that has yet to invalidate, or a flight of
\* the current generation that is about to cache what it persisted. No
\* other disagreement is safe, since nothing would ever end it.
CacheRepaired ==
  \A c \in Creds :
    \/ cache[c] \in {Absent, disk[c]}
    \/ \E a \in Admins : admin[a].pc = "post" /\ admin[a].cred = c
    \/ \E k \in DOMAIN flights : /\ flights[k].cred = c
                                 /\ flights[k].stage = "commit"
                                 /\ GenerationsCurrent(flights[k])

\* The compare-and-patch never lets an older login overwrite a newer one:
\* the serial of the durable refresh token does not go back.
NewestLoginWins ==
  [][\A c \in Creds : disk'[c] # Absent => disk'[c].rt >= disk[c].rt]_disk

\* A caller that asks for a token is done in the end, whatever invalidations
\* it ran into: a retry after ErrRefreshInvalidated converges.
CallersFinish == \A p \in Callers : caller[p].pc # "idle" ~> caller[p].pc = "idle"

(***************************************************************************)
(* TokenRefresh implements RefreshLease. A flight holds its lease from the *)
(* moment it adopts the durable token until it gives up or presents it,    *)
(* and the grant until the token is persisted or dropped.                  *)
(***************************************************************************)
LeaseOf(c) ==
  LET free == [phase |-> "free", rt |-> 0, next |-> Absent]
  IN IF c \notin DOMAIN flights THEN free
     ELSE CASE flights[c].stage \in {"check", "send"} ->
                 [phase |-> "held", rt |-> flights[c].prev.rt, next |-> Absent]
            [] flights[c].stage = "persist" ->
                 [phase |-> "granted", rt |-> flights[c].prev.rt, next |-> flights[c].next]
            [] OTHER -> free

Lease == INSTANCE RefreshLease WITH lease <- [c \in Creds |-> LeaseOf(c)]

\* Caches, epochs, invalidations and waiters change when a grant happens,
\* never what a grant may do: every step is a step of the lease or none.
ImplementsLease == Lease!Spec

=============================================================================
