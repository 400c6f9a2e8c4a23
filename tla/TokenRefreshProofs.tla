------------------------- MODULE TokenRefreshProofs -------------------------
(***************************************************************************)
(* Proofs about TokenRefresh, for any set of credentials, callers and      *)
(* admin operations and any value of the bounds.                           *)
(***************************************************************************)
EXTENDS TokenRefresh, TLAPS

\* The resting states of callers and admin operations are well typed.
LEMMA RestingTyped ==
  /\ Absent \in Token
  /\ Idle \in CallerState
  /\ Rest \in AdminState
<1>1. (CHOOSE c \in Creds : TRUE) \in Creds
  BY ConstantsOK
<1>2. Absent \in Token
  BY DEF Absent, Token
<1>3. Idle \in CallerState
  BY <1>1, <1>2 DEF Idle, CallerAt, CallerState, CallerPC
<1>4. Rest \in AdminState
  BY <1>1 DEF Rest, AdminState, Kinds
<1>. QED
  BY <1>2, <1>3, <1>4

\* Every step of a caller keeps the types.
LEMMA CallerTyped ==
  ASSUME TypeOK, NEW p \in Callers, Request(p) \/ CallerStep(p) \/ Abandon(p)
  PROVE  TypeOK'
<1>. USE RestingTyped DEF TypeOK, CallerState, CallerPC, memory, provider, budget
<1>1. ASSUME NEW c \in Creds, NEW force \in BOOLEAN, Snapshot(p, c, force)
      PROVE  TypeOK'
  <2>1. CallerAt(IF force THEN "capture" ELSE "cache", c, disk[c]) \in CallerState
    BY DEF CallerAt
  <2>2. caller' \in [Callers -> CallerState]
    BY <1>1, <2>1 DEF Snapshot
  <2>. QED
    BY <1>1, <2>2 DEF Snapshot
<1>2. CASE Request(p)
  BY <1>1, <1>2 DEF Request, Begin
<1>3. CASE Retry(p)
  BY <1>1, <1>3 DEF Retry
<1>4. CASE EnsureAccess(p)
  BY <1>4 DEF EnsureAccess
<1>5. CASE Capture(p)
  BY <1>5 DEF Capture
<1>6. CASE Join(p)
  <2>1. NewFlight(p) \in FlightState
    BY DEF NewFlight, FlightState, Stages, Outcomes
  <2>2. KeyOf(p) \in Creds
    BY DEF KeyOf, GroupKey
  <2>. QED
    BY <1>6, <2>1, <2>2 DEF Join
<1>7. CASE Verify(p)
  BY <1>7 DEF Verify, CallerAt
<1>8. CASE Abandon(p)
  BY <1>8 DEF Abandon
<1>. QED
  BY <1>2, <1>3, <1>4, <1>5, <1>6, <1>7, <1>8 DEF CallerStep

\* Moving a flight on, or ending it, keeps the flights well typed.
LEMMA FlightMoves ==
  ASSUME TypeOK, NEW k \in DOMAIN flights
  PROVE  /\ \A stage \in Stages : Advance(k, stage) =>
              DOMAIN flights' = DOMAIN flights /\ flights' \in [DOMAIN flights -> FlightState]
         /\ \A out \in Outcomes : Finish(k, out) =>
              DOMAIN flights' = DOMAIN flights /\ flights' \in [DOMAIN flights -> FlightState]
<1>. flights \in [DOMAIN flights -> FlightState] /\ flights[k] \in FlightState
  BY DEF TypeOK
<1>1. ASSUME NEW stage \in Stages, Advance(k, stage)
      PROVE  DOMAIN flights' = DOMAIN flights /\ flights' \in [DOMAIN flights -> FlightState]
  BY <1>1 DEF Advance, FlightState
<1>2. ASSUME NEW out \in Outcomes, Finish(k, out)
      PROVE  DOMAIN flights' = DOMAIN flights /\ flights' \in [DOMAIN flights -> FlightState]
  <2>1. Ended(flights[k], out) \in FlightState
    BY RestingTyped DEF Ended, FlightState, Stages
  <2>. QED
    BY <1>2, <2>1 DEF Finish
<1>. QED
  BY <1>1, <1>2

\* Every step of a flight keeps the types.
LEMMA FlightTyped ==
  ASSUME TypeOK, NEW k \in DOMAIN flights,
         FlightStep(k) \/ ResponseLost(k) \/ PersistFails(k)
  PROVE  TypeOK'
<1>. USE RestingTyped DEF TypeOK, FlightState, Stages, Outcomes, memory, provider, budget
<1>. k \in Creds /\ flights[k] \in FlightState /\ flights[k].cred \in Creds
  OBVIOUS
<1>1. CASE Borrow(k)
  BY <1>1 DEF Borrow
<1>2. CASE Load(k)
  <2>. DEFINE durable == disk[flights[k].cred]
  <2>1. CASE flights' = [flights EXCEPT ![k].stage = "check", ![k].prev = durable]
    <3>1. durable \in Token
      OBVIOUS
    <3>. HIDE DEF durable
    <3>. QED
      BY <1>2, <2>1, <3>1 DEF Load
  <2>2. CASE Finish(k, "error") \/ Finish(k, "invalidated")
    BY <1>2, <2>2, FlightMoves DEF Load
  <2>. QED
    BY <1>2, <2>1, <2>2 DEF Load
<1>3. CASE CheckGenerations(k)
  BY <1>3, FlightMoves DEF CheckGenerations
<1>4. CASE Granted(k)
  <2>. DEFINE c == flights[k].cred
              n == minted[c] + 1
  <2>1. n \in Nat /\ flights[k].prev.rt \in Nat
    BY DEF Token
  <2>2. /\ minted' \in [Creds -> Nat]
        /\ spent' \in [Creds -> SUBSET Nat]
    BY <1>4, <2>1 DEF Granted
  <2>3. [at |-> n, rt |-> n] \in Token /\ [at |-> n, rt |-> flights[k].prev.rt] \in Token
    BY <2>1 DEF Token
  <2>4. /\ DOMAIN flights' = DOMAIN flights
        /\ flights' \in [DOMAIN flights' -> FlightState]
    <3>1. ASSUME NEW t \in Token,
                 flights' = [flights EXCEPT ![k].stage = "persist", ![k].next = t]
          PROVE  /\ DOMAIN flights' = DOMAIN flights
                 /\ flights' \in [DOMAIN flights' -> FlightState]
      BY <3>1
    <3>. QED
      BY <1>4, <2>3, <3>1 DEF Granted
  <2>. QED
    BY <1>4, <2>2, <2>4 DEF Granted
<1>5. CASE Refused(k)
  BY <1>5, FlightMoves DEF Refused
<1>6. CASE ResponseLost(k)
  <2>1. flights[k].prev.rt \in Nat
    BY DEF Token
  <2>. QED
    BY <1>6, <2>1, FlightMoves DEF ResponseLost
<1>7. CASE Persist(k)
  BY <1>7, FlightMoves DEF Persist
<1>8. CASE PersistFails(k)
  BY <1>8, FlightMoves DEF PersistFails
<1>9. CASE Commit(k)
  BY <1>9, FlightMoves DEF Commit
<1>10. CASE Deliver(k)
  <2>1. /\ CallerAt("verify", flights[k].cred, flights[k].next) \in CallerState
        /\ CallerAt("retry", flights[k].cred, Absent) \in CallerState
    BY DEF CallerAt, CallerState, CallerPC
  <2>2. caller' \in [Callers -> CallerState]
    BY <1>10, <2>1 DEF Deliver
  <2>. QED
    BY <1>10, <2>2 DEF Deliver
<1>. QED
  BY <1>1, <1>2, <1>3, <1>4, <1>5, <1>6, <1>7, <1>8, <1>9, <1>10 DEF FlightStep

\* What an upsert stores is a token set.
LEMMA StoreTyped ==
  ASSUME TypeOK, NEW c \in Creds, StoreTokens(c)
  PROVE  disk' \in [Creds -> Token] /\ minted' \in [Creds -> Nat]
<1>1. /\ minted[c] + 1 \in Nat
      /\ disk[c].rt \in Nat
  BY DEF TypeOK, Token
<1>2. \A rt \in {minted[c] + 1, disk[c].rt} : [at |-> minted[c] + 1, rt |-> rt] \in Token
  BY <1>1 DEF Token
<1>. QED
  BY <1>1, <1>2 DEF StoreTokens, TypeOK

\* Every other step keeps the types.
LEMMA AdminTyped ==
  ASSUME TypeOK, NEW a \in Admins,
         \/ \E kind \in Kinds, c \in Creds : StartOp(a, kind, c)
         \/ WriteOp(a) \/ WriteOpFails(a) \/ FinishOp(a)
  PROVE  TypeOK'
<1>. USE RestingTyped DEF TypeOK, AdminState, memory, provider, budget
<1>1. ASSUME NEW kind \in Kinds, NEW c \in Creds, StartOp(a, kind, c)
      PROVE  TypeOK'
  BY <1>1 DEF StartOp, BeforeWrite, Invalidate, InvalidateAll
<1>2. CASE WriteOp(a)
  <2>1. admin[a].cred \in Creds
    OBVIOUS
  <2>2. disk' \in [Creds -> Token] /\ minted' \in [Creds -> Nat]
    BY <1>2, <2>1, StoreTyped DEF WriteOp
  <2>. QED
    BY <1>2, <2>2 DEF WriteOp
<1>3. CASE WriteOpFails(a)
  BY <1>3 DEF WriteOpFails
<1>4. CASE FinishOp(a)
  BY <1>4 DEF FinishOp, AfterWrite, Invalidate, InvalidateAll
<1>. QED
  BY <1>1, <1>2, <1>3, <1>4

LEMMA EnvironmentTyped ==
  ASSUME TypeOK, (\E c \in Creds : OperatorEdit(c)) \/ Crash
  PROVE  TypeOK'
<1>. USE RestingTyped DEF TypeOK, memory, provider, budget
<1>1. ASSUME NEW c \in Creds, OperatorEdit(c)
      PROVE  TypeOK'
  BY <1>1, StoreTyped DEF OperatorEdit
<1>2. CASE Crash
  <2>1. \A c \in Creds : lost'[c] \in SUBSET Nat
    BY <1>2 DEF Crash
  <2>. QED
    BY <1>2, <2>1 DEF Crash
<1>. QED
  BY <1>1, <1>2

\* Type correctness: every variable keeps its type, whatever the interleaving
\* of callers, flights, admin operations, edits and crashes.
THEOREM TypeCorrect == Spec => []TypeOK
<1>1. Init => TypeOK
  BY RestingTyped DEF Init, TypeOK, Token
<1>2. TypeOK /\ [Next]_vars => TypeOK'
  <2>1. CASE UNCHANGED vars
    BY <2>1 DEF vars, memory, provider, budget, TypeOK
  <2>2. ASSUME TypeOK, Next
        PROVE  TypeOK'
    BY <2>2, CallerTyped, FlightTyped, AdminTyped, EnvironmentTyped DEF Next
  <2>. QED
    BY <2>1, <2>2
<1>. QED
  BY <1>1, <1>2, PTL DEF Spec

-----------------------------------------------------------------------------
(***************************************************************************)
(* Refresh tokens: what a flight holds, and that it is not spent.          *)
(***************************************************************************)
\* A flight that may present a refresh token holds one that is unspent, or
\* whose successor a fault destroyed; a token about to be persisted is live,
\* and no older than the one it was granted for.
FlightOK(c) ==
  /\ flights[c].cred = c
  /\ flights[c].stage \in {"check", "send"} =>
       /\ flights[c].prev.rt \in 1..minted[c]
       /\ flights[c].prev.rt \in spent[c] => flights[c].prev.rt \in lost[c]
  /\ flights[c].stage = "persist" =>
       /\ flights[c].next.rt \in 1..minted[c] /\ flights[c].next.rt \notin spent[c]
       /\ flights[c].prev.rt <= flights[c].next.rt

\* The successor of the durable refresh token is about to be persisted.
Rescuing(c) ==
  /\ c \in DOMAIN flights
  /\ flights[c].stage = "persist"
  /\ flights[c].prev.rt = disk[c].rt

LeaseOK(c) ==
  /\ spent[c] \subseteq 1..minted[c]
  /\ disk[c].rt <= minted[c]
  /\ disk[c] # Absent => disk[c].rt >= 1
  /\ reused[c] \subseteq lost[c]
  /\ c \in DOMAIN flights => FlightOK(c)
  /\ disk[c].rt \in spent[c] => disk[c].rt \in lost[c] \/ Rescuing(c)

LeaseInv == TypeOK /\ \A c \in Creds : LeaseOK(c)

\* The strengthening implies both properties.
LEMMA LeaseInvImplies == LeaseInv => NoReuse /\ RotationKept
  BY DEF LeaseInv, LeaseOK, FlightOK, Rescuing, NoReuse, RotationKept

\* A credential that a step does not touch stays as it was.
LEMMA LeaseFrame ==
  ASSUME NEW c \in Creds, LeaseOK(c),
         disk'[c] = disk[c], minted'[c] = minted[c], spent'[c] = spent[c],
         reused'[c] = reused[c], lost'[c] = lost[c],
         c \in DOMAIN flights' <=> c \in DOMAIN flights,
         c \in DOMAIN flights => flights'[c] = flights[c]
  PROVE  LeaseOK(c)'
  BY DEF LeaseOK, FlightOK, Rescuing

\* A step that changes none of the lease's variables keeps the invariant.
LEMMA LeaseStutter ==
  ASSUME LeaseInv, UNCHANGED <<disk, flights, minted, provider, lost>>
  PROVE  \A c \in Creds : LeaseOK(c)'
  BY LeaseFrame DEF LeaseInv, provider

\* The steps of callers: only Join touches the flights, and it adds one that
\* holds nothing yet.
LEMMA CallerKeepsLease ==
  ASSUME LeaseInv, NEW p \in Callers, Request(p) \/ CallerStep(p) \/ Abandon(p)
  PROVE  \A c \in Creds : LeaseOK(c)'
<1>1. CASE Join(p)
  <2>1. KeyOf(p) = caller[p].cred /\ caller[p].cred \in Creds
    BY DEF KeyOf, GroupKey, LeaseInv, TypeOK, CallerState
  <2>. SUFFICES ASSUME NEW c \in Creds PROVE LeaseOK(c)'
    OBVIOUS
  <2>2. UNCHANGED <<disk, minted, provider, lost>>
    BY <1>1 DEF Join
  <2>3. CASE c \in DOMAIN flights \/ c # KeyOf(p)
    <3>1. /\ c \in DOMAIN flights' <=> c \in DOMAIN flights
          /\ c \in DOMAIN flights => flights'[c] = flights[c]
      BY <1>1, <2>3 DEF Join
    <3>. QED
      BY <2>2, <3>1, LeaseFrame DEF LeaseInv, provider
  <2>4. CASE c \notin DOMAIN flights /\ c = KeyOf(p)
    <3>1. c \in DOMAIN flights' /\ flights'[c] = NewFlight(p)
      BY <1>1, <2>4 DEF Join
    <3>2. NewFlight(p).stage = "borrow" /\ NewFlight(p).cred = c
      BY <2>1, <2>4 DEF NewFlight
    <3>3. LeaseOK(c)
      BY DEF LeaseInv
    <3>. QED
      BY <2>2, <2>4, <3>1, <3>2, <3>3 DEF LeaseOK, FlightOK, Rescuing, provider
  <2>. QED
    BY <2>3, <2>4
<1>2. CASE Request(p)
  BY <1>2, LeaseStutter DEF Request, Begin, Snapshot
<1>3. CASE Retry(p)
  BY <1>3, LeaseStutter DEF Retry, Snapshot
<1>4. CASE EnsureAccess(p)
  BY <1>4, LeaseStutter DEF EnsureAccess
<1>5. CASE Capture(p)
  BY <1>5, LeaseStutter DEF Capture
<1>6. CASE Verify(p)
  BY <1>6, LeaseStutter DEF Verify
<1>7. CASE Abandon(p)
  BY <1>7, LeaseStutter DEF Abandon
<1>. QED
  BY <1>1, <1>2, <1>3, <1>4, <1>5, <1>6, <1>7 DEF CallerStep

\* What the operators that move a flight do to it, and to the others.
LEMMA FlightFields ==
  ASSUME TypeOK, NEW k \in DOMAIN flights
  PROVE  /\ \A stage \in Stages : Advance(k, stage) =>
              /\ DOMAIN flights' = DOMAIN flights
              /\ \A j \in DOMAIN flights \ {k} : flights'[j] = flights[j]
              /\ flights'[k].stage = stage
              /\ flights'[k].cred = flights[k].cred
              /\ flights'[k].prev = flights[k].prev
              /\ flights'[k].next = flights[k].next
         /\ \A out \in Outcomes : Finish(k, out) =>
              /\ DOMAIN flights' = DOMAIN flights
              /\ \A j \in DOMAIN flights \ {k} : flights'[j] = flights[j]
              /\ flights'[k].stage = "done"
              /\ flights'[k].cred = flights[k].cred
<1>1. flights \in [DOMAIN flights -> FlightState] /\ flights[k] \in FlightState
  BY DEF TypeOK
<1>. QED
  BY <1>1 DEF Advance, Finish, Ended, FlightState

\* The steps of a flight. Loading ties the token it may send to the durable
\* one; granting and persisting hand the durable token over to its successor.
LEMMA FlightKeepsLease ==
  ASSUME LeaseInv, NEW k \in DOMAIN flights,
         FlightStep(k) \/ ResponseLost(k) \/ PersistFails(k)
  PROVE  \A c \in Creds : LeaseOK(c)'
<1>1. /\ TypeOK /\ k \in Creds /\ LeaseOK(k) /\ FlightOK(k) /\ flights[k].cred = k
      /\ \A c \in Creds : LeaseOK(c)
  BY DEF LeaseInv, TypeOK, LeaseOK, FlightOK
<1>2. /\ flights[k] \in FlightState /\ flights[k].prev.rt \in Nat
      /\ flights[k].next.rt \in Nat /\ minted[k] \in Nat /\ disk[k] \in Token
      /\ disk[k].rt \in Nat /\ spent[k] \subseteq Nat /\ lost[k] \subseteq Nat
  BY <1>1 DEF TypeOK, FlightState, Token
<1>3. ASSUME NEW c \in Creds, c # k
      PROVE  LeaseOK(c)'
  <2>1. /\ disk'[c] = disk[c] /\ minted'[c] = minted[c] /\ spent'[c] = spent[c]
        /\ reused'[c] = reused[c] /\ lost'[c] = lost[c]
    BY <1>1, <1>3 DEF FlightStep, Borrow, Load, CheckGenerations, Granted, Refused,
       Persist, Commit, Deliver, ResponseLost, PersistFails, memory, provider, TypeOK
  <2>2. /\ c \in DOMAIN flights' <=> c \in DOMAIN flights
        /\ c \in DOMAIN flights => flights'[c] = flights[c]
    BY <1>1, <1>3, FlightFields DEF FlightStep, Borrow, Load, CheckGenerations,
       Granted, Refused, Persist, Commit, Deliver, ResponseLost, PersistFails,
       Advance, Finish
  <2>. QED
    BY <1>1, <2>1, <2>2, LeaseFrame
<1>4. LeaseOK(k)'
  <2>. USE <1>1, <1>2 DEF LeaseOK, FlightOK, Rescuing, provider, memory
  <2>1. CASE Borrow(k)
    <3>1. /\ flights'[k].stage = "load" /\ flights'[k].cred = k
          /\ flights[k].stage = "borrow"
      BY <2>1 DEF Borrow, At, FlightState
    <3>. QED
      BY <2>1, <3>1 DEF Borrow
  <2>2. CASE Load(k)
    <3>1. flights[k].stage = "load"
      BY <2>2 DEF Load, At
    <3>2. CASE Finish(k, "error") \/ Finish(k, "invalidated")
      BY <2>2, <3>1, <3>2, FlightFields DEF Load, Outcomes
    <3>3. CASE /\ disk[k] # Absent
               /\ flights' = [flights EXCEPT ![k].stage = "check", ![k].prev = disk[k]]
      <4>1. /\ flights'[k].stage = "check" /\ flights'[k].cred = k
            /\ flights'[k].prev = disk[k]
        BY <3>3 DEF FlightState
      <4>. QED
        BY <2>2, <3>1, <3>3, <4>1 DEF Load
    <3>. QED
      BY <2>2, <3>2, <3>3 DEF Load
  <2>3. CASE CheckGenerations(k)
    BY <2>3, FlightFields DEF CheckGenerations, At, Stages, Outcomes
  <2>4. CASE Granted(k)
    <3>. DEFINE n == minted[k] + 1
    <3>1. /\ flights[k].stage = "send" /\ flights[k].prev.rt \notin spent[k]
          /\ minted'[k] = n /\ UNCHANGED <<disk, reused, lost>>
      BY <2>4 DEF Granted, At, TypeOK
    <3>2. /\ k \in DOMAIN flights' /\ flights'[k].stage = "persist"
          /\ flights'[k].cred = k /\ flights'[k].prev = flights[k].prev
          /\ \/ flights'[k].next.rt = n /\ spent'[k] = spent[k] \cup {flights[k].prev.rt}
             \/ flights'[k].next.rt = flights[k].prev.rt /\ spent'[k] = spent[k]
      <4>1. ASSUME NEW t,
                   flights' = [flights EXCEPT ![k].stage = "persist", ![k].next = t]
            PROVE  /\ k \in DOMAIN flights' /\ flights'[k].stage = "persist"
                   /\ flights'[k].cred = k /\ flights'[k].prev = flights[k].prev
                   /\ flights'[k].next = t
        BY <4>1 DEF FlightState
      <4>2. /\ [at |-> n, rt |-> n].rt = n
            /\ [at |-> n, rt |-> flights[k].prev.rt].rt = flights[k].prev.rt
        OBVIOUS
      <4>3. spent' = [spent EXCEPT ![k] = @ \cup {flights[k].prev.rt}]
              => spent'[k] = spent[k] \cup {flights[k].prev.rt}
        BY DEF TypeOK
      <4>4. \/ /\ flights' = [flights EXCEPT ![k].stage = "persist",
                                             ![k].next = [at |-> n, rt |-> n]]
               /\ spent' = [spent EXCEPT ![k] = @ \cup {flights[k].prev.rt}]
            \/ /\ flights' = [flights EXCEPT ![k].stage = "persist",
                                 ![k].next = [at |-> n, rt |-> flights[k].prev.rt]]
               /\ spent' = spent
        BY <2>4 DEF Granted
      <4>. HIDE <1>1, <1>2 DEF LeaseOK, FlightOK, n
      <4>. QED
        BY <4>1, <4>2, <4>3, <4>4
    <3>3. /\ spent[k] \subseteq 1..minted[k] /\ flights[k].prev.rt \in 1..minted[k]
          /\ disk[k].rt <= minted[k] /\ disk[k] # Absent => disk[k].rt >= 1
          /\ reused[k] \subseteq lost[k]
          /\ disk[k].rt \in spent[k] => disk[k].rt \in lost[k]
      BY <3>1
    <3>4. n \in 1..n /\ n \notin 1..minted[k] /\ 1..minted[k] \subseteq 1..n
      BY SMT
    <3>5. spent'[k] \subseteq 1..minted'[k]
      BY <3>1, <3>2, <3>3, <3>4
    <3>6. flights'[k].next.rt \in 1..minted'[k] /\ flights'[k].next.rt \notin spent'[k]
      BY <3>1, <3>2, <3>3, <3>4
    <3>7. disk'[k].rt \in spent'[k] => disk'[k].rt \in lost'[k] \/ Rescuing(k)'
      BY <3>1, <3>2, <3>3
    <3>8. disk'[k].rt <= minted'[k] /\ (disk'[k] # Absent => disk'[k].rt >= 1)
      BY <3>1, <3>3, SMT
    <3>9. reused'[k] \subseteq lost'[k]
      BY <3>1, <3>3
    <3>10. flights'[k].prev.rt <= flights'[k].next.rt
      BY <3>2, <3>3, SMT
    <3>. QED
      BY <3>2, <3>5, <3>6, <3>7, <3>8, <3>9, <3>10 DEF Absent
  <2>5. CASE Refused(k)
    <3>1. /\ flights[k].stage = "send" /\ flights'[k].stage = "done"
          /\ flights'[k].cred = k
          /\ reused'[k] = reused[k] \cup ({flights[k].prev.rt} \cap spent[k])
          /\ UNCHANGED <<disk, minted, spent, lost>>
      BY <2>5, FlightFields DEF Refused, At, Outcomes, TypeOK
    <3>. QED
      BY <3>1
  <2>6. CASE ResponseLost(k)
    <3>1. /\ flights[k].stage = "send" /\ flights'[k].stage = "done"
          /\ flights'[k].cred = k
          /\ spent'[k] = spent[k] \cup {flights[k].prev.rt}
          /\ lost'[k] = lost[k] \cup {flights[k].prev.rt}
          /\ UNCHANGED <<disk, minted, reused>>
      BY <2>6, FlightFields DEF ResponseLost, At, Outcomes, TypeOK
    <3>. QED
      BY <3>1
  <2>7. CASE Persist(k)
    <3>1. flights[k].stage = "persist" /\ UNCHANGED <<minted, spent, reused, lost>>
      BY <2>7 DEF Persist, At
    <3>2. CASE Advance(k, "commit") /\ disk' = [disk EXCEPT ![k] = flights[k].next]
      <4>1. flights'[k].stage = "commit" /\ flights'[k].cred = k
            /\ disk'[k] = flights[k].next
        BY <3>2, FlightFields DEF Stages, TypeOK
      <4>. QED
        BY <3>1, <4>1
    <3>3. CASE /\ Finish(k, "error") \/ Finish(k, "invalidated")
               /\ UNCHANGED disk
               /\ disk[k] = Absent \/ flights[k].prev.rt # disk[k].rt
      <4>1. flights'[k].stage = "done" /\ flights'[k].cred = k
        BY <3>3, FlightFields DEF Outcomes
      <4>2. disk[k] = Absent => disk[k].rt \notin spent[k]
        BY DEF Absent
      <4>. QED
        BY <3>1, <3>3, <4>1, <4>2
    <3>. QED
      BY <2>7, <3>2, <3>3 DEF Persist, StillCurrent
  <2>8. CASE PersistFails(k)
    <3>1. /\ flights[k].stage = "persist" /\ flights'[k].stage = "done"
          /\ flights'[k].cred = k
          /\ lost'[k] = lost[k] \cup ({flights[k].prev.rt} \cap spent[k])
          /\ UNCHANGED <<disk, minted, spent, reused>>
      BY <2>8, FlightFields DEF PersistFails, At, Outcomes, TypeOK
    <3>. QED
      BY <3>1
  <2>9. CASE Commit(k)
    <3>1. /\ flights[k].stage = "commit" /\ flights'[k].stage = "done"
          /\ flights'[k].cred = k /\ UNCHANGED <<disk, minted, spent, reused, lost>>
      BY <2>9, FlightFields DEF Commit, At, Outcomes
    <3>. QED
      BY <3>1
  <2>10. CASE Deliver(k)
    <3>1. k \notin DOMAIN flights' /\ flights[k].stage = "done"
      BY <2>10 DEF Deliver, At
    <3>. QED
      BY <2>10, <3>1 DEF Deliver
  <2>. QED
    BY <2>1, <2>2, <2>3, <2>4, <2>5, <2>6, <2>7, <2>8, <2>9, <2>10 DEF FlightStep
<1>. QED
  BY <1>3, <1>4

\* What an upsert stores is fresh or already durable.
LEMMA StoreKeepsLease ==
  ASSUME LeaseInv, NEW c \in Creds, disk[c] # Absent, StoreTokens(c),
         UNCHANGED <<flights, provider, lost>>
  PROVE  \A d \in Creds : LeaseOK(d)'
<1>. DEFINE n == minted[c] + 1
<1>1. /\ TypeOK /\ minted[c] \in Nat /\ disk[c].rt \in Nat
      /\ \A d \in Creds : LeaseOK(d)
  BY DEF LeaseInv, TypeOK, Token
<1>2. ASSUME NEW d \in Creds, d # c
      PROVE  LeaseOK(d)'
  <2>1. disk'[d] = disk[d] /\ minted'[d] = minted[d]
    BY <1>1, <1>2 DEF StoreTokens, TypeOK
  <2>. QED
    BY <1>1, <2>1, LeaseFrame DEF provider
<1>3. LeaseOK(c)'
  <2>1. /\ minted'[c] = n
        /\ disk'[c].rt \in {n, disk[c].rt}
    BY <1>1 DEF StoreTokens, TypeOK
  <2>2. n \in 1..n /\ n \notin 1..minted[c] /\ 1..minted[c] \subseteq 1..n
    BY <1>1, SMT
  <2>3. disk[c].rt >= 1 /\ disk[c].rt <= minted[c] /\ spent[c] \subseteq 1..minted[c]
    BY <1>1 DEF LeaseOK
  <2>4. disk'[c].rt >= 1 /\ disk'[c].rt <= minted'[c]
    BY <1>1, <2>1, <2>3, SMT
  <2>5. spent'[c] \subseteq 1..minted'[c] /\ reused'[c] \subseteq lost'[c]
    BY <1>1, <2>1, <2>2, <2>3 DEF provider, LeaseOK
  <2>6. c \in DOMAIN flights => FlightOK(c)'
    BY <1>1, <2>1, <2>2 DEF provider, LeaseOK, FlightOK
  <2>7. disk'[c].rt \in spent'[c] => disk'[c].rt \in lost'[c] \/ Rescuing(c)'
    BY <1>1, <2>1, <2>2, <2>3 DEF provider, LeaseOK, Rescuing
  <2>. QED
    BY <2>4, <2>5, <2>6, <2>7 DEF LeaseOK
<1>. QED
  BY <1>2, <1>3

\* A removed credential has no refresh token to present.
LEMMA RemoveKeepsLease ==
  ASSUME LeaseInv, NEW c \in Creds, disk' = [disk EXCEPT ![c] = Absent],
         UNCHANGED <<flights, minted, provider, lost>>
  PROVE  \A d \in Creds : LeaseOK(d)'
<1>1. /\ TypeOK /\ \A d \in Creds : LeaseOK(d) /\ minted[d] \in Nat
  BY DEF LeaseInv, TypeOK
<1>2. ASSUME NEW d \in Creds, d # c
      PROVE  LeaseOK(d)'
  BY <1>1, <1>2, LeaseFrame DEF TypeOK, provider
<1>3. LeaseOK(c)'
  <2>1. disk'[c] = Absent /\ Absent.rt = 0 /\ 0 \notin spent[c]
    BY <1>1 DEF TypeOK, Absent, LeaseOK
  <2>. QED
    BY <1>1, <2>1 DEF LeaseOK, FlightOK, Rescuing, provider
<1>. QED
  BY <1>2, <1>3

LEMMA AdminKeepsLease ==
  ASSUME LeaseInv, NEW a \in Admins,
         \/ \E kind \in Kinds, c \in Creds : StartOp(a, kind, c)
         \/ WriteOp(a) \/ WriteOpFails(a) \/ FinishOp(a)
  PROVE  \A c \in Creds : LeaseOK(c)'
<1>1. ASSUME NEW kind \in Kinds, NEW c \in Creds, StartOp(a, kind, c)
      PROVE  \A d \in Creds : LeaseOK(d)'
  BY <1>1, LeaseStutter DEF StartOp
<1>2. CASE WriteOp(a)
  <2>1. admin[a].cred \in Creds /\ UNCHANGED <<flights, provider, lost>>
    BY <1>2 DEF WriteOp, LeaseInv, TypeOK, AdminState
  <2>2. CASE StoreTokens(admin[a].cred) /\ disk[admin[a].cred] # Absent
    BY <2>1, <2>2, StoreKeepsLease
  <2>3. CASE disk' = [disk EXCEPT ![admin[a].cred] = Absent] /\ UNCHANGED minted
    BY <2>1, <2>3, RemoveKeepsLease
  <2>4. CASE UNCHANGED <<disk, minted>>
    BY <2>1, <2>4, LeaseStutter
  <2>. QED
    BY <1>2, <2>2, <2>3, <2>4 DEF WriteOp
<1>3. CASE WriteOpFails(a)
  BY <1>3, LeaseStutter DEF WriteOpFails
<1>4. CASE FinishOp(a)
  BY <1>4, LeaseStutter DEF FinishOp
<1>. QED
  BY <1>1, <1>2, <1>3, <1>4

\* A crash destroys exactly the successors that only a flight held.
LEMMA EnvironmentKeepsLease ==
  ASSUME LeaseInv, (\E c \in Creds : OperatorEdit(c)) \/ Crash
  PROVE  \A c \in Creds : LeaseOK(c)'
<1>1. ASSUME NEW c \in Creds, OperatorEdit(c)
      PROVE  \A d \in Creds : LeaseOK(d)'
  BY <1>1, StoreKeepsLease DEF OperatorEdit
<1>2. CASE Crash
  <2>. SUFFICES ASSUME NEW c \in Creds PROVE LeaseOK(c)'
    OBVIOUS
  <2>1. LeaseOK(c) /\ UNCHANGED <<disk, minted, spent, reused>>
    BY <1>2 DEF LeaseInv, Crash, provider
  <2>2. /\ DOMAIN flights' = {}
        /\ lost'[c] = lost[c] \cup (InFlightOnly(c) \cap spent[c])
    BY <1>2 DEF Crash
  <2>3. Rescuing(c) => disk[c].rt \in InFlightOnly(c)
    BY <2>1 DEF Rescuing, InFlightOnly, LeaseOK, FlightOK
  <2>. QED
    BY <2>1, <2>2, <2>3 DEF LeaseOK, Rescuing
<1>. QED
  BY <1>1, <1>2

\* The strengthened invariant.
THEOREM LeaseInvariant == Spec => []LeaseInv
<1>1. Init => LeaseInv
  <2>1. Init => TypeOK
    BY RestingTyped DEF Init, TypeOK, Token
  <2>. QED
    BY <2>1 DEF Init, LeaseInv, LeaseOK, Rescuing
<1>2. LeaseInv /\ TypeOK' /\ [Next]_vars => LeaseInv'
  <2>1. CASE UNCHANGED vars
    BY <2>1, LeaseStutter DEF vars, memory, LeaseInv
  <2>2. ASSUME LeaseInv, TypeOK', Next
        PROVE  LeaseInv'
    <3>1. \A c \in Creds : LeaseOK(c)'
      BY <2>2, CallerKeepsLease, FlightKeepsLease, AdminKeepsLease,
         EnvironmentKeepsLease DEF Next
    <3>. QED
      BY <2>2, <3>1 DEF LeaseInv
  <2>. QED
    BY <2>1, <2>2
<1>. QED
  BY <1>1, <1>2, TypeCorrect, PTL DEF Spec

\* A refresh token that a rotation consumed is presented again only when a
\* fault destroyed its successor, for every number of credentials, callers
\* and admin operations.
THEOREM SpentTokensNotReused == Spec => []NoReuse
  BY LeaseInvariant, LeaseInvImplies, PTL

\* No rotation is dropped by an invalidation, an import or a race: the
\* successor of a consumed durable token is about to be persisted, or a
\* fault destroyed it.
THEOREM RotationsKept == Spec => []RotationKept
  BY LeaseInvariant, LeaseInvImplies, PTL

-----------------------------------------------------------------------------
(***************************************************************************)
(* The durable refresh token does not go back.                             *)
(***************************************************************************)
LEMMA StoreMovesOn ==
  ASSUME LeaseInv, NEW c \in Creds, StoreTokens(c)
  PROVE  \A d \in Creds : disk'[d].rt >= disk[d].rt
<1>1. /\ disk \in [Creds -> Token] /\ minted[c] \in Nat
      /\ \A d \in Creds : disk[d].rt \in Nat
      /\ disk[c].rt <= minted[c]
  BY DEF LeaseInv, LeaseOK, TypeOK, Token
<1>2. PICK rt \in {minted[c] + 1, disk[c].rt} :
        disk' = [disk EXCEPT ![c] = [at |-> minted[c] + 1, rt |-> rt]]
  BY DEF StoreTokens
<1>3. rt >= disk[c].rt
  BY <1>1
<1>4. disk'[c].rt = rt /\ \A d \in Creds \ {c} : disk'[d] = disk[d]
  BY <1>1, <1>2
<1>. QED
  BY <1>1, <1>3, <1>4

LEMMA PersistMovesOn ==
  ASSUME LeaseInv, NEW k \in DOMAIN flights, Persist(k)
  PROVE  \A d \in Creds : disk'[d].rt >= disk[d].rt
<1>1. /\ k \in Creds /\ FlightOK(k) /\ flights[k].stage = "persist"
      /\ disk \in [Creds -> Token] /\ \A d \in Creds : disk[d].rt \in Nat
  BY DEF LeaseInv, LeaseOK, TypeOK, Token, Persist, At
<1>2. CASE UNCHANGED disk
  BY <1>1, <1>2
<1>3. CASE StillCurrent(flights[k].prev, disk[k]) /\ disk' = [disk EXCEPT ![k] = flights[k].next]
  <2>1. disk[k].rt = flights[k].prev.rt /\ flights[k].prev.rt <= flights[k].next.rt
    BY <1>1, <1>3 DEF FlightOK, StillCurrent
  <2>2. disk'[k] = flights[k].next /\ \A d \in Creds \ {k} : disk'[d] = disk[d]
    BY <1>1, <1>3
  <2>. QED
    BY <1>1, <2>1, <2>2
<1>. QED
  BY <1>1, <1>2, <1>3 DEF Persist, FlightOK

\* commitIfCurrent and the upserts: whatever overtakes a grant, the durable
\* refresh token of a credential never becomes an older one; only a deletion
\* takes it away.
THEOREM NewestTokenKept == Spec => NewestLoginWins
<1>1. LeaseInv /\ [Next]_vars =>
        [\A c \in Creds : disk'[c] # Absent => disk'[c].rt >= disk[c].rt]_disk
  <2>. SUFFICES ASSUME LeaseInv, [Next]_vars, disk' # disk
                PROVE  \A c \in Creds : disk'[c] # Absent => disk'[c].rt >= disk[c].rt
    OBVIOUS
  <2>1. CASE \E c \in Creds : OperatorEdit(c)
    BY <2>1, StoreMovesOn DEF OperatorEdit
  <2>2. CASE \E k \in DOMAIN flights : Persist(k)
    BY <2>2, PersistMovesOn
  <2>3. ASSUME NEW a \in Admins, WriteOp(a)
        PROVE  \A c \in Creds : disk'[c] # Absent => disk'[c].rt >= disk[c].rt
    <3>1. admin[a].cred \in Creds /\ disk \in [Creds -> Token]
          /\ \A d \in Creds : disk[d].rt \in Nat
      BY DEF LeaseInv, TypeOK, AdminState, Token
    <3>2. CASE StoreTokens(admin[a].cred)
      BY <3>1, <3>2, StoreMovesOn
    <3>3. CASE disk' = [disk EXCEPT ![admin[a].cred] = Absent]
      BY <3>1, <3>3
    <3>. QED
      BY <2>3, <3>2, <3>3 DEF WriteOp
  <2>4. \/ \E c \in Creds : OperatorEdit(c)
        \/ \E k \in DOMAIN flights : Persist(k)
        \/ \E a \in Admins : WriteOp(a)
    BY DEF Next, vars, Request, Begin, Snapshot, CallerStep, Retry, EnsureAccess, Capture,
       Join, Verify, Abandon, FlightStep, Borrow, Load, CheckGenerations, Granted, Refused,
       Commit, Deliver, ResponseLost, PersistFails, StartOp, WriteOpFails, FinishOp, Crash
  <2>. QED
    BY <2>1, <2>2, <2>3, <2>4
<1>. QED
  BY <1>1, LeaseInvariant, PTL DEF Spec, NewestLoginWins

-----------------------------------------------------------------------------
(***************************************************************************)
(* Each step is a step, or a stutter, of the lease.                        *)
(***************************************************************************)
Leases == [c \in Creds |-> LeaseOf(c)]

\* What only the provider and the durable store see.
Effects == <<disk, minted, spent, reused, lost>>

\* A step leaves the lease of c alone, or changes it to v.
LEMMA LeaseStays ==
  ASSUME NEW c \in Creds,
         c \in DOMAIN flights' <=> c \in DOMAIN flights,
         c \in DOMAIN flights => flights'[c] = flights[c]
  PROVE  LeaseOf(c)' = LeaseOf(c)
BY DEF LeaseOf

LEMMA LeasesStay ==
  ASSUME \A c \in Creds : LeaseOf(c)' = LeaseOf(c)
  PROVE  Leases' = Leases
BY DEF Leases

LEMMA LeaseChanges ==
  ASSUME NEW k \in Creds, \A c \in Creds \ {k} : LeaseOf(c)' = LeaseOf(c)
  PROVE  Leases' = [Leases EXCEPT ![k] = LeaseOf(k)']
BY DEF Leases

\* The lease of a flight by its stage.
LEMMA LeaseByStage ==
  ASSUME NEW k \in DOMAIN flights
  PROVE  /\ flights[k].stage \notin {"check", "send", "persist"} => LeaseOf(k) = Lease!Free
         /\ flights[k].stage \in {"check", "send"} => LeaseOf(k) = Lease!Held(flights[k].prev.rt)
         /\ flights[k].stage = "persist" =>
              LeaseOf(k) = [phase |-> "granted", rt |-> flights[k].prev.rt,
                            next |-> flights[k].next]
BY DEF LeaseOf, Lease!Free, Lease!Held, Lease!Absent, Absent

LEMMA FlightImplementsLease ==
  ASSUME LeaseInv, NEW k \in DOMAIN flights,
         FlightStep(k) \/ ResponseLost(k) \/ PersistFails(k)
  PROVE  Lease!Step(k) \/ UNCHANGED <<disk, Leases, minted, spent, reused, lost>>
<1>1. /\ TypeOK /\ k \in Creds /\ LeaseOK(k) /\ FlightOK(k) /\ flights[k].cred = k
      /\ flights[k] \in FlightState /\ minted[k] \in Nat /\ Leases[k] = LeaseOf(k)
  BY DEF LeaseInv, TypeOK, LeaseOK, FlightOK, Leases
<1>2. Leases' = [Leases EXCEPT ![k] = LeaseOf(k)']
  <2>1. \A c \in Creds \ {k} : LeaseOf(c)' = LeaseOf(c)
    BY <1>1, FlightFields, LeaseStays DEF FlightStep, Borrow, Load, CheckGenerations,
       Granted, Refused, Persist, Commit, Deliver, ResponseLost, PersistFails, Advance, Finish
  <2>. QED
    BY <1>1, <2>1, LeaseChanges
<1>3. ASSUME LeaseOf(k)' = LeaseOf(k) PROVE Leases' = Leases
  BY <1>1, <1>2, <1>3 DEF Leases
<1>4. ASSUME Finish(k, "error") \/ Finish(k, "invalidated") \/ Finish(k, "ok")
      PROVE  LeaseOf(k)' = Lease!Free /\ Leases' = [Leases EXCEPT ![k] = Lease!Free]
  <2>1. k \in DOMAIN flights' /\ flights'[k].stage = "done"
    BY <1>1, <1>4, FlightFields DEF Outcomes
  <2>2. LeaseOf(k)' = Lease!Free
    BY <2>1 DEF LeaseOf, Lease!Free, Lease!Absent, Absent
  <2>. QED
    BY <1>2, <2>2
<1>5. CASE Borrow(k)
  <2>1. flights'[k].stage = "load" /\ k \in DOMAIN flights' /\ flights[k].stage = "borrow"
    BY <1>1, <1>5 DEF Borrow, At, FlightState
  <2>2. LeaseOf(k)' = LeaseOf(k)
    BY <2>1 DEF LeaseOf
  <2>. QED
    BY <1>3, <1>5, <2>2 DEF Borrow, provider
<1>6. CASE Load(k)
  <2>1. LeaseOf(k) = Lease!Free /\ UNCHANGED Effects
    BY <1>6, LeaseByStage DEF Load, At, Effects, provider
  <2>2. CASE Finish(k, "error") \/ Finish(k, "invalidated")
    BY <1>3, <1>4, <2>1, <2>2 DEF Effects
  <2>3. CASE /\ disk[k] # Absent
             /\ flights' = [flights EXCEPT ![k].stage = "check", ![k].prev = disk[k]]
    <3>1. /\ k \in DOMAIN flights' /\ flights'[k].stage = "check"
          /\ flights'[k].prev = disk[k]
      BY <1>1, <2>3 DEF FlightState
    <3>2. LeaseOf(k)' = Lease!Held(disk[k].rt)
      BY <3>1 DEF LeaseOf, Lease!Held, Lease!Absent, Absent
    <3>3. Lease!Take(k)
      BY <1>1, <1>2, <2>1, <2>3, <3>2 DEF Lease!Take, Lease!Absent, Absent, Effects, Leases
    <3>. QED
      BY <3>3 DEF Lease!Step
  <2>. QED
    BY <1>1, <1>6, <2>2, <2>3 DEF Load
<1>7. CASE CheckGenerations(k)
  <2>1. flights[k].stage = "check" /\ UNCHANGED Effects
    BY <1>7 DEF CheckGenerations, At, Effects, provider
  <2>2. CASE Advance(k, "send")
    <3>1. flights'[k].stage = "send" /\ k \in DOMAIN flights' /\ flights'[k].prev = flights[k].prev
      BY <1>1, <2>2, FlightFields DEF Stages
    <3>2. LeaseOf(k)' = LeaseOf(k)
      BY <2>1, <3>1 DEF LeaseOf
    <3>. QED
      BY <1>3, <2>1, <3>2 DEF Effects
  <2>3. CASE Finish(k, "invalidated")
    <3>1. Lease!GiveUp(k)
      BY <1>1, <1>4, <2>1, <2>3, LeaseByStage
         DEF Lease!GiveUp, Lease!Release, Lease!Held, Effects, Leases
    <3>. QED
      BY <3>1 DEF Lease!Step
  <2>. QED
    BY <1>7, <2>2, <2>3 DEF CheckGenerations
<1>8. CASE Granted(k)
  <2>. DEFINE n == minted[k] + 1
              old == flights[k].prev.rt
  <2>1. /\ flights[k].stage = "send" /\ LeaseOf(k) = Lease!Held(old) /\ old \notin spent[k]
        /\ minted' = [minted EXCEPT ![k] = n] /\ UNCHANGED <<disk, reused, lost>>
    BY <1>1, <1>8, LeaseByStage DEF Granted, At
  <2>2. n # old
    BY <1>1, <2>1 DEF FlightOK
  <2>3. PICK rt \in {n, old} :
          /\ flights' = [flights EXCEPT ![k].stage = "persist", ![k].next = [at |-> n, rt |-> rt]]
          /\ spent' = IF rt = old THEN spent ELSE [spent EXCEPT ![k] = @ \cup {old}]
    BY <1>1, <1>8, <2>2 DEF Granted
  <2>4. LeaseOf(k)' = [phase |-> "granted", rt |-> old, next |-> [at |-> n, rt |-> rt]]
    <3>1. ASSUME NEW t, flights' = [flights EXCEPT ![k].stage = "persist", ![k].next = t]
          PROVE  /\ k \in DOMAIN flights' /\ flights'[k].stage = "persist"
                 /\ flights'[k].prev = flights[k].prev /\ flights'[k].next = t
      BY <1>1, <3>1 DEF FlightState
    <3>2. /\ k \in DOMAIN flights' /\ flights'[k].stage = "persist"
          /\ flights'[k].prev = flights[k].prev /\ flights'[k].next = [at |-> n, rt |-> rt]
      BY <2>3, <3>1
    <3>. QED
      BY <3>2 DEF LeaseOf
  <2>5. Leases[k].phase = "held" /\ Leases[k].rt = old
    BY <1>1, <2>1 DEF Lease!Held
  <2>6. Lease!Grant(k)
    BY <1>2, <2>1, <2>3, <2>4, <2>5 DEF Lease!Grant, Leases
  <2>. QED
    BY <2>6 DEF Lease!Step
<1>9. CASE Refused(k)
  <2>1. /\ flights[k].stage = "send" /\ UNCHANGED <<disk, minted, spent, lost>>
        /\ reused' = [reused EXCEPT ![k] = @ \cup ({flights[k].prev.rt} \cap spent[k])]
        /\ Finish(k, "error")
    BY <1>1, <1>9 DEF Refused, At
  <2>2. Leases[k].phase = "held" /\ Leases[k].rt = flights[k].prev.rt
    BY <1>1, <2>1, LeaseByStage DEF Lease!Held
  <2>3. /\ Leases' = [Leases EXCEPT ![k] = Lease!Free]
        /\ reused' = [reused EXCEPT ![k] = @ \cup ({Leases[k].rt} \cap spent[k])]
    BY <1>4, <2>1, <2>2
  <2>4. Lease!Refuse(k)
    BY <2>1, <2>2, <2>3 DEF Lease!Refuse, Lease!Release, Leases
  <2>. QED
    BY <2>4 DEF Lease!Step
<1>10. CASE ResponseLost(k)
  <2>1. /\ flights[k].stage = "send" /\ UNCHANGED <<disk, minted, reused>>
        /\ flights[k].prev.rt \notin spent[k]
        /\ spent' = [spent EXCEPT ![k] = @ \cup {flights[k].prev.rt}]
        /\ lost' = [lost EXCEPT ![k] = @ \cup {flights[k].prev.rt}]
        /\ Finish(k, "error")
    BY <1>1, <1>10 DEF ResponseLost, At
  <2>2. Leases[k].phase = "held" /\ Leases[k].rt = flights[k].prev.rt
    BY <1>1, <2>1, LeaseByStage DEF Lease!Held
  <2>3. /\ Leases' = [Leases EXCEPT ![k] = Lease!Free]
        /\ spent' = [spent EXCEPT ![k] = @ \cup {Leases[k].rt}]
        /\ lost' = [lost EXCEPT ![k] = @ \cup {Leases[k].rt}]
        /\ Leases[k].rt \notin spent[k]
    BY <1>4, <2>1, <2>2
  <2>4. Lease!LoseAnswer(k)
    BY <2>1, <2>2, <2>3 DEF Lease!LoseAnswer, Lease!Release, Leases
  <2>. QED
    BY <2>4 DEF Lease!Step
<1>11. CASE Persist(k)
  <2>1. /\ Leases[k] = [phase |-> "granted", rt |-> flights[k].prev.rt, next |-> flights[k].next]
        /\ UNCHANGED <<minted, spent, reused, lost>>
    BY <1>1, <1>11, LeaseByStage DEF Persist, At, provider
  <2>2. CASE /\ disk[k] # Absent /\ flights[k].prev.rt = disk[k].rt
             /\ Advance(k, "commit") /\ disk' = [disk EXCEPT ![k] = flights[k].next]
    <3>1. k \in DOMAIN flights' /\ flights'[k].stage = "commit"
      BY <1>1, <2>2, FlightFields DEF Stages
    <3>2. LeaseOf(k)' = Lease!Free
      BY <3>1 DEF LeaseOf, Lease!Free, Lease!Absent, Absent
    <3>3. Leases' = [Leases EXCEPT ![k] = Lease!Free]
      BY <1>2, <3>2
    <3>4. /\ Leases[k].phase = "granted" /\ disk[k].rt = Leases[k].rt
          /\ disk' = [disk EXCEPT ![k] = Leases[k].next]
      BY <2>1, <2>2
    <3>5. Lease!Store(k)
      BY <2>1, <2>2, <3>3, <3>4 DEF Lease!Store, Lease!Release, Lease!Absent, Absent, Leases
    <3>. QED
      BY <3>5 DEF Lease!Step
  <2>3. CASE /\ disk[k] = Absent \/ flights[k].prev.rt # disk[k].rt
             /\ Finish(k, "error") \/ Finish(k, "invalidated")
             /\ UNCHANGED disk
    <3>1. Lease!Supersede(k)
      BY <1>4, <2>1, <2>3 DEF Lease!Supersede, Lease!Release, Lease!Absent, Absent, Leases
    <3>. QED
      BY <3>1 DEF Lease!Step
  <2>. QED
    BY <1>1, <1>11, <2>2, <2>3 DEF Persist, StillCurrent
<1>12. CASE PersistFails(k)
  <2>1. /\ flights[k].stage = "persist" /\ UNCHANGED <<disk, minted, spent, reused>>
        /\ lost' = [lost EXCEPT ![k] = @ \cup ({flights[k].prev.rt} \cap spent[k])]
        /\ Finish(k, "error")
    BY <1>1, <1>12 DEF PersistFails, At, provider
  <2>2. Leases[k].phase = "granted" /\ Leases[k].rt = flights[k].prev.rt
    BY <1>1, <2>1, LeaseByStage
  <2>3. /\ Leases' = [Leases EXCEPT ![k] = Lease!Free]
        /\ lost' = [lost EXCEPT ![k] = @ \cup ({Leases[k].rt} \cap spent[k])]
    BY <1>4, <2>1, <2>2
  <2>4. Lease!LoseGrant(k)
    BY <2>1, <2>2, <2>3 DEF Lease!LoseGrant, Lease!Release, Leases
  <2>. QED
    BY <2>4 DEF Lease!Step
<1>13. CASE Commit(k)
  <2>1. LeaseOf(k) = Lease!Free /\ UNCHANGED Effects /\ (Finish(k, "ok") \/ Finish(k, "invalidated"))
    BY <1>13, LeaseByStage DEF Commit, At, Effects, provider
  <2>. QED
    BY <1>3, <1>4, <2>1 DEF Effects
<1>14. CASE Deliver(k)
  <2>1. LeaseOf(k) = Lease!Free /\ UNCHANGED Effects /\ k \notin DOMAIN flights'
    BY <1>14, LeaseByStage DEF Deliver, At, Effects, provider
  <2>2. LeaseOf(k)' = Lease!Free
    BY <2>1 DEF LeaseOf, Lease!Free, Lease!Absent, Absent
  <2>. QED
    BY <1>3, <2>1, <2>2 DEF Effects
<1>. QED
  BY <1>5, <1>6, <1>7, <1>8, <1>9, <1>10, <1>11, <1>12, <1>13, <1>14 DEF FlightStep

LEMMA StoreImplementsLogin ==
  ASSUME NEW c \in Creds, disk[c] # Absent, StoreTokens(c), UNCHANGED <<flights, provider, lost>>
  PROVE  Lease!Step(c)
<1>1. Leases' = Leases
  BY LeaseStays, LeasesStay
<1>2. Lease!Login(c)
  BY <1>1 DEF Lease!Login, Lease!Absent, Absent, Leases, StoreTokens, provider
<1>. QED
  BY <1>2 DEF Lease!Step

\* Everybody else: callers and generations are invisible.
LEMMA OthersImplementLease ==
  ASSUME LeaseInv, Next, ~(\E k \in DOMAIN flights : FlightStep(k) \/ ResponseLost(k) \/ PersistFails(k))
  PROVE  Lease!Next \/ UNCHANGED <<disk, Leases, minted, spent, reused, lost>>
<1>1. ASSUME NEW p \in Callers, Request(p) \/ CallerStep(p) \/ Abandon(p)
      PROVE  UNCHANGED <<disk, Leases, minted, spent, reused, lost>>
  <2>1. UNCHANGED Effects
    BY <1>1 DEF Request, Begin, Snapshot, CallerStep, Retry, EnsureAccess, Capture, Join,
       Verify, Abandon, Effects, provider
  <2>2. CASE Join(p)
    <3>1. ASSUME NEW c \in Creds PROVE LeaseOf(c)' = LeaseOf(c)
      <4>1. CASE c \in DOMAIN flights \/ c # KeyOf(p)
        BY <2>2, <4>1, LeaseStays DEF Join
      <4>2. CASE c \notin DOMAIN flights /\ c = KeyOf(p)
        <5>1. c \in DOMAIN flights' /\ flights'[c].stage = "borrow"
          BY <2>2, <4>2 DEF Join, NewFlight
        <5>. QED
          BY <4>2, <5>1 DEF LeaseOf
      <4>. QED
        BY <4>1, <4>2
    <3>. QED
      BY <2>1, <3>1, LeasesStay DEF Effects
  <2>3. CASE UNCHANGED flights
    BY <2>1, <2>3, LeaseStays, LeasesStay DEF Effects
  <2>. QED
    BY <1>1, <2>2, <2>3 DEF Request, Begin, Snapshot, CallerStep, Retry, EnsureAccess,
       Capture, Verify, Abandon
<1>2. ASSUME NEW a \in Admins, WriteOp(a)
      PROVE  Lease!Next \/ UNCHANGED <<disk, Leases, minted, spent, reused, lost>>
  <2>1. admin[a].cred \in Creds /\ UNCHANGED <<flights, spent, reused, lost>>
    BY <1>2 DEF WriteOp, LeaseInv, TypeOK, AdminState, provider
  <2>2. Leases' = Leases
    BY <2>1, LeaseStays, LeasesStay
  <2>3. CASE StoreTokens(admin[a].cred) /\ disk[admin[a].cred] # Absent
    BY <2>1, <2>3, StoreImplementsLogin DEF provider, Lease!Next
  <2>4. CASE disk' = [disk EXCEPT ![admin[a].cred] = Absent] /\ UNCHANGED minted
    <3>1. Lease!Remove(admin[a].cred)
      BY <2>1, <2>2, <2>4 DEF Lease!Remove, Lease!Absent, Absent, Leases
    <3>. QED
      BY <2>1, <3>1 DEF Lease!Step, Lease!Next
  <2>5. CASE UNCHANGED <<disk, minted>>
    BY <2>1, <2>2, <2>5
  <2>. QED
    BY <1>2, <2>3, <2>4, <2>5 DEF WriteOp
<1>3. ASSUME NEW a \in Admins,
             (\E kind \in Kinds, c \in Creds : StartOp(a, kind, c)) \/ WriteOpFails(a) \/ FinishOp(a)
      PROVE  UNCHANGED <<disk, Leases, minted, spent, reused, lost>>
  <2>1. UNCHANGED <<disk, flights, minted, spent, reused, lost>>
    BY <1>3 DEF StartOp, WriteOpFails, FinishOp, provider
  <2>. QED
    BY <2>1, LeaseStays, LeasesStay
<1>4. ASSUME NEW c \in Creds, OperatorEdit(c)
      PROVE  Lease!Next
  BY <1>4, StoreImplementsLogin DEF OperatorEdit, Lease!Next
<1>5. CASE Crash
  <2>1. DOMAIN flights' = {} /\ UNCHANGED <<disk, minted, spent, reused>>
    BY <1>5 DEF Crash, provider
  <2>2. Leases' = [c \in Creds |-> Lease!Free]
    BY <2>1 DEF Leases, LeaseOf, Lease!Free, Lease!Absent, Absent
  <2>3. ASSUME NEW c \in Creds
        PROVE  InFlightOnly(c) \cap spent[c] =
                 IF Leases[c].phase = "granted" THEN {Leases[c].rt} \cap spent[c] ELSE {}
    <3>1. \A k \in DOMAIN flights : k \in Creds /\ flights[k].cred = k
      BY DEF LeaseInv, TypeOK, LeaseOK, FlightOK
    <3>2. Leases[c] = LeaseOf(c)
      BY DEF Leases
    <3>3. CASE c \in DOMAIN flights /\ flights[c].stage = "persist"
      <4>1. InFlightOnly(c) = {flights[c].prev.rt}
        BY <3>1, <3>3 DEF InFlightOnly
      <4>. QED
        BY <3>2, <3>3, <4>1, LeaseByStage
    <3>4. CASE ~(c \in DOMAIN flights /\ flights[c].stage = "persist")
      <4>1. InFlightOnly(c) = {}
        BY <3>1, <3>4 DEF InFlightOnly
      <4>2. LeaseOf(c).phase # "granted"
        BY <3>4 DEF LeaseOf
      <4>. QED
        BY <3>2, <4>1, <4>2
    <3>. QED
      BY <3>3, <3>4
  <2>4. lost' = [c \in Creds |-> lost[c] \cup
          (IF Leases[c].phase = "granted" THEN {Leases[c].rt} \cap spent[c] ELSE {})]
    BY <1>5, <2>3 DEF Crash
  <2>5. Lease!Restart
    BY <2>1, <2>2, <2>4 DEF Lease!Restart, Leases
  <2>. QED
    BY <2>5 DEF Lease!Next
<1>. QED
  BY <1>1, <1>2, <1>3, <1>4, <1>5 DEF Next

\* What the refresher does to tokens, through caches, epochs, joined flights,
\* invalidations, imports and crashes, is what RefreshLease promises: one grant
\* at a time that presents the token it leased, stored if that token is still
\* the durable one (refresh.go, ForceRefreshToken and commitIfCurrent).
THEOREM RefreshIsLeased == Spec => ImplementsLease
<1>1. Init => Lease!Init
  <2>1. ASSUME Init PROVE Leases = [c \in Creds |-> Lease!Free]
    BY <2>1 DEF Init, Leases, LeaseOf, Lease!Free, Lease!Absent, Absent
  <2>. QED
    BY <2>1 DEF Init, Lease!Init, Leases
<1>2. LeaseInv /\ [Next]_vars => [Lease!Next]_(Lease!vars)
  <2>. SUFFICES ASSUME LeaseInv, [Next]_vars
                PROVE  Lease!Next \/ UNCHANGED <<disk, Leases, minted, spent, reused, lost>>
    BY DEF Lease!vars, Leases
  <2>1. ASSUME NEW k \in DOMAIN flights, FlightStep(k) \/ ResponseLost(k) \/ PersistFails(k)
        PROVE  Lease!Next \/ UNCHANGED <<disk, Leases, minted, spent, reused, lost>>
    BY <2>1, FlightImplementsLease DEF LeaseInv, TypeOK, Lease!Next
  <2>2. CASE UNCHANGED vars
    BY <2>2, LeaseStays, LeasesStay DEF vars, provider
  <2>. QED
    BY <2>1, <2>2, OthersImplementLease
<1>. QED
  BY <1>1, <1>2, LeaseInvariant, PTL DEF Spec, ImplementsLease, Lease!Spec

-----------------------------------------------------------------------------
(***************************************************************************)
(* The cache is repaired.                                                  *)
(***************************************************************************)
Posted(c) == \E a \in Admins : admin[a].pc = "post" /\ admin[a].cred = c

\* Generation and epoch have been those of c, so an invalidation retires them.
Issued(c, gen, epoch) == gen <= generation /\ (gen = generation => epoch <= keyEpoch[c])

Repaired(c) ==
  \/ cache[c] \in {Absent, disk[c]}
  \/ Posted(c)
  \/ /\ c \in DOMAIN flights
     /\ flights[c].stage = "commit" /\ GenerationsCurrent(flights[c])

\* An invalidation behind the check of a flight leaves an empty cache, which
\* only that flight could fill; what it is about to fill in is durable.
FlightRepairs(c) ==
  /\ Issued(c, flights[c].gen, flights[c].epoch)
  /\ flights[c].stage \in {"send", "persist", "commit"} /\ ~GenerationsCurrent(flights[c])
       => cache[c] = Absent
  /\ flights[c].stage = "commit" /\ GenerationsCurrent(flights[c])
       => flights[c].next = disk[c] \/ Posted(c)

RepairOK(c) == Repaired(c) /\ (c \in DOMAIN flights => FlightRepairs(c))

CallersIssued ==
  \A p \in Callers : Issued(caller[p].cred, caller[p].gen, caller[p].epoch)

RepairInv == LeaseInv /\ CallersIssued /\ \A c \in Creds : RepairOK(c)

LEMMA RepairTypes ==
  ASSUME LeaseInv
  PROVE  /\ generation \in Nat /\ keyEpoch \in [Creds -> Nat] /\ cache \in [Creds -> Token]
         /\ disk \in [Creds -> Token] /\ caller \in [Callers -> CallerState]
         /\ admin \in [Admins -> AdminState]
         /\ \A p \in Callers : /\ caller[p].cred \in Creds
                               /\ caller[p].gen \in Nat /\ caller[p].epoch \in Nat
         /\ \A k \in DOMAIN flights :
              /\ k \in Creds /\ flights[k] \in FlightState /\ flights[k].cred = k
              /\ flights[k].gen \in Nat /\ flights[k].epoch \in Nat
BY DEF LeaseInv, TypeOK, LeaseOK, FlightOK, FlightState, CallerState

LEMMA RepairFrame ==
  ASSUME LeaseInv, NEW c \in Creds, RepairOK(c),
         cache'[c] = cache[c], disk'[c] = disk[c], keyEpoch'[c] = keyEpoch[c],
         generation' = generation, Posted(c)' = Posted(c),
         c \in DOMAIN flights' <=> c \in DOMAIN flights,
         c \in DOMAIN flights => flights'[c] = flights[c]
  PROVE  RepairOK(c)'
BY RepairTypes DEF RepairOK, Repaired, FlightRepairs, Issued, GenerationsCurrent

\* What was issued stays issued as long as the process lives.
LEMMA IssuedStays ==
  ASSUME LeaseInv, generation' \in Nat, keyEpoch' \in [Creds -> Nat],
         generation' >= generation,
         generation' = generation => \A c \in Creds : keyEpoch'[c] >= keyEpoch[c],
         NEW c \in Creds, NEW gen \in Nat, NEW epoch \in Nat, Issued(c, gen, epoch)
  PROVE  Issued(c, gen, epoch)'
BY RepairTypes DEF Issued

LEMMA CallerKeepsRepair ==
  ASSUME RepairInv, NEW p \in Callers, Request(p) \/ CallerStep(p) \/ Abandon(p)
  PROVE  CallersIssued' /\ \A c \in Creds : RepairOK(c)'
<1>. USE DEF RepairInv
<1>1. /\ UNCHANGED <<cache, generation, keyEpoch, disk, admin>>
      /\ \A q \in Callers \ {p} : caller'[q] = caller[q]
  BY RepairTypes DEF Request, Begin, Snapshot, CallerStep, Retry, EnsureAccess, Capture,
     Join, Verify, Abandon, memory
<1>2. Issued(caller'[p].cred, caller'[p].gen, caller'[p].epoch)
  <2>1. Issued(caller[p].cred, caller[p].gen, caller[p].epoch)
    BY DEF CallersIssued
  <2>2. ASSUME NEW pc, NEW c \in Creds, NEW cur
        PROVE  Issued(CallerAt(pc, c, cur).cred, CallerAt(pc, c, cur).gen, CallerAt(pc, c, cur).epoch)
    BY RepairTypes DEF CallerAt, Issued
  <2>3. Issued(Idle.cred, Idle.gen, Idle.epoch)
    BY <2>2, ConstantsOK DEF Idle
  <2>4. ASSUME NEW c \in Creds, NEW force \in BOOLEAN, Snapshot(p, c, force)
        PROVE  Issued(caller'[p].cred, caller'[p].gen, caller'[p].epoch)
    BY <2>2, <2>3, <2>4, RepairTypes DEF Snapshot
  <2>5. CASE Request(p) \/ Retry(p)
    BY <2>4, <2>5, RepairTypes DEF Request, Begin, Retry
  <2>6. CASE EnsureAccess(p) \/ Join(p)
    BY <2>1, <2>6, RepairTypes DEF EnsureAccess, Join, CallerState
  <2>7. CASE Capture(p)
    <3>1. /\ caller'[p].gen = generation /\ caller'[p].cred = caller[p].cred
          /\ caller'[p].epoch = keyEpoch[caller[p].cred]
      BY <2>7, RepairTypes DEF Capture, CallerState
    <3>. QED
      BY <3>1, RepairTypes DEF Issued
  <2>8. CASE Verify(p) \/ Abandon(p)
    BY <2>2, <2>3, <2>8, RepairTypes DEF Verify, Abandon
  <2>. QED
    BY <2>5, <2>6, <2>7, <2>8 DEF CallerStep
<1>3. CallersIssued'
  BY <1>1, <1>2 DEF CallersIssued, Issued
<1>4. ASSUME NEW c \in Creds PROVE RepairOK(c)'
  <2>1. RepairOK(c) /\ Posted(c)' = Posted(c)
    BY <1>1 DEF Posted
  <2>2. CASE UNCHANGED flights \/ (Join(p) /\ (c \in DOMAIN flights \/ c # KeyOf(p)))
    <3>1. /\ c \in DOMAIN flights' <=> c \in DOMAIN flights
          /\ c \in DOMAIN flights => flights'[c] = flights[c]
      BY <2>2 DEF Join
    <3>. QED
      BY <1>1, <2>1, <3>1, RepairFrame
  <2>3. CASE Join(p) /\ c \notin DOMAIN flights /\ c = KeyOf(p)
    <3>1. c \in DOMAIN flights' /\ flights'[c] = NewFlight(p) /\ c = caller[p].cred
      BY <2>3 DEF Join, KeyOf, GroupKey
    <3>2. /\ flights'[c].stage = "borrow" /\ flights'[c].gen = caller[p].gen
          /\ flights'[c].epoch = caller[p].epoch
      BY <3>1 DEF NewFlight
    <3>3. Issued(c, caller[p].gen, caller[p].epoch)
      BY <3>1 DEF CallersIssued
    <3>. QED
      BY <1>1, <2>1, <2>3, <3>1, <3>2, <3>3 DEF RepairOK, Repaired, FlightRepairs, Issued
  <2>. QED
    BY <2>2, <2>3 DEF Request, Begin, Snapshot, CallerStep, Retry, EnsureAccess, Capture,
       Verify, Abandon
<1>. QED
  BY <1>3, <1>4

LEMMA FlightKeepsRepair ==
  ASSUME RepairInv, NEW k \in DOMAIN flights,
         FlightStep(k) \/ ResponseLost(k) \/ PersistFails(k)
  PROVE  CallersIssued' /\ \A c \in Creds : RepairOK(c)'
<1>1. /\ LeaseInv /\ TypeOK /\ k \in Creds /\ flights[k].cred = k /\ flights[k] \in FlightState
      /\ Repaired(k) /\ FlightRepairs(k) /\ \A c \in Creds : RepairOK(c)
      /\ disk \in [Creds -> Token] /\ cache \in [Creds -> Token]
  BY RepairTypes DEF RepairInv, RepairOK, LeaseInv
<1>2. UNCHANGED <<generation, keyEpoch, admin>>
  BY DEF FlightStep, Borrow, Load, CheckGenerations, Granted, Refused, Persist, Commit,
     Deliver, ResponseLost, PersistFails, memory
<1>3. \A c \in Creds : Posted(c)' = Posted(c)
  BY <1>2 DEF Posted
<1>4. CallersIssued'
  <2>1. CASE UNCHANGED caller
    BY <1>2, <2>1 DEF RepairInv, CallersIssued, Issued
  <2>2. CASE Deliver(k)
    <3>. DEFINE f == flights[k]
                result == CASE f.out = "ok" -> CallerAt("verify", f.cred, f.next)
                            [] f.out = "invalidated" -> CallerAt("retry", f.cred, Absent)
                            [] OTHER -> Idle
    <3>1. /\ result.gen = 0 /\ result.epoch = 0 /\ result.cred \in Creds
      BY <1>1, ConstantsOK DEF CallerAt, Idle
    <3>2. caller' = [p \in Callers |->
             IF caller[p].pc = "wait" /\ KeyOf(p) = k THEN result ELSE caller[p]]
      BY <2>2 DEF Deliver
    <3>. HIDE DEF result
    <3>3. ASSUME NEW p \in Callers
          PROVE  Issued(caller'[p].cred, caller'[p].gen, caller'[p].epoch)
      <4>1. Issued(result.cred, result.gen, result.epoch)
        BY <1>1, <3>1, RepairTypes DEF Issued
      <4>. QED
        BY <3>2, <4>1 DEF RepairInv, CallersIssued
    <3>. QED
      BY <1>2, <3>3 DEF CallersIssued, Issued
  <2>. QED
    BY <2>1, <2>2 DEF FlightStep, Borrow, Load, CheckGenerations, Granted, Refused, Persist,
       Commit, ResponseLost, PersistFails
<1>5. ASSUME NEW c \in Creds, c # k PROVE RepairOK(c)'
  <2>1. disk'[c] = disk[c] /\ cache'[c] = cache[c]
    BY <1>1, <1>5 DEF FlightStep, Borrow, Load, CheckGenerations, Granted, Refused,
       Persist, Commit, Deliver, ResponseLost, PersistFails, memory
  <2>2. /\ c \in DOMAIN flights' <=> c \in DOMAIN flights
        /\ c \in DOMAIN flights => flights'[c] = flights[c]
    BY <1>1, <1>5, FlightFields DEF FlightStep, Borrow, Load, CheckGenerations,
       Granted, Refused, Persist, Commit, Deliver, ResponseLost, PersistFails,
       Advance, Finish
  <2>. QED
    BY <1>1, <1>2, <1>3, <2>1, <2>2, RepairFrame
<1>6. k \in DOMAIN flights' => /\ flights'[k].gen = flights[k].gen
                              /\ flights'[k].epoch = flights[k].epoch
                              /\ flights'[k].cred = k
  <2>1. ASSUME NEW stage \in Stages, Advance(k, stage)
        PROVE  flights'[k].gen = flights[k].gen /\ flights'[k].epoch = flights[k].epoch
    BY <1>1, <2>1 DEF Advance, FlightState
  <2>2. ASSUME NEW out \in Outcomes, Finish(k, out)
        PROVE  flights'[k].gen = flights[k].gen /\ flights'[k].epoch = flights[k].epoch
    BY <1>1, <2>2 DEF Finish, Ended
  <2>3. ASSUME NEW stage, NEW prev, flights' = [flights EXCEPT ![k].stage = stage, ![k].prev = prev]
        PROVE  flights'[k].gen = flights[k].gen /\ flights'[k].epoch = flights[k].epoch
               /\ flights'[k].cred = k
    BY <1>1, <2>3 DEF FlightState
  <2>4. ASSUME NEW stage, NEW next, flights' = [flights EXCEPT ![k].stage = stage, ![k].next = next]
        PROVE  flights'[k].gen = flights[k].gen /\ flights'[k].epoch = flights[k].epoch
               /\ flights'[k].cred = k
    BY <1>1, <2>4 DEF FlightState
  <2>5. CASE Borrow(k)
    BY <2>3, <2>5 DEF Borrow
  <2>6. CASE Granted(k)
    BY <2>4, <2>6 DEF Granted
  <2>7. CASE Load(k)
    BY <1>1, <2>2, <2>3, <2>7, FlightFields DEF Load, Outcomes
  <2>8. CASE Deliver(k)
    BY <2>8 DEF Deliver
  <2>9. CASE CheckGenerations(k) \/ Refused(k) \/ Persist(k) \/ Commit(k)
             \/ ResponseLost(k) \/ PersistFails(k)
    BY <1>1, <2>1, <2>2, <2>9, FlightFields DEF CheckGenerations, Refused, Persist, Commit,
       ResponseLost, PersistFails, Outcomes, Stages
  <2>. QED
    BY <2>5, <2>6, <2>7, <2>8, <2>9 DEF FlightStep
<1>7. k \in DOMAIN flights' =>
        /\ Issued(k, flights[k].gen, flights[k].epoch)'
        /\ GenerationsCurrent(flights[k])' <=> GenerationsCurrent(flights[k])
  BY <1>1, <1>2, <1>6 DEF FlightRepairs, Issued, GenerationsCurrent
<1>8. ASSUME UNCHANGED <<disk, cache>>,
             k \in DOMAIN flights' =>
               \/ flights'[k].stage \notin {"send", "persist", "commit"}
               \/ flights'[k].stage # "commit" /\ flights[k].stage \in {"send", "persist"}
               \/ flights'[k].stage # "commit" /\ GenerationsCurrent(flights[k]),
             flights[k].stage # "commit"
      PROVE  RepairOK(k)'
  BY <1>1, <1>3, <1>7, <1>8 DEF RepairOK, Repaired, FlightRepairs
<1>9. RepairOK(k)'
  <2>1. CASE Borrow(k)
    <3>1. flights[k].stage = "borrow" /\ flights'[k].stage = "load" /\ UNCHANGED <<disk, cache>>
      BY <1>1, <2>1 DEF Borrow, At, FlightState, memory
    <3>. QED
      BY <1>8, <3>1
  <2>2. CASE Load(k)
    <3>1. flights[k].stage = "load" /\ UNCHANGED <<disk, cache>>
      BY <2>2 DEF Load, At, memory
    <3>2. flights'[k].stage \in {"done", "check"}
      <4>1. ASSUME NEW prev, flights' = [flights EXCEPT ![k].stage = "check", ![k].prev = prev]
            PROVE  flights'[k].stage = "check"
        BY <1>1, <4>1 DEF FlightState
      <4>. QED
        BY <1>1, <2>2, <4>1, FlightFields DEF Load, Outcomes
    <3>. QED
      BY <1>8, <3>1, <3>2
  <2>3. CASE CheckGenerations(k)
    <3>1. flights[k].stage = "check" /\ UNCHANGED <<disk, cache>>
      BY <2>3 DEF CheckGenerations, At, memory
    <3>2. flights'[k].stage = "done" \/ (flights'[k].stage = "send" /\ GenerationsCurrent(flights[k]))
      BY <1>1, <2>3, FlightFields DEF CheckGenerations, Outcomes, Stages
    <3>. QED
      BY <1>8, <3>1, <3>2
  <2>4. CASE Granted(k)
    <3>1. flights[k].stage = "send" /\ UNCHANGED <<disk, cache>>
      BY <2>4 DEF Granted, At, memory
    <3>2. flights'[k].stage = "persist"
      <4>1. ASSUME NEW next, flights' = [flights EXCEPT ![k].stage = "persist", ![k].next = next]
            PROVE  flights'[k].stage = "persist"
        BY <1>1, <4>1 DEF FlightState
      <4>. QED
        BY <2>4, <4>1 DEF Granted
    <3>. QED
      BY <1>8, <3>1, <3>2
  <2>5. CASE Refused(k) \/ ResponseLost(k) \/ PersistFails(k)
    <3>1. flights[k].stage \in {"send", "persist"} /\ UNCHANGED <<disk, cache>>
      BY <2>5 DEF Refused, ResponseLost, PersistFails, At, memory
    <3>2. flights'[k].stage = "done"
      BY <1>1, <2>5, FlightFields DEF Refused, ResponseLost, PersistFails, Outcomes
    <3>. QED
      BY <1>8, <3>1, <3>2
  <2>6. CASE Persist(k)
    <3>1. flights[k].stage = "persist" /\ UNCHANGED cache
      BY <2>6 DEF Persist, At, memory
    <3>2. CASE flights'[k].stage = "done" /\ UNCHANGED disk
      BY <1>8, <3>1, <3>2
    <3>3. CASE Advance(k, "commit") /\ disk' = [disk EXCEPT ![k] = flights[k].next]
      <4>1. /\ k \in DOMAIN flights' /\ flights'[k].stage = "commit"
            /\ flights'[k].next = disk'[k]
        BY <1>1, <3>3, FlightFields DEF Stages
      <4>. QED
        BY <1>1, <1>3, <1>7, <3>1, <4>1 DEF RepairOK, Repaired, FlightRepairs
    <3>. QED
      BY <1>1, <2>6, <3>2, <3>3, FlightFields DEF Persist, Outcomes
  <2>7. CASE Commit(k)
    <3>1. flights[k].stage = "commit" /\ flights'[k].stage = "done" /\ UNCHANGED disk
      BY <1>1, <2>7, FlightFields DEF Commit, At, Outcomes
    <3>2. CASE GenerationsCurrent(flights[k])
      <4>1. cache'[k] = flights[k].next
        BY <1>1, <2>7, <3>2 DEF Commit
      <4>2. flights[k].next = disk[k] \/ Posted(k)
        BY <1>1, <3>1, <3>2 DEF FlightRepairs
      <4>. QED
        BY <1>1, <1>3, <1>7, <3>1, <4>1, <4>2 DEF RepairOK, Repaired, FlightRepairs
    <3>3. CASE ~GenerationsCurrent(flights[k])
      <4>1. cache'[k] = cache[k] /\ cache[k] = Absent
        BY <1>1, <2>7, <3>1, <3>3 DEF Commit, FlightRepairs
      <4>. QED
        BY <1>7, <3>1, <4>1 DEF RepairOK, Repaired, FlightRepairs
    <3>. QED
      BY <3>2, <3>3
  <2>8. CASE Deliver(k)
    <3>1. flights[k].stage = "done" /\ k \notin DOMAIN flights' /\ UNCHANGED <<disk, cache>>
      BY <2>8 DEF Deliver, At, memory
    <3>. QED
      BY <1>8, <3>1
  <2>. QED
    BY <2>1, <2>2, <2>3, <2>4, <2>5, <2>6, <2>7, <2>8 DEF FlightStep
<1>. QED
  BY <1>4, <1>5, <1>9

\* Invalidations empty the cache and leave no flight that may fill it current.
LEMMA InvalidateKeepsRepair ==
  ASSUME RepairInv, NEW c \in Creds, Invalidate(c), UNCHANGED <<disk, flights, caller>>,
         \A d \in Creds \ {c} : Posted(d)' = Posted(d)
  PROVE  CallersIssued' /\ \A d \in Creds : RepairOK(d)'
<1>1. /\ LeaseInv /\ cache \in [Creds -> Token] /\ keyEpoch \in [Creds -> Nat]
      /\ generation \in Nat /\ \A d \in Creds : RepairOK(d)
  BY RepairTypes DEF RepairInv
<1>2. /\ cache'[c] = Absent /\ keyEpoch'[c] = keyEpoch[c] + 1 /\ generation' = generation
      /\ keyEpoch' \in [Creds -> Nat]
      /\ \A d \in Creds \ {c} : cache'[d] = cache[d] /\ keyEpoch'[d] = keyEpoch[d]
  BY <1>1 DEF Invalidate
<1>3. CallersIssued'
  BY <1>1, <1>2, IssuedStays, RepairTypes DEF RepairInv, CallersIssued
<1>4. ASSUME NEW d \in Creds \ {c} PROVE RepairOK(d)'
  BY <1>1, <1>2, RepairFrame
<1>5. RepairOK(c)'
  <2>1. CASE c \in DOMAIN flights
    <3>1. Issued(c, flights[c].gen, flights[c].epoch)
      BY <1>1, <2>1 DEF RepairOK, FlightRepairs
    <3>2. Issued(c, flights[c].gen, flights[c].epoch)' /\ ~GenerationsCurrent(flights[c])'
      BY <1>1, <1>2, <2>1, <3>1, RepairTypes DEF Issued, GenerationsCurrent
    <3>. QED
      BY <1>2, <3>2 DEF RepairOK, Repaired, FlightRepairs, Issued, GenerationsCurrent
  <2>2. CASE c \notin DOMAIN flights
    BY <1>2, <2>2 DEF RepairOK, Repaired
  <2>. QED
    BY <2>1, <2>2
<1>. QED
  BY <1>3, <1>4, <1>5

LEMMA InvalidateAllKeepsRepair ==
  ASSUME RepairInv, InvalidateAll, UNCHANGED <<disk, flights, caller>>
  PROVE  CallersIssued' /\ \A d \in Creds : RepairOK(d)'
<1>1. /\ LeaseInv /\ generation \in Nat /\ \A d \in Creds : RepairOK(d)
  BY RepairTypes DEF RepairInv
<1>2. /\ generation' = generation + 1 /\ keyEpoch' \in [Creds -> Nat]
      /\ \A d \in Creds : cache'[d] = Absent
  BY <1>1 DEF InvalidateAll
<1>3. CallersIssued'
  BY <1>1, <1>2, IssuedStays, RepairTypes DEF RepairInv, CallersIssued
<1>4. ASSUME NEW d \in Creds PROVE RepairOK(d)'
  <2>1. CASE d \in DOMAIN flights
    <3>1. Issued(d, flights[d].gen, flights[d].epoch)
      BY <1>1, <2>1 DEF RepairOK, FlightRepairs
    <3>2. flights'[d].gen < generation'
      BY <1>1, <1>2, <2>1, <3>1, RepairTypes DEF Issued
    <3>. QED
      BY <1>1, <1>2, <2>1, <3>2, RepairTypes
         DEF RepairOK, Repaired, FlightRepairs, Issued, GenerationsCurrent
  <2>2. CASE d \notin DOMAIN flights
    BY <1>2, <2>2 DEF RepairOK, Repaired
  <2>. QED
    BY <2>1, <2>2
<1>. QED
  BY <1>3, <1>4

LEMMA AdminKeepsRepair ==
  ASSUME RepairInv, NEW a \in Admins,
         \/ \E kind \in Kinds, c \in Creds : StartOp(a, kind, c)
         \/ WriteOp(a) \/ WriteOpFails(a) \/ FinishOp(a)
  PROVE  CallersIssued' /\ \A c \in Creds : RepairOK(c)'
<1>1. /\ LeaseInv /\ TypeOK /\ CallersIssued /\ \A c \in Creds : RepairOK(c)
      /\ admin \in [Admins -> AdminState] /\ admin[a].cred \in Creds
  BY RepairTypes DEF RepairInv, LeaseInv, TypeOK, AdminState
<1>2. ASSUME UNCHANGED memory, UNCHANGED <<disk, flights, caller>>,
             \A c \in Creds : Posted(c)' = Posted(c)
      PROVE  CallersIssued' /\ \A c \in Creds : RepairOK(c)'
  BY <1>1, <1>2, RepairFrame DEF memory, CallersIssued, Issued
<1>3. ASSUME NEW kind \in Kinds, NEW c \in Creds, StartOp(a, kind, c)
      PROVE  CallersIssued' /\ \A d \in Creds : RepairOK(d)'
  <2>1. /\ admin' = [admin EXCEPT ![a] = [pc |-> "write", kind |-> kind, cred |-> c]]
        /\ admin[a].pc = "idle" /\ UNCHANGED <<disk, flights, caller>>
    BY <1>3 DEF StartOp
  <2>2. \A d \in Creds : Posted(d)' = Posted(d)
    BY <1>1, <2>1 DEF Posted
  <2>3. InvalidateAll \/ Invalidate(c) \/ UNCHANGED memory
    BY <1>3 DEF StartOp, BeforeWrite
  <2>. QED
    BY <1>2, <2>1, <2>2, <2>3, InvalidateKeepsRepair, InvalidateAllKeepsRepair
<1>4. CASE WriteOp(a)
  <2>. DEFINE c == admin[a].cred
  <2>1. /\ admin[a].pc = "write" /\ admin' = [admin EXCEPT ![a].pc = "post"]
        /\ UNCHANGED <<cache, generation, keyEpoch, flights, caller>>
        /\ \A d \in Creds \ {c} : disk'[d] = disk[d]
    BY <1>1, <1>4 DEF WriteOp, StoreTokens, memory, TypeOK
  <2>2. Posted(c)' /\ \A d \in Creds \ {c} : Posted(d)' = Posted(d)
    BY <1>1, <2>1 DEF Posted, AdminState
  <2>3. ASSUME NEW d \in Creds \ {c} PROVE RepairOK(d)'
    BY <1>1, <2>1, <2>2, RepairFrame
  <2>4. RepairOK(c)'
    BY <1>1, <2>1, <2>2 DEF RepairOK, Repaired, FlightRepairs, Issued, GenerationsCurrent
  <2>. QED
    BY <1>1, <2>1, <2>3, <2>4 DEF CallersIssued, Issued
<1>5. CASE WriteOpFails(a)
  <2>1. /\ admin[a].pc = "write" /\ admin' = [admin EXCEPT ![a] = Rest]
        /\ UNCHANGED memory /\ UNCHANGED <<disk, flights, caller>>
    BY <1>5 DEF WriteOpFails
  <2>2. \A d \in Creds : Posted(d)' = Posted(d)
    BY <1>1, <2>1 DEF Posted, Rest
  <2>. QED
    BY <1>2, <2>1, <2>2
<1>6. CASE FinishOp(a)
  <2>1. /\ admin' = [admin EXCEPT ![a] = Rest] /\ UNCHANGED <<disk, flights, caller>>
        /\ InvalidateAll \/ Invalidate(admin[a].cred)
    BY <1>6 DEF FinishOp, AfterWrite
  <2>2. \A d \in Creds \ {admin[a].cred} : Posted(d)' = Posted(d)
    BY <1>1, <2>1 DEF Posted, Rest
  <2>. QED
    BY <1>1, <2>1, <2>2, InvalidateKeepsRepair, InvalidateAllKeepsRepair
<1>. QED
  BY <1>3, <1>4, <1>5, <1>6

LEMMA CrashKeepsRepair ==
  ASSUME RepairInv, Crash
  PROVE  CallersIssued' /\ \A c \in Creds : RepairOK(c)'
<1>1. /\ DOMAIN flights' = {} /\ generation' = 0
      /\ \A c \in Creds : cache'[c] = Absent /\ keyEpoch'[c] = 0
      /\ \A p \in Callers : caller'[p] = Idle
  BY DEF Crash
<1>2. Idle.cred \in Creds /\ Idle.gen = 0 /\ Idle.epoch = 0
  BY ConstantsOK DEF Idle, CallerAt
<1>. QED
  BY <1>1, <1>2 DEF CallersIssued, Issued, RepairOK, Repaired

\* Refresher.Invalidate and InvalidateAll, and the epochs that commitIfCurrent
\* compares: as long as credentials.json is not edited in place, a cached token
\* set that is not the durable one is about to be dropped or replaced.
THEOREM CacheComesRound ==
  ASSUME ~OperatorEdits
  PROVE  Spec => []CacheRepaired
<1>1. Init /\ LeaseInv => RepairInv
  <2>. SUFFICES ASSUME Init, LeaseInv PROVE RepairInv
    OBVIOUS
  <2>1. Idle.cred \in Creds /\ Idle.gen = 0 /\ Idle.epoch = 0
    BY ConstantsOK DEF Idle, CallerAt
  <2>. QED
    BY <2>1 DEF Init, RepairInv, CallersIssued, Issued, RepairOK, Repaired
<1>2. RepairInv /\ LeaseInv' /\ [Next]_vars => RepairInv'
  <2>. SUFFICES ASSUME RepairInv, LeaseInv', [Next]_vars
                PROVE  CallersIssued' /\ \A c \in Creds : RepairOK(c)'
    BY DEF RepairInv
  <2>1. CASE UNCHANGED vars
    <3>1. \A c \in Creds : Posted(c)' = Posted(c)
      BY <2>1 DEF vars, Posted
    <3>. QED
      BY <2>1, <3>1, RepairFrame DEF RepairInv, vars, memory, CallersIssued, Issued
  <2>2. CASE Next
    BY <2>2, CallerKeepsRepair, FlightKeepsRepair, AdminKeepsRepair, CrashKeepsRepair
       DEF Next, OperatorEdit
  <2>. QED
    BY <2>1, <2>2
<1>3. RepairInv => CacheRepaired
  <2>. SUFFICES ASSUME RepairInv, NEW c \in Creds, ~Posted(c), cache[c] \notin {Absent, disk[c]}
                PROVE  \E k \in DOMAIN flights : /\ flights[k].cred = c
                                                 /\ flights[k].stage = "commit"
                                                 /\ GenerationsCurrent(flights[k])
    BY DEF CacheRepaired, Posted
  <2>1. c \in DOMAIN flights /\ flights[c].stage = "commit" /\ GenerationsCurrent(flights[c])
    BY DEF RepairInv, RepairOK, Repaired
  <2>. QED
    BY <2>1, RepairTypes DEF RepairInv
<1>. QED
  BY <1>1, <1>2, <1>3, LeaseInvariant, PTL DEF Spec

=============================================================================
