---------------------------- MODULE RefreshLease ----------------------------
(***************************************************************************)
(* What token refresh promises for each credential, without caches,        *)
(* epochs, waiters or callers: the durable refresh token is leased to at   *)
(* most one grant at a time, the grant presents the token it leased, and   *)
(* what the provider answered is stored if that token is still the durable *)
(* one. Logins and removals may replace the durable token at any time.     *)
(* TokenRefresh implements this specification.                             *)
(***************************************************************************)
EXTENDS Naturals

CONSTANT Creds

VARIABLES
  disk,     \* the durable token set
  lease,    \* the grant in progress
  minted,   \* the last serial drawn
  spent,    \* provider: refresh tokens consumed by a rotation
  reused,   \* provider: refresh tokens presented after they were spent
  lost      \* refresh tokens whose successor was destroyed

vars == <<disk, lease, minted, spent, reused, lost>>

Absent == [at |-> 0, rt |-> 0]
Free   == [phase |-> "free", rt |-> 0, next |-> Absent]
Held(rt) == [phase |-> "held", rt |-> rt, next |-> Absent]
Release(c) == lease' = [lease EXCEPT ![c] = Free]

\* The grant leases the durable refresh token.
Take(c) ==
  /\ lease[c] = Free
  /\ disk[c] # Absent
  /\ lease' = [lease EXCEPT ![c] = Held(disk[c].rt)]
  /\ UNCHANGED <<disk, minted, spent, reused, lost>>

\* The lease is given back unused.
GiveUp(c) ==
  /\ lease[c].phase = "held"
  /\ Release(c)
  /\ UNCHANGED <<disk, minted, spent, reused, lost>>

\* The provider grants new tokens, with or without a new refresh token.
Grant(c) ==
  LET n == minted[c] + 1  old == lease[c].rt
  IN /\ lease[c].phase = "held"
     /\ old \notin spent[c]
     /\ minted' = [minted EXCEPT ![c] = n]
     /\ \E rt \in {n, old} :
          /\ lease' = [lease EXCEPT ![c] = [phase |-> "granted", rt |-> old,
                                            next |-> [at |-> n, rt |-> rt]]]
          /\ spent' = IF rt = old THEN spent ELSE [spent EXCEPT ![c] = @ \cup {old}]
     /\ UNCHANGED <<disk, reused, lost>>

Refuse(c) ==
  /\ lease[c].phase = "held"
  /\ Release(c)
  /\ reused' = [reused EXCEPT ![c] = @ \cup ({lease[c].rt} \cap spent[c])]
  /\ UNCHANGED <<disk, minted, spent, lost>>

\* The provider rotated and the answer never came.
LoseAnswer(c) ==
  /\ lease[c].phase = "held"
  /\ lease[c].rt \notin spent[c]
  /\ Release(c)
  /\ spent' = [spent EXCEPT ![c] = @ \cup {lease[c].rt}]
  /\ lost' = [lost EXCEPT ![c] = @ \cup {lease[c].rt}]
  /\ UNCHANGED <<disk, minted, reused>>

Store(c) ==
  /\ lease[c].phase = "granted"
  /\ disk[c] # Absent
  /\ disk[c].rt = lease[c].rt
  /\ disk' = [disk EXCEPT ![c] = lease[c].next]
  /\ Release(c)
  /\ UNCHANGED <<minted, spent, reused, lost>>

\* The durable token was replaced or removed meanwhile.
Supersede(c) ==
  /\ lease[c].phase = "granted"
  /\ disk[c] = Absent \/ disk[c].rt # lease[c].rt
  /\ Release(c)
  /\ UNCHANGED <<disk, minted, spent, reused, lost>>

LoseGrant(c) ==
  /\ lease[c].phase = "granted"
  /\ Release(c)
  /\ lost' = [lost EXCEPT ![c] = @ \cup ({lease[c].rt} \cap spent[c])]
  /\ UNCHANGED <<disk, minted, spent, reused>>

\* A login brings a new pair, or an access token for the same refresh token.
Login(c) ==
  LET n == minted[c] + 1
  IN /\ disk[c] # Absent
     /\ minted' = [minted EXCEPT ![c] = n]
     /\ \E rt \in {n, disk[c].rt} : disk' = [disk EXCEPT ![c] = [at |-> n, rt |-> rt]]
     /\ UNCHANGED <<lease, spent, reused, lost>>

Remove(c) ==
  /\ disk' = [disk EXCEPT ![c] = Absent]
  /\ UNCHANGED <<lease, minted, spent, reused, lost>>

\* The process restarts: every lease ends, and a grant not stored is lost.
Restart ==
  /\ lease' = [c \in Creds |-> Free]
  /\ lost' = [c \in Creds |-> lost[c] \cup
       (IF lease[c].phase = "granted" THEN {lease[c].rt} \cap spent[c] ELSE {})]
  /\ UNCHANGED <<disk, minted, spent, reused>>

Init ==
  /\ disk = [c \in Creds |-> [at |-> 1, rt |-> 1]]
  /\ lease = [c \in Creds |-> Free]
  /\ minted = [c \in Creds |-> 1]
  /\ spent = [c \in Creds |-> {}]
  /\ reused = [c \in Creds |-> {}]
  /\ lost = [c \in Creds |-> {}]

Step(c) ==
  \/ Take(c) \/ GiveUp(c) \/ Grant(c) \/ Refuse(c) \/ LoseAnswer(c) \/ Store(c)
  \/ Supersede(c) \/ LoseGrant(c) \/ Login(c) \/ Remove(c)

Next == (\E c \in Creds : Step(c)) \/ Restart

Spec == Init /\ [][Next]_vars

=============================================================================
