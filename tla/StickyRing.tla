----------------------------- MODULE StickyRing -----------------------------
(***************************************************************************)
(* Sticky sessions (internal/lb/sticky.go): bindings from a session key to *)
(* a credential, each alive for a while, bounded by a ring of slots that   *)
(* remembers in which order keys were bound. Pick, markSuccess and the     *)
(* failure marks are the only callers, under the selector's mutex.         *)
(***************************************************************************)
EXTENDS Naturals, Sequences, FiniteSets

CONSTANTS
  Keys,         \* hashed session keys
  Creds,        \* credential ids
  MaxBindings,  \* maxStickyBindings
  TTL,          \* stickyTTL, in ticks
  MaxTime       \* bound: the clock

ASSUME ConstantsOK ==
  /\ MaxBindings \in Nat \ {0}
  /\ TTL \in Nat \ {0}
  /\ MaxTime \in Nat

VARIABLES
  sticky,  \* Selector.sticky: bound keys to bindings
  slots,   \* Selector.stickySlots
  cursor,  \* Selector.stickyCursor, an index from 1
  now      \* the clock

vars == <<sticky, slots, cursor, now>>

Binding == [cred : Creds, expires : Nat]

Bound   == DOMAIN sticky
Live(k) == k \in Bound /\ sticky[k].expires > now

\* What is left of the bindings without those of the keys in ks.
Without(ks) == [k \in Bound \ ks |-> sticky[k]]

\* The bindings b, with k bound to c from now on.
With(b, k, c) ==
  [j \in DOMAIN b \cup {k} |->
     IF j = k THEN [cred |-> c, expires |-> now + TTL] ELSE b[j]]

Next1(i) == IF i = Len(slots) THEN 1 ELSE i + 1

-----------------------------------------------------------------------------
\* Mutant of Bind: the slot is reused and its old binding stays.
BindKeepingOld(b, k, c) ==
  /\ sticky' = With(b, k, c)
  /\ IF k \in DOMAIN b THEN UNCHANGED <<slots, cursor>>
     ELSE IF Len(slots) < MaxBindings
     THEN slots' = Append(slots, k) /\ UNCHANGED cursor
     ELSE slots' = [slots EXCEPT ![cursor] = k] /\ cursor' = Next1(cursor)

\* Mutant of Bind: the cursor moves between the eviction and the reuse.
BindCursorFirst(b, k, c) ==
  IF k \in DOMAIN b
  THEN sticky' = With(b, k, c) /\ UNCHANGED <<slots, cursor>>
  ELSE IF Len(slots) < MaxBindings
  THEN sticky' = With(b, k, c) /\ slots' = Append(slots, k) /\ UNCHANGED cursor
  ELSE /\ sticky' = With([j \in DOMAIN b \ {slots[cursor]} |-> b[j]], k, c)
       /\ cursor' = Next1(cursor)
       /\ slots' = [slots EXCEPT ![Next1(cursor)] = k]

\* Mutant of Bind: the ring takes one slot too many.
BindOneMore(b, k, c) ==
  IF k \in DOMAIN b
  THEN sticky' = With(b, k, c) /\ UNCHANGED <<slots, cursor>>
  ELSE IF Len(slots) <= MaxBindings
  THEN sticky' = With(b, k, c) /\ slots' = Append(slots, k) /\ UNCHANGED cursor
  ELSE /\ sticky' = With([j \in DOMAIN b \ {slots[cursor]} |-> b[j]], k, c)
       /\ slots' = [slots EXCEPT ![cursor] = k]
       /\ cursor' = Next1(cursor)

\* bindSticky on the bindings b: a bound key keeps its slot; a new one takes
\* a free slot, or the oldest, whose key loses its binding.
Bind(b, k, c) ==
  IF k \in DOMAIN b
  THEN sticky' = With(b, k, c) /\ UNCHANGED <<slots, cursor>>
  ELSE IF Len(slots) < MaxBindings
  THEN sticky' = With(b, k, c) /\ slots' = Append(slots, k) /\ UNCHANGED cursor
  ELSE /\ sticky' = With([j \in DOMAIN b \ {slots[cursor]} |-> b[j]], k, c)
       /\ slots' = [slots EXCEPT ![cursor] = k]
       /\ cursor' = Next1(cursor)

\* Pick for a session: the bound credential while the binding is live and
\* the credential available, else another one, which is then bound. getSticky
\* drops a binding that has expired.
Pick(k, available) ==
  /\ available # {}
  /\ IF Live(k) /\ sticky[k].cred \in available
     THEN UNCHANGED <<sticky, slots, cursor>>
     ELSE \E c \in available : Bind(IF Live(k) THEN sticky ELSE Without({k}), k, c)
  /\ UNCHANGED now

\* A success binds the session to the credential that served it.
MarkSuccess(k, c) == Bind(sticky, k, c) /\ UNCHANGED now

\* A failure that cools the credential, or its exhausted quota, drops every
\* binding to it (clearStickyForCred); the slots stay as they are.
MarkFailure(c) ==
  /\ sticky' = Without({k \in Bound : sticky[k].cred = c})
  /\ UNCHANGED <<slots, cursor, now>>

Tick ==
  /\ now < MaxTime
  /\ now' = now + 1
  /\ UNCHANGED <<sticky, slots, cursor>>

Init ==
  /\ sticky = [k \in {} |-> FALSE]
  /\ slots = <<>>
  /\ cursor = 1
  /\ now = 0

Next ==
  \/ \E k \in Keys, available \in SUBSET Creds : Pick(k, available)
  \/ \E k \in Keys, c \in Creds : MarkSuccess(k, c)
  \/ \E c \in Creds : MarkFailure(c)
  \/ Tick

Spec == Init /\ [][Next]_vars

-----------------------------------------------------------------------------
\* The shape of the state; the ring never outgrows its capacity, and the
\* cursor of bindSticky stays put until the ring is full.
TypeOK ==
  /\ Bound \subseteq Keys
  /\ sticky \in [Bound -> Binding]
  /\ slots \in Seq(Keys)
  /\ Len(slots) <= MaxBindings
  /\ cursor \in 1..MaxBindings
  /\ Len(slots) < MaxBindings => cursor = 1
  /\ now \in Nat

\* Memory stays bounded however many sessions come by, although expiry and
\* failures remove bindings behind the ring's back.
Bounded == Cardinality(Bound) <= MaxBindings

\* Every binding has a slot, so that the ring reaches it in the end; one
\* without a slot would only ever go when its session comes back.
EveryBindingSlotted == \A k \in Bound : \E i \in DOMAIN slots : slots[i] = k

=============================================================================
