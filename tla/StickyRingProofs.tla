--------------------------- MODULE StickyRingProofs ---------------------------
(***************************************************************************)
(* The bound on sticky bindings, for every capacity, time to live, and set *)
(* of keys and credentials. TypeOK and EveryBindingSlotted are inductive   *)
(* together; the bound follows, since no two bindings share a slot.        *)
(***************************************************************************)
EXTENDS StickyRing, FunctionTheorems, FiniteSetTheorems, TLAPS

RingInv == TypeOK /\ EveryBindingSlotted

\* Some of the present bindings, as Pick and MarkFailure leave them.
Kept(b) == DOMAIN b \subseteq Bound /\ \A j \in DOMAIN b : b[j] = sticky[j]

LEMMA WithoutKeeps == ASSUME NEW ks PROVE Kept(Without(ks))
  BY DEF Kept, Without, Bound

\* bindSticky leaves the invariant intact, whatever bindings were dropped
\* just before.
LEMMA BindPreserves ==
  ASSUME RingInv, NEW b, Kept(b), NEW k \in Keys, NEW c \in Creds,
         Bind(b, k, c), now' = now
  PROVE  RingInv'
<1> USE ConstantsOK
<1>1. PICK lost \in SUBSET (DOMAIN b) :
        /\ DOMAIN sticky' = (DOMAIN b \ lost) \cup {k}
        /\ \A j \in DOMAIN sticky' : sticky'[j] \in Binding
        /\ sticky' = [j \in DOMAIN sticky' |-> sticky'[j]]
        /\ \/ k \in DOMAIN b /\ lost = {} /\ UNCHANGED <<slots, cursor>>
           \/ /\ k \notin DOMAIN b /\ lost = {} /\ Len(slots) < MaxBindings
              /\ slots' = Append(slots, k) /\ cursor' = cursor
           \/ /\ Len(slots) >= MaxBindings /\ lost = DOMAIN b \cap {slots[cursor]}
              /\ slots' = [slots EXCEPT ![cursor] = k] /\ cursor' = Next1(cursor)
  <2> DEFINE old == DOMAIN b \cap {slots[cursor]}
  <2>1. \A j \in DOMAIN b : b[j] \in Binding
    BY DEF RingInv, TypeOK, Kept
  <2>2. [cred |-> c, expires |-> now + TTL] \in Binding
    BY DEF RingInv, TypeOK, Binding
  <2>3. CASE k \in DOMAIN b
    <3>1. sticky' = With(b, k, c) /\ UNCHANGED <<slots, cursor>>
      BY <2>3 DEF Bind
    <3>. QED BY <2>1, <2>2, <2>3, <3>1 DEF With
  <2>4. CASE k \notin DOMAIN b /\ Len(slots) < MaxBindings
    <3>1. /\ sticky' = With(b, k, c)
          /\ slots' = Append(slots, k) /\ cursor' = cursor
      BY <2>4 DEF Bind
    <3>. QED BY <2>1, <2>2, <2>4, <3>1 DEF With
  <2>5. CASE k \notin DOMAIN b /\ ~(Len(slots) < MaxBindings)
    <3>1. /\ sticky' = With([j \in DOMAIN b \ {slots[cursor]} |-> b[j]], k, c)
          /\ slots' = [slots EXCEPT ![cursor] = k] /\ cursor' = Next1(cursor)
      BY <2>5 DEF Bind
    <3>2. Len(slots) >= MaxBindings
      BY <2>5 DEF RingInv, TypeOK
    <3>3. DOMAIN sticky' = (DOMAIN b \ old) \cup {k}
      BY <3>1 DEF With
    <3>4. \A j \in DOMAIN sticky' : sticky'[j] \in Binding
      BY <2>1, <2>2, <3>1 DEF With
    <3>5. sticky' = [j \in DOMAIN sticky' |-> sticky'[j]]
      BY <3>1 DEF With
    <3>. QED BY <3>1, <3>2, <3>3, <3>4, <3>5
  <2>. QED BY <2>3, <2>4, <2>5
<1>2. /\ slots \in Seq(Keys) /\ Len(slots) \in Nat /\ Len(slots) <= MaxBindings
      /\ cursor \in 1..MaxBindings /\ now \in Nat
      /\ Len(slots) < MaxBindings => cursor = 1
  BY DEF RingInv, TypeOK
<1>3. /\ DOMAIN sticky' \subseteq Keys
      /\ sticky' \in [DOMAIN sticky' -> Binding]
  <2>1. DOMAIN b \subseteq Keys
    BY DEF RingInv, TypeOK, Kept
  <2>. QED BY <1>1, <2>1
<1>4. /\ slots' \in Seq(Keys) /\ Len(slots') <= MaxBindings
      /\ cursor' \in 1..MaxBindings
      /\ Len(slots') < MaxBindings => cursor' = 1
  <2>1. CASE UNCHANGED <<slots, cursor>>
    BY <1>2, <2>1
  <2>2. CASE Len(slots) < MaxBindings /\ slots' = Append(slots, k) /\ cursor' = cursor
    BY <1>2, <2>2
  <2>3. CASE /\ Len(slots) >= MaxBindings
             /\ slots' = [slots EXCEPT ![cursor] = k] /\ cursor' = Next1(cursor)
    BY <1>2, <2>3 DEF Next1
  <2>. QED BY <1>1, <2>1, <2>2, <2>3
<1>5. ASSUME NEW j \in DOMAIN sticky'
      PROVE  \E i \in DOMAIN slots' : slots'[i] = j
  <2>1. j # k => j \in DOMAIN b \ lost
    BY <1>1, <1>5
  <2>2. j # k => \E i \in DOMAIN slots : slots[i] = j
    BY <2>1 DEF RingInv, EveryBindingSlotted, Kept
  <2>3. CASE k \in DOMAIN b /\ UNCHANGED <<slots, cursor>>
    BY <2>2, <2>3 DEF RingInv, EveryBindingSlotted, Kept
  <2>4. CASE slots' = Append(slots, k)
    BY <1>2, <2>2, <2>4
  <2>5. CASE /\ Len(slots) >= MaxBindings /\ lost = DOMAIN b \cap {slots[cursor]}
             /\ slots' = [slots EXCEPT ![cursor] = k]
    <3>1. cursor \in DOMAIN slots /\ DOMAIN slots' = DOMAIN slots
      BY <1>2, <2>5
    <3>2. j # k => j # slots[cursor]
      BY <2>1, <2>5
    <3>. QED BY <2>2, <2>5, <3>1, <3>2
  <2>. QED BY <1>1, <2>3, <2>4, <2>5
<1>. QED BY <1>2, <1>3, <1>4, <1>5 DEF RingInv, TypeOK, EveryBindingSlotted, Bound

LEMMA RingStart == Init => RingInv
  BY ConstantsOK DEF Init, RingInv, TypeOK, EveryBindingSlotted, Bound

LEMMA RingStep == RingInv /\ [Next]_vars => RingInv'
<1> SUFFICES ASSUME RingInv, [Next]_vars PROVE RingInv'
  OBVIOUS
<1>1. ASSUME NEW k \in Keys, NEW available \in SUBSET Creds, Pick(k, available)
      PROVE  RingInv'
  <2>1. CASE UNCHANGED <<sticky, slots, cursor>>
    BY <1>1, <2>1 DEF Pick, RingInv, TypeOK, EveryBindingSlotted, Bound
  <2>2. ASSUME NEW c \in available, Bind(IF Live(k) THEN sticky ELSE Without({k}), k, c)
        PROVE  RingInv'
    <3>1. Kept(IF Live(k) THEN sticky ELSE Without({k}))
      BY WithoutKeeps DEF Kept, Bound
    <3>. QED BY <1>1, <2>2, <3>1, BindPreserves DEF Pick
  <2>. QED BY <1>1, <2>1, <2>2 DEF Pick
<1>2. ASSUME NEW k \in Keys, NEW c \in Creds, MarkSuccess(k, c)
      PROVE  RingInv'
  <2>1. Kept(sticky)
    BY DEF Kept, Bound
  <2>. QED BY <1>2, <2>1, BindPreserves DEF MarkSuccess
<1>3. ASSUME NEW c \in Creds, MarkFailure(c)
      PROVE  RingInv'
  <2>1. /\ DOMAIN sticky' \subseteq Bound
        /\ \A j \in DOMAIN sticky' : sticky'[j] = sticky[j]
        /\ sticky' = [j \in DOMAIN sticky' |-> sticky'[j]]
    BY <1>3 DEF MarkFailure, Without
  <2>. QED BY <1>3, <2>1 DEF MarkFailure, RingInv, TypeOK, EveryBindingSlotted, Bound
<1>4. CASE Tick
  BY <1>4 DEF Tick, RingInv, TypeOK, EveryBindingSlotted, Bound
<1>5. CASE UNCHANGED vars
  BY <1>5 DEF vars, RingInv, TypeOK, EveryBindingSlotted, Bound
<1>. QED BY <1>1, <1>2, <1>3, <1>4, <1>5 DEF Next

\* sticky.go: every live or expired binding is reachable from the ring of
\* slots that bindSticky evicts from, and the ring keeps its shape.
THEOREM SlotsCover == Spec => [](TypeOK /\ EveryBindingSlotted)
<1>1. Spec => []RingInv
  BY RingStart, RingStep, PTL DEF Spec
<1>2. RingInv => TypeOK /\ EveryBindingSlotted
  BY DEF RingInv
<1>. QED BY <1>1, <1>2, PTL

\* The map, the ring and its cursor keep their types: the cursor stays within
\* the ring and the ring never outgrows its capacity.
THEOREM RingTyped == Spec => []TypeOK
  BY SlotsCover, PTL

\* The keys in the slots are no more than the slots.
LEMMA SlottedIsBounded == RingInv => Bounded
<1> SUFFICES ASSUME RingInv PROVE Bounded
  OBVIOUS
<1>1. slots \in Seq(Keys) /\ Len(slots) \in Nat /\ Len(slots) <= MaxBindings
  BY DEF RingInv, TypeOK
<1>2. IsFiniteSet(DOMAIN slots) /\ Cardinality(DOMAIN slots) = Len(slots)
  <2>1. DOMAIN slots = 1..Len(slots)
    BY <1>1
  <2>2. /\ IsFiniteSet(1..Len(slots))
        /\ Cardinality(1..Len(slots)) = IF 1 > Len(slots) THEN 0 ELSE Len(slots) - 1 + 1
    BY <1>1, FS_Interval
  <2>. QED BY <1>1, <2>1, <2>2
<1> DEFINE keys == {slots[i] : i \in DOMAIN slots}
           look == [i \in DOMAIN slots |-> slots[i]]
<1>3. look \in Surjection(DOMAIN slots, keys)
  BY DEF Surjection
<1>4. IsFiniteSet(keys) /\ Cardinality(keys) <= Cardinality(DOMAIN slots)
  BY <1>2, <1>3, FS_Surjection
<1>5. Bound \in SUBSET keys
  BY DEF RingInv, EveryBindingSlotted
<1>6. IsFiniteSet(Bound) /\ Cardinality(Bound) <= Cardinality(keys)
  BY <1>4, <1>5, FS_Subset
<1>7. Cardinality(Bound) \in Nat /\ Cardinality(keys) \in Nat
  BY <1>4, <1>6, FS_CardinalityType
<1>. QED BY <1>1, <1>2, <1>4, <1>6, <1>7, ConstantsOK DEF Bounded

\* "Fixed-size ring eviction": the sticky map never holds more than
\* maxStickyBindings entries, whatever expiry and clearStickyForCred do.
THEOREM BindingsBounded == Spec => []Bounded
<1>1. Spec => []RingInv
  BY RingStart, RingStep, PTL DEF Spec
<1>. QED BY <1>1, SlottedIsBounded, PTL
=============================================================================
