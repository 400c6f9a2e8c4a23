--------------------------- MODULE SelectorProofs ---------------------------
(***************************************************************************)
(* Places are counted exactly, the stored health converges to the latest   *)
(* verdict whose save did not fail and cooldowns are served, for any       *)
(* credentials, workers, limits, cooldown lengths, clock resolution,       *)
(* verdicts, failing saves and restarts.                                   *)
(***************************************************************************)
EXTENDS Selector, FiniteSetTheorems, TLAPS

-----------------------------------------------------------------------------
(***************************************************************************)
(* The invariant.                                                          *)
(***************************************************************************)
Fields == {"pc", "cred", "view", "reserved", "version", "health", "then"}
Persists(wk) == wk.pc \in {"check", "patch"}

\* Where a worker is tells whether it holds a place and has a verdict to save.
Sound(wk) ==
  /\ IsWorker(wk) /\ DOMAIN wk = Fields
  /\ wk.pc \in {"idle", "choose"} => ~wk.reserved
  /\ wk.pc = "attempt" => wk.reserved
  /\ Persists(wk) => /\ wk.version > 0 /\ wk.then \in {"body", "choose"}
                     /\ wk.then = "choose" => ~wk.reserved

\* A verdict to save is the latest of its credential or an older one.
Dated(wk) ==
  Persists(wk) => /\ wk.version <= states[wk.cred].version
                  /\ wk.version = states[wk.cred].version => wk.health = Snapshot(states[wk.cred])

OneWriter == \A v, w \in Workers : worker[v].pc = "patch" /\ worker[w].pc = "patch" => v = w

Patching(c) == \E w \in Workers : worker[w].pc = "patch" /\ worker[w].cred = c

\* The latest verdict is on its way to the store, or is there and nobody is
\* about to replace it.
Saved(c) ==
  states[c].version > 0 /\ ~Unsaved(c) =>
    ~Patching(c) /\ (c \notin inspected \cup failed => durable[c] = Snapshot(states[c]))

\* Whoever may pick the credential sees the cooldown that is owed: the
\* selector once it knows the credential; the store, the cached list and every
\* copy of it while it does not. A verdict that is saved has left all of its
\* cooldown in the store but the part of a second.
Owed(c) ==
  /\ ~states[c].known => states[c] = Unknown
  /\ states[c].known => owed[c] <= states[c].until
  /\ ~Unsaved(c) /\ c \notin failed => Truncated(owed[c]) <= durable[c].until
  /\ ~states[c].known =>
       /\ owed[c] <= durable[c].until
       /\ c \in DOMAIN candidates => owed[c] <= candidates[c]
       /\ \A w \in Workers : c \in DOMAIN worker[w].view => owed[c] <= worker[w].view[c]

\* The types of everything but the workers and the places.
Data ==
  /\ states \in [Creds -> State] /\ durable \in [Creds -> Health]
  /\ IsView(candidates) /\ DOMAIN worker = Workers
  /\ now \in Nat /\ owed \in [Creds -> Nat] /\ inspected \subseteq Creds
  /\ failed \subseteq Creds /\ verdicts \in Nat /\ faults \in Nat /\ restarts \in Nat

\* Everything that concerns verdicts: what is remembered, stored and owed.
Judged ==
  /\ Data
  /\ \A w \in Workers : Sound(worker[w]) /\ Dated(worker[w])
  /\ OneWriter
  /\ \A c \in Creds : Saved(c) /\ Owed(c)

\* The requests that hold a place of c, and how many there can be.
Holders(c) == {w \in Workers : worker[w].cred = c /\ worker[w].reserved}

Limit == IF MaxConcurrent > 0 THEN MaxConcurrent ELSE Cardinality(Workers)

\* The places themselves: counted exactly, never beyond the limit.
Counted ==
  /\ inFlight \in [Creds -> 0..Limit]
  /\ \A c \in Creds : inFlight[c] = Cardinality(Holders(c))

\* The inductive invariant. Its two halves are disturbed by different steps
\* and are shown to be preserved apart.
SelectorInv == Counted /\ Judged

\* Worker w goes on as wk, and nobody else moves.
Goes(w, wk) == DOMAIN worker = Workers /\ worker' = [worker EXCEPT ![w] = wk]

-----------------------------------------------------------------------------
(***************************************************************************)
(* Places.                                                                 *)
(***************************************************************************)
\* The holders of a credential are requests, so they can be counted.
LEMMA HoldersFinite ==
  ASSUME NEW c
  PROVE  /\ IsFiniteSet(Holders(c)) /\ Cardinality(Holders(c)) \in Nat
         /\ Cardinality(Holders(c)) <= Cardinality(Workers)
<1>1. Holders(c) \subseteq Workers
  BY DEF Holders
<1>. QED
  BY <1>1, WorkersFinite, FS_Subset, FS_CardinalityType

\* A bound on the count, also when no limit is configured.
LEMMA LimitNat == Limit \in Nat
  BY ConstantsOK, WorkersFinite, FS_CardinalityType DEF Limit

\* A request that keeps its place, or has none, leaves the counts exact.
LEMMA CountSame ==
  ASSUME Counted, NEW w \in Workers, NEW wk, Goes(w, wk), UNCHANGED inFlight,
         wk.reserved <=> worker[w].reserved, wk.reserved => wk.cred = worker[w].cred
  PROVE  Counted'
<1>1. ASSUME NEW c \in Creds PROVE Holders(c)' = Holders(c)
  BY DEF Holders, Goes
<1>. QED
  BY <1>1 DEF Counted

\* Pick's increment stands for exactly the request that takes the place.
LEMMA CountTake ==
  ASSUME Counted, NEW w \in Workers, NEW wk, Goes(w, wk), ~worker[w].reserved,
         wk.reserved, NEW c \in Creds, wk.cred = c, Vacant(c),
         inFlight' = [inFlight EXCEPT ![c] = @ + 1]
  PROVE  Counted'
<1>1. ASSUME NEW d \in Creds, d # c PROVE Holders(d)' = Holders(d)
  BY <1>1 DEF Holders, Goes
<1>2. Holders(c)' = Holders(c) \cup {w} /\ w \notin Holders(c)
  BY DEF Holders, Goes
<1>3. Cardinality(Holders(c)') = Cardinality(Holders(c)) + 1
  BY <1>2, HoldersFinite, FS_AddElement
<1>4. Cardinality(Holders(c)') <= Cardinality(Workers)
  <2>1. Holders(c)' \subseteq Workers
    BY <1>2 DEF Holders
  <2>. QED
    BY <2>1, WorkersFinite, FS_Subset
<1>5. inFlight'[c] \in 0..Limit
  BY <1>3, <1>4, LimitNat, HoldersFinite, ConstantsOK DEF Counted, Vacant, Limit
<1>. QED
  BY <1>1, <1>3, <1>5 DEF Counted

\* releaseLocked's decrement stands for exactly the request that gives it up;
\* it never meets a count of zero.
LEMMA CountGive ==
  ASSUME Counted, NEW w \in Workers, NEW wk, Goes(w, wk), worker[w].reserved,
         ~wk.reserved, NEW c \in Creds, worker[w].cred = c, inFlight' = Released(c)
  PROVE  Counted'
<1>1. ASSUME NEW d \in Creds, d # c PROVE Holders(d)' = Holders(d)
  BY <1>1 DEF Holders, Goes
<1>2. Holders(c)' = Holders(c) \ {w} /\ w \in Holders(c)
  BY DEF Holders, Goes
<1>3. IsFiniteSet(Holders(c) \ {w})
  BY HoldersFinite, FS_RemoveElement
<1>4. /\ Cardinality(Holders(c)') = Cardinality(Holders(c)) - 1
      /\ Cardinality(Holders(c)') \in Nat
  BY <1>2, <1>3, HoldersFinite, FS_RemoveElement, FS_CardinalityType
<1>5. inFlight[c] = Cardinality(Holders(c)) /\ inFlight[c] \in 0..Limit
  BY DEF Counted
<1>6. inFlight' = [inFlight EXCEPT ![c] = @ - 1]
  <2>1. inFlight[c] \in Nat /\ inFlight[c] >= 1
    BY <1>4, <1>5, LimitNat, HoldersFinite
  <2>2. (IF inFlight[c] > 1 THEN inFlight[c] - 1 ELSE 0) = inFlight[c] - 1
    BY <2>1
  <2>. QED
    BY <2>2 DEF Released
<1>. QED
  BY <1>1, <1>4, <1>5, <1>6, LimitNat DEF Counted

-----------------------------------------------------------------------------
(***************************************************************************)
(* Verdicts.                                                               *)
(***************************************************************************)
\* A time cut to whole seconds is a time, no later; cutting keeps the order.
LEMMA TruncatedNat == \A t \in Nat : Truncated(t) \in Nat /\ Truncated(t) <= t
  BY ConstantsOK DEF Truncated

LEMMA TruncatedOrder ==
  ASSUME NEW s \in Nat, NEW t \in Nat, s <= t
  PROVE  Truncated(s) <= Truncated(t)
<1>. DEFINE d == s \div Second
            e == t \div Second
<1>1. /\ Second \in Nat /\ Second > 0 /\ d \in Nat /\ e \in Nat
      /\ s % Second \in 0..(Second - 1) /\ t % Second \in 0..(Second - 1)
      /\ s = Second * d + (s % Second) /\ t = Second * e + (t % Second)
  BY ConstantsOK
<1>2. Truncated(s) = Second * d /\ Truncated(t) = Second * e
  BY <1>1 DEF Truncated
<1>. HIDE DEF d, e
<1>3. d <= e
  BY <1>1
<1>. QED
  BY <1>1, <1>2, <1>3

\* What becomes of a list of candidates: it shrinks.
Shrinks(new, old) == \A c \in DOMAIN new : c \in DOMAIN old /\ new[c] = old[c]

\* A credential with a verdict to save is known, with a version.
LEMMA PersistsKnown ==
  ASSUME Judged, NEW w \in Workers, Persists(worker[w])
  PROVE  /\ worker[w].cred \in Creds /\ states[worker[w].cred].known
         /\ states[worker[w].cred].version > 0
  BY DEF Judged, Data, Sound, IsWorker, Dated, Owed, Unknown, State

\* seedState changes only a credential the selector does not know, to the
\* cooldown of the list and no version.
LEMMA SeededStates ==
  ASSUME Judged, NEW view, IsView(view), NEW c \in Creds
  PROVE  /\ Seeded(view)[c] \in State
         /\ \/ Seeded(view)[c] = states[c]
            \/ /\ ~states[c].known /\ c \in DOMAIN view
               /\ Seeded(view)[c].known /\ Seeded(view)[c].until = view[c]
               /\ Seeded(view)[c].version = 0
  BY DEF Seeded, Judged, Data, IsView, Unknown, State

\* A step of a worker that has no verdict to save.
LEMMA QuietStep ==
  ASSUME Judged, NEW w \in Workers, NEW wk, Goes(w, wk), ~Persists(worker[w]), ~Persists(wk),
         Sound(wk), Shrinks(wk.view, worker[w].view) \/ Shrinks(wk.view, candidates'),
         states' \in {states, Seeded(worker[w].view)},
         UNCHANGED <<durable, now, history, bounded>>,
         UNCHANGED candidates \/ candidates' = [c \in Creds |-> durable[c].until]
  PROVE  Judged'
<1>0. IsView(worker[w].view)
  BY DEF Judged, Sound, IsWorker
<1>1. ASSUME NEW c \in Creds
      PROVE  /\ states'[c] \in State
             /\ states'[c] = states[c] \/ (/\ ~states[c].known /\ c \in DOMAIN worker[w].view
                  /\ states'[c].known /\ states'[c].until = worker[w].view[c]
                  /\ states'[c].version = 0)
  BY <1>0, SeededStates DEF Judged, Data
<1>2. ASSUME NEW c \in Creds PROVE states'[c].version = states[c].version
  BY <1>1 DEF Judged, Owed, Unknown
<1>3. \A v \in Workers : worker'[v] = IF v = w THEN wk ELSE worker[v]
  BY DEF Goes
<1>4. \A c \in Creds : (Unsaved(c)' <=> Unsaved(c)) /\ (Patching(c)' <=> Patching(c))
  BY <1>2, <1>3 DEF Unsaved, Persisting, Patching, Persists
<1>5. Data'
  <2>1. states' \in [Creds -> State]
    BY <1>1 DEF Judged, Data, Seeded
  <2>2. IsView(candidates')
    BY DEF Judged, Data, IsView, Health
  <2>. QED
    BY <2>1, <2>2, <1>3 DEF history, bounded, Judged, Data, Goes
<1>6. ASSUME NEW v \in Workers PROVE Sound(worker[v])' /\ Dated(worker[v])'
  <2>1. CASE v = w
    BY <1>3, <2>1 DEF Dated, Sound, IsWorker, Persists, IsView
  <2>2. CASE v # w
    <3>1. worker'[v] = worker[v] /\ Sound(worker[v]) /\ Dated(worker[v])
      BY <1>3, <2>2 DEF Judged
    <3>2. Persists(worker[v]) => states'[worker[v].cred] = states[worker[v].cred]
      BY <1>1, PersistsKnown
    <3>. QED
      BY <3>1, <3>2 DEF Dated, Sound, IsWorker, Persists, IsView, Snapshot
  <2>. QED
    BY <2>1, <2>2
<1>7. OneWriter'
  BY <1>3 DEF OneWriter, Judged, Persists
<1>8. ASSUME NEW c \in Creds PROVE Saved(c)'
  <2>1. states'[c].version > 0 => states'[c] = states[c]
    BY <1>1, <1>2
  <2>. QED
    BY <1>4, <2>1 DEF history, Saved, Judged, Snapshot, Truncated
<1>9. ASSUME NEW c \in Creds PROVE Owed(c)'
  <2>1. states'[c].known => owed[c] <= states'[c].until
    BY <1>1 DEF Judged, Owed
  <2>2. ~Unsaved(c)' /\ c \notin failed' => Truncated(owed'[c]) <= durable'[c].until
    BY <1>4 DEF history, Judged, Owed, Truncated
  <2>3. ~states'[c].known => ~states[c].known /\ states'[c] = states[c]
    BY <1>1
  <2>4. ASSUME ~states[c].known, c \in DOMAIN candidates' PROVE owed[c] <= candidates'[c]
    <3>1. ~Unsaved(c)
      BY <2>4, PersistsKnown DEF Unsaved, Persisting, Persists
    <3>. QED
      BY <2>4, <3>1 DEF Judged, Owed
  <2>5. ASSUME ~states[c].known, NEW v \in Workers, c \in DOMAIN worker'[v].view
        PROVE  owed[c] <= worker'[v].view[c]
    BY <1>3, <2>4, <2>5 DEF Judged, Owed, Shrinks
  <2>. QED
    BY <2>1, <2>2, <2>3, <2>4, <2>5 DEF history, Owed, Judged, Unknown, Truncated
<1>. QED
  BY <1>5, <1>6, <1>7, <1>8, <1>9 DEF Judged

-----------------------------------------------------------------------------
(***************************************************************************)
(* The steps of a request before its verdict, and the end of its body.     *)
(***************************************************************************)
LEMMA RestSound ==
  /\ Sound(Rest) /\ Rest.pc = "idle" /\ ~Rest.reserved
  /\ DOMAIN Rest.view = {} /\ DOMAIN Rest = Fields /\ Rest.cred \in Creds
<1>1. (CHOOSE c \in Creds : TRUE) \in Creds
  BY ConstantsOK
<1>2. DOMAIN Unlisted = {}
  BY DEF Unlisted
<1>3. Healthy \in Health
  BY DEF Healthy, Health
<1>. QED
  BY <1>1, <1>2, <1>3 DEF Rest, Sound, IsWorker, IsView, PCs, Persists, Fields

LEMMA BeginStep ==
  ASSUME SelectorInv, NEW w \in Workers, Begin(w)
  PROVE  SelectorInv'
<1>. DEFINE wk == [Rest EXCEPT !.pc = "choose", !.view = candidates']
<1>1. IsView(candidates')
  BY DEF Begin, SelectorInv, Judged, Data, IsView, Health
<1>2. /\ Sound(wk) /\ ~Persists(wk) /\ ~wk.reserved /\ wk.view = candidates'
  BY <1>1, RestSound DEF Sound, IsWorker, Persists, Fields, PCs
<1>3. Goes(w, wk)
  BY DEF Begin, Goes, SelectorInv, Judged, Data
<1>4. ~worker[w].reserved /\ ~Persists(worker[w])
  BY DEF Begin, SelectorInv, Judged, Sound, Persists
<1>. HIDE DEF wk
<1>5. Counted'
  BY <1>2, <1>3, <1>4, CountSame DEF Begin, SelectorInv
<1>6. Shrinks(wk.view, candidates')
  BY <1>2 DEF Shrinks
<1>7. Judged'
  BY <1>2, <1>3, <1>4, <1>6, QuietStep DEF Begin, SelectorInv, history
<1>. QED
  BY <1>5, <1>7 DEF SelectorInv

LEMMA PickStep ==
  ASSUME SelectorInv, NEW w \in Workers, Pick(w)
  PROVE  SelectorInv'
<1>1. PICK c \in Available(worker[w].view) :
        /\ inFlight' = [inFlight EXCEPT ![c] = @ + 1]
        /\ worker' = [worker EXCEPT ![w].pc = "attempt", ![w].cred = c, ![w].reserved = TRUE]
  BY DEF Pick
<1>2. Sound(worker[w]) /\ worker[w].pc = "choose" /\ ~worker[w].reserved
  BY DEF Pick, SelectorInv, Judged, Sound
<1>3. c \in Creds /\ Vacant(c)
  BY <1>2 DEF Available, Sound, IsWorker, IsView
<1>. DEFINE wk == [worker[w] EXCEPT !.pc = "attempt", !.cred = c, !.reserved = TRUE]
<1>4. /\ Sound(wk) /\ ~Persists(wk) /\ wk.reserved /\ wk.cred = c /\ wk.view = worker[w].view
  BY <1>2, <1>3 DEF Sound, IsWorker, Persists, Fields, PCs
<1>5. Goes(w, wk)
  BY <1>1 DEF Goes, SelectorInv, Judged, Data
<1>. HIDE DEF wk
<1>6. Counted'
  BY <1>1, <1>2, <1>3, <1>4, <1>5, CountTake DEF SelectorInv
<1>7. Shrinks(wk.view, worker[w].view)
  BY <1>4 DEF Shrinks
<1>8. Judged'
  BY <1>2, <1>4, <1>5, <1>7, QuietStep DEF Pick, SelectorInv, history, Persists
<1>. QED
  BY <1>6, <1>8 DEF SelectorInv

LEMMA GiveUpStep ==
  ASSUME SelectorInv, NEW w \in Workers, GiveUp(w)
  PROVE  SelectorInv'
<1>1. Goes(w, Rest) /\ ~worker[w].reserved /\ ~Persists(worker[w])
  BY DEF GiveUp, Goes, SelectorInv, Judged, Data, Sound, Persists
<1>2. Shrinks(Rest.view, worker[w].view) /\ ~Persists(Rest)
  BY RestSound DEF Shrinks, Persists
<1>3. Counted'
  BY <1>1, RestSound, CountSame DEF GiveUp, SelectorInv
<1>4. Judged'
  BY <1>1, <1>2, RestSound, QuietStep DEF GiveUp, SelectorInv, history
<1>. QED
  BY <1>3, <1>4 DEF SelectorInv

\* A worker without a verdict gives up its place and goes on without one.
LEMMA ReleaseStep ==
  ASSUME SelectorInv, NEW w \in Workers, NEW wk, Goes(w, wk), Sound(wk), ~Persists(wk),
         ~wk.reserved, Shrinks(wk.view, worker[w].view), ~Persists(worker[w]),
         inFlight' = IF worker[w].reserved THEN Released(worker[w].cred) ELSE inFlight,
         UNCHANGED <<states, durable, candidates, now, history, bounded>>
  PROVE  SelectorInv'
<1>1. worker[w].cred \in Creds
  BY DEF SelectorInv, Judged, Sound, IsWorker
<1>2. CASE worker[w].reserved
  BY <1>1, <1>2, CountGive, QuietStep DEF SelectorInv, history
<1>3. CASE ~worker[w].reserved
  BY <1>3, CountSame, QuietStep DEF SelectorInv, history
<1>. QED
  BY <1>2, <1>3

LEMMA ReleasesStep ==
  ASSUME SelectorInv, NEW w \in Workers, Release(w)
  PROVE  SelectorInv'
<1>. DEFINE c == worker[w].cred
            view == worker[w].view
<1>1. /\ Sound(worker[w]) /\ worker[w].reserved /\ ~Persists(worker[w])
      /\ inFlight' = Released(c)
      /\ UNCHANGED <<states, durable, candidates, now, history, bounded>>
  BY DEF Release, SelectorInv, Judged, Sound, Persists
<1>2. CASE worker' = [worker EXCEPT ![w] = Rest]
  <2>1. Goes(w, Rest)
    BY <1>2 DEF Goes, SelectorInv, Judged, Data
  <2>2. Shrinks(Rest.view, view) /\ ~Persists(Rest)
    BY RestSound DEF Shrinks, Persists
  <2>. QED
    BY <1>1, <2>1, <2>2, RestSound, ReleaseStep
<1>3. ASSUME NEW rest \in {view, [d \in DOMAIN view \ {c} |-> view[d]]},
             worker' = [worker EXCEPT ![w] = [Rest EXCEPT !.pc = "choose", !.view = rest]]
      PROVE  SelectorInv'
  <2>. DEFINE wk == [Rest EXCEPT !.pc = "choose", !.view = rest]
  <2>1. Goes(w, wk)
    BY <1>3 DEF Goes, SelectorInv, Judged, Data
  <2>2. Shrinks(rest, view) /\ IsView(rest)
    BY <1>1 DEF Shrinks, IsView, Sound, IsWorker
  <2>3. Sound(wk) /\ ~Persists(wk) /\ ~wk.reserved /\ wk.view = rest
    BY <2>2, RestSound DEF Sound, IsWorker, Persists, Fields, PCs
  <2>. HIDE DEF wk
  <2>. QED
    BY <1>1, <2>1, <2>2, <2>3, ReleaseStep
<1>. QED
  BY <1>2, <1>3 DEF Release

LEMMA CloseStep ==
  ASSUME SelectorInv, NEW w \in Workers, Close(w)
  PROVE  SelectorInv'
<1>1. Goes(w, Rest) /\ ~Persists(worker[w]) /\ ~Persists(Rest) /\ Shrinks(Rest.view, worker[w].view)
  BY RestSound DEF Close, Goes, SelectorInv, Judged, Data, Persists, Shrinks
<1>. QED
  BY <1>1, RestSound, ReleaseStep DEF Close

-----------------------------------------------------------------------------
(***************************************************************************)
(* A verdict.                                                              *)
(***************************************************************************)
\* The verdict st on the credential of w, on its way to the store as wk or,
\* when it says nothing new, not.
LEMMA VerdictStep ==
  ASSUME Judged, NEW w \in Workers, worker[w].pc = "attempt",
         NEW wk, Goes(w, wk), Sound(wk), Shrinks(wk.view, worker[w].view),
         NEW c \in Creds, c = worker[w].cred,
         NEW st \in State, st.known, states' = [states EXCEPT ![c] = st],
         owed' = [owed EXCEPT ![c] = st.until],
         \/ /\ wk.pc = "check" /\ wk.cred = c /\ wk.version = st.version
            /\ wk.health = Snapshot(st) /\ st.version = states[c].version + 1
         \/ /\ ~Persists(wk) /\ st.version = states[c].version
            /\ HealthOf(st) = HealthOf(states[c]) /\ st.until = 0,
         UNCHANGED <<durable, candidates, now, inspected, failed, faults, restarts>>,
         verdicts' = verdicts + 1
  PROVE  Judged'
<1>1. \A v \in Workers : worker'[v] = IF v = w THEN wk ELSE worker[v]
  BY DEF Goes
<1>2. \A d \in Creds : /\ states'[d] = IF d = c THEN st ELSE states[d]
                       /\ owed'[d] = IF d = c THEN st.until ELSE owed[d]
  BY DEF Judged, Data
<1>3. ~Persists(worker[w]) /\ wk.pc # "patch"
  BY DEF Persists
<1>4. st.version \in Nat /\ st.until \in Nat /\ states[c].version \in Nat
  BY DEF Judged, Data, State
<1>5. Data'
  BY <1>1, <1>4 DEF Judged, Data, Goes
<1>6. ASSUME NEW v \in Workers PROVE Sound(worker[v])' /\ Dated(worker[v])'
  <2>1. CASE v = w
    <3>1. Persists(wk) => wk.version = states'[wk.cred].version /\ wk.health = Snapshot(states'[wk.cred])
      BY <1>2
    <3>2. Sound(wk)'
      BY DEF Sound, IsWorker, IsView, Persists
    <3>3. wk.version \in Nat
      BY DEF Sound, IsWorker
    <3>4. Dated(wk)'
      BY <3>1, <3>3 DEF Dated, Persists, Snapshot
    <3>. QED
      BY <1>1, <2>1, <3>2, <3>4 DEF Sound, IsWorker, IsView, Persists, Dated, Snapshot
  <2>2. CASE v # w
    <3>1. worker'[v] = worker[v] /\ Sound(worker[v]) /\ Dated(worker[v])
      BY <1>1, <2>2 DEF Judged
    <3>2. Sound(worker[v])'
      BY <3>1 DEF Sound, IsWorker, IsView, Persists
    <3>3. worker[v].cred \in Creds /\ worker[v].version \in Nat
      BY <3>1 DEF Sound, IsWorker
    <3>4. HealthOf(st) = HealthOf(states[c]) => Snapshot(st) = Snapshot(states[c])
      BY DEF HealthOf, Snapshot
    <3>5. Persists(worker[v]) =>
            /\ worker[v].version <= states'[worker[v].cred].version
            /\ worker[v].version = states'[worker[v].cred].version =>
                 worker[v].health = Snapshot(states'[worker[v].cred])
      BY <1>2, <1>4, <3>1, <3>3, <3>4 DEF Dated
    <3>6. Dated(worker[v])'
      BY <3>1, <3>5 DEF Dated, Persists, Snapshot, Truncated
    <3>. QED
      BY <3>2, <3>6
  <2>. QED
    BY <2>1, <2>2
<1>7. OneWriter'
  BY <1>1, <1>3 DEF OneWriter, Judged
<1>8. ASSUME NEW d \in Creds PROVE Saved(d)' /\ Owed(d)'
  <2>1. Patching(d)' <=> Patching(d)
    BY <1>1, <1>3 DEF Patching, Persists
  <2>2. CASE d # c
    <3>1. Unsaved(d)' <=> Unsaved(d)
      BY <1>1, <1>2, <1>3, <2>2 DEF Unsaved, Persisting, Persists
    <3>2. Saved(d)'
      BY <1>2, <2>1, <2>2, <3>1 DEF Saved, Judged, Snapshot
    <3>. QED
      BY <1>1, <1>2, <2>2, <3>1, <3>2 DEF Owed, Judged, Shrinks, Unknown
  <2>3. CASE d = c /\ wk.pc = "check" /\ wk.cred = c /\ wk.version = st.version
    <3>1. Unsaved(c)'
      BY <1>1, <1>2, <2>3 DEF Unsaved, Persisting
    <3>. QED
      BY <1>2, <1>4, <2>3, <3>1 DEF Saved, Owed
  <2>4. CASE d = c /\ ~Persists(wk) /\ st.version = states[c].version
             /\ HealthOf(st) = HealthOf(states[c]) /\ st.until = 0
    <3>1. Unsaved(c)' <=> Unsaved(c)
      BY <1>1, <1>2, <1>3, <2>4 DEF Unsaved, Persisting, Persists
    <3>2. Saved(c)'
      BY <1>2, <2>1, <2>4, <3>1 DEF Saved, Judged, HealthOf, Snapshot, Truncated
    <3>3. durable[c].until \in Nat
      BY DEF Judged, Data, Health
    <3>4. Truncated(owed'[c]) <= durable'[c].until
      BY <1>2, <2>4, <3>3, TruncatedNat
    <3>. QED
      BY <1>2, <2>4, <3>2, <3>3, <3>4 DEF Owed, Truncated
  <2>. QED
    BY <2>2, <2>3, <2>4
<1>. QED
  BY <1>5, <1>6, <1>7, <1>8 DEF Judged

LEMMA RecordStep ==
  ASSUME SelectorInv, NEW w \in Workers, worker[w].pc = "attempt",
         NEW st \in State, st.known, NEW persist \in BOOLEAN,
         NEW then \in {"body", "choose"}, NEW reserved \in BOOLEAN,
         then = "choose" => ~reserved, Record(w, st, persist, then, reserved),
         persist => st.version = states[worker[w].cred].version + 1,
         ~persist => /\ st.version = states[worker[w].cred].version
                     /\ HealthOf(st) = HealthOf(states[worker[w].cred])
                     /\ st.until = 0
  PROVE  SelectorInv'
<1>. DEFINE c == worker[w].cred
            view == worker[w].view
            rest == IF then = "choose" THEN [d \in DOMAIN view \ {c} |-> view[d]] ELSE Unlisted
            wk == [pc |-> IF persist THEN "check" ELSE then, cred |-> c, view |-> rest,
                   reserved |-> reserved, version |-> IF persist THEN st.version ELSE 0,
                   health |-> IF persist THEN Snapshot(st) ELSE Healthy, then |-> then]
<1>1. Sound(worker[w]) /\ c \in Creds /\ worker[w].reserved /\ IsView(view)
  BY DEF SelectorInv, Judged, Sound, IsWorker
<1>2. Goes(w, wk)
  BY DEF Record, Goes, SelectorInv, Judged, Data
<1>3. IsView(rest) /\ Shrinks(rest, view)
  BY <1>1 DEF IsView, Shrinks, Unlisted
<1>4. Snapshot(st) \in Health /\ Healthy \in Health /\ st.version \in Nat
  BY TruncatedNat DEF Snapshot, Health, Healthy, State
<1>5. states[c].version \in Nat
  BY <1>1 DEF SelectorInv, Judged, Data, State
<1>. HIDE DEF rest
<1>6. Sound(wk)
  BY <1>1, <1>3, <1>4, <1>5 DEF Sound, IsWorker, Fields, PCs, Persists
<1>7. /\ wk.view = rest /\ wk.cred = c /\ (wk.reserved <=> reserved)
      /\ \/ wk.pc = "check" /\ wk.version = st.version /\ wk.health = Snapshot(st) /\ persist
         \/ ~Persists(wk) /\ ~persist
  BY DEF Persists
<1>. HIDE DEF wk
<1>8. Counted'
  <2>1. CASE reserved
    BY <1>1, <1>2, <1>7, <2>1, CountSame DEF Record, SelectorInv
  <2>2. CASE ~reserved
    BY <1>1, <1>2, <1>7, <2>2, CountGive DEF Record, SelectorInv
  <2>. QED
    BY <2>1, <2>2
<1>9. Judged'
  BY <1>1, <1>2, <1>3, <1>6, <1>7, VerdictStep DEF Record, SelectorInv
<1>. QED
  BY <1>8, <1>9 DEF SelectorInv

\* Powers of two up to the exponent the code stops at.
LEMMA SmallPowers == \A n \in 0..10 : 2 ^ n \in Nat
<1>1. /\ 2 ^ 0 \in Nat /\ 2 ^ 1 \in Nat /\ 2 ^ 2 \in Nat /\ 2 ^ 3 \in Nat /\ 2 ^ 4 \in Nat
      /\ 2 ^ 5 \in Nat /\ 2 ^ 6 \in Nat /\ 2 ^ 7 \in Nat /\ 2 ^ 8 \in Nat /\ 2 ^ 9 \in Nat
      /\ 2 ^ 10 \in Nat
  BY SMT
<1>2. \A n \in 0..10 : n \in {0, 1, 2, 3, 4, 5, 6, 7, 8, 9, 10}
  OBVIOUS
<1>. QED
  BY <1>1, <1>2

LEMMA CooldownNat ==
  ASSUME NEW status \in Nat, NEW hint \in Nat, NEW failures \in Nat
  PROVE  Cooldown(status, hint, failures) \in Nat
<1>1. \A x, y \in Nat : Later(x, y) \in Nat /\ Sooner(x, y) \in Nat
  BY DEF Later, Sooner
<1>2. /\ Base \in Nat /\ Longest \in Nat /\ Floor \in Nat /\ Base * 4 \in Nat
      /\ Base \div 10 \in Nat
  BY ConstantsOK
<1>3. Base * 2 ^ Sooner(failures, 10) \in Nat
  <2>1. Sooner(failures, 10) \in 0..10
    BY DEF Sooner
  <2>2. 2 ^ Sooner(failures, 10) \in Nat
    BY <2>1, SmallPowers
  <2>. QED
    BY <1>2, <2>2
<1>4. \A d \in Nat : Sooner(d, Later(Longest, Base)) \in Nat
  BY <1>1, <1>2
<1>5. Later(Longest, Base) \in Nat /\ Sooner(Later(Base \div 10, Floor), Base) \in Nat
  BY <1>1, <1>2
<1>6. CASE status = 429
  BY <1>3, <1>4, <1>6 DEF Cooldown
<1>7. CASE status = 402
  BY <1>5, <1>7 DEF Cooldown
<1>8. CASE status = 403
  BY <1>5, <1>8 DEF Cooldown
<1>9. CASE status = 401
  BY <1>2, <1>4, <1>9 DEF Cooldown
<1>10. CASE status = 500
  BY <1>5, <1>10 DEF Cooldown
<1>11. CASE status \notin {401, 402, 403, 429, 500}
  BY <1>2, <1>11 DEF Cooldown
<1>. QED
  BY <1>6, <1>7, <1>8, <1>9, <1>10, <1>11

LEMMA MarkSuccessStep ==
  ASSUME SelectorInv, NEW w \in Workers, MarkSuccess(w)
  PROVE  SelectorInv'
<1>. DEFINE old == states[worker[w].cred]
            st(persist) == [known |-> TRUE, failures |-> 0, until |-> 0,
                            version |-> old.version + (IF persist THEN 1 ELSE 0)]
<1>1. old \in State
  BY DEF SelectorInv, Judged, Data, Sound, IsWorker
<1>2. PICK due \in BOOLEAN :
        LET persist == due \/ HealthOf(old) # Healthy
        IN Record(w, st(persist), persist, "body", MaxConcurrent > 0)
  BY DEF MarkSuccess
<1>. DEFINE persist == due \/ HealthOf(old) # Healthy
<1>3. persist \in BOOLEAN /\ (MaxConcurrent > 0) \in BOOLEAN
  OBVIOUS
<1>4. Record(w, st(persist), persist, "body", MaxConcurrent > 0)
  BY <1>2
<1>5. /\ st(persist) \in State /\ st(persist).known
      /\ persist => st(persist).version = old.version + 1
      /\ ~persist => st(persist).version = old.version
      /\ HealthOf(st(persist)) = Healthy /\ st(persist).until = 0
  BY <1>1 DEF State, HealthOf, Healthy
<1>6. ~persist => HealthOf(old) = Healthy
  OBVIOUS
<1>7. worker[w].pc = "attempt"
  BY DEF MarkSuccess
<1>. HIDE DEF persist, st
<1>. QED
  BY <1>3, <1>4, <1>5, <1>6, <1>7, RecordStep

LEMMA FailedState ==
  ASSUME NEW st \in State, NEW until \in Nat
  PROVE  /\ Failed(st, until) \in State /\ Failed(st, until).known
         /\ Failed(st, until).version = st.version + 1
  BY DEF Failed, State

LEMMA MarkFailureStep ==
  ASSUME SelectorInv, NEW w \in Workers, MarkFailure(w)
  PROVE  SelectorInv'
<1>. DEFINE st == states[worker[w].cred]
<1>1. st \in State /\ now \in Nat /\ st.failures \in Nat /\ worker[w].pc = "attempt"
  BY DEF SelectorInv, Judged, Data, Sound, IsWorker, State, MarkFailure
<1>2. \E until \in Nat : Record(w, Failed(st, until), TRUE, "choose", FALSE)
  <2>1. PICK status \in {0, 401, 402, 403, 429, 500}, hint \in Hints \cup {0} :
          Record(w, Failed(st, now + Cooldown(status, hint, st.failures)), TRUE, "choose", FALSE)
    BY DEF MarkFailure
  <2>2. status \in Nat /\ hint \in Nat
    BY ConstantsOK
  <2>. DEFINE failures == st.failures
              length == Cooldown(status, hint, failures)
              until == now + length
  <2>3. failures \in Nat
    BY <1>1
  <2>4. length \in Nat
    <3>. HIDE DEF failures
    <3>. QED
      BY <2>2, <2>3, CooldownNat
  <2>5. until \in Nat
    <3>. HIDE DEF length
    <3>. QED
      BY <1>1, <2>4
  <2>6. Record(w, Failed(st, until), TRUE, "choose", FALSE)
    BY <2>1
  <2>. HIDE DEF until
  <2>. QED
    BY <2>5, <2>6
<1>3. PICK until \in Nat : Record(w, Failed(st, until), TRUE, "choose", FALSE)
  BY <1>2
<1>. QED
  BY <1>1, <1>3, FailedState, RecordStep

LEMMA MarkQuotaStep ==
  ASSUME SelectorInv, NEW w \in Workers, MarkQuotaExhausted(w)
  PROVE  SelectorInv'
<1>. DEFINE st == states[worker[w].cred]
<1>1. st \in State /\ now \in Nat /\ worker[w].pc = "attempt"
  BY DEF SelectorInv, Judged, Data, Sound, IsWorker, MarkQuotaExhausted
<1>2. PICK reset \in (Hints \ {0}) \cup {Quota}, then \in {"body", "choose"} :
        Record(w, Failed(st, now + reset), TRUE, then, FALSE)
  BY DEF MarkQuotaExhausted
<1>3. now + reset \in Nat
  BY <1>1, ConstantsOK
<1>. QED
  BY <1>1, <1>2, <1>3, FailedState, RecordStep

-----------------------------------------------------------------------------
(***************************************************************************)
(* The way of a verdict to the store.                                      *)
(***************************************************************************)
\* What follows for the places when a worker that saves a verdict moves on.
LEMMA SaverCounted ==
  ASSUME SelectorInv, NEW w \in Workers, NEW wk, Goes(w, wk), UNCHANGED inFlight,
         wk.reserved = worker[w].reserved, wk.cred = worker[w].cred
  PROVE  Counted'
  BY CountSame DEF SelectorInv

LEMMA ProceedSound ==
  ASSUME SelectorInv, NEW w \in Workers, Persists(worker[w]), Proceed(w)
  PROVE  \E wk : /\ Goes(w, wk) /\ Sound(wk) /\ ~Persists(wk)
                 /\ wk.reserved = worker[w].reserved /\ wk.cred = worker[w].cred
                 /\ wk.view = worker[w].view
<1>. DEFINE wk == [worker[w] EXCEPT !.pc = worker[w].then, !.then = "idle",
                                    !.version = 0, !.health = Healthy]
<1>1. Sound(worker[w])
  BY DEF SelectorInv, Judged
<1>2. Goes(w, wk)
  BY DEF Proceed, Goes, SelectorInv, Judged, Data
<1>3. Healthy \in Health
  BY DEF Healthy, Health
<1>4. /\ Sound(wk) /\ ~Persists(wk) /\ wk.reserved = worker[w].reserved
      /\ wk.cred = worker[w].cred /\ wk.view = worker[w].view
  BY <1>1, <1>3 DEF Sound, IsWorker, Persists, Fields, PCs
<1>. QED
  BY <1>2, <1>4

\* A worker with an outdated verdict moves on without it, or one with the
\* latest goes to write it.
LEMMA CheckedStep ==
  ASSUME Judged, NEW w \in Workers, worker[w].pc = "check",
         \A v \in Workers : worker[v].pc # "patch",
         NEW wk, Goes(w, wk), Sound(wk), wk.view = worker[w].view, wk.cred = worker[w].cred,
         \/ /\ wk.pc = "patch" /\ wk.version = worker[w].version /\ wk.health = worker[w].health
            /\ worker[w].version = states[worker[w].cred].version
         \/ ~Persists(wk) /\ worker[w].version # states[worker[w].cred].version,
         UNCHANGED <<states, durable, candidates, now, history, bounded>>
  PROVE  Judged'
<1>1. \A v \in Workers : worker'[v] = IF v = w THEN wk ELSE worker[v]
  BY DEF Goes
<1>2. Data'
  BY <1>1 DEF history, bounded, Judged, Data, Goes
<1>3. Sound(worker[w]) /\ Dated(worker[w])
  BY DEF Judged
<1>4. ASSUME NEW v \in Workers PROVE Sound(worker[v])' /\ Dated(worker[v])'
  <2>1. CASE v = w
    <3>1. Sound(wk)'
      BY DEF Sound, IsWorker, IsView, Persists
    <3>2. Dated(wk)'
      BY <1>3 DEF Dated, Persists, Snapshot
    <3>. QED
      BY <1>1, <2>1, <3>1, <3>2 DEF Sound, IsWorker, IsView, Persists, Dated, Snapshot
  <2>2. CASE v # w
    BY <1>1, <2>2 DEF Judged, Sound, IsWorker, IsView, Persists, Dated, Snapshot
  <2>. QED
    BY <2>1, <2>2
<1>5. OneWriter'
  BY <1>1 DEF OneWriter
<1>6. ASSUME NEW c \in Creds PROVE Saved(c)' /\ Owed(c)'
  <2>1. Unsaved(c)' <=> Unsaved(c)
    BY <1>1 DEF Unsaved, Persisting, Persists
  <2>2. Patching(c)' => Unsaved(c)'
    BY <1>1 DEF Unsaved, Persisting, Patching, Persists
  <2>3. Saved(c)'
    BY <2>1, <2>2 DEF history, Saved, Judged, Snapshot, Truncated
  <2>. QED
    BY <1>1, <2>1, <2>3 DEF history, Owed, Judged, Unknown, Truncated
<1>. QED
  BY <1>2, <1>4, <1>5, <1>6 DEF Judged

LEMMA CheckStep ==
  ASSUME SelectorInv, NEW w \in Workers, Check(w)
  PROVE  SelectorInv'
<1>1. /\ worker[w].pc = "check" /\ Persists(worker[w])
      /\ \A v \in Workers : worker[v].pc # "patch"
      /\ UNCHANGED inFlight
      /\ UNCHANGED <<states, durable, candidates, now, history, bounded>>
  BY DEF Check, Persists, history
<1>2. CASE states[worker[w].cred].version = worker[w].version
  <2>. DEFINE wk == [worker[w] EXCEPT !.pc = "patch"]
  <2>1. Goes(w, wk)
    BY <1>2 DEF Check, Goes, SelectorInv, Judged, Data
  <2>2. Sound(worker[w])
    BY DEF SelectorInv, Judged
  <2>3. /\ Sound(wk) /\ wk.reserved = worker[w].reserved /\ wk.cred = worker[w].cred
        /\ wk.view = worker[w].view /\ wk.pc = "patch"
        /\ wk.version = worker[w].version /\ wk.health = worker[w].health
    BY <1>1, <2>2 DEF Sound, IsWorker, Persists, Fields, PCs
  <2>. HIDE DEF wk
  <2>4. Counted'
    BY <1>1, <2>1, <2>3, SaverCounted
  <2>5. Judged'
    BY <1>1, <1>2, <2>1, <2>3, CheckedStep DEF SelectorInv
  <2>. QED
    BY <2>4, <2>5 DEF SelectorInv
<1>3. CASE states[worker[w].cred].version # worker[w].version
  <2>1. Proceed(w)
    BY <1>3 DEF Check
  <2>2. PICK wk : /\ Goes(w, wk) /\ Sound(wk) /\ ~Persists(wk)
                  /\ wk.reserved = worker[w].reserved /\ wk.cred = worker[w].cred
                  /\ wk.view = worker[w].view
    BY <1>1, <2>1, ProceedSound
  <2>3. Counted'
    BY <1>1, <2>2, SaverCounted
  <2>4. Judged'
    BY <1>1, <1>3, <2>2, CheckedStep DEF SelectorInv
  <2>. QED
    BY <2>3, <2>4 DEF SelectorInv
<1>. QED
  BY <1>2, <1>3

\* The save of worker w is over, well or not: it goes on as wk, and the store
\* has the verdict or has not.
LEMMA SavedStep ==
  ASSUME SelectorInv, NEW w \in Workers, worker[w].pc = "patch", NEW wk, Goes(w, wk),
         Sound(wk), ~Persists(wk), wk.view = worker[w].view,
         NEW c \in Creds, c = worker[w].cred,
         \/ /\ durable' = [durable EXCEPT ![c] = worker[w].health]
            /\ inspected' = inspected \ {c} /\ failed' = failed \ {c}
         \/ durable' = durable /\ inspected' = inspected /\ failed' = failed \cup {c},
         faults' \in Nat, UNCHANGED <<states, candidates, now, owed, verdicts, restarts>>
  PROVE  Judged'
<1>1. \A v \in Workers : worker'[v] = IF v = w THEN wk ELSE worker[v]
  BY DEF Goes
<1>2. /\ Sound(worker[w]) /\ Dated(worker[w]) /\ worker[w].health \in Health
      /\ Persists(worker[w])
  BY DEF SelectorInv, Judged, Sound, IsWorker, Persists
<1>3. Data'
  BY <1>1, <1>2 DEF SelectorInv, Judged, Data, Goes
<1>4. ASSUME NEW v \in Workers PROVE Sound(worker[v])' /\ Dated(worker[v])'
  <2>1. CASE v = w
    <3>1. Sound(wk)' /\ Dated(wk)'
      BY DEF Sound, IsWorker, IsView, Persists, Dated
    <3>. QED
      BY <1>1, <2>1, <3>1 DEF Sound, IsWorker, IsView, Persists, Dated, Snapshot
  <2>2. CASE v # w
    BY <1>1, <2>2 DEF SelectorInv, Judged, Sound, IsWorker, IsView, Persists, Dated, Snapshot
  <2>. QED
    BY <2>1, <2>2
<1>5. /\ OneWriter' /\ \A d \in Creds : ~Patching(d)'
  BY <1>1 DEF SelectorInv, Judged, OneWriter, Patching, Persists
<1>6. states[c].known /\ states[c].version > 0
  BY <1>2, PersistsKnown DEF SelectorInv
<1>7. ASSUME NEW d \in Creds, d # c PROVE Saved(d)' /\ Owed(d)'
  <2>1. /\ durable'[d] = durable[d] /\ (d \in inspected' <=> d \in inspected)
        /\ (d \in failed' <=> d \in failed)
    BY <1>7 DEF SelectorInv, Judged, Data
  <2>2. Unsaved(d)' <=> Unsaved(d)
    BY <1>1, <1>7 DEF Unsaved, Persisting, Persists
  <2>3. Saved(d)'
    BY <1>5, <2>1, <2>2 DEF Saved, SelectorInv, Judged, Snapshot
  <2>. QED
    BY <1>1, <2>1, <2>2, <2>3 DEF Owed, SelectorInv, Judged, Unknown
<1>8. ASSUME durable' = [durable EXCEPT ![c] = worker[w].health], failed' = failed \ {c}
      PROVE  Saved(c)' /\ Owed(c)'
  <2>1. durable'[c] = worker[w].health
    BY <1>8 DEF SelectorInv, Judged, Data
  <2>2. CASE worker[w].version = states[c].version
    <3>1. durable'[c] = Snapshot(states[c])
      BY <1>2, <2>1, <2>2 DEF Dated
    <3>2. owed[c] \in Nat /\ states[c].until \in Nat /\ owed[c] <= states[c].until
      BY <1>6 DEF SelectorInv, Judged, Data, State, Owed
    <3>3. Truncated(owed[c]) <= durable'[c].until
      BY <3>1, <3>2, TruncatedOrder DEF Snapshot
    <3>4. Saved(c)'
      BY <1>5, <3>1 DEF Saved, Snapshot
    <3>. QED
      BY <1>6, <3>3, <3>4 DEF Owed, SelectorInv, Judged, Truncated
  <2>3. CASE worker[w].version # states[c].version
    <3>1. Unsaved(c)
      BY <1>6 DEF SelectorInv, Judged, Saved, Patching
    <3>2. Unsaved(c)'
      BY <1>1, <2>3, <3>1 DEF Unsaved, Persisting
    <3>. QED
      BY <1>6, <3>2 DEF Saved, Owed, SelectorInv, Judged, Truncated
  <2>. QED
    BY <2>2, <2>3
<1>9. ASSUME durable' = durable, failed' = failed \cup {c}
      PROVE  Saved(c)' /\ Owed(c)'
  BY <1>5, <1>6, <1>9 DEF Saved, Owed, SelectorInv, Judged, Truncated
<1>10. \A d \in Creds : Saved(d)' /\ Owed(d)'
  BY <1>7, <1>8, <1>9
<1>. QED
  BY <1>3, <1>4, <1>5, <1>10 DEF Judged

LEMMA PatchStep ==
  ASSUME SelectorInv, NEW w \in Workers, Patch(w) \/ PatchFails(w)
  PROVE  SelectorInv'
<1>. DEFINE c == worker[w].cred
<1>1. /\ worker[w].pc = "patch" /\ Persists(worker[w]) /\ Proceed(w) /\ UNCHANGED inFlight
      /\ \/ /\ durable' = [durable EXCEPT ![c] = worker[w].health]
            /\ inspected' = inspected \ {c} /\ failed' = failed \ {c}
         \/ durable' = durable /\ inspected' = inspected /\ failed' = failed \cup {c}
      /\ faults' \in Nat /\ UNCHANGED <<states, candidates, now, owed, verdicts, restarts>>
  BY DEF Patch, PatchFails, Persists, bounded, SelectorInv, Judged, Data
<1>2. PICK wk : /\ Goes(w, wk) /\ Sound(wk) /\ ~Persists(wk)
                /\ wk.reserved = worker[w].reserved /\ wk.cred = worker[w].cred
                /\ wk.view = worker[w].view
  BY <1>1, ProceedSound
<1>3. Counted'
  BY <1>1, <1>2, SaverCounted
<1>4. c \in Creds
  BY DEF SelectorInv, Judged, Sound, IsWorker
<1>5. Judged'
  BY <1>1, <1>2, <1>4, SavedStep
<1>. QED
  BY <1>3, <1>5 DEF SelectorInv

-----------------------------------------------------------------------------
(***************************************************************************)
(* Inspections, the clock and restarts.                                    *)
(***************************************************************************)
LEMMA InspectStep ==
  ASSUME SelectorInv, NEW c \in Creds, Inspect(c)
  PROVE  SelectorInv'
<1>1. PICK d \in {Base, Quota} :
        /\ durable' = [durable EXCEPT ![c].until = Truncated(now + d)]
        /\ owed' = [owed EXCEPT ![c] = Sooner(@, Truncated(now + d))]
  BY DEF Inspect
<1>. DEFINE until == Truncated(now + d)
<1>2. until \in Nat
  <2>1. now + d \in Nat
    BY ConstantsOK DEF SelectorInv, Judged, Data
  <2>. QED
    BY <2>1, TruncatedNat
<1>3. /\ owed[c] \in Nat /\ Sooner(owed[c], until) \in Nat
      /\ Sooner(owed[c], until) <= owed[c] /\ Sooner(owed[c], until) <= until
  BY <1>2 DEF SelectorInv, Judged, Data, Sooner
<1>4. /\ durable' = [durable EXCEPT ![c].until = until]
      /\ owed' = [owed EXCEPT ![c] = Sooner(owed[c], until)]
  BY <1>1
<1>. HIDE DEF until
<1>5. /\ durable'[c].until = until /\ owed'[c] = Sooner(owed[c], until)
      /\ \A e \in Creds : e # c => durable'[e] = durable[e] /\ owed'[e] = owed[e]
  BY <1>4 DEF SelectorInv, Judged, Data, Health
<1>6. /\ inspected' = inspected \cup {c} /\ verdicts' = verdicts + 1
      /\ UNCHANGED <<states, inFlight, candidates, worker, now, failed, faults, restarts>>
  BY DEF Inspect
<1>7. Counted'
  BY <1>6 DEF SelectorInv, Counted, Holders
<1>8. Data'
  BY <1>2, <1>3, <1>4, <1>6 DEF SelectorInv, Judged, Data, Health
<1>9. \A w \in Workers : Sound(worker[w])' /\ Dated(worker[w])'
  BY <1>6 DEF SelectorInv, Judged, Sound, IsWorker, IsView, Persists, Dated, Snapshot
<1>10. OneWriter'
  BY <1>6 DEF SelectorInv, Judged, OneWriter
<1>11. ASSUME NEW e \in Creds PROVE Saved(e)' /\ Owed(e)'
  <2>1. (Unsaved(e)' <=> Unsaved(e)) /\ (Patching(e)' <=> Patching(e))
    BY <1>6 DEF Unsaved, Persisting, Patching
  <2>2. Saved(e)'
    BY <1>5, <1>6, <2>1 DEF SelectorInv, Judged, Saved, Snapshot
  <2>3. CASE e # c
    BY <1>5, <1>6, <2>1, <2>2, <2>3 DEF SelectorInv, Judged, Owed, Unknown
  <2>4. CASE e = c
    <3>1. /\ states[c].known => states[c].until \in Nat
          /\ \A w \in Workers : IsView(worker[w].view)
          /\ IsView(candidates)
      BY DEF SelectorInv, Judged, Data, State, Sound, IsWorker
    <3>2. owed'[c] <= owed[c] /\ owed'[c] \in Nat /\ owed'[c] <= durable'[c].until
      BY <1>3, <1>5
    <3>3. states[c].known => owed'[c] <= states[c].until
      BY <1>3, <3>1, <3>2 DEF SelectorInv, Judged, Owed
    <3>4. ~states[c].known /\ c \in DOMAIN candidates => owed'[c] <= candidates[c]
      BY <1>3, <3>1, <3>2 DEF SelectorInv, Judged, Owed, IsView
    <3>5. ASSUME ~states[c].known, NEW w \in Workers, c \in DOMAIN worker[w].view
          PROVE  owed'[c] <= worker[w].view[c]
      BY <1>3, <3>1, <3>2, <3>5 DEF SelectorInv, Judged, Owed, IsView
    <3>6. ~states[c].known => states[c] = Unknown
      BY DEF SelectorInv, Judged, Owed
    <3>7. Truncated(owed'[c]) <= durable'[c].until
      BY <1>2, <1>5, <3>2, TruncatedNat
    <3>. QED
      BY <1>6, <2>2, <2>4, <3>2, <3>3, <3>4, <3>5, <3>6, <3>7 DEF Owed, Unknown, Truncated
  <2>. QED
    BY <2>3, <2>4
<1>12. Judged'
  BY <1>8, <1>9, <1>10, <1>11 DEF Judged
<1>. QED
  BY <1>7, <1>12 DEF SelectorInv

LEMMA TickStep ==
  ASSUME SelectorInv, Tick
  PROVE  SelectorInv'
<1>1. /\ now' \in Nat
      /\ UNCHANGED <<states, inFlight, durable, candidates, worker, history, bounded>>
  BY DEF Tick, history, SelectorInv, Judged, Data
<1>2. Counted'
  BY <1>1 DEF SelectorInv, Counted, Holders
<1>3. Data' /\ OneWriter'
  BY <1>1 DEF history, bounded, SelectorInv, Judged, Data, OneWriter
<1>4. \A w \in Workers : Sound(worker[w])' /\ Dated(worker[w])'
  BY <1>1 DEF SelectorInv, Judged, Sound, IsWorker, IsView, Persists, Dated, Snapshot
<1>5. \A c \in Creds : (Unsaved(c)' <=> Unsaved(c)) /\ (Patching(c)' <=> Patching(c))
  BY <1>1 DEF Unsaved, Persisting, Patching
<1>6. \A c \in Creds : Saved(c)' /\ Owed(c)'
  BY <1>1, <1>5 DEF history, SelectorInv, Judged, Saved, Owed, Snapshot, Truncated
<1>. QED
  BY <1>2, <1>3, <1>4, <1>6 DEF SelectorInv, Judged

\* No request holds a place or has a verdict to save, and no list is about.
LEMMA AtRest ==
  ASSUME inFlight = [c \in Creds |-> 0], worker = [w \in Workers |-> Rest]
  PROVE  /\ Counted /\ OneWriter
         /\ \A c \in Creds : Persisting(c) = {}
         /\ \A w \in Workers : Sound(worker[w]) /\ Dated(worker[w])
<1>1. \A c : Holders(c) = {}
  BY RestSound DEF Holders
<1>2. Counted
  BY <1>1, FS_EmptySet, LimitNat DEF Counted
<1>. QED
  BY <1>2, RestSound DEF OneWriter, Persisting, Dated, Persists

LEMMA RestartStep ==
  ASSUME SelectorInv, Restart
  PROVE  SelectorInv'
<1>1. /\ states' = [c \in Creds |-> Unknown] /\ inFlight' = [c \in Creds |-> 0]
      /\ candidates' = Unlisted /\ worker' = [w \in Workers |-> Rest]
      /\ restarts' = restarts + 1 /\ failed' = {}
      /\ UNCHANGED <<durable, now, inspected, verdicts, faults>>
      /\ owed' = [c \in Creds |-> IF Unsaved(c) \/ c \in failed
                                   THEN Sooner(owed[c], durable[c].until)
                                   ELSE Truncated(owed[c])]
  BY DEF Restart
<1>2. \A c \in Creds : owed[c] \in Nat /\ durable[c].until \in Nat
  BY DEF SelectorInv, Judged, Data, Health
<1>3. \A c \in Creds : owed'[c] \in Nat /\ owed'[c] <= durable[c].until
  BY <1>1, <1>2, TruncatedNat DEF Sooner, SelectorInv, Judged, Owed
<1>4. DOMAIN Unlisted = {}
  BY DEF Unlisted
<1>5. Data'
  BY <1>1, <1>3, <1>4 DEF SelectorInv, Judged, Data, IsView, Unknown, State
<1>6. \A c : Holders(c)' = {}
  BY <1>1, RestSound DEF Holders
<1>7. Counted'
  <2>1. inFlight' \in [Creds -> 0..Limit]
    BY <1>1, LimitNat
  <2>2. \A c \in Creds : inFlight'[c] = Cardinality(Holders(c)')
    BY <1>1, <1>6, FS_EmptySet
  <2>. QED
    BY <2>1, <2>2 DEF Counted
<1>8. OneWriter' /\ \A c \in Creds : ~Unsaved(c)'
  BY <1>1, RestSound DEF OneWriter, Persisting, Unsaved
<1>9. \A w \in Workers : Sound(worker[w])' /\ Dated(worker[w])'
  BY <1>1, RestSound DEF Sound, IsWorker, IsView, Dated, Persists
<1>10. ASSUME NEW c \in Creds PROVE Saved(c)' /\ Owed(c)'
  <2>1. states'[c] = Unknown /\ Unknown.version = 0 /\ ~Unknown.known
    BY <1>1 DEF Unknown
  <2>2. \A w \in Workers : DOMAIN worker'[w].view = {}
    BY <1>1, RestSound
  <2>3. Truncated(owed'[c]) <= durable[c].until
    BY <1>2, <1>3, TruncatedNat
  <2>. QED
    BY <1>1, <1>3, <1>4, <2>1, <2>2, <2>3 DEF Saved, Owed, Unknown, Truncated
<1>. QED
  BY <1>5, <1>7, <1>8, <1>9, <1>10 DEF SelectorInv, Judged

LEMMA InitInv == Init => SelectorInv
<1>. SUFFICES ASSUME Init PROVE SelectorInv
  OBVIOUS
<1>1. /\ Counted /\ OneWriter
      /\ \A c \in Creds : Persisting(c) = {}
      /\ \A w \in Workers : Sound(worker[w]) /\ Dated(worker[w])
  BY AtRest DEF Init
<1>2. DOMAIN Unlisted = {}
  BY DEF Unlisted
<1>3. Data
  BY <1>2 DEF Init, Data, IsView, Unknown, State, Healthy, Health
<1>4. ASSUME NEW c \in Creds PROVE Saved(c) /\ Owed(c)
  <2>1. states[c] = Unknown /\ owed[c] = 0 /\ durable[c].until = 0
    BY DEF Init, Healthy
  <2>2. \A w \in Workers : DOMAIN worker[w].view = {}
    BY RestSound DEF Init
  <2>3. Truncated(0) <= 0
    BY TruncatedNat
  <2>. QED
    BY <1>2, <2>1, <2>2, <2>3 DEF Saved, Owed, Unknown, Init, Truncated
<1>. QED
  BY <1>1, <1>3, <1>4 DEF SelectorInv, Judged

LEMMA StepInv ==
  ASSUME SelectorInv, [Next]_vars
  PROVE  SelectorInv'
<1>1. ASSUME NEW w \in Workers, Request(w) PROVE SelectorInv'
  BY <1>1, BeginStep, PickStep, GiveUpStep, ReleasesStep, MarkSuccessStep, MarkFailureStep,
     MarkQuotaStep, CheckStep, PatchStep, CloseStep DEF Request
<1>2. CASE UNCHANGED vars
  <2>1. Counted'
    BY <1>2 DEF vars, SelectorInv, Counted, Holders
  <2>2. Data' /\ OneWriter'
    BY <1>2 DEF vars, history, bounded, SelectorInv, Judged, Data, OneWriter
  <2>3. \A w \in Workers : Sound(worker[w])' /\ Dated(worker[w])'
    BY <1>2 DEF vars, SelectorInv, Judged, Sound, IsWorker, IsView, Persists, Dated, Snapshot
  <2>4. \A c \in Creds : (Unsaved(c)' <=> Unsaved(c)) /\ (Patching(c)' <=> Patching(c))
    BY <1>2 DEF vars, Unsaved, Persisting, Patching
  <2>5. \A c \in Creds : Saved(c)' /\ Owed(c)'
    BY <1>2, <2>4 DEF vars, history, SelectorInv, Judged, Saved, Owed, Snapshot
  <2>. QED
    BY <2>1, <2>2, <2>3, <2>5 DEF SelectorInv, Judged
<1>. QED
  BY <1>1, <1>2, InspectStep, TickStep, RestartStep DEF Next

-----------------------------------------------------------------------------
(***************************************************************************)
(* The results.                                                            *)
(***************************************************************************)
\* What the properties need of the invariant.
LEMMA InvGives == SelectorInv => TypeOK /\ ReservationsExact /\ HealthConverges
<1>. SUFFICES ASSUME SelectorInv PROVE TypeOK /\ ReservationsExact /\ HealthConverges
  OBVIOUS
<1>1. TypeOK
  BY DEF SelectorInv, Counted, Limit, Judged, Data, TypeOK, Sound
<1>2. ReservationsExact
  BY DEF SelectorInv, Counted, Holders, ReservationsExact
<1>3. HealthConverges
  BY DEF SelectorInv, Judged, Saved, Unsaved, HealthConverges
<1>. QED
  BY <1>1, <1>2, <1>3

LEMMA Invariance == Spec => []SelectorInv
  BY InitInv, StepInv, PTL DEF Spec

\* The selector, the stored health, the cached list and what each request
\* carries keep their types; a count never exceeds the limit, or the number
\* of requests when there is none.
THEOREM SelectorTyped == Spec => []TypeOK
  BY Invariance, InvGives, PTL

\* releaseLocked, MarkSuccessHold and releaseOnClose between them give every
\* reservation of Pick back exactly once.
THEOREM PlacesCounted == Spec => []ReservationsExact
  BY Invariance, InvGives, PTL

\* persistMu and the version together let the latest verdict win in the
\* store, whatever the order in which the requests get to persist theirs and
\* whichever saves failed before the last one.
THEOREM LatestVerdictStored == Spec => []HealthConverges
  BY Invariance, InvGives, PTL

\* Only a pick takes a request from choosing to an attempt.
LEMMA OnlyPicks ==
  ASSUME SelectorInv, NEW v \in Workers, NEW w \in Workers, Request(v),
         worker[w].pc = "choose", worker'[w].pc = "attempt"
  PROVE  Pick(w)
<1>1. DOMAIN worker = Workers
  BY DEF SelectorInv, Judged, Data
<1>2. worker'[w] # worker[w]
  OBVIOUS
<1>3. Begin(v) \/ GiveUp(v) => worker'[w] = worker[w] \/ worker'[w].pc # "attempt"
  BY <1>1, RestSound DEF Begin, GiveUp
<1>4. Release(v) => v # w /\ worker'[w] = worker[w]
  BY <1>1 DEF Release
<1>5. MarkSuccess(v) \/ MarkFailure(v) \/ MarkQuotaExhausted(v) => v # w /\ worker'[w] = worker[w]
  BY <1>1 DEF MarkSuccess, MarkFailure, MarkQuotaExhausted, Record
<1>6. Check(v) \/ Patch(v) \/ PatchFails(v) => v # w /\ worker'[w] = worker[w]
  BY <1>1 DEF Check, Patch, PatchFails, Proceed
<1>7. Close(v) => v # w /\ worker'[w] = worker[w]
  BY <1>1 DEF Close
<1>8. CASE Pick(v)
  <2>1. v = w
    BY <1>1, <1>2, <1>8 DEF Pick
  <2>. QED
    BY <1>8, <2>1
<1>. QED
  BY <1>2, <1>3, <1>4, <1>5, <1>6, <1>7, <1>8 DEF Request

LEMMA PickServes ==
  ASSUME SelectorInv, NEW w \in Workers, Pick(w)
  PROVE  owed[worker'[w].cred] <= now
<1>. DEFINE view == worker[w].view
<1>1. PICK c \in Available(view) :
        worker' = [worker EXCEPT ![w].pc = "attempt", ![w].cred = c, ![w].reserved = TRUE]
  BY DEF Pick
<1>2. Sound(worker[w]) /\ IsView(view) /\ DOMAIN worker = Workers
  BY DEF SelectorInv, Judged, Data, Sound, IsWorker
<1>3. c \in Creds /\ c \in DOMAIN view /\ view[c] \in Nat
  BY <1>2 DEF Available, IsView
<1>4. worker'[w].cred = c
  BY <1>1, <1>2 DEF Sound, Fields
<1>5. Seeded(view)[c].until \in Nat /\ Later(view[c], Seeded(view)[c].until) <= now
  BY <1>2, <1>3, SeededStates DEF Available, SelectorInv, State
<1>6. view[c] <= now /\ Seeded(view)[c].until <= now /\ now \in Nat /\ owed[c] \in Nat
  BY <1>3, <1>5 DEF Later, SelectorInv, Judged, Data
<1>7. states[c].known => Seeded(view)[c] = states[c]
  BY <1>3 DEF Seeded
<1>8. CASE states[c].known
  <2>1. owed[c] <= states[c].until /\ Seeded(view)[c].until = states[c].until
    BY <1>3, <1>7, <1>8 DEF SelectorInv, Judged, Owed
  <2>. QED
    BY <1>4, <1>5, <1>6, <2>1
<1>9. CASE ~states[c].known
  <2>1. owed[c] <= view[c]
    BY <1>3, <1>9 DEF SelectorInv, Judged, Owed
  <2>. QED
    BY <1>3, <1>4, <1>6, <2>1
<1>. QED
  BY <1>8, <1>9

LEMMA CooldownStep ==
  ASSUME SelectorInv, Next, NEW w \in Workers,
         worker[w].pc = "choose", worker'[w].pc = "attempt"
  PROVE  owed[worker'[w].cred] <= now
<1>1. ASSUME NEW v \in Workers, Request(v) PROVE owed[worker'[w].cred] <= now
  BY <1>1, OnlyPicks, PickServes
<1>2. (\E c \in Creds : Inspect(c)) \/ Tick => worker' = worker
  BY DEF Inspect, Tick
<1>3. Restart => worker'[w].pc = "idle"
  BY RestSound DEF Restart
<1>. QED
  BY <1>1, <1>2, <1>3 DEF Next

\* No request is sent to a credential before the cooldown owed to it ends,
\* also when the list it chooses from is old; after a restart what is owed is
\* what the last save that did not fail left in the store.
THEOREM CooldownsServed == Spec => CooldownServed
<1>1. SelectorInv /\ [Next]_vars =>
        [\A w \in Workers : worker[w].pc = "choose" /\ worker'[w].pc = "attempt" =>
                               owed[worker'[w].cred] <= now]_vars
  BY CooldownStep
<1>. QED
  BY <1>1, Invariance, PTL DEF Spec, CooldownServed
=============================================================================
