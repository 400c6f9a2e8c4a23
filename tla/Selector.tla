------------------------------ MODULE Selector ------------------------------
(***************************************************************************)
(* The load balancer's selector (internal/lb): the reservations it counts  *)
(* against a credential's concurrency limit, the failure and cooldown      *)
(* state it keeps in memory, and how that state reaches the store and      *)
(* comes back after a restart. Its callers are requests, in the order in   *)
(* which proxy.Executor calls it; which of the available credentials the   *)
(* strategy prefers is left open.                                          *)
(***************************************************************************)
EXTENDS Naturals, FiniteSets

CONSTANTS
  Creds,          \* credential ids
  Workers,        \* concurrent requests
  MaxConcurrent,  \* lb.credential_max_concurrent; 0 means no limit
  Base, Longest,  \* lb.cooldown.base_sec and max_sec, in ticks
  Floor,          \* the least cooldown after a 5xx (15 s), in ticks
  Quota,          \* lb.quota_cooldown_sec, in ticks
  Hints,          \* durations an upstream may ask for: Retry-After, resets
  Second,         \* ticks in a second; stored times are whole seconds
  MaxTime,        \* bound: the clock
  MaxVerdicts,    \* bound: successes, failures and inspections recorded
  MaxFaults,      \* bound: saves that fail
  MaxRestarts     \* bound: restarts of the process

ASSUME WorkersFinite == IsFiniteSet(Workers)

ASSUME ConstantsOK ==
  /\ Creds # {}
  /\ MaxConcurrent \in Nat /\ Base \in Nat /\ Longest \in Nat /\ Floor \in Nat /\ Quota \in Nat
  /\ Hints \subseteq Nat /\ Second \in Nat \ {0}
  /\ MaxTime \in Nat /\ MaxVerdicts \in Nat /\ MaxFaults \in Nat /\ MaxRestarts \in Nat

VARIABLES
  states,      \* Selector.states
  inFlight,    \* Selector.inFlight
  durable,     \* the health fields of the stored credentials
  candidates,  \* Executor.candidates: the cooldown ends last listed
  worker,      \* what each request is doing
  now,         \* the clock
  owed,        \* history: how long the latest verdict wants no traffic
  inspected,   \* history: cooldown last written by the inspection runner
  failed,      \* history: the last save since the start failed
  verdicts, faults, restarts

history == <<owed, inspected, failed>>
bounded == <<verdicts, faults, restarts>>
vars == <<states, inFlight, durable, candidates, worker, now, history, bounded>>

Health  == [failures : Nat, until : Nat]
Healthy == [failures |-> 0, until |-> 0]
State   == [known : BOOLEAN, failures : Nat, until : Nat, version : Nat]
Unknown == [known |-> FALSE, failures |-> 0, until |-> 0, version |-> 0]
Unlisted == [c \in {} |-> 0]

PCs == {"idle", "choose", "attempt", "check", "patch", "body"}
Rest == [pc |-> "idle", cred |-> CHOOSE c \in Creds : TRUE, view |-> Unlisted,
         reserved |-> FALSE, version |-> 0, health |-> Healthy, then |-> "idle"]

HealthOf(st) == [failures |-> st.failures, until |-> st.until]

\* What is stored of a state: the cooldown is cut to whole seconds.
Truncated(t) == t - (t % Second)
Snapshot(st) == [failures |-> st.failures, until |-> Truncated(st.until)]

Later(s, t)  == IF s > t THEN s ELSE t
Sooner(s, t) == IF s < t THEN s ELSE t
\* Worker w has an upstream request or its successful response open.
Upstream(w) == worker[w].pc \in {"attempt", "body"} \/ worker[w].then = "body"
Persisting(c) == {w \in Workers : worker[w].cred = c /\ worker[w].pc \in {"check", "patch"}}

-----------------------------------------------------------------------------
\* cooldownDuration, without its jitter.
Cooldown(status, hint, failures) ==
  LET Capped(d) == Sooner(d, Later(Longest, Base))
  IN CASE status = 429 -> IF hint > 0 THEN hint
                          ELSE Capped(Base * 2 ^ Sooner(failures, 10))
       [] status = 402 -> IF hint > 0 THEN hint ELSE Later(Longest, Base)
       [] status = 403 -> Later(Longest, Base)
       [] status = 401 -> Capped(Base * 4)
       [] status = 500 -> Sooner(Later(Base \div 10, Floor), Base)
       [] OTHER        -> Base

\* releaseLocked: never below zero.
Released(c) == [inFlight EXCEPT ![c] = IF @ > 1 THEN @ - 1 ELSE 0]

\* seedState on the request path: the candidates it is given carry the
\* cooldown but not the failure count.
Seeded(view) ==
  [c \in Creds |-> IF states[c].known \/ c \notin DOMAIN view THEN states[c]
                   ELSE [Unknown EXCEPT !.known = TRUE, !.until = view[c]]]

\* Mutant of Vacant: one more request than the limit.
VacantOffByOne(c) == MaxConcurrent > 0 => inFlight[c] <= MaxConcurrent

Vacant(c) == MaxConcurrent > 0 => inFlight[c] < MaxConcurrent

\* availableLocked: not cooling, by the later of the listed and the
\* remembered cooldown, and with a free place.
Available(view) ==
  {c \in DOMAIN view : Later(view[c], Seeded(view)[c].until) <= now /\ Vacant(c)}

-----------------------------------------------------------------------------
\* A request lists the candidates, from the cached list while that is young.
Begin(w) ==
  /\ worker[w].pc = "idle"
  /\ candidates' \in {[c \in Creds |-> durable[c].until]} \cup ({candidates} \ {Unlisted})
  /\ worker' = [worker EXCEPT ![w] = [Rest EXCEPT !.pc = "choose", !.view = candidates']]
  /\ UNCHANGED <<states, inFlight, durable, now, history, bounded>>

\* Pick: reserve one of the available credentials.
Pick(w) ==
  LET view == worker[w].view
  IN /\ worker[w].pc = "choose"
     /\ states' = Seeded(view)
     /\ \E c \in Available(view) :
          /\ inFlight' = [inFlight EXCEPT ![c] = @ + 1]
          /\ worker' = [worker EXCEPT ![w].pc = "attempt", ![w].cred = c,
                                      ![w].reserved = TRUE]
     /\ UNCHANGED <<durable, candidates, now, history, bounded>>

\* Pick finds nothing, or the attempts are used up.
GiveUp(w) ==
  /\ worker[w].pc = "choose"
  /\ states' \in {states, Seeded(worker[w].view)}
  /\ worker' = [worker EXCEPT ![w] = Rest]
  /\ UNCHANGED <<inFlight, durable, candidates, now, history, bounded>>

\* The attempt ends without a verdict: the credential went out of date (and
\* may be tried again), or the reply is one that is passed on as it is.
Release(w) ==
  LET c == worker[w].cred  view == worker[w].view
  IN /\ worker[w].pc = "attempt"
     /\ inFlight' = Released(c)
     /\ \/ \E rest \in {view, [d \in DOMAIN view \ {c} |-> view[d]]} :
             worker' = [worker EXCEPT ![w] = [Rest EXCEPT !.pc = "choose", !.view = rest]]
        \/ worker' = [worker EXCEPT ![w] = Rest]
     /\ UNCHANGED <<states, durable, candidates, now, history, bounded>>

\* A verdict of worker w on its credential: the new state, and whether the
\* worker goes to persist it before it goes on at `then`.
Record(w, st, persist, then, reserved) ==
  LET c == worker[w].cred  view == worker[w].view
  IN /\ verdicts < MaxVerdicts
     /\ verdicts' = verdicts + 1
     /\ states' = [states EXCEPT ![c] = st]
     /\ inFlight' = IF reserved THEN inFlight ELSE Released(c)
     /\ owed' = [owed EXCEPT ![c] = st.until]
     /\ worker' = [worker EXCEPT ![w] =
          [pc |-> IF persist THEN "check" ELSE then, cred |-> c,
           view |-> IF then = "choose" THEN [d \in DOMAIN view \ {c} |-> view[d]] ELSE Unlisted,
           reserved |-> reserved, version |-> IF persist THEN st.version ELSE 0,
           health |-> IF persist THEN Snapshot(st) ELSE Healthy, then |-> then]]
     /\ UNCHANGED <<durable, candidates, now, inspected, failed, faults, restarts>>

\* MarkSuccess, or MarkSuccessHold under a limit: then the place is kept
\* until the body is closed. A clean state is persisted every so often.
MarkSuccess(w) ==
  LET st == states[worker[w].cred]
  IN /\ worker[w].pc = "attempt"
     /\ \E due \in BOOLEAN :
          LET persist == due \/ HealthOf(st) # Healthy
          IN Record(w, [known |-> TRUE, failures |-> 0, until |-> 0,
                        version |-> st.version + (IF persist THEN 1 ELSE 0)],
                    persist, "body", MaxConcurrent > 0)

Failed(st, until) == [known |-> TRUE, failures |-> st.failures + 1, until |-> until,
                      version |-> st.version + 1]

\* MarkFailure: another credential is tried next.
MarkFailure(w) ==
  LET st == states[worker[w].cred]
  IN /\ worker[w].pc = "attempt"
     /\ \E status \in {0, 401, 402, 403, 429, 500}, hint \in Hints \cup {0} :
          Record(w, Failed(st, now + Cooldown(status, hint, st.failures)), TRUE, "choose", FALSE)

\* MarkQuotaExhausted(Until): also after a success, whose body is still open.
MarkQuotaExhausted(w) ==
  LET st == states[worker[w].cred]
  IN /\ worker[w].pc = "attempt"
     /\ \E reset \in (Hints \ {0}) \cup {Quota}, then \in {"body", "choose"} :
          Record(w, Failed(st, now + reset), TRUE, then, FALSE)

-----------------------------------------------------------------------------
\* Where a worker goes when its verdict is persisted.
Proceed(w) ==
  worker' = [worker EXCEPT ![w].pc = worker[w].then, ![w].then = "idle",
                           ![w].version = 0, ![w].health = Healthy]

\* Mutant of Check: the version is not compared.
CheckLockOnly(w) ==
  /\ worker[w].pc = "check"
  /\ \A v \in Workers : worker[v].pc # "patch"
  /\ worker' = [worker EXCEPT ![w].pc = "patch"]
  /\ UNCHANGED <<states, inFlight, durable, candidates, now, history, bounded>>

\* Mutant of Check: persistMu is not taken.
CheckUnlocked(w) ==
  /\ worker[w].pc = "check"
  /\ IF states[worker[w].cred].version = worker[w].version
     THEN worker' = [worker EXCEPT ![w].pc = "patch"] ELSE Proceed(w)
  /\ UNCHANGED <<states, inFlight, durable, candidates, now, history, bounded>>

\* persistHealth takes persistMu and drops a verdict that is no longer the
\* latest of its credential.
Check(w) ==
  /\ worker[w].pc = "check"
  /\ \A v \in Workers : worker[v].pc # "patch"
  /\ IF states[worker[w].cred].version = worker[w].version
     THEN worker' = [worker EXCEPT ![w].pc = "patch"]
     ELSE Proceed(w)
  /\ UNCHANGED <<states, inFlight, durable, candidates, now, history, bounded>>

\* The patch under persistMu, which is released.
Patch(w) ==
  /\ worker[w].pc = "patch"
  /\ durable' = [durable EXCEPT ![worker[w].cred] = worker[w].health]
  /\ inspected' = inspected \ {worker[w].cred}
  /\ failed' = failed \ {worker[w].cred}
  /\ Proceed(w)
  /\ UNCHANGED <<states, inFlight, candidates, now, owed, bounded>>

\* The patch fails: persistHealth drops the error, the store is as it was and
\* nobody tries again.
PatchFails(w) ==
  /\ worker[w].pc = "patch"
  /\ faults < MaxFaults
  /\ faults' = faults + 1
  /\ failed' = failed \cup {worker[w].cred}
  /\ Proceed(w)
  /\ UNCHANGED <<states, inFlight, durable, candidates, now, owed, inspected, verdicts, restarts>>

\* Mutant of Close: the body gives back a place it may not have.
CloseAlwaysReleases(w) ==
  /\ worker[w].pc = "body"
  /\ inFlight' = Released(worker[w].cred)
  /\ worker' = [worker EXCEPT ![w] = Rest]
  /\ UNCHANGED <<states, durable, candidates, now, history, bounded>>

\* The client is done with the body: releaseOnClose, if there is one.
Close(w) ==
  /\ worker[w].pc = "body"
  /\ inFlight' = IF worker[w].reserved THEN Released(worker[w].cred) ELSE inFlight
  /\ worker' = [worker EXCEPT ![w] = Rest]
  /\ UNCHANGED <<states, durable, candidates, now, history, bounded>>

-----------------------------------------------------------------------------
\* An inspection run cools the stored credential, past the selector.
Inspect(c) ==
  /\ verdicts < MaxVerdicts
  /\ verdicts' = verdicts + 1
  /\ \E d \in {Base, Quota} :
       /\ durable' = [durable EXCEPT ![c].until = Truncated(now + d)]
       /\ owed' = [owed EXCEPT ![c] = Sooner(@, Truncated(now + d))]
  /\ inspected' = inspected \cup {c}
  /\ UNCHANGED <<states, inFlight, candidates, worker, now, failed, faults, restarts>>

Tick ==
  /\ now < MaxTime
  /\ now' = now + 1
  /\ UNCHANGED <<states, inFlight, durable, candidates, worker, history, bounded>>

\* The latest verdict on c has not reached the store.
Unsaved(c) == \E w \in Persisting(c) : worker[w].version = states[c].version

\* The process restarts: only the store survives. A latest verdict that never
\* got there is gone, and the others have lost their part of a second.
Restart ==
  /\ restarts < MaxRestarts
  /\ restarts' = restarts + 1
  /\ owed' = [c \in Creds |-> IF Unsaved(c) \/ c \in failed
                               THEN Sooner(owed[c], durable[c].until)
                               ELSE Truncated(owed[c])]
  /\ failed' = {}
  /\ states' = [c \in Creds |-> Unknown]
  /\ inFlight' = [c \in Creds |-> 0]
  /\ candidates' = Unlisted
  /\ worker' = [w \in Workers |-> Rest]
  /\ UNCHANGED <<durable, now, inspected, verdicts, faults>>

Init ==
  /\ states = [c \in Creds |-> Unknown]
  /\ inFlight = [c \in Creds |-> 0]
  /\ durable = [c \in Creds |-> Healthy]
  /\ candidates = Unlisted
  /\ worker = [w \in Workers |-> Rest]
  /\ now = 0
  /\ owed = [c \in Creds |-> 0]
  /\ inspected = {} /\ failed = {}
  /\ verdicts = 0 /\ faults = 0 /\ restarts = 0

Request(w) ==
  \/ Begin(w) \/ Pick(w) \/ GiveUp(w) \/ Release(w)
  \/ MarkSuccess(w) \/ MarkFailure(w) \/ MarkQuotaExhausted(w)
  \/ Check(w) \/ Patch(w) \/ PatchFails(w) \/ Close(w)

Next ==
  \/ \E w \in Workers : Request(w)
  \/ \E c \in Creds : Inspect(c)
  \/ Tick \/ Restart

Spec == Init /\ [][Next]_vars

-----------------------------------------------------------------------------
IsView(view) == DOMAIN view \subseteq Creds /\ \A c \in DOMAIN view : view[c] \in Nat

IsWorker(wk) ==
  /\ wk.pc \in PCs /\ wk.then \in {"idle", "choose", "body"}
  /\ wk.cred \in Creds /\ IsView(wk.view)
  /\ wk.reserved \in BOOLEAN /\ wk.version \in Nat /\ wk.health \in Health

TypeOK ==
  /\ states \in [Creds -> State]
  /\ inFlight \in [Creds -> 0..IF MaxConcurrent > 0 THEN MaxConcurrent ELSE Cardinality(Workers)]
  /\ durable \in [Creds -> Health]
  /\ IsView(candidates)
  /\ DOMAIN worker = Workers /\ \A w \in Workers : IsWorker(worker[w])
  /\ now \in Nat
  /\ owed \in [Creds -> Nat]
  /\ inspected \subseteq Creds /\ failed \subseteq Creds
  /\ verdicts \in Nat /\ faults \in Nat /\ restarts \in Nat

\* The count of a credential is exactly the number of requests that will
\* still give a place back: no path of an attempt leaks its reservation or
\* returns it twice, which would hand out somebody else's place.
ReservationsExact ==
  \A c \in Creds :
    inFlight[c] = Cardinality({w \in Workers : worker[w].cred = c /\ worker[w].reserved})

\* Verdicts recorded by concurrent requests reach the store in the order in
\* which they were recorded: when nothing is left to persist, the stored
\* health is the latest verdict, its cooldown cut to whole seconds. It is not
\* after an inspection that wrote since, nor after a last save that failed:
\* persistHealth discards PatchCredential's error and nobody saves again.
HealthConverges ==
  \A c \in Creds :
    states[c].version > 0 /\ Persisting(c) = {} /\ c \notin inspected \cup failed =>
      durable[c] = Snapshot(states[c])

\* Traffic is kept off a credential for as long as the latest verdict on it
\* asks, also when the process restarts in between. A cooldown is shed by a
\* later success, or by a later verdict or inspection that asks for less. A
\* restart sheds it when its save was cut off or had failed, down to what is
\* stored, and otherwise ends it less than a second early, where
\* MarkFailure and the inspections truncate it.
CooldownServed ==
  [][\A w \in Workers :
       worker[w].pc = "choose" /\ worker'[w].pc = "attempt" => owed[worker'[w].cred] <= now]_vars

\* "a real per-credential concurrency limit, especially for long-lived SSE
\* responses": no more upstream responses are open than the limit allows.
OpenWithinLimit ==
  \A c \in Creds :
    MaxConcurrent > 0 =>
      Cardinality({w \in Workers : worker[w].cred = c /\ Upstream(w)}) <= MaxConcurrent

=============================================================================
