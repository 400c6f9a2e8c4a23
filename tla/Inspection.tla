----------------------------- MODULE Inspection -----------------------------
(***************************************************************************)
(* The credential inspector (internal/inspection/runner.go): one run at a  *)
(* time probes a snapshot of the stored credentials and, when all probes   *)
(* are in, applies its verdicts in one batch: reactivation, quarantine and *)
(* purge (ApplyInspectionActions in internal/storage/credentials.go).      *)
(* Around it, traffic rotates tokens, operators enable, disable, import    *)
(* and delete credentials, and the runtime settings change.                *)
(*                                                                         *)
(* A token pair is a serial number, and a revision counts the writes since *)
(* the last run: it is only compared within a run. Which of the eligible   *)
(* credentials a run takes is left open; it depends on inspect_quarantined *)
(* and on when each one last succeeded and was last inspected.             *)
(***************************************************************************)
EXTENDS Naturals, FiniteSets

CONSTANTS
  Creds,          \* credential ids
  Retention,      \* inspection.purge_after_sec when purging is on, in ticks
  Minimum,        \* inspection.mass_failure_minimum
  Percent,        \* inspection.mass_failure_ratio, of a hundred
  Confirmations,  \* inspection.confirm_unauthorized
  Concurrency,    \* inspection.concurrency
  Batch,          \* inspection.max_credentials_per_run
  MaxTime,        \* bound: the clock
  MaxEdits,       \* bound: changes made from outside the run
  MaxRefreshes    \* bound: tokens the run itself rotates

ASSUME ConstantsOK ==
  /\ Retention \in Nat \ {0} /\ Minimum \in Nat \ {0} /\ Percent \in 1..100
  /\ Confirmations \in Nat /\ Concurrency \in Nat \ {0} /\ Batch \in Nat \ {0}
  /\ MaxTime \in Nat /\ MaxEdits \in Nat /\ MaxRefreshes \in Nat

ASSUME CredsFinite == IsFiniteSet(Creds)

VARIABLES
  cred,       \* the stored credentials
  settings,   \* settings.Manager: revision and inspection settings
  run,        \* the run under way
  now,        \* the clock, from 1
  since,      \* history: since when the stored tokens are in quarantine, or 0
  touched,    \* history: credentials changed since the run last read them
  edits, refreshes

vars == <<cred, settings, run, now, since, touched, edits, refreshes>>

Reasons  == {"none", "invalid_auth", "manual"}
Statuses == {"none", "healthy", "unauthorized", "undecided"}
Stages   == {"queued", "refresh", "confirm", "done"}

\* The fields of storage.Credential that inspection reads and writes; a purge
\* deadline or token fingerprint of 0 is an empty one.
Credential == [there : BOOLEAN, rev : Nat, tok : Nat, enabled : BOOLEAN,
               manual : BOOLEAN, quarantined : BOOLEAN, reason : Reasons,
               purge : Nat, print : Nat]

\* What the run knows of a candidate: the credential it last read, whether it
\* is due for purge, whether its evidence is stale, the tokens that got a 401
\* and those whose refresh was refused for good (0: none), the probes left.
Job == [stage : Stages, seen : Credential, purging : BOOLEAN, reset : BOOLEAN,
        purge : Nat, print : Nat, first : Nat, dead : Nat, left : Nat, status : Statuses]

NoJobs == [c \in {} |-> FALSE]
Idle == [pc |-> "idle", rev |-> 0, retention |-> 0, at |-> 0, jobs |-> NoJobs]

\* inspectionCredentialUsable
Usable(cr) == cr.there /\ ~cr.manual /\ (cr.enabled \/ cr.quarantined)

\* inspectionCredentialGuardMatches: whoever reads a stored credential after
\* seen finds the same tokens in the same state.
GuardMatches(seen, cr) ==
  /\ Usable(cr) /\ seen.tok = cr.tok /\ seen.enabled = cr.enabled
  /\ seen.manual = cr.manual /\ seen.quarantined = cr.quarantined

PurgeDue(cr, at) ==
  /\ ~cr.manual /\ cr.quarantined /\ cr.reason = "invalid_auth"
  /\ cr.purge # 0 /\ cr.purge <= at

\* eligible; a credential due for purge always is.
Eligible(cr) == cr.there /\ ~cr.manual /\ (cr.enabled \/ cr.quarantined)

\* A credential without the marks of a quarantine.
Cleared(cr) == [cr EXCEPT !.quarantined = FALSE, !.reason = "none", !.purge = 0, !.print = 0]
Active(cr) == [Cleared(cr) EXCEPT !.enabled = TRUE]

-----------------------------------------------------------------------------
(***************************************************************************)
(* Everybody else.                                                         *)
(***************************************************************************)
Store(c, cr) ==
  /\ edits < MaxEdits
  /\ edits' = edits + 1
  /\ cred' = [cred EXCEPT ![c] = [cr EXCEPT !.rev = cr.rev + 1]]
  /\ since' = [since EXCEPT ![c] = IF cr.tok = cred[c].tok /\ cr.quarantined THEN @ ELSE 0]
  /\ touched' = touched \cup {c}
  /\ UNCHANGED <<settings, run, now, refreshes>>

\* Any other field of the credential: priority, last use, billing, health.
Patch(c) == cred[c].there /\ Store(c, cred[c])

\* A refresh is persisted: for a request that may have begun before a
\* quarantine, or for a probe that finds the access token expired.
Rotate(c) == cred[c].there /\ Store(c, [cred[c] EXCEPT !.tok = @ + 1])

\* Mutant of Import: evidence of a quarantine survives the new tokens.
ImportKeepingEvidence(c) ==
  LET new == [cred[c] EXCEPT !.tok = @ + 1]
  IN /\ cred[c].there
     /\ Store(c, IF new.reason = "invalid_auth" /\ ~new.manual
                 THEN [new EXCEPT !.enabled = TRUE] ELSE new)

\* upsertCredentialDoc with new tokens lifts an automatic quarantine.
Import(c) ==
  LET new == [cred[c] EXCEPT !.tok = @ + 1]
  IN /\ cred[c].there
     /\ Store(c, IF new.reason = "invalid_auth" /\ ~new.manual THEN Active(new) ELSE new)

\* SetCredentialEnabled
Enable(c)  == cred[c].there /\ Store(c, [Active(cred[c]) EXCEPT !.manual = FALSE])
Disable(c) == /\ cred[c].there
              /\ Store(c, [cred[c] EXCEPT !.enabled = FALSE, !.manual = TRUE, !.reason = "manual"])

DeleteCredential(c) == cred[c].there /\ Store(c, [Cleared(cred[c]) EXCEPT !.there = FALSE])

\* settings.Manager.Update: under the write lock.
ChangeSettings ==
  /\ edits < MaxEdits
  /\ edits' = edits + 1
  /\ \E r \in {0, Retention} : settings' = [rev |-> settings.rev + 1, retention |-> r]
  /\ UNCHANGED <<cred, run, now, since, touched, refreshes>>

Tick ==
  /\ now < MaxTime
  /\ now' = now + 1
  /\ UNCHANGED <<cred, settings, run, since, touched, edits, refreshes>>

-----------------------------------------------------------------------------
(***************************************************************************)
(* The run: settings, snapshot, probes.                                    *)
(***************************************************************************)
\* beginRun, and the revision that currentSettingsSnapshot reads first.
BeginRun ==
  /\ run.pc = "idle"
  /\ run' = [Idle EXCEPT !.pc = "begun", !.rev = settings.rev]
  /\ UNCHANGED <<cred, settings, now, since, touched, edits, refreshes>>

\* The job of a listed credential. Due for purge, but with evidence about
\* other tokens than it has now, it is inspected like any other and gets new
\* evidence.
NewJob(cr, at) ==
  LET due == PurgeDue(cr, at)  stale == due /\ cr.print # cr.tok
  IN [stage |-> "queued", seen |-> cr, purging |-> due /\ ~stale, reset |-> stale,
      purge |-> IF stale THEN cr.purge ELSE 0, print |-> IF stale THEN cr.print ELSE 0,
      first |-> 0, dead |-> 0, left |-> 0, status |-> "none"]

\* The rest of the settings snapshot, and the candidates: some of the
\* eligible credentials, no more than a run takes.
ListCandidates ==
  /\ run.pc = "begun"
  /\ \E cs \in SUBSET {c \in Creds : Eligible(cred[c])} :
       /\ Cardinality(cs) <= Batch
       /\ run' = [run EXCEPT !.pc = "probe", !.retention = settings.retention, !.at = now,
                             !.jobs = [c \in cs |-> NewJob(cred[c], now)]]
  /\ touched' = {}
  /\ UNCHANGED <<cred, settings, now, since, edits, refreshes>>

Candidates == DOMAIN run.jobs
Jobs(s) == {c \in Candidates : run.jobs[c].stage = s}

Busy == Jobs("refresh") \cup Jobs("confirm")

\* Mutant of WorkerFree: one probe too many.
WorkerFreeOffByOne == Cardinality(Busy) <= Concurrency

\* The run's worker pool takes another candidate.
WorkerFree == Cardinality(Busy) < Concurrency

\* The run has read c, and its job is job from now on.
Read(c, job) ==
  /\ run' = [run EXCEPT !.jobs[c] = job]
  /\ touched' = IF job.seen = cred'[c] THEN touched \ {c} ELSE touched
  /\ UNCHANGED <<settings, now, edits>>

Done(job, status) ==
  [job EXCEPT !.stage = "done", !.status = status, !.first = 0, !.dead = 0, !.left = 0]

SettingsChanged == settings.rev # run.rev

\* The answer 401 to a probe of the tokens tok: a refresh is tried first, and
\* then the probes are repeated.
Refused(job, tok) ==
  IF job.stage = "queued" THEN [job EXCEPT !.stage = "refresh", !.first = tok]
  ELSE IF job.left > 1 THEN [job EXCEPT !.left = @ - 1]
  ELSE IF job.dead # 0 THEN [job EXCEPT !.stage = "done", !.status = "unauthorized", !.left = 0]
  ELSE Done(job, "undecided")

\* One probe (ProbeCredentialSnapshot): the credential is read again, and an
\* answer other than 401 settles the matter. "undecided": 429, 402, 5xx, a
\* network error; or the credential, its route or the settings have changed.
Probe(c) ==
  LET job == run.jobs[c]  read == [job EXCEPT !.seen = cred[c]]
  IN /\ job.stage = "confirm" \/ (job.stage = "queued" /\ WorkerFree)
     /\ UNCHANGED <<cred, since, refreshes>>
     /\ \/ /\ SettingsChanged \/ ~cred[c].there
           /\ Read(c, Done(job, "undecided"))
        \/ /\ ~SettingsChanged /\ cred[c].there
           /\ \/ Read(c, Done(read, "undecided"))
              \/ Usable(cred[c]) /\ Read(c, Done(read, "healthy"))
              \/ Usable(cred[c]) /\ Read(c, Refused(read, cred[c].tok))

\* The refresh after a 401 (RefreshCredentialSnapshot): refused for good,
\* failed for another reason, overtaken, or successful.
Refresh(c) ==
  LET job == run.jobs[c]  read == [job EXCEPT !.seen = cred[c]]
      confirm == [read EXCEPT !.stage = "confirm",
                    !.left = IF Confirmations < 2 THEN 1 ELSE Confirmations - 1]
      matches == cred[c].there /\ GuardMatches(job.seen, cred[c])
  IN /\ job.stage = "refresh"
     /\ \/ /\ UNCHANGED <<cred, since, refreshes>>
           /\ \/ (SettingsChanged \/ ~cred[c].there) /\ Read(c, Done(job, "undecided"))
              \/ ~SettingsChanged /\ cred[c].there /\ Read(c, Done(read, "undecided"))
              \/ ~SettingsChanged /\ matches /\ Read(c, [confirm EXCEPT !.dead = cred[c].tok])
        \/ /\ ~SettingsChanged /\ matches
           /\ refreshes < MaxRefreshes
           /\ refreshes' = refreshes + 1
           /\ cred' = [cred EXCEPT ![c].tok = @ + 1, ![c].rev = @ + 1]
           /\ since' = [since EXCEPT ![c] = 0]
           /\ Read(c, [confirm EXCEPT !.seen = cred'[c]])

-----------------------------------------------------------------------------
(***************************************************************************)
(* The verdicts.                                                           *)
(***************************************************************************)
Unauthorized == {c \in Candidates : run.jobs[c].status = "unauthorized"}

\* Mutant of MassFailure: credentials due for purge are not counted.
MassFailureWithoutPurges ==
  LET counted == {c \in Unauthorized : ~run.jobs[c].purging}
  IN /\ Cardinality(counted) >= Minimum
     /\ Cardinality(counted) * 100 >= Percent * Cardinality(Candidates)

\* Most probes fail: rather an outage than so many dead accounts.
MassFailure ==
  /\ Cardinality(Unauthorized) >= Minimum
  /\ Cardinality(Unauthorized) * 100 >= Percent * Cardinality(Candidates)

\* ResetQuarantineEvidence: new evidence for the tokens there are now.
WithEvidence(cr, job) ==
  IF job.reset /\ cr.quarantined /\ ~cr.enabled /\ ~cr.manual /\ cr.reason = "invalid_auth"
     /\ cr.purge = job.purge /\ cr.print = job.print
  THEN [cr EXCEPT !.print = cr.tok,
          !.purge = IF run.retention > 0 THEN run.at + run.retention ELSE 0]
  ELSE cr

Quarantined(cr) ==
  [cr EXCEPT !.enabled = FALSE, !.quarantined = TRUE, !.reason = "invalid_auth",
     !.purge = IF @ = 0 /\ run.retention > 0 THEN run.at + run.retention ELSE @,
     !.print = IF @ = 0 THEN cr.tok ELSE @]

\* Mutant of Purgeable: the fingerprint of the quarantine is not compared.
PurgeableAnyPrint(cr, job) ==
  /\ ~cr.manual /\ ~cr.enabled /\ cr.quarantined /\ cr.reason = "invalid_auth"
  /\ cr.purge # 0 /\ cr.purge <= now /\ cr.purge = job.seen.purge
  /\ cr.tok = job.seen.tok

\* What the store compares before it deletes.
Purgeable(cr, job) ==
  /\ ~cr.manual /\ ~cr.enabled /\ cr.quarantined /\ cr.reason = "invalid_auth"
  /\ cr.purge # 0 /\ cr.purge <= now /\ cr.purge = job.seen.purge
  /\ cr.print = job.seen.tok /\ cr.tok = job.seen.tok

\* Mutant of Unchanged: the revision is not compared.
UnchangedAlways(cr, job) == TRUE

\* The compare-and-swap: cr is as the job last read it.
Unchanged(cr, job) == cr.rev = job.seen.rev

\* The credential that the action of a job makes of cr.
Verdict(cr, job) ==
  LET fresh == WithEvidence(cr, job)
      condemned == job.status = "unauthorized" /\ ~MassFailure
  IN CASE job.status = "healthy" ->
            IF fresh.quarantined /\ fresh.reason = "invalid_auth" /\ ~fresh.manual
            THEN Active(fresh) ELSE fresh
       [] condemned /\ job.purging ->
            IF Purgeable(cr, job) THEN [Cleared(cr) EXCEPT !.there = FALSE] ELSE cr
       [] condemned /\ ~job.purging -> IF cr.manual THEN cr ELSE Quarantined(fresh)
       [] OTHER -> fresh

\* What the batch writes. (The note of the attempt on a credential that has
\* changed, and the revision that each write counts, are left out.)
Written(c) ==
  IF c \in Candidates /\ cred[c].there /\ Unchanged(cred[c], run.jobs[c])
  THEN Verdict(cred[c], run.jobs[c]) ELSE cred[c]

\* The end of a run, after which the stored credentials are some of creds.
Finish(creds) ==
  /\ run.pc = "probe" /\ Jobs("done") = Candidates
  /\ \E after \in creds :
       /\ cred' = [c \in Creds |-> [after[c] EXCEPT !.rev = 0]]
       /\ since' = [c \in Creds |->
            IF ~after[c].there \/ ~after[c].quarantined THEN 0
            ELSE IF since[c] = 0 /\ after[c].print = after[c].tok THEN run.at ELSE since[c]]
  /\ run' = Idle
  /\ touched' = {}
  /\ UNCHANGED <<settings, now, edits, refreshes>>

\* Mutant of Apply: the settings are not compared.
ApplyAnyway == Finish({cred, [c \in Creds |-> Written(c)]})

\* withSettingsRevision around ApplyInspectionActions: all jobs' actions in
\* one locked write, which may fail; none if the settings have changed.
Apply == Finish(IF SettingsChanged THEN {cred} ELSE {cred, [c \in Creds |-> Written(c)]})

-----------------------------------------------------------------------------
Init ==
  /\ cred = [c \in Creds |->
       [there |-> TRUE, rev |-> 0, tok |-> 1, enabled |-> TRUE, manual |-> FALSE,
        quarantined |-> FALSE, reason |-> "none", purge |-> 0, print |-> 0]]
  /\ \E r \in {0, Retention} : settings = [rev |-> 1, retention |-> r]
  /\ run = Idle
  /\ now = 1
  /\ since = [c \in Creds |-> 0]
  /\ touched = {}
  /\ edits = 0
  /\ refreshes = 0

Edit(c) ==
  Patch(c) \/ Import(c) \/ Rotate(c) \/ Enable(c) \/ Disable(c) \/ DeleteCredential(c)

Next ==
  \/ BeginRun \/ ListCandidates \/ Apply
  \/ \E c \in Candidates : Probe(c) \/ Refresh(c)
  \/ \E c \in Creds : Edit(c)
  \/ ChangeSettings \/ Tick

Spec == Init /\ [][Next]_vars

-----------------------------------------------------------------------------
IsRun ==
  /\ run.pc \in {"idle", "begun", "probe"} /\ run.rev \in Nat /\ run.retention \in {0, Retention}
  /\ run.at \in Nat /\ Candidates \subseteq Creds
  /\ \A c \in Candidates : run.jobs[c] \in Job
  /\ Cardinality(Busy) <= Concurrency

\* The shape of the state; no more probes under way than workers.
TypeOK ==
  /\ cred \in [Creds -> Credential]
  /\ settings \in [rev : Nat, retention : {0, Retention}]
  /\ IsRun
  /\ now \in Nat
  /\ since \in [Creds -> Nat]
  /\ touched \subseteq Creds
  /\ edits \in Nat /\ refreshes \in Nat

\* Along every sequence of quarantine, recovery, import, manual disable and
\* enable, a credential that is in use carries no evidence, and one in
\* quarantine is out of use and has the fingerprint that a purge compares.
QuarantineCoherent ==
  \A c \in Creds :
    LET cr == cred[c]
    IN /\ cr.enabled => ~cr.manual /\ ~cr.quarantined /\ cr.purge = 0 /\ cr.print = 0
       /\ cr.quarantined => cr.print # 0

Applies == run.pc = "probe" /\ run'.pc = "idle"
Decided(c) == Applies /\ [cred[c] EXCEPT !.rev = 0] # [cred'[c] EXCEPT !.rev = 0]
Purged(c)  == Applies /\ cred[c].there /\ ~cred'[c].there
Removed(c) == Purged(c) \/ (Applies /\ cred[c].enabled /\ ~cred'[c].enabled)

\* The tokens that c has now are those that got the first 401, the terminal
\* refresh failure and the last 401.
Evidence(c) ==
  LET job == run.jobs[c]
  IN job.first = cred[c].tok /\ job.dead = cred[c].tok /\ job.seen.tok = cred[c].tok

\* "an expired retention period, an unchanged token fingerprint, and a fresh
\* terminal-auth confirmation": what is deleted for good has been in
\* quarantine with the very tokens it has now for the whole retention, and
\* this run had them refused.
PurgeJustified ==
  [][\A c \in Creds :
       Purged(c) => since[c] # 0 /\ since[c] + Retention <= now /\ Evidence(c)]_vars

\* Whatever happened to a credential after the run last read it, by an
\* operator, an import or a refresh, is not undone by the run's verdict.
LaterChangeWins == [][\A c \in Creds : Decided(c) => c \notin touched]_vars

\* A batch is applied under the settings that its jobs were chosen and judged
\* by, although revision and settings are read one after the other.
SettingsInForce == [][\A c \in Creds : Decided(c) => run.retention = settings.retention]_vars

\* However the probes fail, one run takes no more credentials out of service
\* than the mass-failure guard lets it, counting those it deletes.
GuardHolds ==
  [][LET removed == {c \in Creds : Removed(c)}
     IN Cardinality(removed) >= Minimum =>
          Cardinality(removed) * 100 < Percent * Cardinality(Candidates)]_vars

\* "Quarantine requires repeated 401 probes plus a terminal refresh failure":
\* of the tokens that are put in quarantine.
QuarantineJustified ==
  [][\A c \in Creds : Removed(c) /\ cred'[c].there => Evidence(c)]_vars

=============================================================================
