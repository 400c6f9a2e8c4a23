-------------------------- MODULE InspectionProofs --------------------------
(***************************************************************************)
(* Proofs about Inspection, for any finite set of credentials, any         *)
(* retention, mass-failure guard, confirmations and worker pool, and any   *)
(* number of edits, refreshes and ticks.                                   *)
(***************************************************************************)
EXTENDS Inspection, FiniteSetTheorems, TLAPS

-----------------------------------------------------------------------------
(***************************************************************************)
(* The inductive invariant.                                                *)
(***************************************************************************)
\* The marks of a quarantine: none without one; a fingerprint of tokens that
\* were there, and if they still are, a deadline a whole retention after the
\* quarantine of those tokens began.
Marked(cr, s) ==
  /\ cr.tok # 0 /\ cr.print <= cr.tok
  /\ cr.enabled => ~cr.manual /\ ~cr.quarantined
  /\ ~cr.quarantined => cr.purge = 0 /\ cr.print = 0
  /\ cr.quarantined => cr.print # 0 /\ cr.there
  /\ cr.quarantined /\ cr.print = cr.tok =>
       s # 0 /\ (cr.purge # 0 => s + Retention <= cr.purge)

\* What a job read is a state the credential had, the present one exactly if
\* nobody wrote it since.
Reads(cr, job, changed) ==
  /\ job.seen.rev <= cr.rev /\ job.seen.tok <= cr.tok
  /\ job.seen.rev = cr.rev => job.seen = cr
  /\ changed => job.seen.rev # cr.rev

\* The 401s behind a verdict, and for a purge none older than the fingerprint.
Between(lo, t, hi) == lo <= t /\ t <= hi
Witnessed(cr, job) ==
  /\ job.stage \in {"refresh", "confirm"} => job.first # 0
  /\ job.status = "unauthorized" => job.first # 0 /\ job.dead # 0
  /\ job.purging =>
       /\ cr.print <= job.seen.tok
       /\ job.first # 0 => Between(cr.print, job.first, cr.tok)
       /\ job.dead # 0 => Between(cr.print, job.dead, cr.tok)

CredOK(c) ==
  /\ Marked(cred[c], since[c]) /\ since[c] <= now
  /\ run.pc = "probe" => since[c] <= run.at

JobOK(c) ==
  /\ Reads(cred[c], run.jobs[c], c \in touched)
  /\ Witnessed(cred[c], run.jobs[c])

\* The clock and the settings of a run: of the revision it read, unless the
\* settings have changed since.
RunOK ==
  /\ DOMAIN run = {"pc", "rev", "retention", "at", "jobs"} /\ run.jobs \in [Candidates -> Job]
  /\ now # 0 /\ run.rev <= settings.rev
  /\ run.pc # "probe" => Candidates = {}
  /\ run.pc = "probe" =>
       /\ run.at # 0 /\ run.at <= now
       /\ run.rev = settings.rev => run.retention = settings.retention

InspectionInv ==
  /\ TypeOK
  /\ RunOK
  /\ \A c \in Creds : CredOK(c)
  /\ \A c \in Candidates : JobOK(c)

-----------------------------------------------------------------------------
LEMMA Types ==
  ASSUME InspectionInv
  PROVE  /\ cred \in [Creds -> Credential] /\ since \in [Creds -> Nat] /\ now \in Nat
         /\ settings \in [rev : Nat, retention : {0, Retention}]
         /\ touched \subseteq Creds /\ edits \in Nat /\ refreshes \in Nat
         /\ run.jobs \in [Candidates -> Job] /\ Candidates \subseteq Creds
         /\ run.pc \in {"idle", "begun", "probe"} /\ run.rev \in Nat
         /\ run.retention \in {0, Retention} /\ run.at \in Nat
         /\ Cardinality(Busy) <= Concurrency
BY DEF InspectionInv, TypeOK, IsRun, RunOK

LEMMA InitInv == Init => InspectionInv
<1>. SUFFICES ASSUME Init PROVE InspectionInv
  OBVIOUS
<1>1. /\ run.pc = "idle" /\ run.rev = 0 /\ run.retention = 0 /\ run.at = 0
      /\ run.jobs = NoJobs /\ Candidates = {}
      /\ DOMAIN run = {"pc", "rev", "retention", "at", "jobs"}
  BY DEF Init, Idle, NoJobs, Candidates
<1>2. Cardinality(Busy) = 0
  <2>1. Busy = {}
    BY <1>1 DEF Busy, Jobs
  <2>. QED
    BY <2>1, FS_EmptySet
<1>3. IsRun /\ RunOK
  BY <1>1, <1>2, ConstantsOK DEF IsRun, RunOK, Init, NoJobs
<1>4. TypeOK
  BY <1>3, ConstantsOK DEF TypeOK, Init, Credential, Reasons
<1>5. \A c \in Creds : CredOK(c)
  BY <1>1 DEF CredOK, Marked, Init
<1>. QED
  BY <1>1, <1>3, <1>4, <1>5 DEF InspectionInv

-----------------------------------------------------------------------------
(***************************************************************************)
(* Everybody else.                                                         *)
(***************************************************************************)
\* What a job knows of a credential that somebody writes: it is out of date,
\* and its 401s stay within the fingerprint and the tokens.
LEMMA JobOutrun ==
  ASSUME NEW cr \in Credential, NEW new \in Credential, NEW job \in Job, NEW changed,
         new.rev = cr.rev + 1, new.tok >= cr.tok, new.print \in {cr.print, 0},
         Reads(cr, job, changed), Witnessed(cr, job)
  PROVE  Reads(new, job, TRUE) /\ Witnessed(new, job)
<1>1. Reads(new, job, TRUE)
  BY DEF Reads, Job, Credential
<1>2. Witnessed(new, job)
  BY DEF Witnessed, Between, Job, Credential
<1>. QED
  BY <1>1, <1>2

LEMMA StoreKeeps ==
  ASSUME InspectionInv, NEW c \in Creds, NEW cr \in Credential, Store(c, cr),
         cr.rev = cred[c].rev, cr.tok >= cred[c].tok, cr.print \in {cred[c].print, 0},
         Marked(cr, IF cr.tok = cred[c].tok /\ cr.quarantined THEN since[c] ELSE 0)
  PROVE  InspectionInv'
<1>. DEFINE new == [cr EXCEPT !.rev = cr.rev + 1]
            s == IF cr.tok = cred[c].tok /\ cr.quarantined THEN since[c] ELSE 0
<1>1. /\ edits' = edits + 1 /\ UNCHANGED <<settings, run, now, refreshes>>
      /\ cred' = [cred EXCEPT ![c] = new]
      /\ since' = [since EXCEPT ![c] = s]
      /\ touched' = touched \cup {c}
  BY DEF Store
<1>2. /\ new \in Credential /\ new.rev = cr.rev + 1 /\ new.tok = cr.tok
      /\ new.print = cr.print /\ new.purge = cr.purge /\ new.enabled = cr.enabled
      /\ new.manual = cr.manual /\ new.quarantined = cr.quarantined /\ new.there = cr.there
  BY DEF Credential
<1>3. s \in Nat /\ (s = 0 \/ s = since[c])
  BY Types
<1>4. Marked(new, s)
  BY <1>2 DEF Marked
<1>. HIDE DEF new, s
<1>5. /\ cred'[c] = new /\ since'[c] = s
      /\ \A d \in Creds \ {c} : cred'[d] = cred[d] /\ since'[d] = since[d]
  BY <1>1, Types
<1>6. TypeOK'
  BY <1>1, <1>2, <1>3, Types DEF InspectionInv, TypeOK, IsRun, Candidates, Busy, Jobs
<1>7. RunOK'
  BY <1>1 DEF InspectionInv, RunOK, Candidates
<1>8. ASSUME NEW d \in Creds PROVE CredOK(d)'
  <2>1. CredOK(d)
    BY DEF InspectionInv
  <2>2. CASE d = c
    BY <1>1, <1>3, <1>4, <1>5, <2>1, <2>2, Types DEF CredOK
  <2>3. CASE d # c
    BY <1>1, <1>5, <2>1, <2>3 DEF CredOK
  <2>. QED
    BY <2>2, <2>3
<1>9. ASSUME NEW d \in Candidates PROVE JobOK(d)'
  <2>1. JobOK(d) /\ d \in Creds /\ run.jobs[d] \in Job
    BY Types DEF InspectionInv
  <2>2. CASE d = c
    <3>1. cred[c] \in Credential /\ new.rev = cred[c].rev + 1 /\ new.tok >= cred[c].tok
          /\ new.print \in {cred[c].print, 0}
      BY <1>2, Types
    <3>2. Reads(new, run.jobs[c], TRUE) /\ Witnessed(new, run.jobs[c])
      BY <1>2, <2>1, <2>2, <3>1, JobOutrun DEF JobOK
    <3>. QED
      BY <1>1, <1>5, <2>2, <3>2 DEF JobOK, Reads
  <2>3. CASE d # c
    BY <1>1, <1>5, <2>1, <2>3 DEF JobOK, Reads
  <2>. QED
    BY <2>2, <2>3
<1>. QED
  BY <1>1, <1>6, <1>7, <1>8, <1>9 DEF InspectionInv, Candidates

LEMMA EditKeeps ==
  ASSUME InspectionInv, NEW c \in Creds, Edit(c)
  PROVE  InspectionInv'
<1>. DEFINE cr == cred[c]
            new == [cr EXCEPT !.tok = cr.tok + 1]
<1>1. cr \in Credential /\ Marked(cr, since[c])
  BY Types DEF InspectionInv, CredOK
<1>. HIDE DEF cr
<1>2. /\ new \in Credential /\ new.rev = cr.rev /\ new.tok = cr.tok + 1
      /\ new.print = cr.print /\ new.manual = cr.manual /\ new.enabled = cr.enabled
      /\ new.quarantined = cr.quarantined /\ new.purge = cr.purge /\ new.there = cr.there
  BY <1>1 DEF Credential
<1>. HIDE DEF new
<1>3. Marked(new, 0)
  BY <1>1, <1>2 DEF Marked, Credential
<1>4. CASE Patch(c)
  <2>1. Store(c, cr)
    BY <1>4 DEF Patch, cr
  <2>2. Marked(cr, IF cr.tok = cr.tok /\ cr.quarantined THEN since[c] ELSE 0)
    BY <1>1 DEF Marked
  <2>. QED
    BY <1>1, <2>1, <2>2, StoreKeeps DEF cr, Credential
<1>5. CASE Rotate(c)
  <2>1. Store(c, new)
    BY <1>5 DEF Rotate, cr, new
  <2>2. new.tok # cr.tok
    BY <1>1, <1>2 DEF Credential
  <2>. QED
    BY <1>1, <1>2, <1>3, <2>1, <2>2, StoreKeeps DEF cr, Credential
<1>6. CASE Import(c)
  <2>1. \/ Store(c, new)
        \/ Store(c, Active(new)) /\ ~new.manual
    BY <1>6 DEF Import, cr, new
  <2>2. new.tok # cr.tok
    BY <1>1, <1>2 DEF Credential
  <2>3. CASE Store(c, new)
    BY <1>1, <1>2, <1>3, <2>2, <2>3, StoreKeeps DEF cr, Credential
  <2>4. CASE Store(c, Active(new)) /\ ~new.manual
    <3>1. /\ Active(new) \in Credential /\ Active(new).rev = cr.rev /\ Active(new).tok = cr.tok + 1
          /\ Active(new).print = 0 /\ ~Active(new).quarantined /\ Active(new).purge = 0
          /\ Active(new).manual = new.manual
      BY <1>2 DEF Active, Cleared, Credential, Reasons
    <3>2. Marked(Active(new), 0)
      BY <1>1, <1>2, <2>4, <3>1 DEF Credential, Marked
    <3>. QED
      BY <1>1, <2>4, <3>1, <3>2, StoreKeeps DEF cr, Credential
  <2>. QED
    BY <2>1, <2>3, <2>4
<1>7. CASE Enable(c)
  <2>. DEFINE on == [Active(cr) EXCEPT !.manual = FALSE]
  <2>1. Store(c, on)
    BY <1>7 DEF Enable, cr
  <2>2. /\ on \in Credential /\ on.rev = cr.rev /\ on.tok = cr.tok /\ on.print = 0
        /\ ~on.quarantined /\ on.purge = 0 /\ ~on.manual
    BY <1>1 DEF Active, Cleared, Credential, Reasons
  <2>. HIDE DEF on
  <2>3. Marked(on, 0)
    BY <1>1, <2>2 DEF Marked, Credential
  <2>. QED
    BY <1>1, <2>1, <2>2, <2>3, StoreKeeps DEF cr, Credential
<1>8. CASE Disable(c)
  <2>. DEFINE off == [cr EXCEPT !.enabled = FALSE, !.manual = TRUE, !.reason = "manual"]
  <2>1. Store(c, off)
    BY <1>8 DEF Disable, cr
  <2>2. /\ off \in Credential /\ off.rev = cr.rev /\ off.tok = cr.tok /\ off.print = cr.print
        /\ off.quarantined = cr.quarantined /\ off.purge = cr.purge /\ ~off.enabled
        /\ off.there = cr.there
    BY <1>1 DEF Credential, Reasons
  <2>. HIDE DEF off
  <2>3. Marked(off, IF off.tok = cr.tok /\ off.quarantined THEN since[c] ELSE 0)
    BY <1>1, <2>2 DEF Marked
  <2>. QED
    BY <1>1, <2>1, <2>2, <2>3, StoreKeeps DEF cr, Credential
<1>9. CASE DeleteCredential(c)
  <2>. DEFINE gone == [Cleared(cr) EXCEPT !.there = FALSE]
  <2>1. Store(c, gone)
    BY <1>9 DEF DeleteCredential, cr
  <2>2. /\ gone \in Credential /\ gone.rev = cr.rev /\ gone.tok = cr.tok /\ gone.print = 0
        /\ ~gone.quarantined /\ gone.purge = 0 /\ gone.manual = cr.manual
        /\ gone.enabled = cr.enabled
    BY <1>1 DEF Cleared, Credential, Reasons
  <2>. HIDE DEF gone
  <2>3. Marked(gone, 0)
    BY <1>1, <2>2 DEF Marked, Credential
  <2>. QED
    BY <1>1, <2>1, <2>2, <2>3, StoreKeeps DEF cr, Credential
<1>. QED
  BY <1>4, <1>5, <1>6, <1>7, <1>8, <1>9 DEF Edit

LEMMA OthersKeep ==
  ASSUME InspectionInv, Tick \/ ChangeSettings
  PROVE  InspectionInv'
<1>1. UNCHANGED <<cred, run, since, touched, refreshes>>
  BY DEF Tick, ChangeSettings
<1>2. now' \in Nat /\ now' >= now /\ edits' \in Nat
  BY Types DEF Tick, ChangeSettings
<1>3. /\ settings' \in [rev : Nat, retention : {0, Retention}]
      /\ settings' = settings \/ settings'.rev = settings.rev + 1
  BY Types DEF Tick, ChangeSettings
<1>4. TypeOK'
  BY <1>1, <1>2, <1>3 DEF InspectionInv, TypeOK, IsRun, Candidates, Busy, Jobs
<1>5. RunOK'
  BY <1>1, <1>2, <1>3, Types DEF InspectionInv, RunOK, Candidates
<1>6. ASSUME NEW c \in Creds PROVE CredOK(c)'
  BY <1>1, <1>2, Types DEF InspectionInv, CredOK
<1>7. ASSUME NEW c \in Candidates PROVE JobOK(c)'
  BY <1>1 DEF InspectionInv, JobOK
<1>. QED
  BY <1>1, <1>4, <1>5, <1>6, <1>7 DEF InspectionInv, Candidates

-----------------------------------------------------------------------------
(***************************************************************************)
(* The run: settings, snapshot, probes.                                    *)
(***************************************************************************)
LEMMA BeginKeeps ==
  ASSUME InspectionInv, BeginRun
  PROVE  InspectionInv'
<1>1. /\ run' = [Idle EXCEPT !.pc = "begun", !.rev = settings.rev]
      /\ UNCHANGED <<cred, settings, now, since, touched, edits, refreshes>>
  BY DEF BeginRun
<1>2. /\ DOMAIN run' = {"pc", "rev", "retention", "at", "jobs"}
      /\ run'.pc = "begun" /\ run'.rev = settings.rev /\ run'.retention = 0 /\ run'.at = 0
      /\ run'.jobs = NoJobs /\ Candidates' = {}
  BY <1>1 DEF Idle, NoJobs, Candidates
<1>3. Cardinality(Busy)' = 0
  <2>1. Busy' = {}
    BY <1>2 DEF Busy, Jobs
  <2>. QED
    BY <2>1, FS_EmptySet
<1>4. TypeOK'
  BY <1>1, <1>2, <1>3, ConstantsOK, Types DEF InspectionInv, TypeOK, IsRun
<1>5. RunOK'
  <2>1. run'.jobs \in [Candidates' -> Job]
    BY <1>2 DEF NoJobs
  <2>2. now # 0
    BY DEF InspectionInv, RunOK
  <2>. QED
    BY <1>1, <1>2, <2>1, <2>2, Types DEF RunOK
<1>6. ASSUME NEW c \in Creds PROVE CredOK(c)'
  BY <1>1, <1>2 DEF InspectionInv, CredOK
<1>. QED
  BY <1>2, <1>4, <1>5, <1>6 DEF InspectionInv

LEMMA ListKeeps ==
  ASSUME InspectionInv, ListCandidates
  PROVE  InspectionInv'
<1>1. PICK cs \in SUBSET Creds :
        run' = [run EXCEPT !.pc = "probe", !.retention = settings.retention, !.at = now,
                           !.jobs = [c \in cs |-> NewJob(cred[c], now)]]
  BY DEF ListCandidates
<1>2. touched' = {} /\ UNCHANGED <<cred, settings, now, since, edits, refreshes>>
  BY DEF ListCandidates
<1>3. /\ DOMAIN run' = {"pc", "rev", "retention", "at", "jobs"}
      /\ run'.pc = "probe" /\ run'.rev = run.rev /\ run'.retention = settings.retention
      /\ run'.at = now /\ run'.jobs = [c \in cs |-> NewJob(cred[c], now)]
  BY <1>1 DEF InspectionInv, RunOK
<1>4. ASSUME NEW c \in Creds
      PROVE  /\ NewJob(cred[c], now) \in Job /\ NewJob(cred[c], now).stage = "queued"
             /\ NewJob(cred[c], now).seen = cred[c] /\ NewJob(cred[c], now).status = "none"
             /\ NewJob(cred[c], now).first = 0 /\ NewJob(cred[c], now).dead = 0
             /\ NewJob(cred[c], now).purging => cred[c].print = cred[c].tok
  <2>. DEFINE cr == cred[c]
              due == PurgeDue(cr, now)
              stale == due /\ cr.print # cr.tok
  <2>1. cr \in Credential /\ cr.purge \in Nat /\ cr.print \in Nat
    BY Types DEF Credential
  <2>2. due \in BOOLEAN /\ stale \in BOOLEAN
    BY DEF PurgeDue
  <2>3. NewJob(cr, now) =
          [stage |-> "queued", seen |-> cr, purging |-> due /\ ~stale, reset |-> stale,
           purge |-> IF stale THEN cr.purge ELSE 0, print |-> IF stale THEN cr.print ELSE 0,
           first |-> 0, dead |-> 0, left |-> 0, status |-> "none"]
    BY DEF NewJob
  <2>. HIDE DEF cr
  <2>4. due /\ ~stale => cr.print = cr.tok
    OBVIOUS
  <2>. HIDE DEF due, stale
  <2>5. NewJob(cr, now) \in Job
    BY <2>1, <2>2, <2>3 DEF Job, Stages, Statuses
  <2>6. /\ NewJob(cr, now).stage = "queued" /\ NewJob(cr, now).seen = cr
        /\ NewJob(cr, now).status = "none" /\ NewJob(cr, now).first = 0
        /\ NewJob(cr, now).dead = 0 /\ NewJob(cr, now).purging = (due /\ ~stale)
    BY <2>2, <2>3
  <2>7. NewJob(cr, now).purging => cr.print = cr.tok
    BY <2>4, <2>6, Zenon
  <2>. QED
    BY <2>5, <2>6, <2>7 DEF cr
<1>5. Candidates' = cs /\ run'.jobs \in [cs -> Job]
  BY <1>3, <1>4 DEF Candidates
<1>6. Cardinality(Busy)' = 0
  <2>1. Busy' = {}
    BY <1>3, <1>4, <1>5 DEF Busy, Jobs
  <2>. QED
    BY <2>1, FS_EmptySet
<1>7. TypeOK'
  BY <1>2, <1>3, <1>5, <1>6, ConstantsOK, Types DEF InspectionInv, TypeOK, IsRun
<1>8. RunOK'
  BY <1>2, <1>3, <1>5, Types DEF InspectionInv, RunOK
<1>9. ASSUME NEW c \in Creds PROVE CredOK(c)'
  BY <1>2, <1>3 DEF InspectionInv, CredOK
<1>10. ASSUME NEW c \in cs PROVE JobOK(c)'
  <2>1. run'.jobs[c] = NewJob(cred[c], now) /\ cred[c] \in Credential
    BY <1>3, Types
  <2>2. Reads(cred[c], NewJob(cred[c], now), FALSE)
    BY <1>4, <2>1 DEF Reads, Credential
  <2>3. Witnessed(cred[c], NewJob(cred[c], now))
    BY <1>4, <2>1 DEF Witnessed, Credential
  <2>. QED
    BY <1>2, <2>1, <2>2, <2>3 DEF JobOK, Reads
<1>. QED
  BY <1>5, <1>7, <1>8, <1>9, <1>10 DEF InspectionInv

\* A worker that takes a queued candidate is one that was free.
LEMMA WorkersBounded ==
  ASSUME InspectionInv, NEW c \in Candidates, NEW job,
         run' = [run EXCEPT !.jobs[c] = job],
         run.jobs[c].stage \in {"refresh", "confirm"} \/ WorkerFree
  PROVE  Cardinality(Busy)' <= Concurrency
<1>1. /\ run'.jobs = [run.jobs EXCEPT ![c] = job] /\ Candidates' = Candidates
  BY DEF InspectionInv, RunOK, Candidates
<1>2. IsFiniteSet(Busy)
  <2>1. Busy \subseteq Creds
    BY Types DEF Busy, Jobs
  <2>. QED
    BY <2>1, CredsFinite, FS_Subset
<1>3. Cardinality(Busy) \in Nat /\ IsFiniteSet(Busy \cup {c})
      /\ Cardinality(Busy \cup {c}) = IF c \in Busy THEN Cardinality(Busy)
                                     ELSE Cardinality(Busy) + 1
  BY <1>2, FS_CardinalityType, FS_AddElement
<1>4. Busy' \subseteq Busy \cup {c}
  BY <1>1, Types DEF Busy, Jobs
<1>5. Cardinality(Busy)' <= Cardinality(Busy \cup {c}) /\ Cardinality(Busy)' \in Nat
  BY <1>3, <1>4, FS_Subset, FS_CardinalityType
<1>6. CASE c \in Busy
  BY <1>3, <1>5, <1>6, ConstantsOK, Types
<1>7. CASE c \notin Busy
  <2>1. Cardinality(Busy) < Concurrency
    BY <1>7 DEF Busy, Jobs, WorkerFree
  <2>. QED
    BY <1>3, <1>5, <1>7, <2>1, ConstantsOK
<1>. QED
  BY <1>6, <1>7

\* A job goes on while its credential stays as it is, or is refreshed.
LEMMA ReadKeeps ==
  ASSUME InspectionInv, NEW c \in Candidates, NEW job \in Job, Read(c, job),
         run.jobs[c].stage \in {"refresh", "confirm"} \/ WorkerFree,
         \A d \in Creds \ {c} : cred'[d] = cred[d] /\ since'[d] = since[d],
         cred' \in [Creds -> Credential], since' \in [Creds -> Nat], refreshes' \in Nat,
         Marked(cred'[c], since'[c]), since'[c] <= since[c],
         Reads(cred'[c], job, job.seen # cred'[c] /\ c \in touched),
         Witnessed(cred'[c], job)
  PROVE  InspectionInv'
<1>1. /\ run' = [run EXCEPT !.jobs[c] = job] /\ UNCHANGED <<settings, now, edits>>
      /\ touched' = IF job.seen = cred'[c] THEN touched \ {c} ELSE touched
      /\ c \in Creds
  BY Types DEF Read
<1>2. /\ DOMAIN run' = {"pc", "rev", "retention", "at", "jobs"}
      /\ run'.pc = run.pc /\ run'.rev = run.rev /\ run'.retention = run.retention
      /\ run'.at = run.at /\ run'.jobs = [run.jobs EXCEPT ![c] = job]
  BY <1>1 DEF InspectionInv, RunOK
<1>3. Candidates' = Candidates /\ run'.jobs \in [Candidates -> Job]
  BY <1>2, Types DEF Candidates
<1>4. Cardinality(Busy)' <= Concurrency
  BY <1>1, WorkersBounded
<1>5. TypeOK'
  BY <1>1, <1>2, <1>3, <1>4, Types DEF InspectionInv, TypeOK, IsRun
<1>6. RunOK'
  BY <1>1, <1>2, <1>3, Types DEF InspectionInv, RunOK
<1>7. ASSUME NEW d \in Creds PROVE CredOK(d)'
  <2>1. CredOK(d) /\ since[d] \in Nat /\ since'[d] \in Nat /\ now \in Nat /\ run.at \in Nat
    BY Types DEF InspectionInv
  <2>2. CASE d = c
    BY <1>1, <1>2, <2>1, <2>2 DEF CredOK
  <2>3. CASE d # c
    BY <1>1, <1>2, <2>1, <2>3 DEF CredOK
  <2>. QED
    BY <2>2, <2>3
<1>8. ASSUME NEW d \in Candidates PROVE JobOK(d)'
  <2>1. CASE d = c
    <3>1. run'.jobs[c] = job
      BY <1>2, Types
    <3>. QED
      BY <1>1, <2>1, <3>1 DEF JobOK, Reads
  <2>2. CASE d # c
    <3>1. JobOK(d) /\ run'.jobs[d] = run.jobs[d] /\ cred'[d] = cred[d]
          /\ (d \in touched' <=> d \in touched)
      BY <1>1, <1>2, <2>2, Types DEF InspectionInv
    <3>. QED
      BY <3>1 DEF JobOK, Reads
  <2>. QED
    BY <2>1, <2>2
<1>. QED
  BY <1>3, <1>5, <1>6, <1>7, <1>8 DEF InspectionInv

\* What a job that has just read its credential must bring along.
LEMMA WitnessedFresh ==
  ASSUME NEW cr \in Credential, NEW s, Marked(cr, s), NEW job \in Job, NEW new \in Job,
         Witnessed(cr, job), new.seen = cr, new.purging = job.purging,
         new.first \in {0, job.first, cr.tok}, new.dead \in {0, job.dead, cr.tok},
         new.stage \in {"refresh", "confirm"} => new.first # 0,
         new.status = "unauthorized" => new.first # 0 /\ new.dead # 0
  PROVE  Witnessed(cr, new) /\ Reads(cr, new, FALSE)
<1>1. cr.tok \in Nat /\ cr.print \in Nat /\ cr.print <= cr.tok /\ cr.rev \in Nat
      /\ job.first \in Nat /\ job.dead \in Nat
  BY DEF Credential, Job, Marked
<1>2. Reads(cr, new, FALSE)
  BY <1>1 DEF Reads
<1>3. Witnessed(cr, new)
  BY <1>1 DEF Witnessed, Between
<1>. QED
  BY <1>2, <1>3

LEMMA DoneJob ==
  ASSUME NEW job \in Job, NEW status \in {"healthy", "undecided"}
  PROVE  /\ Done(job, status) \in Job /\ Done(job, status).seen = job.seen
         /\ Done(job, status).purging = job.purging /\ Done(job, status).stage = "done"
         /\ Done(job, status).status = status
         /\ Done(job, status).first = 0 /\ Done(job, status).dead = 0
BY DEF Done, Job, Stages, Statuses

\* The credential is gone or the settings are others: the job ends as it is.
LEMMA EndedJob ==
  ASSUME InspectionInv, NEW c \in Candidates
  PROVE  LET job == Done(run.jobs[c], "undecided")
         IN  /\ job \in Job /\ Witnessed(cred[c], job)
             /\ Reads(cred[c], job, job.seen # cred[c] /\ c \in touched)
<1>. DEFINE job == run.jobs[c]
            new == Done(job, "undecided")
<1>1. job \in Job /\ Reads(cred[c], job, c \in touched) /\ Witnessed(cred[c], job)
  BY Types DEF InspectionInv, JobOK
<1>. HIDE DEF job
<1>2. /\ new \in Job /\ new.seen = job.seen /\ new.purging = job.purging /\ new.stage = "done"
      /\ new.status = "undecided" /\ new.first = 0 /\ new.dead = 0
  BY <1>1, DoneJob
<1>. HIDE DEF new
<1>3. Witnessed(cred[c], new)
  BY <1>1, <1>2 DEF Witnessed
<1>4. Reads(cred[c], new, new.seen # cred[c] /\ c \in touched)
  BY <1>1, <1>2 DEF Reads
<1>. QED
  BY <1>2, <1>3, <1>4 DEF new, job

LEMMA RefusedJob ==
  ASSUME NEW job \in Job, NEW tok \in Nat \ {0}, job.stage \in {"queued", "confirm"},
         job.stage = "confirm" => job.first # 0,
         job.status = "unauthorized" => job.first # 0 /\ job.dead # 0
  PROVE  LET new == Refused(job, tok)
         IN  /\ new \in Job /\ new.seen = job.seen /\ new.purging = job.purging
             /\ new.first \in {0, job.first, tok} /\ new.dead \in {0, job.dead}
             /\ new.stage \in {"refresh", "confirm"} => new.first # 0
             /\ new.status = "unauthorized" => new.first # 0 /\ new.dead # 0
<1>1. CASE job.stage = "queued"
  BY <1>1 DEF Refused, Job, Stages
<1>2. CASE job.stage = "confirm" /\ job.left > 1
  BY <1>2 DEF Refused, Job
<1>3. CASE job.stage = "confirm" /\ ~(job.left > 1) /\ job.dead # 0
  <2>1. Refused(job, tok) = [job EXCEPT !.stage = "done", !.status = "unauthorized", !.left = 0]
    BY <1>3 DEF Refused
  <2>. DEFINE new == [job EXCEPT !.stage = "done", !.status = "unauthorized", !.left = 0]
  <2>2. /\ new \in Job /\ new.seen = job.seen /\ new.purging = job.purging
        /\ new.first = job.first /\ new.dead = job.dead /\ new.stage = "done"
    BY DEF Job, Stages, Statuses
  <2>. HIDE DEF new
  <2>3. job.first # 0
    BY <1>3
  <2>. QED
    BY <1>3, <2>1, <2>2, <2>3 DEF new
<1>4. CASE job.stage = "confirm" /\ ~(job.left > 1) /\ job.dead = 0
  <2>1. Refused(job, tok) = Done(job, "undecided")
    BY <1>4 DEF Refused
  <2>. QED
    BY <2>1, DoneJob
<1>. QED
  BY <1>1, <1>2, <1>3, <1>4

LEMMA ProbeKeeps ==
  ASSUME InspectionInv, NEW c \in Candidates, Probe(c)
  PROVE  InspectionInv'
<1>. DEFINE job == run.jobs[c]
            cr == cred[c]
            read == [job EXCEPT !.seen = cr]
<1>1. /\ c \in Creds /\ job \in Job /\ cr \in Credential /\ Marked(cr, since[c])
      /\ Witnessed(cr, job) /\ cr.tok \in Nat \ {0}
  BY Types DEF InspectionInv, JobOK, CredOK, Marked, Credential
<1>2. /\ job.stage = "confirm" \/ (job.stage = "queued" /\ WorkerFree)
      /\ UNCHANGED <<cred, since, refreshes>>
      /\ \/ Read(c, Done(job, "undecided")) \/ Read(c, Done(read, "undecided"))
         \/ Read(c, Done(read, "healthy")) \/ Read(c, Refused(read, cr.tok))
  BY DEF Probe
<1>3. ASSUME NEW new \in Job, Read(c, new), Witnessed(cr, new),
             Reads(cr, new, new.seen # cr /\ c \in touched)
      PROVE  InspectionInv'
  BY <1>1, <1>2, <1>3, ReadKeeps, Types
<1>. HIDE DEF job, cr
<1>4. /\ read \in Job /\ read.seen = cr /\ read.purging = job.purging /\ read.first = job.first
      /\ read.dead = job.dead /\ read.stage = job.stage /\ read.status = job.status
  BY <1>1 DEF Job
<1>5. /\ job.stage \in {"refresh", "confirm"} => job.first # 0
      /\ job.status = "unauthorized" => job.first # 0 /\ job.dead # 0
  BY <1>1 DEF Witnessed
<1>. HIDE DEF read
<1>6. ASSUME NEW new \in Job, Read(c, new), new.seen = cr, new.purging = job.purging,
             new.first \in {0, job.first, cr.tok}, new.dead \in {0, job.dead},
             new.stage \in {"refresh", "confirm"} => new.first # 0,
             new.status = "unauthorized" => new.first # 0 /\ new.dead # 0
      PROVE  InspectionInv'
  <2>1. Witnessed(cr, new) /\ Reads(cr, new, FALSE)
    BY <1>1, <1>6, WitnessedFresh
  <2>2. Reads(cr, new, new.seen # cr /\ c \in touched)
    BY <1>6, <2>1 DEF Reads
  <2>. QED
    BY <1>3, <1>6, <2>1, <2>2
<1>7. CASE Read(c, Done(job, "undecided"))
  BY <1>3, <1>7, EndedJob DEF job, cr
<1>8. ASSUME NEW status \in {"healthy", "undecided"}, Read(c, Done(read, status))
      PROVE  InspectionInv'
  <2>1. /\ Done(read, status) \in Job /\ Done(read, status).seen = read.seen
        /\ Done(read, status).purging = read.purging /\ Done(read, status).stage = "done"
        /\ Done(read, status).status = status
        /\ Done(read, status).first = 0 /\ Done(read, status).dead = 0
    BY <1>4, DoneJob
  <2>. QED
    BY <1>4, <1>6, <1>8, <2>1
<1>9. CASE Read(c, Refused(read, cr.tok))
  <2>. DEFINE new == Refused(read, cr.tok)
  <2>1. /\ new \in Job /\ new.seen = read.seen /\ new.purging = read.purging
        /\ new.first \in {0, read.first, cr.tok} /\ new.dead \in {0, read.dead}
        /\ new.stage \in {"refresh", "confirm"} => new.first # 0
        /\ new.status = "unauthorized" => new.first # 0 /\ new.dead # 0
    BY <1>1, <1>2, <1>4, <1>5, RefusedJob DEF job
  <2>. HIDE DEF new
  <2>2. Read(c, new)
    BY <1>9 DEF new
  <2>. QED
    BY <1>4, <1>6, <2>1, <2>2
<1>. QED
  BY <1>2, <1>7, <1>8, <1>9

LEMMA RotatedCred ==
  ASSUME NEW cr \in Credential
  PROVE  LET new == [cr EXCEPT !.tok = cr.tok + 1, !.rev = cr.rev + 1]
         IN  /\ new \in Credential /\ new.tok = cr.tok + 1 /\ new.rev = cr.rev + 1
             /\ new.print = cr.print /\ new.purge = cr.purge /\ new.enabled = cr.enabled
             /\ new.manual = cr.manual /\ new.quarantined = cr.quarantined
             /\ new.there = cr.there
<1>. DEFINE mid == [cr EXCEPT !.tok = cr.tok + 1]
            new == [mid EXCEPT !.rev = cr.rev + 1]
<1>1. /\ mid \in Credential /\ mid.tok = cr.tok + 1 /\ mid.rev = cr.rev
      /\ mid.print = cr.print /\ mid.purge = cr.purge /\ mid.enabled = cr.enabled
      /\ mid.manual = cr.manual /\ mid.quarantined = cr.quarantined /\ mid.there = cr.there
  BY DEF Credential
<1>2. new = [cr EXCEPT !.tok = cr.tok + 1, !.rev = cr.rev + 1]
  BY DEF Credential
<1>. HIDE DEF mid
<1>3. /\ new \in Credential /\ new.tok = mid.tok /\ new.rev = cr.rev + 1
      /\ new.print = mid.print /\ new.purge = mid.purge /\ new.enabled = mid.enabled
      /\ new.manual = mid.manual /\ new.quarantined = mid.quarantined /\ new.there = mid.there
  BY <1>1 DEF Credential
<1>. HIDE DEF new
<1>. QED
  BY <1>1, <1>2, <1>3

LEMMA RefreshKeeps ==
  ASSUME InspectionInv, NEW c \in Candidates, Refresh(c)
  PROVE  InspectionInv'
<1>. DEFINE job == run.jobs[c]
            cr == cred[c]
            read == [job EXCEPT !.seen = cr]
            left == IF Confirmations < 2 THEN 1 ELSE Confirmations - 1
            confirm == [read EXCEPT !.stage = "confirm", !.left = left]
            rotated == [cr EXCEPT !.tok = cr.tok + 1, !.rev = cr.rev + 1]
<1>1. /\ c \in Creds /\ job \in Job /\ cr \in Credential /\ Marked(cr, since[c])
      /\ Witnessed(cr, job) /\ Reads(cr, job, c \in touched) /\ cr.tok \in Nat \ {0}
      /\ since[c] \in Nat
  BY Types DEF InspectionInv, JobOK, CredOK, Marked, Credential
<1>2. /\ job.stage = "refresh"
      /\ \/ /\ UNCHANGED <<cred, since, refreshes>>
            /\ \/ Read(c, Done(job, "undecided")) \/ Read(c, Done(read, "undecided"))
               \/ Read(c, [confirm EXCEPT !.dead = cr.tok])
         \/ /\ refreshes' = refreshes + 1
            /\ cred' = [cred EXCEPT ![c] = rotated]
            /\ since' = [since EXCEPT ![c] = 0]
            /\ Read(c, [confirm EXCEPT !.seen = cred'[c]])
  <2>1. [cred EXCEPT ![c].tok = @ + 1, ![c].rev = @ + 1] = [cred EXCEPT ![c] = rotated]
    BY <1>1, Types DEF Credential
  <2>. QED
    BY <2>1 DEF Refresh
<1>. HIDE DEF job, cr
<1>3. /\ read \in Job /\ read.seen = cr /\ read.purging = job.purging /\ read.first = job.first
      /\ read.dead = job.dead /\ read.stage = job.stage /\ read.status = job.status
  BY <1>1 DEF Job
<1>4. /\ job.first # 0
      /\ job.status = "unauthorized" => job.first # 0 /\ job.dead # 0
  BY <1>1, <1>2 DEF Witnessed
<1>. HIDE DEF read
<1>13. left \in Nat
  BY ConstantsOK
<1>. HIDE DEF left
<1>14. /\ confirm \in Job /\ confirm.seen = cr /\ confirm.purging = job.purging
      /\ confirm.first = job.first /\ confirm.dead = job.dead /\ confirm.stage = "confirm"
      /\ confirm.status = job.status
  BY <1>3, <1>13 DEF Job, Stages
<1>. HIDE DEF confirm
<1>5. ASSUME NEW tok \in Nat
      PROVE  LET new == [confirm EXCEPT !.dead = tok]
             IN  /\ new \in Job /\ new.seen = cr /\ new.purging = job.purging
                 /\ new.first = job.first /\ new.dead = tok /\ new.stage = "confirm"
                 /\ new.status = job.status
  BY <1>14 DEF Job
<1>6. ASSUME NEW seen \in Credential
      PROVE  LET new == [confirm EXCEPT !.seen = seen]
             IN  /\ new \in Job /\ new.seen = seen /\ new.purging = job.purging
                 /\ new.first = job.first /\ new.dead = job.dead /\ new.stage = "confirm"
                 /\ new.status = job.status
  BY <1>14 DEF Job
<1>7. ASSUME UNCHANGED <<cred, since, refreshes>>, NEW new \in Job, Read(c, new), Witnessed(cr, new),
             Reads(cr, new, new.seen # cr /\ c \in touched)
      PROVE  InspectionInv'
  BY <1>1, <1>2, <1>7, ReadKeeps, Types DEF job, cr
<1>8. ASSUME UNCHANGED <<cred, since, refreshes>>,
             NEW new \in Job, Read(c, new), new.seen = cr, new.purging = job.purging,
             new.first \in {0, job.first}, new.dead \in {0, job.dead, cr.tok},
             new.stage \in {"refresh", "confirm"} => new.first # 0,
             new.status = "unauthorized" => new.first # 0 /\ new.dead # 0
      PROVE  InspectionInv'
  <2>1. Witnessed(cr, new) /\ Reads(cr, new, FALSE)
    BY <1>1, <1>8, WitnessedFresh
  <2>2. Reads(cr, new, new.seen # cr /\ c \in touched)
    BY <1>8, <2>1 DEF Reads
  <2>. QED
    BY <1>7, <1>8, <2>1, <2>2
<1>9. CASE UNCHANGED <<cred, since, refreshes>> /\ Read(c, Done(job, "undecided"))
  BY <1>7, <1>9, EndedJob DEF job, cr
<1>10. CASE UNCHANGED <<cred, since, refreshes>> /\ Read(c, Done(read, "undecided"))
  <2>1. /\ Done(read, "undecided") \in Job /\ Done(read, "undecided").seen = read.seen
        /\ Done(read, "undecided").purging = read.purging /\ Done(read, "undecided").stage = "done"
        /\ Done(read, "undecided").status = "undecided"
        /\ Done(read, "undecided").first = 0 /\ Done(read, "undecided").dead = 0
    BY <1>3, DoneJob
  <2>. QED
    BY <1>3, <1>8, <1>10, <2>1
<1>11. CASE UNCHANGED <<cred, since, refreshes>> /\ Read(c, [confirm EXCEPT !.dead = cr.tok])
  <2>. DEFINE new == [confirm EXCEPT !.dead = cr.tok]
  <2>1. /\ new \in Job /\ new.seen = cr /\ new.purging = job.purging /\ new.first = job.first
        /\ new.dead = cr.tok /\ new.stage = "confirm" /\ new.status = job.status
    BY <1>1, <1>5
  <2>2. Read(c, new)
    BY <1>11
  <2>. HIDE DEF new
  <2>. QED
    BY <1>1, <1>4, <1>8, <1>11, <2>1, <2>2
<1>12. CASE /\ refreshes' = refreshes + 1
            /\ cred' = [cred EXCEPT ![c] = rotated]
            /\ since' = [since EXCEPT ![c] = 0]
            /\ Read(c, [confirm EXCEPT !.seen = cred'[c]])
  <2>1. /\ rotated \in Credential /\ rotated.tok = cr.tok + 1 /\ rotated.rev = cr.rev + 1
        /\ rotated.print = cr.print /\ Marked(rotated, 0)
    <3>1. /\ rotated \in Credential /\ rotated.tok = cr.tok + 1 /\ rotated.rev = cr.rev + 1
          /\ rotated.print = cr.print /\ rotated.purge = cr.purge
          /\ rotated.enabled = cr.enabled /\ rotated.manual = cr.manual
          /\ rotated.quarantined = cr.quarantined /\ rotated.there = cr.there
      BY <1>1, RotatedCred
    <3>. HIDE DEF rotated
    <3>2. Marked(rotated, 0)
      BY <1>1, <3>1 DEF Marked, Credential
    <3>. QED
      BY <3>1, <3>2
  <2>2. cred'[c] = rotated /\ since'[c] = 0
    BY <1>1, <1>12, Types
  <2>. HIDE DEF rotated
  <2>. DEFINE new == [confirm EXCEPT !.seen = cred'[c]]
  <2>3. /\ new \in Job /\ new.seen = rotated /\ new.purging = job.purging /\ new.first = job.first
        /\ new.dead = job.dead /\ new.stage = "confirm" /\ new.status = job.status
    BY <1>6, <2>1, <2>2
  <2>4. Read(c, new)
    BY <1>12
  <2>. HIDE DEF new
  <2>5. Witnessed(rotated, job)
    <3>1. rotated.tok >= cr.tok
      BY <1>1, <2>1
    <3>. QED
      BY <1>1, <2>1, <3>1, JobOutrun
  <2>6. Witnessed(rotated, new) /\ Reads(rotated, new, FALSE)
    BY <1>1, <1>4, <2>1, <2>3, <2>5, WitnessedFresh
  <2>7. Reads(rotated, new, new.seen # rotated /\ c \in touched)
    BY <2>3, <2>6 DEF Reads
  <2>8. /\ \A d \in Creds \ {c} : cred'[d] = cred[d] /\ since'[d] = since[d]
        /\ cred' \in [Creds -> Credential] /\ since' \in [Creds -> Nat] /\ refreshes' \in Nat
    BY <1>1, <1>12, <2>1, Types
  <2>9. run.jobs[c].stage \in {"refresh", "confirm"} /\ since'[c] <= since[c]
    BY <1>1, <1>2, <2>2 DEF job
  <2>. QED
    BY <2>1, <2>2, <2>3, <2>4, <2>6, <2>7, <2>8, <2>9, ReadKeeps
<1>. QED
  BY <1>2, <1>9, <1>10, <1>11, <1>12

-----------------------------------------------------------------------------
(***************************************************************************)
(* The verdicts.                                                           *)
(***************************************************************************)
\* What the action of a job may make of cr: the marks of a quarantine that cr
\* had, or new ones for its tokens, with a deadline counted from the run.
Judged(cr, new) ==
  /\ new.tok = cr.tok
  /\ new.enabled => ~new.manual /\ ~new.quarantined
  /\ ~new.quarantined => new.purge = 0 /\ new.print = 0
  /\ new.quarantined => new.print # 0 /\ new.print \in {cr.print, cr.tok} /\ new.there
  /\ new.quarantined /\ new.print = cr.tok /\ new.purge # 0 =>
       \/ cr.quarantined /\ cr.print = cr.tok /\ new.purge = cr.purge
       \/ new.purge = run.at + Retention

\* ResetQuarantineEvidence.
LEMMA EvidenceJudged ==
  ASSUME NEW cr \in Credential, NEW job \in Job, NEW s, Marked(cr, s),
         run.at \in Nat \ {0}, run.retention \in {0, Retention}
  PROVE  LET fresh == WithEvidence(cr, job)
         IN  /\ fresh \in Credential /\ fresh.there = cr.there /\ fresh.manual = cr.manual
             /\ fresh.enabled = cr.enabled /\ Judged(cr, fresh)
<1>. DEFINE purge == IF run.retention > 0 THEN run.at + run.retention ELSE 0
            new == [cr EXCEPT !.print = cr.tok, !.purge = purge]
<1>1. /\ purge \in Nat /\ purge \in {0, run.at + Retention}
      /\ cr.tok \in Nat /\ cr.tok # 0 /\ cr.print \in Nat
  BY ConstantsOK DEF Marked, Credential
<1>2. Judged(cr, cr)
  BY DEF Judged, Marked, Credential
<1>3. WithEvidence(cr, job) = cr \/ (WithEvidence(cr, job) = new /\ cr.quarantined)
  BY DEF WithEvidence
<1>. HIDE DEF purge
<1>4. /\ new \in Credential /\ new.there = cr.there /\ new.manual = cr.manual
      /\ new.enabled = cr.enabled /\ new.tok = cr.tok /\ new.print = cr.tok
      /\ new.purge = purge /\ new.quarantined = cr.quarantined
  <2>. DEFINE mid == [cr EXCEPT !.print = cr.tok]
  <2>1. /\ mid \in Credential /\ mid.there = cr.there /\ mid.manual = cr.manual
        /\ mid.enabled = cr.enabled /\ mid.tok = cr.tok /\ mid.print = cr.tok
        /\ mid.quarantined = cr.quarantined
    BY DEF Credential
  <2>2. new = [mid EXCEPT !.purge = purge]
    BY DEF Credential
  <2>. HIDE DEF mid, new
  <2>. QED
    BY <1>1, <2>1, <2>2 DEF Credential
<1>. HIDE DEF new
<1>5. cr.quarantined => Judged(cr, new)
  BY <1>1, <1>4 DEF Judged, Marked
<1>. QED
  BY <1>2, <1>3, <1>4, <1>5

LEMMA ClearedJudged ==
  ASSUME NEW cr \in Credential, NEW fresh \in Credential, Judged(cr, fresh)
  PROVE  /\ Cleared(fresh) \in Credential /\ Cleared(fresh).there = fresh.there
         /\ Judged(cr, Cleared(fresh))
         /\ ~fresh.manual => /\ Active(fresh) \in Credential /\ Judged(cr, Active(fresh))
                              /\ Active(fresh).there = fresh.there
<1>. DEFINE new == Cleared(fresh)
<1>1. /\ new \in Credential /\ new.there = fresh.there /\ new.tok = fresh.tok
      /\ new.purge = 0 /\ new.print = 0 /\ ~new.quarantined /\ new.manual = fresh.manual
      /\ new.enabled = fresh.enabled
  BY DEF Cleared, Credential, Reasons
<1>2. Active(fresh) = [new EXCEPT !.enabled = TRUE]
  BY DEF Active
<1>. HIDE DEF new
<1>3. Judged(cr, new)
  BY <1>1 DEF Judged
<1>. DEFINE active == [new EXCEPT !.enabled = TRUE]
<1>4. /\ active \in Credential /\ active.there = fresh.there /\ active.tok = fresh.tok
      /\ active.purge = 0 /\ active.print = 0 /\ ~active.quarantined
      /\ active.manual = fresh.manual
  BY <1>1 DEF Credential
<1>. HIDE DEF active
<1>5. ~fresh.manual => Judged(cr, active)
  BY <1>4 DEF Judged
<1>. QED
  BY <1>1, <1>2, <1>3, <1>4, <1>5 DEF new, active

LEMMA QuarantinedJudged ==
  ASSUME NEW cr \in Credential, NEW s, Marked(cr, s), NEW fresh \in Credential,
         Judged(cr, fresh), fresh.there,
         run.at \in Nat \ {0}, run.retention \in {0, Retention}
  PROVE  /\ Quarantined(fresh) \in Credential /\ Quarantined(fresh).there
         /\ Judged(cr, Quarantined(fresh))
<1>. DEFINE purge == IF fresh.purge = 0 /\ run.retention > 0 THEN run.at + run.retention
                     ELSE fresh.purge
            print == IF fresh.print = 0 THEN fresh.tok ELSE fresh.print
            mid == [fresh EXCEPT !.enabled = FALSE, !.quarantined = TRUE,
                                 !.reason = "invalid_auth"]
            new == [mid EXCEPT !.purge = purge, !.print = print]
<1>1. /\ purge \in Nat /\ purge \in {fresh.purge, run.at + Retention}
      /\ print \in Nat /\ print = IF fresh.print = 0 THEN fresh.tok ELSE fresh.print
  BY ConstantsOK DEF Credential
<1>2. Quarantined(fresh) = new
  BY DEF Quarantined, Credential
<1>. HIDE DEF purge, print
<1>3. /\ mid \in Credential /\ mid.there = fresh.there /\ mid.tok = fresh.tok
      /\ ~mid.enabled /\ mid.quarantined
  BY DEF Credential, Reasons
<1>. HIDE DEF mid
<1>4. /\ new \in Credential /\ new.there = mid.there /\ new.tok = mid.tok
      /\ new.enabled = mid.enabled /\ new.quarantined = mid.quarantined
      /\ new.purge = purge /\ new.print = print
  BY <1>1, <1>3 DEF Credential
<1>. HIDE DEF new
<1>5. cr.tok # 0 /\ fresh.tok = cr.tok
  BY DEF Marked, Judged
<1>6. Judged(cr, new)
  BY <1>1, <1>3, <1>4, <1>5 DEF Judged
<1>. QED
  BY <1>2, <1>3, <1>4, <1>6

\* Only a purge removes a credential.
LEMMA VerdictJudged ==
  ASSUME NEW cr \in Credential, NEW job \in Job, NEW s, Marked(cr, s), cr.there,
         run.at \in Nat \ {0}, run.retention \in {0, Retention}
  PROVE  /\ Verdict(cr, job) \in Credential /\ Judged(cr, Verdict(cr, job))
         /\ ~Verdict(cr, job).there =>
              job.status = "unauthorized" /\ ~MassFailure /\ job.purging /\ Purgeable(cr, job)
         /\ cr.enabled /\ ~Verdict(cr, job).enabled =>
              job.status = "unauthorized" /\ ~MassFailure
<1>. DEFINE fresh == WithEvidence(cr, job)
            gone == [Cleared(cr) EXCEPT !.there = FALSE]
<1>1. /\ fresh \in Credential /\ fresh.there = cr.there /\ fresh.manual = cr.manual
      /\ fresh.enabled = cr.enabled /\ Judged(cr, fresh)
  BY EvidenceJudged
<1>2. Judged(cr, cr)
  BY DEF Judged, Marked, Credential
<1>3. gone \in Credential /\ Judged(cr, gone)
  <2>. DEFINE cleared == Cleared(cr)
  <2>1. cleared \in Credential /\ Judged(cr, cleared) /\ ~cleared.quarantined
    <3>1. ~Cleared(cr).quarantined
      BY DEF Cleared, Credential
    <3>. QED
      BY <1>2, <3>1, ClearedJudged
  <2>. HIDE DEF cleared
  <2>. DEFINE left == [cleared EXCEPT !.there = FALSE]
  <2>2. /\ left \in Credential /\ left.tok = cleared.tok /\ left.enabled = cleared.enabled
        /\ left.manual = cleared.manual /\ left.quarantined = cleared.quarantined
        /\ left.purge = cleared.purge /\ left.print = cleared.print
    BY <2>1 DEF Credential
  <2>. HIDE DEF left
  <2>3. Judged(cr, left)
    BY <2>1, <2>2 DEF Judged
  <2>. QED
    BY <2>2, <2>3 DEF left, cleared
<1>4. \/ Verdict(cr, job) = cr
      \/ Verdict(cr, job) = fresh
      \/ Verdict(cr, job) = Active(fresh) /\ ~fresh.manual
      \/ /\ Verdict(cr, job) = gone
         /\ job.status = "unauthorized" /\ ~MassFailure /\ job.purging /\ Purgeable(cr, job)
      \/ /\ Verdict(cr, job) = Quarantined(fresh)
         /\ job.status = "unauthorized" /\ ~MassFailure
  BY DEF Verdict
<1>5. Active(fresh).enabled
  BY <1>1, ClearedJudged DEF Active, Cleared, Credential
<1>. HIDE DEF fresh, gone
<1>6. CASE Verdict(cr, job) = cr
  BY <1>2, <1>6
<1>7. CASE Verdict(cr, job) = fresh
  BY <1>1, <1>7
<1>8. CASE Verdict(cr, job) = Active(fresh) /\ ~fresh.manual
  BY <1>1, <1>5, <1>8, ClearedJudged
<1>9. CASE /\ Verdict(cr, job) = gone
           /\ job.status = "unauthorized" /\ ~MassFailure /\ job.purging /\ Purgeable(cr, job)
  BY <1>3, <1>9
<1>10. CASE /\ Verdict(cr, job) = Quarantined(fresh)
            /\ job.status = "unauthorized" /\ ~MassFailure
  BY <1>1, <1>10, QuarantinedJudged
<1>. QED
  BY <1>4, <1>6, <1>7, <1>8, <1>9, <1>10

\* The stored credentials after a run: as they were, or what the batch wrote.
LEMMA Applied ==
  ASSUME InspectionInv, Apply
  PROVE  /\ run.pc = "probe" /\ run.at \in Nat \ {0} /\ run.retention \in {0, Retention}
         /\ UNCHANGED <<settings, now, edits, refreshes>> /\ run' = Idle /\ touched' = {}
         /\ \E after \in {cred, [c \in Creds |-> Written(c)]} :
              /\ after = cred \/ ~SettingsChanged
              /\ cred' = [c \in Creds |-> [after[c] EXCEPT !.rev = 0]]
              /\ since' = [c \in Creds |->
                   IF ~after[c].there \/ ~after[c].quarantined THEN 0
                   ELSE IF since[c] = 0 /\ after[c].print = after[c].tok THEN run.at ELSE since[c]]
<1>1. run.pc = "probe"
  BY DEF Apply, Finish
<1>2. run.at \in Nat \ {0} /\ run.retention \in {0, Retention}
  BY <1>1, Types DEF InspectionInv, RunOK
<1>. QED
  BY <1>1, <1>2 DEF Apply, Finish

\* What a run writes over a credential is the verdict of a job that knows it
\* as it is.
LEMMA WrittenOK ==
  ASSUME InspectionInv, run.pc = "probe", run.at \in Nat \ {0}, NEW c \in Creds
  PROVE  /\ Written(c) \in Credential /\ Judged(cred[c], Written(c))
         /\ Written(c) # cred[c] =>
              /\ c \in Candidates /\ cred[c].there /\ cred[c].rev = run.jobs[c].seen.rev
              /\ c \notin touched /\ run.jobs[c].seen = cred[c]
         /\ cred[c].there /\ ~Written(c).there =>
              /\ c \in Unauthorized /\ ~MassFailure /\ run.jobs[c].purging
              /\ Purgeable(cred[c], run.jobs[c])
         /\ cred[c].enabled /\ ~Written(c).enabled => c \in Unauthorized /\ ~MassFailure
<1>. DEFINE cr == cred[c]
<1>1. cr \in Credential /\ Marked(cr, since[c]) /\ run.retention \in {0, Retention}
  BY Types DEF InspectionInv, CredOK
<1>2. Judged(cr, cr)
  BY <1>1 DEF Judged, Marked, Credential
<1>3. CASE Written(c) = cr
  BY <1>1, <1>2, <1>3
<1>4. CASE /\ c \in Candidates /\ cr.there /\ Unchanged(cr, run.jobs[c])
           /\ Written(c) = Verdict(cr, run.jobs[c])
  <2>. DEFINE job == run.jobs[c]
              new == Verdict(cr, job)
  <2>1. job \in Job /\ Reads(cr, job, c \in touched)
    BY <1>4, Types DEF InspectionInv, JobOK
  <2>2. cr.rev = job.seen.rev /\ c \notin touched /\ job.seen = cr
    BY <1>4, <2>1 DEF Unchanged, Reads
  <2>3. /\ new \in Credential /\ Judged(cr, new)
        /\ ~new.there =>
             job.status = "unauthorized" /\ ~MassFailure /\ job.purging /\ Purgeable(cr, job)
        /\ cr.enabled /\ ~new.enabled => job.status = "unauthorized" /\ ~MassFailure
    BY <1>1, <1>4, <2>1, VerdictJudged
  <2>4. job.status = "unauthorized" => c \in Unauthorized
    BY <1>4 DEF Unauthorized
  <2>. HIDE DEF job, new
  <2>5. Written(c) = new
    BY <1>4 DEF new, job
  <2>6. c \in Candidates /\ cr.there
    BY <1>4
  <2>. HIDE DEF cr
  <2>. QED
    BY <2>2, <2>3, <2>4, <2>5, <2>6 DEF cr, job
<1>. QED
  BY <1>3, <1>4 DEF Written

\* The marks that a verdict leaves suit the age of the quarantine.
LEMMA JudgedMarked ==
  ASSUME NEW cr \in Credential, NEW new \in Credential, NEW s \in Nat, Marked(cr, s),
         run.at \in Nat \ {0}, s <= run.at, Judged(cr, new)
  PROVE  Marked(new, IF ~new.there \/ ~new.quarantined THEN 0
                     ELSE IF s = 0 /\ new.print = new.tok THEN run.at ELSE s)
<1>1. new.tok # 0 /\ new.print <= new.tok
  BY DEF Judged, Marked, Credential
<1>2. CASE ~new.quarantined
  BY <1>1, <1>2 DEF Judged, Marked, Credential
<1>3. CASE new.quarantined /\ new.print # new.tok
  BY <1>1, <1>3 DEF Judged, Marked, Credential
<1>4. CASE new.quarantined /\ new.print = new.tok /\ s = 0
  <2>1. new.there /\ new.print # 0 /\ new.tok = cr.tok
    BY <1>4 DEF Judged
  <2>2. ~(cr.quarantined /\ cr.print = cr.tok)
    BY <1>4 DEF Marked
  <2>3. new.purge # 0 => run.at + Retention <= new.purge
    BY <1>4, <2>1, <2>2, ConstantsOK DEF Judged, Credential
  <2>4. Marked(new, run.at)
    BY <1>1, <1>4, <2>1, <2>3 DEF Judged, Marked
  <2>. QED
    BY <1>4, <2>1, <2>4
<1>5. CASE new.quarantined /\ new.print = new.tok /\ s # 0
  <2>1. new.there /\ new.print # 0 /\ new.tok = cr.tok
    BY <1>5 DEF Judged
  <2>2. new.purge # 0 => s + Retention <= new.purge
    <3>1. CASE new.purge # 0 /\ cr.quarantined /\ cr.print = cr.tok /\ new.purge = cr.purge
      BY <3>1 DEF Marked
    <3>2. CASE new.purge # 0 /\ new.purge = run.at + Retention
      BY <3>2, ConstantsOK
    <3>. QED
      BY <1>5, <2>1, <3>1, <3>2 DEF Judged
  <2>3. Marked(new, s)
    BY <1>1, <1>5, <2>1, <2>2 DEF Judged, Marked
  <2>. QED
    BY <1>5, <2>1, <2>3
<1>. QED
  BY <1>2, <1>3, <1>4, <1>5

LEMMA ApplyKeeps ==
  ASSUME InspectionInv, Apply
  PROVE  InspectionInv'
<1>1. PICK after \in {cred, [c \in Creds |-> Written(c)]} :
        /\ cred' = [c \in Creds |-> [after[c] EXCEPT !.rev = 0]]
        /\ since' = [c \in Creds |->
             IF ~after[c].there \/ ~after[c].quarantined THEN 0
             ELSE IF since[c] = 0 /\ after[c].print = after[c].tok THEN run.at ELSE since[c]]
  BY Applied
<1>2. /\ run.pc = "probe" /\ run.at \in Nat \ {0} /\ run.retention \in {0, Retention}
      /\ UNCHANGED <<settings, now, edits, refreshes>> /\ run' = Idle /\ touched' = {}
  BY Applied
<1>3. /\ DOMAIN run' = {"pc", "rev", "retention", "at", "jobs"}
      /\ run'.pc = "idle" /\ run'.rev = 0 /\ run'.retention = 0 /\ run'.at = 0
      /\ run'.jobs = NoJobs /\ Candidates' = {}
  BY <1>2 DEF Idle, NoJobs, Candidates
<1>4. Cardinality(Busy)' = 0
  <2>1. Busy' = {}
    BY <1>3 DEF Busy, Jobs
  <2>. QED
    BY <2>1, FS_EmptySet
<1>5. ASSUME NEW c \in Creds
      PROVE  /\ cred'[c] \in Credential /\ since'[c] \in Nat /\ since'[c] <= now
             /\ Marked(cred'[c], since'[c])
  <2>. DEFINE s == IF ~after[c].there \/ ~after[c].quarantined THEN 0
                   ELSE IF since[c] = 0 /\ after[c].print = after[c].tok THEN run.at ELSE since[c]
              new == [after[c] EXCEPT !.rev = 0]
  <2>1. /\ cred[c] \in Credential /\ Marked(cred[c], since[c]) /\ since[c] \in Nat
        /\ since[c] <= run.at /\ since[c] <= now /\ run.at <= now
    BY <1>2, Types DEF InspectionInv, CredOK, RunOK
  <2>2. after[c] \in Credential /\ Judged(cred[c], after[c])
    <3>1. Judged(cred[c], cred[c])
      BY <2>1 DEF Judged, Marked, Credential
    <3>2. CASE after = cred
      BY <2>1, <3>1, <3>2
    <3>3. CASE after = [d \in Creds |-> Written(d)]
      BY <1>2, <3>3, WrittenOK
    <3>. QED
      BY <3>2, <3>3
  <2>3. cred'[c] = new /\ since'[c] = s
    BY <1>1
  <2>4. Marked(after[c], s)
    BY <1>2, <2>1, <2>2, JudgedMarked
  <2>5. s \in Nat /\ s <= now
    BY <1>2, <2>1, Types
  <2>. HIDE DEF s
  <2>6. /\ new \in Credential /\ new.tok = after[c].tok /\ new.print = after[c].print
        /\ new.purge = after[c].purge /\ new.enabled = after[c].enabled
        /\ new.manual = after[c].manual /\ new.quarantined = after[c].quarantined
        /\ new.there = after[c].there
    BY <2>2 DEF Credential
  <2>. HIDE DEF new
  <2>7. Marked(new, s)
    BY <2>4, <2>6 DEF Marked
  <2>. QED
    BY <2>3, <2>5, <2>6, <2>7
<1>6. TypeOK'
  <2>1. cred' \in [Creds -> Credential] /\ since' \in [Creds -> Nat]
    BY <1>1, <1>5
  <2>. QED
    BY <1>2, <1>3, <1>4, <2>1, ConstantsOK, Types DEF InspectionInv, TypeOK, IsRun
<1>7. RunOK'
  <2>1. run'.jobs \in [Candidates' -> Job]
    BY <1>3 DEF NoJobs
  <2>2. now # 0
    BY DEF InspectionInv, RunOK
  <2>. QED
    BY <1>2, <1>3, <2>1, <2>2, Types DEF RunOK
<1>8. ASSUME NEW c \in Creds PROVE CredOK(c)'
  BY <1>2, <1>3, <1>5 DEF CredOK
<1>. QED
  BY <1>3, <1>6, <1>7, <1>8 DEF InspectionInv

LEMMA NextInv == InspectionInv /\ [Next]_vars => InspectionInv'
<1>. SUFFICES ASSUME InspectionInv, [Next]_vars PROVE InspectionInv'
  OBVIOUS
<1>1. CASE BeginRun
  BY <1>1, BeginKeeps
<1>2. CASE ListCandidates
  BY <1>2, ListKeeps
<1>3. CASE Apply
  BY <1>3, ApplyKeeps
<1>4. CASE \E c \in Candidates : Probe(c) \/ Refresh(c)
  BY <1>4, ProbeKeeps, RefreshKeeps
<1>5. CASE \E c \in Creds : Edit(c)
  BY <1>5, EditKeeps
<1>6. CASE ChangeSettings \/ Tick
  BY <1>6, OthersKeep
<1>7. CASE UNCHANGED vars
  BY <1>7 DEF vars, InspectionInv, TypeOK, IsRun, RunOK, CredOK, JobOK, Candidates, Busy, Jobs
<1>. QED
  BY <1>1, <1>2, <1>3, <1>4, <1>5, <1>6, <1>7 DEF Next

LEMMA Invariance == Spec => []InspectionInv
BY InitInv, NextInv, PTL DEF Spec

-----------------------------------------------------------------------------
(***************************************************************************)
(* The theorems.                                                           *)
(***************************************************************************)
\* The shape of the state, and no more probes under way than the run has
\* workers, however its candidates move between refresh and confirmation.
THEOREM InspectionTyped == Spec => []TypeOK
<1>1. InspectionInv => TypeOK
  BY DEF InspectionInv
<1>. QED
  BY <1>1, Invariance, PTL

\* Of upsertCredentialDoc, SetCredentialEnabled and the batch of verdicts: in
\* use without evidence, or in quarantine, out of use and with a fingerprint.
THEOREM QuarantineStaysCoherent == Spec => []QuarantineCoherent
<1>1. InspectionInv => QuarantineCoherent
  BY DEF InspectionInv, CredOK, Marked, QuarantineCoherent
<1>. QED
  BY <1>1, Invariance, PTL

\* Only the end of a run decides, and it changes a credential only to what
\* the batch writes, under unchanged settings.
LEMMA DecisionWritten ==
  ASSUME InspectionInv, [Next]_vars, Applies, NEW c \in Creds
  PROVE  /\ UNCHANGED <<settings, now>> /\ run.at \in Nat \ {0}
         /\ \/ [cred[c] EXCEPT !.rev = 0] = cred'[c]
            \/ cred'[c] = [Written(c) EXCEPT !.rev = 0] /\ Written(c) # cred[c] /\ ~SettingsChanged
<1>1. CASE Apply
  <2>1. PICK after \in {cred, [d \in Creds |-> Written(d)]} :
          /\ after = cred \/ ~SettingsChanged
          /\ cred' = [d \in Creds |-> [after[d] EXCEPT !.rev = 0]]
    BY <1>1, Applied
  <2>2. UNCHANGED <<settings, now>> /\ run.at \in Nat \ {0}
    BY <1>1, Applied
  <2>3. cred'[c] = [after[c] EXCEPT !.rev = 0]
    BY <2>1
  <2>4. after[c] = cred[c] \/ (after[c] = Written(c) /\ ~SettingsChanged)
    BY <2>1
  <2>. QED
    BY <2>2, <2>3, <2>4
<1>2. CASE BeginRun \/ ListCandidates
  BY <1>2 DEF Applies, BeginRun, ListCandidates, InspectionInv, RunOK
<1>3. CASE \E d \in Candidates : Probe(d) \/ Refresh(d)
  <2>1. \E d \in Candidates : \E job : run' = [run EXCEPT !.jobs[d] = job]
    BY <1>3 DEF Probe, Refresh, Read
  <2>2. run'.pc = run.pc
    BY <2>1 DEF InspectionInv, RunOK
  <2>. QED
    BY <2>2 DEF Applies
<1>4. CASE (\E d \in Creds : Edit(d)) \/ ChangeSettings \/ Tick \/ UNCHANGED vars
  <2>1. run' = run
    BY <1>4 DEF Edit, Patch, Import, Rotate, Enable, Disable, DeleteCredential, Store,
                ChangeSettings, Tick, vars
  <2>. QED
    BY <2>1 DEF Applies
<1>. QED
  BY <1>1, <1>2, <1>3, <1>4 DEF Next

\* Revisions: whatever an operator, an import or a refresh made of a
\* credential after the run last read it is left as it is by the verdict.
THEOREM LaterChangesWin == Spec => LaterChangeWins
<1>1. ASSUME InspectionInv, [Next]_vars, NEW c \in Creds, Decided(c)
      PROVE  c \notin touched
  <2>1. run.pc = "probe" /\ run.at \in Nat \ {0} /\ Written(c) # cred[c]
    BY <1>1, DecisionWritten DEF Decided, Applies
  <2>. QED
    BY <1>1, <2>1, WrittenOK
<1>2. InspectionInv /\ [Next]_vars => [\A c \in Creds : Decided(c) => c \notin touched]_vars
  BY <1>1
<1>. QED
  BY <1>2, Invariance, PTL DEF Spec, LaterChangeWins

\* withSettingsRevision: the batch is written under the settings its jobs were
\* chosen and judged by.
THEOREM SettingsAreInForce == Spec => SettingsInForce
<1>1. ASSUME InspectionInv, [Next]_vars, NEW c \in Creds, Decided(c)
      PROVE  run.retention = settings.retention
  <2>1. run.pc = "probe" /\ ~SettingsChanged
    BY <1>1, DecisionWritten DEF Decided, Applies
  <2>. QED
    BY <1>1, <2>1 DEF InspectionInv, RunOK, SettingsChanged
<1>2. InspectionInv /\ [Next]_vars =>
        [\A c \in Creds : Decided(c) => run.retention = settings.retention]_vars
  BY <1>1
<1>. QED
  BY <1>2, Invariance, PTL DEF Spec, SettingsInForce

\* What becomes of a credential that the end of a run takes out of service.
LEMMA RemovalJudged ==
  ASSUME InspectionInv, [Next]_vars, NEW c \in Creds, Removed(c)
  PROVE  /\ c \in Unauthorized /\ ~MassFailure
         /\ Purged(c) => run.jobs[c].purging /\ Purgeable(cred[c], run.jobs[c])
<1>1. cred[c] \in Credential /\ Applies /\ run.pc = "probe"
  BY Types DEF Removed, Purged, Applies
<1>2. run.at \in Nat \ {0}
  BY <1>1, DecisionWritten
<1>3. Written(c) \in Credential
  BY <1>1, <1>2, WrittenOK
<1>. DEFINE same == [cred[c] EXCEPT !.rev = 0]
            new == [Written(c) EXCEPT !.rev = 0]
<1>4. same.there = cred[c].there /\ same.enabled = cred[c].enabled
  BY <1>1 DEF Credential
<1>5. new.there = Written(c).there /\ new.enabled = Written(c).enabled
  BY <1>3 DEF Credential
<1>6. cred'[c] = same \/ cred'[c] = new
  BY <1>1, DecisionWritten
<1>. HIDE DEF same, new
<1>7. \/ cred[c].there /\ ~cred'[c].there
      \/ cred[c].enabled /\ ~cred'[c].enabled
  BY DEF Removed, Purged
<1>8. cred'[c] = new
  BY <1>4, <1>6, <1>7
<1>9. cred[c].there /\ ~Written(c).there =>
        /\ c \in Unauthorized /\ ~MassFailure /\ run.jobs[c].purging
        /\ Purgeable(cred[c], run.jobs[c])
  BY <1>1, <1>2, WrittenOK
<1>10. cred[c].enabled /\ ~Written(c).enabled => c \in Unauthorized /\ ~MassFailure
  BY <1>1, <1>2, WrittenOK
<1>. QED
  BY <1>5, <1>7, <1>8, <1>9, <1>10, Zenon DEF Purged

\* What is deleted for good has been in quarantine with the tokens it has now
\* for the whole retention, and those were refused by this run: by a first
\* 401, a terminal refresh failure and the last 401.
THEOREM PurgesAreJustified == Spec => PurgeJustified
<1>1. ASSUME InspectionInv, [Next]_vars, NEW c \in Creds, Purged(c)
      PROVE  since[c] # 0 /\ since[c] + Retention <= now /\ Evidence(c)
  <2>. DEFINE cr == cred[c]
              job == run.jobs[c]
  <2>1. c \in Unauthorized /\ job.purging /\ Purgeable(cr, job)
    BY <1>1, RemovalJudged DEF Removed
  <2>2. /\ cr.quarantined /\ cr.purge # 0 /\ cr.purge <= now
        /\ cr.print = job.seen.tok /\ cr.tok = job.seen.tok
    BY <2>1 DEF Purgeable
  <2>3. /\ c \in Candidates /\ job.status = "unauthorized" /\ job \in Job /\ cr \in Credential
        /\ Marked(cr, since[c]) /\ Witnessed(cr, job) /\ since[c] \in Nat /\ now \in Nat
    BY <1>1, <2>1, Types DEF Unauthorized, InspectionInv, CredOK, JobOK
  <2>. HIDE DEF cr, job
  <2>4. since[c] # 0 /\ since[c] + Retention <= cr.purge
    BY <2>2, <2>3 DEF Marked
  <2>5. since[c] + Retention <= now
    BY <2>2, <2>3, <2>4, ConstantsOK DEF Credential
  <2>6. job.first = cr.tok /\ job.dead = cr.tok
    <3>1. Between(cr.print, job.first, cr.tok) /\ Between(cr.print, job.dead, cr.tok)
      BY <2>1, <2>3 DEF Witnessed
    <3>. QED
      BY <2>2, <2>3, <3>1 DEF Between, Job, Credential
  <2>. QED
    BY <2>2, <2>4, <2>5, <2>6 DEF Evidence, cr, job
<1>2. InspectionInv /\ [Next]_vars =>
        [\A c \in Creds :
           Purged(c) => since[c] # 0 /\ since[c] + Retention <= now /\ Evidence(c)]_vars
  BY <1>1
<1>. QED
  BY <1>2, Invariance, PTL DEF Spec, PurgeJustified

\* The mass-failure guard bounds what one run takes out of service, by
\* quarantine or by purge.
THEOREM MassFailureGuarded == Spec => GuardHolds
<1>. DEFINE removed == {c \in Creds : Removed(c)}
<1>1. ASSUME InspectionInv, [Next]_vars, Cardinality(removed) >= Minimum
      PROVE  Cardinality(removed) * 100 < Percent * Cardinality(Candidates)
  <2>1. removed # {}
    <3>1. Cardinality({}) = 0
      BY FS_EmptySet
    <3>. QED
      BY <1>1, <3>1, ConstantsOK
  <2>2. removed \subseteq Unauthorized /\ ~MassFailure
    BY <1>1, <2>1, RemovalJudged
  <2>3. IsFiniteSet(Candidates) /\ IsFiniteSet(Unauthorized)
    <3>1. Candidates \subseteq Creds /\ Unauthorized \subseteq Creds
      BY <1>1, Types DEF Unauthorized
    <3>. QED
      BY <3>1, CredsFinite, FS_Subset
  <2>4. /\ Cardinality(removed) <= Cardinality(Unauthorized)
        /\ Cardinality(removed) \in Nat /\ Cardinality(Unauthorized) \in Nat
        /\ Cardinality(Candidates) \in Nat
    <3>1. IsFiniteSet(removed) /\ Cardinality(removed) <= Cardinality(Unauthorized)
      BY <2>2, <2>3, FS_Subset
    <3>. QED
      BY <2>3, <3>1, FS_CardinalityType
  <2>. HIDE DEF removed
  <2>5. Cardinality(Unauthorized) >= Minimum
    BY <1>1, <2>4, ConstantsOK
  <2>6. ~(Cardinality(Unauthorized) * 100 >= Percent * Cardinality(Candidates))
    BY <2>2, <2>5 DEF MassFailure
  <2>. DEFINE bound == Percent * Cardinality(Candidates)
  <2>7. bound \in Nat
    BY <2>4, ConstantsOK
  <2>8. ~(Cardinality(Unauthorized) * 100 >= bound)
    BY <2>6
  <2>. HIDE DEF bound
  <2>9. Cardinality(removed) * 100 < bound
    BY <2>4, <2>7, <2>8
  <2>. QED
    BY <2>9 DEF bound
<1>2. InspectionInv /\ [Next]_vars =>
        [Cardinality(removed) >= Minimum =>
           Cardinality(removed) * 100 < Percent * Cardinality(Candidates)]_vars
  BY <1>1
<1>. QED
  BY <1>2, Invariance, PTL DEF Spec, GuardHolds

=============================================================================
