----------------------------- MODULE ImportJobs -----------------------------
(***************************************************************************)
(* Credential imports (internal/importer/manager.go): a bounded queue in   *)
(* front of a few workers, the worker that parses a batch of files, drops  *)
(* duplicates and stores the rest with one locked write                    *)
(* (BulkUpsertCredentials in internal/storage/credentials.go), and the     *)
(* report of a job, which readers poll and the manager forgets in time.    *)
(*                                                                         *)
(* The two hooks of a store write, which retire cached access tokens (main *)
(* in cmd/grokbuild-proxy), are modelled by what they leave in the         *)
(* refresher's cache; the races inside the refresher are TokenRefresh's.   *)
(* Nothing else writes credentials here; Inspection and TokenRefresh have  *)
(* the writers that compete.                                               *)
(***************************************************************************)
EXTENDS GrokAuthFile, FiniteSets, FiniteSetsExt

CONSTANTS
  Jobs,              \* job ids
  Uploads,           \* the batches of files each job may be started with
  Seeded,            \* the credentials stored at first, in the order of the file
  Concurrency,       \* Limits.Concurrency
  MaxFiles, MaxTotalBytes, MaxQueuedJobs, MaxQueuedBytes,
  MaxRetainedJobs, MaxRetainedRows,  \* Limits.MaxRetainedBytes, in rows of a report
  JobTTL,            \* Limits.JobTTL, in ticks
  MaxTime,           \* bound: the clock
  MaxServes          \* bound: requests that cache an access token

ASSUME LimitsOK ==
  /\ Concurrency \in Nat \ {0} /\ MaxFiles \in Nat \ {0} /\ MaxTotalBytes \in Nat
  /\ MaxQueuedJobs \in Nat \ {0} /\ MaxQueuedBytes \in Nat
  /\ MaxRetainedJobs \in Nat \ {0} /\ MaxRetainedRows \in Nat
  /\ JobTTL \in Nat /\ MaxTime \in Nat \ {0} /\ MaxServes \in Nat

ASSUME JobsFinite == IsFiniteSet(Jobs)

VARIABLES
  queue,      \* Manager.queuedJobs and queuedBytes
  sem,        \* the jobs that hold a slot of Manager.sem
  table,      \* Manager.jobs: the reports kept
  pc,         \* where the goroutine of each job is
  batch,      \* the files of each job
  work,       \* what its goroutine has made of them
  store,      \* credentialsDoc.Credentials, in the order of the file
  cached,     \* credentials whose access token the refresher has cached
  stale,      \* those of them whose stored tokens have been replaced since
  now,        \* the clock
  serves,     \* requests that cached a token so far
  log         \* history: what the store did for each job

credentials == <<store, cached, stale, log>>
vars == <<queue, sem, table, pc, batch, work, credentials, now, serves>>

Ready   == {"queued", "slot"}
Active  == {"begin", "next", "parsing", "overflow", "persist", "write", "tell", "finish", "reject"}
Resting == {"new", "invalid", "overloaded", "done"}
Stages  == Resting \cup Ready \cup Active \cup {"release"}
Final   == {"completed", "partial", "failed"}
Settled == {"created", "updated", "skipped", "failed"}

\* ItemResult: its status and the credential it stands for (0: none).
Row(status) == [status |-> status, id |-> 0]
Rows(n, status) == [k \in 1..n |-> Row(status)]
Stored == {"created", "updated"}

NoWork == [n |-> 1, rows |-> <<>>, pending |-> <<>>, seen |-> {}, total |-> 0,
           stored |-> <<>>, late |-> FALSE]

Batches == UNION {Uploads[j] : j \in Jobs}
Files   == UNION {ToSet(files) : files \in Batches}

ASSUME SizesOK ==
  /\ \A j \in Jobs : Uploads[j] \subseteq Seq(Files)
  /\ \A f \in Files : f.size \in Nat

IsSeq(s) == s \in Seq(ToSet(s))

\* What a document lists is in an order.
ASSUME DocumentsOK == \A f \in Files :
  /\ IsSeq(f.doc.sso)
  /\ f.doc.shape = "list" => IsSeq(f.doc.entries)
  /\ f.doc.shape = "object" =>
       /\ IsSeq(f.doc.members)
       /\ \A i \in DOMAIN f.doc.members :
            f.doc.members[i].kind = "list" => IsSeq(f.doc.members[i].entries)

Bytes(files) == FoldLeft(LAMBDA sum, f : sum + f.size, 0, files)

-----------------------------------------------------------------------------
(***************************************************************************)
(* Identities. A blank field is "".                                        *)
(***************************************************************************)
\* importIdentity
ImportIdentity(in) ==
  IF in.user # "" THEN <<"oidc", in.client, in.user, in.team>>
  ELSE IF in.email # "" THEN <<"email", in.client, in.email>>
  ELSE IF in.rt # "" THEN <<"token", in.rt>>
  ELSE IF in.at # "" THEN <<"token", in.at>> ELSE <<>>

\* stableIdentity tells an access token from a refresh token.
StableIdentity(in) ==
  IF in.user = "" /\ in.email = "" /\ in.rt = "" /\ in.at # ""
  THEN <<"access", in.at>> ELSE ImportIdentity(in)

\* identityScopeCompatible
ScopeCompatible(c, in) == c.client = "" \/ in.client = "" \/ c.client = in.client

\* sameCredentialIdentity: the same user in another team is somebody else,
\* whatever else matches.
SameUser(c, in) == in.user # "" /\ c.user = in.user /\ ScopeCompatible(c, in)
SameEmail(c, in) ==
  /\ in.user = "" \/ c.user = ""
  /\ in.email # "" /\ c.email = in.email /\ ScopeCompatible(c, in)

SameIdentity(c, in) ==
  \/ c.key # <<>> /\ c.key = StableIdentity(in)
  \/ SameUser(c, in) /\ (in.team = "" \/ c.team = "" \/ c.team = in.team)
  \/ ~SameUser(c, in) /\ (SameEmail(c, in) \/ (in.rt # "" /\ c.rt = in.rt))

Override(old, new) == IF new = "" THEN old ELSE new

\* The fields an import may replace; a credential that inspection took out for
\* bad tokens comes back with new ones.
Merged(c, in) ==
  LET new == [c EXCEPT !.user = Override(@, in.user), !.team = Override(@, in.team),
                       !.email = Override(@, in.email), !.client = Override(@, in.client),
                       !.at = Override(@, in.at), !.rt = Override(@, in.rt)]
  IN [new EXCEPT !.key = StableIdentity(new),
                 !.dead = @ /\ new.at = c.at /\ new.rt = c.rt]

\* newCredential
NewCredential(in) ==
  [user |-> in.user, team |-> in.team, email |-> in.email, client |-> in.client,
   at |-> in.at, rt |-> in.rt, key |-> StableIdentity(in), dead |-> FALSE]

\* upsertCredentialDoc: the first credential that matches, or a new one.
\* Its id is its place in the file.
Upsert(done, in) ==
  LET same == {i \in DOMAIN done.doc : SameIdentity(done.doc[i], in)}
      id   == IF same = {} THEN Len(done.doc) + 1 ELSE Min(same)
  IN [doc |-> IF same = {} THEN Append(done.doc, NewCredential(in))
              ELSE [done.doc EXCEPT ![id] = Merged(@, in)],
      results |-> Append(done.results, [id |-> id, created |-> same = {}])]

\* validateCredentialInput
Valid(in) == in.valid /\ (in.at # "" \/ in.rt # "")

BulkUpsert(inputs) == FoldLeft(Upsert, [doc |-> store, results |-> <<>>], inputs)

-----------------------------------------------------------------------------
(***************************************************************************)
(* Reports.                                                                *)
(***************************************************************************)
Number(rows, statuses) == Cardinality({k \in DOMAIN rows : rows[k].status \in statuses})

\* summarizeJob and finish: the verdict on the rows of a file, or of a job.
Verdict(rows) ==
  IF Number(rows, {"failed"}) = 0 THEN "completed"
  ELSE IF Number(rows, Settled \ {"failed"}) = 0 THEN "failed" ELSE "partial"

Finished(report) == report.status \in Final

\* pruneLocked: finished reports go when they are old, and from the oldest on
\* while there are too many; reports of the same second are in no order.
Fits(reports, kept) ==
  /\ Cardinality(kept) <= MaxRetainedJobs
  /\ MapThenSumSet(LAMBDA j : reports[j].size, kept) <= MaxRetainedRows

Young(reports) == {j \in DOMAIN reports : Finished(reports[j]) /\ now - reports[j].at <= JobTTL}

Retained(reports, young) ==
  {kept \in SUBSET young :
     /\ Fits(reports, kept)
     /\ \A j \in kept, k \in young \ kept : reports[k].at <= reports[j].at
     /\ kept = young \/ \E k \in young \ kept :
                         /\ \A i \in young \ kept : reports[i].at <= reports[k].at
                         /\ ~Fits(reports, kept \cup {k})}

Pruned(reports) ==
  {[j \in {i \in DOMAIN reports : ~Finished(reports[i])} \cup kept |-> reports[j]] :
     kept \in Retained(reports, Young(reports))}

\* update: a report that was forgotten stays forgotten.
Publish(j, report) ==
  \E reports \in {IF j \in DOMAIN table THEN [table EXCEPT ![j] = report] ELSE table} :
    table' \in Pruned(reports)

-----------------------------------------------------------------------------
(***************************************************************************)
(* The queue.                                                              *)
(***************************************************************************)
\* Start: a batch takes a free slot at once when nobody is in the queue, or
\* its place in the queue.  Of the refusals before the lock, which touch nothing,
\* those for one file's size, blankness or format are left out: every file here
\* passes them.
Acceptable(files) == files # <<>> /\ Len(files) <= MaxFiles /\ Bytes(files) <= MaxTotalBytes

TakesSlot == queue.jobs = 0 /\ Cardinality(sem) < Concurrency

HasRoom(files) == queue.jobs < MaxQueuedJobs /\ Bytes(files) <= MaxQueuedBytes - queue.bytes

NewReport(files) ==
  [status |-> "queued", at |-> 0, size |-> 0, timedOut |-> FALSE,
   files |-> [f \in DOMAIN files |-> [status |-> "queued", rows |-> <<>>]]]

Accept(j, files, at) ==
  /\ pc' = [pc EXCEPT ![j] = at]
  /\ batch' = [batch EXCEPT ![j] = files]
  /\ \E reports \in Pruned(table) :
       table' = [i \in DOMAIN reports \cup {j} |->
                   IF i = j THEN NewReport(files) ELSE reports[i]]

StartNow(j, files) ==
  /\ TakesSlot
  /\ sem' = sem \cup {j}
  /\ Accept(j, files, "begin")
  /\ UNCHANGED queue

\* Mutant of StartLater: a batch in the queue is not counted.
StartUncounted(j, files) ==
  /\ ~TakesSlot /\ HasRoom(files)
  /\ Accept(j, files, "queued")
  /\ UNCHANGED <<queue, sem>>

StartLater(j, files) ==
  /\ ~TakesSlot /\ HasRoom(files)
  /\ queue' = [jobs |-> queue.jobs + 1, bytes |-> queue.bytes + Bytes(files)]
  /\ Accept(j, files, "queued")
  /\ UNCHANGED sem

Overloaded(j, files) ==
  /\ ~TakesSlot /\ ~HasRoom(files)
  /\ pc' = [pc EXCEPT ![j] = "overloaded"]
  /\ table' \in Pruned(table)
  /\ UNCHANGED <<queue, sem, batch>>

Start(j, files) ==
  /\ pc[j] = "new" /\ Acceptable(files)
  /\ StartNow(j, files) \/ StartLater(j, files) \/ Overloaded(j, files)
  /\ UNCHANGED <<work, credentials, now, serves>>

Refuse(j, files) ==
  /\ pc[j] = "new" /\ ~Acceptable(files)
  /\ pc' = [pc EXCEPT ![j] = "invalid"]
  /\ UNCHANGED <<queue, sem, table, batch, work, credentials, now, serves>>

\* run takes a slot, and only then the lock to leave the queue.
TakeSlot(j) ==
  /\ pc[j] = "queued" /\ Cardinality(sem) < Concurrency
  /\ sem' = sem \cup {j}
  /\ pc' = [pc EXCEPT ![j] = "slot"]
  /\ UNCHANGED <<queue, table, batch, work, credentials, now, serves>>

\* Mutant of LeaveQueue: only the jobs are counted down.
LeaveBytes(j) ==
  /\ pc[j] = "slot"
  /\ queue' = [queue EXCEPT !.jobs = @ - 1]
  /\ pc' = [pc EXCEPT ![j] = "begin"]
  /\ UNCHANGED <<sem, table, batch, work, credentials, now, serves>>

LeaveQueue(j) ==
  /\ pc[j] = "slot"
  /\ queue' = [jobs |-> queue.jobs - 1, bytes |-> queue.bytes - Bytes(batch[j])]
  /\ pc' = [pc EXCEPT ![j] = "begin"]
  /\ UNCHANGED <<sem, table, batch, work, credentials, now, serves>>

-----------------------------------------------------------------------------
(***************************************************************************)
(* The worker of a job.                                                    *)
(***************************************************************************)
Step(j, at, w) ==
  /\ pc' = [pc EXCEPT ![j] = at]
  /\ work' = [work EXCEPT ![j] = w]

WorkerOnly == UNCHANGED <<queue, sem, batch, credentials, now, serves>>

\* The format a file is first taken for, and whether SSO is tried after JSON.
IsJSON(file) == file.format = "json" \/ (file.format = "auto" /\ file.doc.shape # "text")
MayBeSSO(file) == file.format # "json"

\* estimateEntryCount
Estimate(file, limit) ==
  LET json == ParseLimit(file.doc, limit)
      sso  == ParseSSOValues(file.doc, limit)
      Size(parsed) == IF parsed.outcome = "limit" THEN limit + 1 ELSE Len(parsed.list)
  IN IF IsJSON(file) /\ (json.outcome # "bad" \/ ~MayBeSSO(file)) THEN Size(json) ELSE Size(sso)

\* preflightEntries: a file that does not parse counts for nothing.
Preflight == [files \in Batches |->
  FoldLeft(LAMBDA total, file :
             IF total > MaxEntries THEN total
             ELSE total + Estimate(file, IF total < MaxEntries THEN MaxEntries - total ELSE 1),
           0, files)]

\* parseFile up to the conversion: the accounts found, how, and the entries
\* the file counts for. A file that does not parse counts for one.
Contents == [file \in Files |->
  LET json == ParseLimit(file.doc, MaxEntries)
      sso  == ParseSSOValues(file.doc, MaxEntries)
      via  == IF IsJSON(file) /\ (json.outcome # "bad" \/ ~MayBeSSO(file)) THEN "json" ELSE "sso"
      from == IF via = "json" THEN json ELSE sso
      n    == CASE from.outcome = "bad" -> 1
                [] from.outcome = "limit" -> MaxEntries + 1
                [] OTHER -> Len(from.list)
  IN [via |-> IF from.outcome = "ok" /\ n <= MaxEntries THEN via ELSE "none",
      list |-> from.list, count |-> n]]

Begin(j) ==
  /\ pc[j] = "begin"
  /\ Publish(j, [table[j] EXCEPT !.status = "running"])
  /\ IF Preflight[batch[j]] > MaxEntries
     THEN Step(j, "reject", [work[j] EXCEPT !.rows = [f \in DOMAIN batch[j] |-> Rows(1, "failed")]])
     ELSE Step(j, "next", [work[j] EXCEPT !.rows = [f \in DOMAIN batch[j] |-> <<>>]])
  /\ WorkerOnly

NextFile(j) ==
  LET w == work[j] IN
  /\ pc[j] = "next"
  /\ IF w.n > Len(batch[j]) \/ w.late
     THEN Step(j, "persist", w) /\ UNCHANGED table
     ELSE /\ Step(j, "parsing", w)
          /\ Publish(j, [table[j] EXCEPT !.files[w.n].status = "running"])
  /\ WorkerOnly

\* publishProgress
Progress(j, w) ==
  Publish(j, [table[j] EXCEPT !.files[w.n] = [status |-> "parsed", rows |-> w.rows[w.n]]])

\* An entry whose account an earlier entry of the batch names already.
Repeats(w, list, k) ==
  LET who == ImportIdentity(list[k])
  IN /\ who # <<>>
     /\ \/ who \in w.seen
        \/ \E i \in 1..(k - 1) : w.rows[w.n][i].status = "queued" /\ ImportIdentity(list[i]) = who

\* The positions of the rows that are still queued, in their order.
Kept(rows) ==
  FoldLeft(LAMBDA kept, k : IF rows[k].status = "queued" THEN Append(kept, k) ELSE kept,
           <<>>, [k \in DOMAIN rows |-> k])

\* Mutant of TakeEntries: rows are numbered after the entries that are left.
TakeByCount(w, list) ==
  LET rows == [k \in DOMAIN list |->
                 IF w.rows[w.n][k].status = "queued" /\ Repeats(w, list, k)
                 THEN Row("skipped") ELSE w.rows[w.n][k]]
      new  == Kept(rows)
  IN [w EXCEPT !.rows[w.n] = rows,
               !.seen = @ \cup ({ImportIdentity(list[new[i]]) : i \in DOMAIN new} \ {<<>>}),
               !.pending = @ \o [i \in DOMAIN new |->
                             [file |-> w.n, row |-> i, in |-> list[new[i]]]]]

\* The entries of the file that parsed and are not repeated wait for the store.
TakeEntries(w, list) ==
  LET rows == [k \in DOMAIN list |->
                 IF w.rows[w.n][k].status = "queued" /\ Repeats(w, list, k)
                 THEN Row("skipped") ELSE w.rows[w.n][k]]
      new  == Kept(rows)
  IN [w EXCEPT !.rows[w.n] = rows,
               !.seen = @ \cup ({ImportIdentity(list[new[i]]) : i \in DOMAIN new} \ {<<>>}),
               !.pending = @ \o [i \in DOMAIN new |->
                             [file |-> w.n, row |-> new[i], in |-> list[new[i]]]]]

FailQueued(rows) ==
  [k \in DOMAIN rows |-> IF rows[k].status = "queued" THEN Row("failed") ELSE rows[k]]

\* The rows of a file once parsed; the SSO converter may fail for any of them.
ParsedRows(c, failing) ==
  IF c.via = "none" THEN Rows(1, "failed")
  ELSE [k \in DOMAIN c.list |-> Row(IF k \in failing THEN "failed" ELSE "queued")]

Parsed(w, c, failing) ==
  LET rows == ParsedRows(c, failing)
      v == [w EXCEPT !.total = @ + c.count,
                     !.rows[w.n] = IF w.late THEN FailQueued(rows) ELSE rows]
  IN IF w.late \/ c.via = "none" THEN v ELSE TakeEntries(v, c.list)

ParseFile(j) ==
  LET w == work[j]
      c == Contents[batch[j][w.n]] IN
  /\ pc[j] = "parsing"
  /\ \E failing \in IF c.via = "sso" THEN SUBSET DOMAIN c.list ELSE {{}} :
       \E u \in {Parsed(w, c, failing)} :
          /\ IF w.late THEN Step(j, "persist", u)
             ELSE IF u.total > MaxEntries THEN Step(j, "overflow", u)
             ELSE Step(j, "next", [u EXCEPT !.n = @ + 1])
          /\ Progress(j, u)
  /\ WorkerOnly

\* The entries turn out to be too many after all: nothing is stored.
Overflow(j) ==
  LET w == work[j]
      rows == [f \in DOMAIN w.rows |-> FailQueued(w.rows[f])]
      v == [w EXCEPT !.pending = <<>>, !.rows = [rows EXCEPT ![w.n] = Append(rows[w.n], Row("failed"))]] IN
  /\ pc[j] = "overflow"
  /\ Step(j, "persist", v)
  /\ Progress(j, v)
  /\ WorkerOnly

\* The pending entries get a status each, in their order.
Marked(w, marks) ==
  [w EXCEPT !.rows =
     [f \in DOMAIN w.rows |->
        [k \in DOMAIN w.rows[f] |->
           LET mine == {i \in DOMAIN w.pending : w.pending[i].file = f /\ w.pending[i].row = k}
           IN IF mine = {} THEN w.rows[f][k] ELSE marks[Max(mine)]]]]

Failing(w) == [Marked(w, Rows(Len(w.pending), "failed")) EXCEPT !.pending = <<>>]

\* BeforeStore is Refresher.InvalidateAll.
Persist(j) ==
  LET w == work[j] IN
  /\ pc[j] = "persist"
  /\ IF w.pending = <<>> THEN Step(j, "finish", w) /\ UNCHANGED <<cached, stale>>
     ELSE IF w.late THEN Step(j, "finish", Failing(w)) /\ UNCHANGED <<cached, stale>>
     ELSE Step(j, "write", w) /\ cached' = {} /\ stale' = {}
  /\ UNCHANGED <<queue, sem, batch, table, store, log, now, serves>>

\* BulkUpsertCredentials: all of the batch or, with one invalid credential or a
\* storage error, none of it.
Write(j) ==
  LET w == work[j]
      inputs == [i \in DOMAIN w.pending |-> w.pending[i].in]
      result == BulkUpsert(inputs)
      ids == {result.results[i].id : i \in DOMAIN result.results} IN
  /\ pc[j] = "write"
  /\ \/ Step(j, "finish", Failing(w)) /\ UNCHANGED <<store, stale, log>>
     \/ /\ \A i \in DOMAIN inputs : Valid(inputs[i])
        /\ Step(j, "tell", [w EXCEPT !.stored = result.results])
        /\ store' = result.doc
        /\ stale' = stale \cup (cached \cap ids)
        /\ log' = [log EXCEPT ![j] = [i \in DOMAIN inputs |->
             [in |-> inputs[i], id |-> result.results[i].id, created |-> result.results[i].created]]]
  /\ UNCHANGED <<queue, sem, batch, table, cached, now, serves>>

\* Mutant of Tell: the tokens are invalidated before the write only.
TellNobody(j) ==
  LET w == work[j]
      marks == [i \in DOMAIN w.stored |->
                  [status |-> IF w.stored[i].created THEN "created" ELSE "updated",
                   id |-> w.stored[i].id]] IN
  /\ pc[j] = "tell"
  /\ Step(j, "finish", Marked(w, marks))
  /\ UNCHANGED <<queue, sem, batch, table, store, cached, stale, log, now, serves>>

\* OnStored is Refresher.Invalidate of each.
Tell(j) ==
  LET w == work[j]
      ids == {w.stored[i].id : i \in DOMAIN w.stored}
      marks == [i \in DOMAIN w.stored |->
                  [status |-> IF w.stored[i].created THEN "created" ELSE "updated",
                   id |-> w.stored[i].id]] IN
  /\ pc[j] = "tell"
  /\ Step(j, "finish", Marked(w, marks))
  /\ cached' = cached \ ids /\ stale' = stale \ ids
  /\ UNCHANGED <<queue, sem, batch, table, store, log, now, serves>>

\* finish: a file the batch never came to gets a row that says so.
FinalFile(file, rows) ==
  LET all == IF file.status = "queued" /\ rows = <<>> THEN Rows(1, "failed") ELSE rows
  IN [status |-> Verdict(all), rows |-> all]

FinalFiles(j) ==
  [f \in DOMAIN batch[j] |-> FinalFile(table[j].files[f], work[j].rows[f])]

FinalReport(files, rows, timedOut) ==
  [status |-> Verdict(rows), at |-> now, size |-> Len(rows), files |-> files,
   timedOut |-> timedOut /\ Number(rows, Settled \ {"failed"}) = 0]

Finish(j) ==
  /\ pc[j] \in {"finish", "reject"}
  /\ Step(j, "release", NoWork)
  /\ \E files \in {FinalFiles(j)} :
       \E rows \in {FlattenSeq([f \in DOMAIN files |-> files[f].rows])} :
         Publish(j, FinalReport(files, rows, pc[j] = "finish" /\ work[j].late))
  /\ WorkerOnly

\* Mutant of Release: the deferred receive from the channel is missing.
ReleaseNothing(j) ==
  /\ pc[j] = "release"
  /\ pc' = [pc EXCEPT ![j] = "done"]
  /\ UNCHANGED <<queue, sem, table, batch, work, credentials, now, serves>>

Release(j) ==
  /\ pc[j] = "release"
  /\ sem' = sem \ {j}
  /\ pc' = [pc EXCEPT ![j] = "done"]
  /\ UNCHANGED <<queue, table, batch, work, credentials, now, serves>>

-----------------------------------------------------------------------------
(***************************************************************************)
(* Everything else.                                                        *)
(***************************************************************************)
\* JobTimeout passes.
Expire(j) ==
  /\ pc[j] \in Active \ {"begin"} /\ ~work[j].late
  /\ work' = [work EXCEPT ![j].late = TRUE]
  /\ UNCHANGED <<queue, sem, table, pc, batch, credentials, now, serves>>

Tick ==
  /\ now < MaxTime /\ now' = now + 1
  /\ UNCHANGED <<queue, sem, table, pc, batch, work, credentials, serves>>

\* Get, for any id, forgets what is due.
Get ==
  /\ table' \in Pruned(table) /\ table' # table
  /\ UNCHANGED <<queue, sem, pc, batch, work, credentials, now, serves>>

\* A request has the refresher cache the tokens of a credential.
Serve(id) ==
  /\ serves < MaxServes /\ id \notin cached
  /\ serves' = serves + 1
  /\ cached' = cached \cup {id}
  /\ UNCHANGED <<queue, sem, table, pc, batch, work, store, stale, log, now>>

Init ==
  /\ queue = [jobs |-> 0, bytes |-> 0] /\ sem = {}
  /\ table = [j \in {} |-> NewReport(<<>>)]
  /\ pc = [j \in Jobs |-> "new"] /\ batch = [j \in Jobs |-> <<>>]
  /\ work = [j \in Jobs |-> NoWork] /\ log = [j \in Jobs |-> <<>>]
  /\ store = Seeded /\ cached = {} /\ stale = {}
  /\ now = 1 /\ serves = 0

Run(j) ==
  \/ TakeSlot(j) \/ LeaveQueue(j) \/ Begin(j) \/ NextFile(j) \/ ParseFile(j) \/ Overflow(j)
  \/ Persist(j) \/ Write(j) \/ Tell(j) \/ Finish(j) \/ Release(j)

\* Nothing is asked for any more.
Terminated == (\A j \in Jobs : pc[j] \in Resting) /\ UNCHANGED vars

Next ==
  \/ \E j \in Jobs : \/ \E files \in Uploads[j] : Start(j, files) \/ Refuse(j, files)
                    \/ Run(j) \/ Expire(j)
  \/ Tick \/ Get \/ \E id \in DOMAIN store : Serve(id)
  \/ Terminated

Spec == Init /\ [][Next]_vars

\* What a step of Run(j) does to its program counter. A goroutine that waits
\* for nothing runs on; one that waits for a slot is waited for by nobody who
\* could pass it for ever, since sends on a channel are served in order.
CanRun(j) ==
  \/ pc[j] \in Active \cup {"slot", "release"}
  \/ pc[j] = "queued" /\ Cardinality(sem) < Concurrency

Runs(j) == CanRun(j) /\ \E to \in Stages \ {pc[j]} : pc' = [pc EXCEPT ![j] = to]

FairSpec == Spec /\ \A j \in Jobs : WF_pc(Runs(j))

-----------------------------------------------------------------------------
(***************************************************************************)
(* Properties.                                                             *)
(***************************************************************************)
Waiting == {j \in Jobs : pc[j] \in Ready}
Holders == {j \in Jobs : pc[j] \in Active \cup {"slot", "release"}}

\* The type invariant: the count of queued jobs is never negative, the slots are
\* held by jobs and the marks are about cached tokens.
TypeOK ==
  /\ DOMAIN queue = {"jobs", "bytes"} /\ queue.jobs \in Nat /\ sem \subseteq Jobs
  /\ pc \in [Jobs -> Stages]
  /\ \A j \in DOMAIN table : table[j].status \in Final \cup {"queued", "running"}
  /\ stale \subseteq cached
  /\ now \in 1..MaxTime /\ serves \in 0..MaxServes

\* The queue's counters, changed by Start and by every worker, are exactly the
\* jobs between their acceptance and the moment their worker leaves the queue;
\* they and the slots in use keep within their limits.
JobsExact  == queue.jobs = Cardinality(Waiting) /\ queue.jobs <= MaxQueuedJobs
SlotsExact == sem = Holders /\ Cardinality(sem) <= Concurrency
BytesExact ==
  /\ queue.bytes = MapThenSumSet(LAMBDA j : Bytes(batch[j]), Waiting)
  /\ queue.bytes <= MaxQueuedBytes

QueueExact == JobsExact /\ SlotsExact /\ BytesExact

\* The entry a row of a file that parsed is about.
EntryOf(j, f, k) == Contents[batch[j][f]].list[k]

\* What a report says of every row is what the store did with that very entry:
\* a row is created or updated exactly when the store took the entry in, under
\* that id and as a new credential or not; a skipped row repeats an earlier
\* entry of the batch. A finished report has settled rows only, for every file,
\* and when it says completed every account of the batch was stored by the job.
ReportTruthful ==
  \A j \in DOMAIN table :
    LET report == table[j]
        rows(f) == report.files[f].rows
        Says(f, k, done) == /\ rows(f)[k].id = done.id
                            /\ rows(f)[k].status = IF done.created THEN "created" ELSE "updated"
                            /\ EntryOf(j, f, k) = done.in
    IN /\ \A f \in DOMAIN report.files : \A k \in DOMAIN rows(f) :
            /\ rows(f)[k].status \in Stored =>
                 \E i \in DOMAIN log[j] : Says(f, k, log[j][i])
            /\ rows(f)[k].status = "skipped" =>
                 \E g \in 1..f : \E l \in DOMAIN rows(g) :
                   /\ g < f \/ l < k
                   /\ ImportIdentity(EntryOf(j, g, l)) = ImportIdentity(EntryOf(j, f, k))
       /\ Finished(report) =>
            /\ \A f \in DOMAIN report.files :
                 rows(f) # <<>> /\ \A k \in DOMAIN rows(f) : rows(f)[k].status \in Settled
            /\ \A i \in DOMAIN log[j] : \E f \in DOMAIN report.files :
                 \E k \in DOMAIN rows(f) : Says(f, k, log[j][i])
            /\ report.status = "completed" =>
                 \A f \in DOMAIN batch[j] : \A e \in DOMAIN Contents[batch[j][f]].list :
                   \E i \in DOMAIN log[j] :
                     ImportIdentity(log[j][i].in) = ImportIdentity(EntryOf(j, f, e))

\* An access token that an import replaced is only in the cache until the
\* import that replaced it, or another one of the same credential, tells the
\* refresher.
StaleUntilTold ==
  \A id \in stale : \E j \in Jobs :
    pc[j] = "tell" /\ \E i \in DOMAIN work[j].stored : work[j].stored[i].id = id

\* Every job that Start accepts is finished in the end and gives back its slot.
JobsFinish == \A j \in Jobs : pc[j] \in Ready \cup Active ~> pc[j] = "done"
=============================================================================
