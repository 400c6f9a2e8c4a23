# A verification project for grokbuild-proxy

grokbuild-proxy is a Go server that offers OpenAI- and Anthropic-style APIs to
clients and serves them from a pool of OAuth credentials. All state is in JSON
files and in the memory of one process. This directory holds TLA+ models of the
parts where the order of events matters, TLC configurations that check them on
small instances, and TLAPS proofs for all instances of what matters most.

Source paths are relative to the repository; `executor.go:290` is a line of
`internal/proxy/executor.go`, and so on. `PROJECT.json` maps every definition
to the lines it stands for.

## 1. Inventory

### Components

| Component | State | Operations | What makes it correct |
|---|---|---|---|
| **Token refresh** (`auth/refresh.go`, callbacks in `executor.go:1027-1068`) | cache, generation, epoch per key, singleflight calls | EnsureAccess, ForceRefresh, Invalidate, InvalidateAll, persist | a rotating refresh token is never presented twice; a rotation is never dropped; an old login never overwrites a newer one; retries converge |
| **Selection: health** (`lb/selector.go`, `cooldown.go`) | states, inFlight, versions, persisted health | Pick, Release, MarkSuccess(Hold), MarkFailure, MarkQuotaExhausted, persistHealth | places counted exactly; stored health converges to the latest verdict whose save does not fail; cooldowns, as far as saved, survive restarts |
| **Selection: sticky sessions** (`lb/sticky.go`) | binding map, ring of slots | bindSticky, expiry, clearStickyForCred | the map stays within its bound |
| **Request execution** (`proxy/executor.go`) | one attempt loop per request; candidate cache | post, ListModels, GetBillingSnapshot, 401 retry, failover | token, record, route that are sent belong together; places are given back; a blamed credential is left alone |
| **Inspection** (`inspection/runner.go`, `storage.ApplyInspectionActions`) | current run, jobs, quarantine evidence | probe, refresh, confirm, reactivate, quarantine, purge | nothing is deleted without fresh evidence about its tokens; later changes win; an outage does not empty the pool |
| **Durable store** (`storage/store.go`) | primary and `.bak` of each document | atomicWrite, readJSONFile | a reader sees a whole version; a primary that is gone or no JSON costs at most one write, an empty one or JSON of another shape more |
| **Client keys, bootstrap secrets** (`storage/clients.go`) | clients.json, meta.json | EnsureBootstrapKeys, Create/Delete/SetClientDisabled | acknowledged grants and revocations last; reported keys are not replaced |
| **Runtime settings** (`settings/manager.go`) | settings, revision | Update, Replace, WithRevision | nothing is applied under settings it was not judged by |
| **Import jobs** (`importer/manager.go`, `auth/import_grok.go`, `storage.BulkUpsertCredentials`) | queue, slots, reports, the pending entries of a job | Start, run, parse, persist, finish, prune, Get | counters and slots match the jobs; a report tells what the store did; replaced tokens leave the refresher's cache; every job finishes |
| **SSE translation** (`anthropic/stream.go`, `thinking_stream.go`, `openai/chat_stream.go`, both `handlers.go`) | open blocks, calls, signatures, terminal flags | ProcessData, Finish, Fail, emitFinalOutput | whatever comes, the client's stream is well formed; every fragment once (reasoning without an id: section 4); the end is honest |
| **Pre-refresh** (`proxy/pre_refresh.go`) | due list, backoff | RunOnce | due credentials are refreshed; failures back off |
| **Device login** (`admin/device.go`) | session table | Start, Poll | one completion per session |
| **Admin API, HTTP server, OAuth client, protocol translation, upstream HTTP, configuration, web UI and side-car** | little or none | decoding, mapping, I/O | see "Not modelled" |

### How they interact

A request handler calls `Executor.post`, which lists candidates (a cache of
250 ms over the store), asks the Selector for one, the Refresher for a token,
and the store and the settings manager, several times, whether what it holds
is still current; then it sends, and reports a verdict to the Selector, which
persists health through the store. Admin handlers, import jobs and device logins
write credentials through the store and call Invalidate or InvalidateAll of the
Refresher around the write. The inspection runner uses the executor's probes and
writes a batch of verdicts through the store. All writes of the store go through
one mutex and one lock file; every persisted change of a credential gives it a
new revision.

### Hard behaviours

* Goroutines take decisions on records read earlier, from three caches
  (tokens, candidates, credentials), and only comparisons at the end catch it.
* A grant consumes the refresh token at the provider before the answer can be
  stored; invalidations, imports, crashes and lost answers fall in between.
* Verdicts of concurrent requests are persisted after the lock is released.
* The same content of an answer comes up to four times, in other events, in
  another order or behind the end, and a client must get it once.
* An import job counts, parses, drops duplicates, stores and reports over lists that
  do not match up one to one, with a deadline that may pass anywhere.
* Two files are written one after the other at start-up; the process may die or
  fail between any two file operations.
* Quarantine and purge are a long protocol over several runs and restarts with
  evidence that other writers can make stale.

`PROJECT.json` lists every such hazard at its line with the properties that
cover it, or the reason why none does.

## 2. Modules

| Module | Models | Runs | Proofs |
|---|---|---|---|
| `RefreshLease` | abstract: what token refresh promises per credential | (through TokenRefresh) | |
| `TokenRefresh` | Refresher, store of tokens, callers, admin operations, provider | `token_refresh`, `token_liveness`, `token_operator_edit` | `TokenRefreshProofs` |
| `Selector` | reservations, cooldowns, persistence of health, restarts | `selector`, `selector_limit` | `SelectorProofs` |
| `StickyRing` | sticky bindings and their ring | `sticky` | `StickyRingProofs` |
| `Executor` | the attempt loop around all of them | `executor` | `ExecutorProofs` |
| `Inspection` | runs, probes, verdicts, purge | `inspection`, `inspection_evidence` | `InspectionProofs` |
| `AtomicDocument` | abstract: what the store promises of one file | (through ClientStore) | |
| `ClientStore` | atomicWrite/readJSONFile step by step; client keys and start-up on top | `client_store` | `ClientStoreProofs` |
| `ResponsesStream` | the upstream's events (external), disciplined or not | (through Streams) | |
| `ClaudeClient` | abstract: the automaton of a Messages API client | (through Streams) | |
| `AnthropicStream` | StreamTranslator and the handler of /v1/messages | (through Streams) | `StreamsProofs` |
| `ChatStream` | chatStreamTranslator and the handler of /v1/chat/completions | (through Streams) | `StreamsProofs` |
| `Streams` | composes the upstream with either handler | `streams` | `StreamsProofs` |
| `GrokAuthFile` | the early count and the parsers of an uploaded document | (through ImportJobs) | |
| `ImportJobs` | queue, workers, the batch write, the hooks around it, reports | `import_jobs` | `ImportJobsProofs` |

`MCx` extends `x` with symmetry sets, uploads or items for TLC. Nothing else is redefined
for a run; bounds are constants of the modules.

### TokenRefresh and RefreshLease

A token set is a pair of serial numbers. `disk` is the stored pair, `cache`,
`generation` and `keyEpoch` are the Refresher's fields, `flights` are the
singleflight calls by group key, `caller` and `admin` the goroutines. One
action per step between two points where other goroutines can run: a caller
reads (`Begin`), looks in the cache (`EnsureAccess`), captures the generations
(`Capture`), joins or starts the flight (`Join`); the flight borrows from the
cache, loads, checks, sends, persists, commits and delivers. An admin operation
is a first invalidation, a write and a second invalidation (`StartOp`,
`WriteOp`, `FinishOp`), with the kind deciding which of them it does. `spent`,
`reused` and `lost` are the provider's and the history's view. Expiry is a
choice: a token may be found stale at any look.

`RefreshLease` says the same without caches, epochs, callers: the durable
refresh token is leased to at most one grant, which presents it, and stores the
answer if the token is still the durable one. `ImplementsLease` is the
refinement, with the lease read off the flight's stage.

### Selector

`states`, `inFlight` and `durable` are the selector's maps and the stored health
fields; a worker goes through Pick, the verdict, the version check, the patch
under `persistMu`, and the close of the body. Which available credential the
strategy prefers is left open, and the jitter of the cooldown is left out; a tick
is an arbitrary unit, `Second` of them make a second. `owed` records how long the latest verdict wants no
traffic.

Memory keeps the exact end of a cooldown, the store the end cut to whole seconds
(`Snapshot`, `selector.go:241`, `282`; the inspection's `credentials.go:838` too). The patch may
fail (`PatchFails`): `persistHealth` throws the error of PatchCredential away (`selector.go:319`),
the store keeps what it had, and nobody tries again before the next verdict. `failed` records for
which credentials that is the last thing that happened. The two properties name what follows from
it: `HealthConverges` says nothing of such a credential, and for `CooldownServed` a restart leaves
of its cooldown only what is stored, perhaps nothing; a restart also takes the part of a second.
DESIGN.md:27 has "credential health across restarts" as a goal and does not say what becomes of it
when a write fails.

### StickyRing

The map, the slots and the cursor as in `sticky.go`; `Bind` is `bindSticky` with
its eviction, `MarkFailure` is `clearStickyForCred`, and expiry happens on `Pick`.

### Executor

A request is a record: where it is in its attempt, which credential it took,
what it tried and blamed, and the copies it holds (`token`, `bound`, `verified`,
`before`, `client`, `after`, `seen`). A stored record is a revision, a token set and two
flags; the route is the settings' revision. Each read of the store or of the
revision is a step of its own, so a record or the settings may change between
any two. EnsureToken and ForceRefresh return any token, rotate or not, fail or
are invalidated: how they really behave is TokenRefresh's business. `post`,
`ListModels` and `GetBillingSnapshot` share the steps, and differ where the code
does: who is blamed, who is tried again, whether a disabled credential will do.
`Noted` is `observeRateLimit` and `touchLastUsed`, which bump the revision of the
very record other requests are comparing. `Recheck` and `Decide` take a read of
the record and the read of the route that follows it as one step; a change
between the two is no different from one before or after both.

### Inspection

A run reads the revision and then the settings, lists candidates, probes them
with at most `Concurrency` workers, and applies the batch. A job records the
tokens of its first 401, of the terminal refresh failure (`dead`) and of the
last read (`seen`). Answers that leave a credential alone (429, 402, 5xx, errors) are one
outcome, "undecided". The revision is counted afresh in each run, which only
makes the state space finite: revisions are compared within one run. The
cooldown that a 429 writes is `Selector`'s `Inspect`; the invalidations around a
purge are `TokenRefresh`'s delete operation.

### ClientStore and AtomicDocument

`files[f]` has a primary and a backup. A primary is a whole document, missing, empty, no
JSON (`corrupt`), or JSON that does not decode into the document (`misshapen`); damage that
leaves a document of the right shape is, to the store, a version like any other. An operation reads, decides, and then per file backs up (`WriteBackup`)
and renames (`Rename`); `Fail` is any failing system call, `Crash` the death of
the process, `Damage` what a disk or a person does to a primary. `Boot` is
EnsureBootstrapKeys: it resolves the keys, registers the API key unless meta.json says that
it was registered before, and writes clients.json, then meta.json; a start configured with one
key for both is refused only after that (`Refuse`, main.go:102). `promise[k]`
is what was acknowledged about a key.

`AtomicDocument` is the contract of one file: a commit needs the replaced version in
reserve, and a primary that is gone or no JSON exposes the reserve (`Damage`, `Misshape`), so
that one write is lost at most. Two actions of their own say where the code does less: `Empty`,
as a primary of length zero reads as an empty document whatever the backup holds, and `Spoil`, as
JSON of another shape is taken for a good version (`json.Valid`, store.go:246) and replaces the
backup at the next write, so that nothing can be read if that write then fails. `ImplementsDocument` holds
the contract against each file. The other modules rely on it when they treat a locked
read-modify-write of credentials.json as one step.

### ResponsesStream, AnthropicStream, ClaudeClient, ChatStream, Streams

The upstream's answer is a set of output items (messages, calls, reasoning), each
of `Full[i]` fragments. An event names its type, its item and how many fragments
it carries; the events are those the translators have a case for. An orderly
upstream (`MaySend`) sends every fragment in its place, in deltas and again in
done events or in the terminal event, as it likes; reasoning items come one at a time, and
what has not been conveyed before the terminal event is in its `Output`. An item may lack an id
(`Anonymous`, at most one message and one reasoning item): its key in the terminal event's output
is then another than in its events (`Key`, `FinalKey`). Any other may send `MaxStray`
arbitrary events at any time, also behind the end. Which of the two the
upstream is, is chosen at the start.

`tr` and `chat` are the translators, with `wire`: what the client has
understood of the events written so far. `ClaudeClient` is the automaton of a
Messages API client, fed by each write; `ok` falls at the first write that it
does not allow. An upstream event, with everything written for it, is one step,
as the handler reads the next line only then; only `emitFinalOutput` takes a step per
item. Helpers are functions from one translator state to the next, composed in
the handlers' order. A failed write ends the handler with the client left at a
prefix of what has been judged, so it needs no action. `Translated` and
`ChatTranslated` are what TranslateResponse and ResponsesToChat make of the same
answer, as far as the streamed answers must agree with it; `TranslatedReason` is `mapStopReason`, for
any reason the response may give of its own.

`ChatWholeBody` is `writeChatSSEFromCompletion`: the upstream has answered with a JSON body, which
becomes one chunk. Left out: text itself, ids, usage and model names; keep-alive comments.

### GrokAuthFile and ImportJobs

A document is its shape: an array of entries, an object of members in their order
and with repeated names, cookies, or nothing that parses. `CountEntries` is the
count that stops early, `Parse` the parse itself, and they may differ; `ParseSSOValues`
is the other parser, tried in the order of the code.

`pc[j]` is where the goroutine of job j is; `Start` takes a free slot or a
place in the queue, and a worker takes its slot before it leaves the queue (`TakeSlot`,
`LeaveQueue`). One action per step between two points where a reader or another
job can look or run: a file's parse with its progress report, the
invalidation before the write (`Persist`, BeforeStore), the write (all of the batch or
nothing), the invalidation after it (`Tell`, OnStored), the report, the slot.
`Expire` is the job's deadline. The upsert of a batch is a fold over its inputs,
with the rules of identity of `sameCredentialIdentity`. `cached` and `stale` stand for
the refresher's cache: `Serve` is a request that has it cache a credential's
tokens within one step; the races inside a refresh are TokenRefresh's. `Pruned`
is `pruneLocked`, which every update and read runs; reports finished in the same
second are in no order. The size of a report is its number of rows. `log` is the
history of what the store did for each job.

## 3. What the runs check

| Run | Shows | Bounds, and why they are enough |
|---|---|---|
| `token_refresh` | `NoReuse`, `RotationKept`, `NewestLoginWins`, `ImplementsLease` | one caller, one admin, two operations or edits, one fault, three serials: a flight can outlive its caller (Abandon), so a second flight with other generations and a third party are there; two operations make import-during-flight-after-delete reachable. All four are proved without bounds. |
| `token_liveness` | `CacheRepaired`, and `CallersFinish` under `FairSpec`, without operator edits (see Findings) | one admin operation, one fault, four serials. Instances that took too long for a regular run found no error either: two operations of one admin with a fault (1.46 million states), and two admins whose operations overlap (for `CacheRepaired` with a fault, for `CallersFinish` without): the least that lets InvalidateAll reset an epoch that a flight remembers. `CacheRepaired` is proved without bounds. |
| `sticky` | `Bounded`, `EveryBindingSlotted` | four keys for three slots: the ring wraps, and a key can own two slots; proved for all sizes |
| `selector` | `ReservationsExact`, `HealthConverges`, `CooldownServed` | three workers for two places, three verdicts (two that race and one that corrects), one failing save, one restart, seconds of two ticks (some cooldowns end on a second, some in the middle). The properties are per credential, so one is enough. |
| `executor` | `SentAsStored`, `PlacesReturned`, `BlamedNotRetried` | two requests, two credentials, two attempts, one change of a record or the settings at any point, any initial records; all four theorems hold for any number |
| `inspection` | `QuarantineCoherent`, `PurgeJustified`, `LaterChangeWins`, `SettingsInForce`, `GuardHolds` | two credentials with a guard that needs both, two edits, one refresh, time for a retention of one tick and two further runs; all are proved for any number of credentials, edits and runs |
| `client_store` | `GrantsKept`, `RevocationsKept`, `SecretsKept`, `ImplementsDocument` | two API keys (rotate away and back), one of which may be the admin key too, two generated keys, two edits, two crashes or failures between them, one ruined primary of any of the four kinds: 1.8 million states; all are proved for any numbers |
| `streams` | `AnswerWellFormed`, `ChatWellFormed`, `AnswerComplete`, `ChatComplete`, `EndIsHonest` | one message without an id, one call, two reasoning items, one of them with a signature and without an id, two stray events, all three thinking modes: 3.0 million states. Two reasoning items are the least that can come behind one another through the one buffer the code has for them, and one without an id is met under both its keys. Instances in which a reasoning item has two fragments, so that it can be split between a delta and a done event, were clean too: 5.3 million states, and 5.9 million with both items signed. All are proved for any items and any number of events. |
| `import_jobs` | `QueueExact`, `ReportTruthful`, `StaleUntilTold`, and `JobsFinish` under `FairSpec`; deadlock | three jobs for one slot and two places, of every kind of upload: duplicates across files and with stored accounts, invalid entries, entries hidden from the early count, files that do not parse, cookies: 362 thousand states. Two slots (2.2 million states) were clean too. The three safety properties are proved for any jobs, uploads and limits. |
| `token_operator_edit`, `selector_limit`, `inspection_evidence` | see Findings | |

`CHECK_DEADLOCK FALSE` stands in the runs of TokenRefresh, Selector, ClientStore
and Streams: their executions end when the bounds (serials, operations, verdicts,
crashes) are used up, the last credential is deleted, or the answer is over. The others are checked for deadlock.

**Fairness.** `token_liveness`, `token_operator_edit` and `import_jobs` use it. `FairSpec` of
TokenRefresh is weak fairness for the steps of a caller, of a flight and of an
admin operation. A goroutine that can run does run; the flight's context has
a timeout, so the provider's answer or an error comes; locks are held for
short sections. Nothing is assumed of new requests, of expiry, of faults or of
operators. A caller in the model may retry as long as it is invalidated: it stands for the
requests that keep coming for a credential, each of which has ten attempts.

`FairSpec` of ImportJobs is weak fairness for the steps of each job's goroutine
(`Runs`). A job that waits for a slot needs no strong fairness: sends on a Go
channel are served in order, so nobody passes it for ever; with the three jobs of the
run, the two ahead of it are all there is. Nothing is assumed of
uploads, readers, requests, the clock or the deadline. `Runs` names the jobs that can
run by their program counter, which is cheap for TLC; that such a job indeed has
a step is what the deadlock check of the same run shows: everything around the
jobs is bounded, and an execution may end only in `Terminated`, with all jobs at rest.

Each property of a passing run has a mutant, a definition `...` of the module
that changes one mapped definition as a plausible slip would (a forgotten
comparison, a second invalidation left out, a wrong order of writes, an
off-by-one); TLC finds the property violated under it.

## 4. Findings

Three runs are expected to end in a counterexample; each is a place where the
code does something else than its comments or docs say.

* **An edit of credentials.json is never picked up by the token cache**
  (`token_operator_edit`, `CallersFinish`). The flight finds that the cached pair differs
  from the stored one, answers ErrRefreshInvalidated and leaves the cache entry;
  every retry borrows the same entry. It ends with a restart or an admin
  operation on the credential.
* **An exhausted success frees its place while its body is open**
  (`selector_limit`, `OpenWithinLimit`). `markQuotaExhausted` replaces `markSuccess`, and so
  the hold that "a real per-credential concurrency limit" requires.
* **A quarantine may rest on evidence about other tokens**
  (`inspection_evidence`, `QuarantineJustified`). The terminal refresh failure may be of
  the tokens before an import, the last 401 of those after it. Purge is not
  affected: `PurgeJustified` holds.

More observations, without a run. `docs/operations.md:44-45` says "If a primary JSON file is
truncated or corrupt, the proxy reads its `.bak` snapshot"; a primary truncated to length zero is read as an empty
document without a look at the backup (`store.go:312`), everything in it is lost to
readers, and the second write after that replaces the backup as well. A primary that is JSON but not the
document's costs the backup at the next write (`store.go:246`). Both are disagreements of
code and docs, not part of what `ImplementsDocument` promises: they are the contract's actions `Empty` and `Spoil`. After damage, the backup may also bring back a
key whose deletion was acknowledged, so the three properties of client keys
are stated for undamaged files. And every patch of a record, also another
request's `last_used` note, fails the verification of a request under way and
costs it one of its attempts (`executor.go:299`).

Of streams: reasoning without an id is written twice. Its events are remembered under their index or
"default" (`thinking_stream.go:168-183`), the terminal event's output asks under "final-reasoning-n" (`stream.go:691-694`),
and so the summary and the signature that the events have brought are written once more, as a block of their
own; `AnswerComplete` says "once or twice" for these items (`Said`) and "once" for all others. The stream ends by
its calls and its status alone (`stream.go:664-668`), TranslateResponse also by the response's `stop_reason` and
`incomplete_details` (`translate_resp.go:268-307`): an incomplete answer for "content_filter" is a "refusal" when it is not streamed
and "max_tokens" when it is. `AnswerComplete` claims that the two agree for every reason that says no more than the
status does (`Plain`); the others (`Special`, or against the status) are where they differ. A second text part of a message, and a second message whose text comes
only in the terminal event, are dropped (`stream.go:701`), so `AnswerComplete` assumes one part
per message and no more than one such message. An incomplete answer with calls ends as
"length" when it is streamed by the chat endpoint and as "tool_calls" when it is not. What an
upstream sends behind its terminal event is passed on, behind the end of the client's stream
too (`chat_stream.go:152`); `EndIsHonest` therefore says that nothing follows the end only for an upstream that
stops there.

Of imports: one invalid entry, or an error of the store, fails every pending entry of
the batch, as they are stored by one write or not at all, while DESIGN.md:190-191 says that batch imports
"validate first, then commit successful credentials"; a duplicate is reported as skipped also when the entry it repeats then fails, so
that a report may be "partial" although nothing was stored; a repeated token field in an object hides
its entries from the early count, and the second check after the parse catches them; the
write may still happen just after the deadline, which is only looked at before it; the
report of the job that just finished may be the one that is dropped, when others finished in
the same second; and Start may refuse a batch while a job holds its slot but has not left the queue yet.

## 5. What is proved

TLAPS checks the following for every value of the constants. The assumptions
are named ASSUMEs of the modules: bounds are natural numbers, `Creds` is not empty
(TokenRefresh, Selector), the ring has at least one slot and bindings some time to live
(StickyRing), no configured key is one that is generated (ClientStore),
there are finitely many requests (Executor, Selector), jobs (ImportJobs) and credentials
(Inspection), what an uploaded document lists is in an order and files have a size (ImportJobs), and items of
different kinds are different items with some content, of which at most one message and one
reasoning item lack an id (ResponsesStream).

* **`TokenRefreshProofs`**: `TypeCorrect`, `SpentTokensNotReused` (`NoReuse`),
  `RotationsKept` (`RotationKept`). Neither of the two is inductive: that a flight
  may send its token says nothing of where the token came from. The
  invariant `LeaseInv` (theorem `LeaseInvariant`) adds that the token of a flight
  between its load and its send is unspent, or a fault destroyed its successor; that
  what a flight is about to persist is unspent; and that serials are drawn
  from the counter, so a new one has not been spent. One lemma per step of the
  flight, and two that dispose of the steps and the credentials that a step does
  not touch. From the same invariant follow the action property `NewestTokenKept`
  (`NewestLoginWins`) and the refinement `RefreshIsLeased` (`ImplementsLease`): initial states map to
  initial states, and every step is a step of the lease or leaves it alone.
  `CacheComesRound` (`CacheRepaired`) has the hypothesis that nobody edits credentials.json,
  without which it is false (see Findings). `RepairInv` says that a cache entry which differs from
  the stored tokens is about to be dropped by an admin operation that has written, or replaced by a
  flight about to commit what it stored; that a flight overtaken by an invalidation after its
  check leaves an empty cache behind; and that the generations anybody holds have been in force,
  so that an invalidation retires them.
* **`SelectorProofs`**: `SelectorTyped` (`TypeOK`), `PlacesCounted` (`ReservationsExact`),
  `LatestVerdictStored` (`HealthConverges`) and the action property `CooldownsServed`
  (`CooldownServed`). The invariant has two halves. `Counted` is the
  places: its lemmas say that taking, keeping and giving back a place change the set of holders
  by one request or none. `Judged` is the verdicts: a verdict under way is older than the
  selector's or equal to it (`Dated`), there is one writer (`OneWriter`), and the latest verdict is
  under way or stored with nobody about to replace it (`Saved`): when an outdated one is
  in the middle of its patch, the latest must still be waiting behind it. `Owed` says that everything a
  pick may look at, the selector's memory or, while it has none, the store, the cached list and
  every copy of it, shows a cooldown no shorter than the one owed, and that the store has the whole
  seconds of it once a save has ended well; that cutting to seconds keeps the order of
  times is the lemma `TruncatedOrder`.
* **`StickyRingProofs`**: `RingTyped`, `SlotsCover` and `BindingsBounded`. The invariant is
  `TypeOK /\ EveryBindingSlotted`: as every binding has a slot, the keys of the map are an
  image of a subset of the slots, and `Bounded` is cardinality. A bound on the
  map alone is not inductive, as evicting a slot whose key is already gone
  removes nothing.
* **`InspectionProofs`**: `InspectionTyped` (`TypeOK`), `QuarantineStaysCoherent`
  (`QuarantineCoherent`), `LaterChangesWin` (`LaterChangeWins`), `SettingsAreInForce`
  (`SettingsInForce`), `PurgesAreJustified` (`PurgeJustified`), `MassFailureGuarded` (`GuardHolds`).
  `InspectionInv` says of a credential that it bears all the marks of quarantine or none, with
  a deadline no sooner than a retention after it began (`CredOK`); of the run, that it holds the
  settings of the revision it read (`RunOK`); and of a job that what it has read is the
  present record exactly if nobody has written since, and that the tokens a 401 was seen for
  lie between the ones it was given and the ones it read last (`JobOK`). The last point is what
  separates a purge from a quarantine: the evidence for a purge is about the very
  tokens that are deleted.
* **`ClientStoreProofs`**: `TypeCorrect`, `DocumentsAtomic` (`ImplementsDocument`), `GrantsAreKept`,
  `RevocationsAreKept`, `SecretsAreKept`. For the refinement the strengthening is `BackedUp`: a
  whole primary about to be replaced equals its backup. The refinement covers a damaged primary of every
  kind, with `Empty` and `Spoil` as the steps of the two kinds the backup does not answer. Initial states map to initial states, and
  every step is a step or a stutter of each file's contract. `KeptInv` carries the other three:
  a document that is about to be written differs from the stored one in one record, about which
  nothing contrary has been promised, and start-up writes the keys before the secrets, so that
  also secrets in meta.json which have not been reported yet name keys that are stored.
* **`ExecutorProofs`**: `TypeCorrect`, `SendsSnapshots` (`SentAsStored`),
  `NoPlaceLeaks` (`PlacesReturned`), `BlameLasts` (`BlamedNotRetried`). The invariant says of
  each request, by its stage, that the bound record fits the token and still is the
  stored one if its revision is (`Fits`), that the reads of the route are in
  order (`Routed`), and that blamed credentials stay tried (`Blames`). All three
  survive steps of others because records and settings only move on to new
  revisions (`Advances`, `GoodStays`); then each step of the request is one
  lemma. The type of `reserved` needs `PlacesReturned`: only because a request
  that holds a place is counted does giving it back stay above zero.
* **`StreamsProofs`**, for any items, any content and any number of events.
  `AnthropicWellFormed` (`AnswerWellFormed`) also for an upstream without discipline. The invariant `Good`
  relates the translator's books to the client's: the flags (`Flagged`), the number of blocks (`Counted`),
  each registered block is one of the client's and open until it is stopped (`Shown`), no two
  share an index (`Apart`), the thinking block is open (`Thinks`), and nothing else is open
  (`Accounted`). Each helper preserves it, and the handlers are compositions of helpers.
  `ChatAnswerWellFormed` (`ChatWellFormed`) with `ChatGood`: each registered
  call has been announced at its index. In the middle of an event one call may be registered and not
  yet announced (`Announcing`), and every path through the event announces it.
  `EndsAreHonest` (`EndIsHonest`) with `HonestInv`: while the answer of an orderly upstream is read,
  the translator has ended exactly if the upstream has; the only event that finds it
  ended is "[DONE]", which changes nothing then. `StreamsTypeCorrect` (`TypeOK`), where the
  bounds on what has been sent come from the upstream's discipline. `ChatAnswerComplete` (`ChatComplete`)
  rests on both and on `ToldInv`: how much the client has of an item is determined by what the
  upstream has sent of it and by two flags, `sawArgs` (what it has is what the deltas said) and
  `finalized` (it has everything). The hard case is a call whose announcement carried its
  arguments: the upstream has conveyed them, the client has none, and the "done" event must bring them.
  `MessagesAnswerComplete` (`AnswerComplete`) rests on the same two and on `CompleteInv`. `Booked` keeps the
  registered blocks and the client's blocks of text and tools one to one, one for each item. While the answer is
  read (`InReading`), what the client has of an item is what the upstream has sent of it, less the
  summary that the thinking mode hides, and a thinking block or signature in hand is that of the one
  reasoning item under way (`InHand`): that is where the discipline is needed, as the code has one buffer for
  all reasoning items. From the terminal event on (`Outstanding`) each item is either whole with the client or
  untouched and still among those `emitFinalOutput` will look at. The proof treats text and calls
  (a helper changes one item and no reasoning, `OnlyAbout`) apart from reasoning (`Aside`), each
  helper with what it does to `Held`, how much of an item the client has, or to `Minded`, what the
  buffers hold. Behind the terminal event the lemma on reasoning (`FinalReasoningDelivers`) starts from what the
  item's events have told already, nothing or all of it, which is why an item with two keys ends up with
  one copy or two and never with a part. It does not need `Output` to list each item once: an item that comes again is found delivered.
* **`ImportJobsProofs`**: `ImportsTyped` (`TypeOK`) and `ReplacedTokensTold` (`StaleUntilTold`), with `JobsInv`:
  a job's place in the queue or slot is determined by its stage, and what is stale was stored by a job
  that is about to tell. `QueueCountedExactly` (`QueueExact`): the count of the jobs follows from
  `JobsInv` alone (`QueueCounted`); the bytes are a sum over the jobs that wait. Such a sum, and a sequence built
  entry by entry, is a fold. The induction that takes is the module's first lemma, `Induction`,
  from the well-foundedness of the strict subsets of a finite set: a set of numbers
  without a least missing one is all of them. From it follow that a fold over a finite set has a value
  of its type, that it does not depend on the order chosen (`FoldsAgree`), and what adding or removing
  one element does to it.
  `ReportsTruthful` (`ReportTruthful`) with `TruthInv`, which says what the goroutine of a job
  knows of its batch while it works (`WorkOK`): the queued rows and the pending entries are one to
  one, a skipped row repeats an entry that came before it, every entry of a file read so far
  is among the pending ones unless a row of the file failed, and each file's report shows
  the file's rows in the state of the work. `ReportTruthful` alone is not inductive: it says nothing of
  the entries that wait for the write, whose rows get their marks only after it, and a batch that
  is rejected as a whole must not have told the store anything yet. The lemmas about the operators carry
  most of it: `Parse` yields a sequence of entries for any document, and the fold of the upsert
  answers the pending entries one by one (`UpsertAnswers`).

Only model-checked, besides the three findings: `CallersFinish` and `JobsFinish`, as liveness under fairness and
ENABLED are out of the prover's reach. Every other property of the passing runs is a theorem.

## 6. What is not modelled, and why

* **TokenRefresh**: the creation of credentials (a new one gets a fresh random id, so
  it meets no older state); an import of an export older than the stored tokens, which
  the code stores like any other.
* **Selector**: `pickByStrategy` and `quotaPreferred`; credentials that are deleted while a
  verdict is saved; LastError and LastSuccessAt.
* **Executor**: `billingFlight`, which shares one billing call between waiters; the clock
  of the candidate cache (a request starts from any set of candidates); bodies.
* **Inspection**: which eligible credentials a bounded run takes; progress, summaries,
  notification.
* **Store**: power loss and the order in which a disk makes writes durable (a
  crash is a crash of the process); temporary files left behind; the cache of
  credentials and its file stamps.
* **Client keys**: an operator who configures a key the program once generated; `SetClientDisabled` has no
  caller in production and is modelled as the API it is.
* **Streams**: what is listed under the module; the relay of /v1/responses, which has no state
  but the line it passes on.
* **ImportJobs**: the refusals of `Start` for a single file (too large, blank, of an unknown format), which
  touch nothing; warnings, proxy and priority of an entry, the revision of a stored credential, the wiping
  of uploaded bytes, and the older import endpoint, which starts a job and polls it.
* **Parsers**: the fields of an entry one by one and their time formats; an entry has tokens
  or not, is sound or not.
* **Components left out**: the admin API (what it does to tokens and routes is in
  TokenRefresh), the HTTP server (a semaphore, a one-second readiness
  cache), OAuth and upstream HTTP (their answers are choices of the
  modelled callers), the translation of requests (mappings of documents
  without state), configuration, the web UI and the Python side-car.

## 7. Plan

Done: token refresh and its lease, selection, sticky ring, inspection, store and client
keys, request execution, streams, import jobs. Left, in order:

1. `PreRefresh`: the due list and the backoff per credential of `pre_refresh.go`, whose workers
   are callers of TokenRefresh; with it the session table of `admin/device.go`, where two polls
   overlap.
2. The selection strategies (`pickByStrategy`, `quotaPreferred`) as operators against a
   reference definition.
3. The credential cache of the store and its stamps, below ClientStore's document.
