---------------------------- MODULE ClientStore -----------------------------
(***************************************************************************)
(* The durable store's JSON files (internal/storage/store.go) under the    *)
(* client keys and bootstrap secrets kept in two of them (clients.go):     *)
(* every write as its backup and rename, start-up as a pair of such        *)
(* writes, crashes and failures between any two steps, and damage to a     *)
(* primary file from outside.                                              *)
(*                                                                         *)
(* The store runs each operation under its lock and the instance lock      *)
(* keeps a second process out (New, withLock), so one operation at most is *)
(* under way.                                                              *)
(***************************************************************************)
EXTENDS Naturals

CONSTANTS
  ApiKeys,      \* keys an operator may configure as api_key
  AdminKeys,    \* ... and as admin_key
  Pool,         \* keys that generateSKKey may draw
  NoKey,
  MaxEdits,     \* bound: admin operations on client keys
  MaxFaults,    \* bound: crashes and stops of the process, failed file operations
  MaxDamage     \* bound: primaries damaged from outside

Keys == ApiKeys \cup Pool          \* keys of clients

ASSUME ConstantsOK ==
  /\ NoKey \notin Keys \cup AdminKeys
  /\ Pool \cap (ApiKeys \cup AdminKeys) = {}
  /\ {MaxEdits, MaxFaults, MaxDamage} \subseteq Nat

VARIABLES
  files,       \* the primary and the backup of each JSON file
  op,          \* the operation that holds the lock
  up,          \* whether a process has started and serves
  used,        \* the keys drawn so far
  promise,     \* history: what the store has acknowledged about each key
  reported,    \* history: the secrets of the last successful start
  attempted,   \* history: the secrets of every start since, and `reported`
  edits, faults, damage   \* counters against the bounds

budget == <<edits, faults, damage>>
history == <<promise, reported, attempted>>
vars == <<files, op, up, used, history, budget>>

Files == {"clients", "meta"}
Statuses == {"none", "active", "disabled"}
Secrets == [api : Keys \cup {NoKey}, admin : AdminKeys \cup Pool \cup {NoKey}]

Kinds == {"none", "boot", "create", "delete", "disable", "enable"}

\* The documents: the status of each key; the bootstrap secrets.
Documents == [clients |-> [Keys -> Statuses], meta |-> Secrets]
Fresh == [clients |-> [k \in Keys |-> "none"], meta |-> [api |-> NoKey, admin |-> NoKey]]

Whole(doc) == [tag |-> "whole", doc |-> doc]
Bare(tag, f) == [tag |-> tag, doc |-> Fresh[f]]

\* What may become of a primary: gone, of length zero, no JSON, or JSON that
\* does not decode into the document.
Ruins == {"missing", "empty", "corrupt", "misshapen"}

Versions(f) == [tag : {"whole"}, doc : Documents[f]]
Contents(f) == Versions(f) \cup {Bare(tag, f) : tag \in Ruins}
Backups(f)  == Versions(f) \cup {Bare("missing", f), Bare("misshapen", f)}

Undecodable(f) == Bare("unreadable", f)

\* readJSONFile: the primary; the backup when it is missing or does not decode.
\* A primary of length zero is a fresh document.
Read(f) ==
  LET main == files[f].main
      bak  == files[f].bak
  IN  IF main.tag \notin {"whole", "empty"} /\ bak.tag = "whole" THEN bak
      ELSE IF main.tag \in {"corrupt", "misshapen"} THEN Undecodable(f)
      ELSE Whole(main.doc)

Readable(f) == Read(f).tag = "whole"
Clients == Read("clients").doc
Meta == Read("meta").doc

\* LookupClientByPlaintext.
Authenticates(k) == Readable("clients") /\ Clients[k] = "active"

\* The files once f has this primary and this backup.
Store(f, main, bak) ==
  [g \in Files |-> IF g = f THEN [main |-> main, bak |-> bak] ELSE files[g]]

\* The operations, and what is left of their writes.
Operation(kind, key, todo, docs) ==
  [kind |-> kind, key |-> key, todo |-> todo, docs |-> docs,
   stage |-> IF todo = {} THEN "return" ELSE "backup"]
Idle == [Operation("none", NoKey, {}, Fresh) EXCEPT !.stage = "none"]

-----------------------------------------------------------------------------
\* EnsureBootstrapKeys' choice of a key: configured, or stored, or generated.
Resolve(configured, stored) ==
  IF configured # NoKey THEN {configured}
  ELSE IF stored # NoKey THEN {stored}
  ELSE Pool \ used

\* Mutant of Register: whatever meta.json says.
RegisterAlways(api) == Clients[api] = "none"

\* A key is registered on first use or explicit rotation; a record deleted
\* since then stays deleted.
Register(api) == Clients[api] = "none" /\ Meta.api # api

\* Mutant of Stale: only the API key is compared.
StaleApi(secrets) == secrets.api # Meta.api

\* meta.json is to be rewritten.
Stale(secrets) == secrets # Meta

\* What a start promises of its API key: it works, unless it was revoked; a
\* key deleted earlier comes back only by rotating to it from another.
Reopen(api) ==
  IF Clients[api] # "none" THEN promise[api]
  ELSE IF reported.api # api THEN "new"
  ELSE IF \E secrets \in attempted : secrets.api # api THEN "open"
  ELSE promise[api]

\* New and EnsureBootstrapKeys: which of the two files are to be written. Two
\* keys drawn at random differ; an operator may configure the same key twice.
Boot(configuredApi, configuredAdmin) ==
  /\ ~up /\ op = Idle
  /\ Readable("clients") /\ Readable("meta")
  /\ \E api \in Resolve(configuredApi, Meta.api),
        admin \in Resolve(configuredAdmin, Meta.admin) :
       LET secrets == [api |-> api, admin |-> admin]
           todo == (IF Register(api) THEN {"clients"} ELSE {})
                   \cup (IF Stale(secrets) THEN {"meta"} ELSE {})
       IN /\ api = admin => api \notin Pool
          /\ op' = Operation("boot", api, todo,
                     [clients |-> [Clients EXCEPT ![api] =
                                     IF Register(api) THEN "active" ELSE @],
                      meta |-> secrets])
          /\ used' = used \cup ({api, admin} \cap Pool)
          /\ promise' = [promise EXCEPT ![api] = Reopen(api)]
          /\ attempted' = attempted \cup {secrets}
  /\ UNCHANGED <<files, up, reported, budget>>

\* CreateClient, DeleteClient, SetClientDisabled: read, change, write.
Edit(kind, k, from, to) ==
  /\ up /\ op = Idle
  /\ Readable("clients") /\ Clients[k] \in from
  /\ edits < MaxEdits
  /\ op' = Operation(kind, k, {"clients"},
             [clients |-> [Clients EXCEPT ![k] = to], meta |-> Fresh["meta"]])
  /\ edits' = edits + 1
  /\ UNCHANGED <<files, up, reported, attempted, faults, damage>>

CreateClient(k) ==
  /\ k \in Pool \ used
  /\ Edit("create", k, {"none"}, "active")
  /\ used' = used \cup {k}
  /\ UNCHANGED promise

\* A key about to be revoked may stop working; whether it has is known when
\* the operation is acknowledged.
Revoke(kind, k, to) ==
  /\ Edit(kind, k, {"active", "disabled"}, to)
  /\ promise' = [promise EXCEPT ![k] = IF @ = "revoked" THEN @ ELSE "open"]
  /\ UNCHANGED used

DeleteClient(k) == Revoke("delete", k, "none")
DisableClient(k) == Revoke("disable", k, "disabled")

EnableClient(k) ==
  /\ Edit("enable", k, {"active", "disabled"}, "active")
  /\ promise' = [promise EXCEPT ![k] = "open"]
  /\ UNCHANGED used

-----------------------------------------------------------------------------
(***************************************************************************)
(* atomicWrite: a synced temporary file, the backup, the rename.           *)
(***************************************************************************)
\* Mutant of Current: the secrets before the key they name.
MetaFirst == IF "meta" \in op.todo THEN "meta" ELSE "clients"

Current == IF "clients" \in op.todo THEN "clients" ELSE "meta"

\* Mutant of BackUp: any primary there is.
BackUpUnlessMissing(f) ==
  IF files[f].main.tag # "missing" THEN files[f].main ELSE files[f].bak

\* Another: no backup at all.
NoBackUp(f) == files[f].bak

\* Only valid JSON may replace a backup; whether it is the document's is not
\* asked.
BackUp(f) ==
  IF files[f].main.tag \in {"whole", "misshapen"} THEN files[f].main ELSE files[f].bak

WriteBackup ==
  /\ op.stage = "backup"
  /\ files' = Store(Current, files[Current].main, BackUp(Current))
  /\ op' = [op EXCEPT !.stage = "rename"]
  /\ UNCHANGED <<up, used, history, budget>>

Rename ==
  /\ op.stage = "rename"
  /\ files' = Store(Current, Whole(op.docs[Current]), files[Current].bak)
  /\ op' = [op EXCEPT !.todo = @ \ {Current},
                      !.stage = IF op.todo = {Current} THEN "return" ELSE "backup"]
  /\ UNCHANGED <<up, used, history, budget>>

\* What an acknowledgement adds to what was promised of the key.
Acknowledged(kind, was) ==
  CASE kind \in {"create", "enable"}  -> "valid"
    [] kind \in {"delete", "disable"} -> "revoked"
    [] kind = "boot"                  -> IF was = "new" THEN "valid" ELSE was

\* main refuses to serve with one key for both, after the files were written.
KeysDiffer == op.kind = "boot" => op.docs.meta.api # op.docs.meta.admin

Refuse ==
  /\ op.stage = "return" /\ ~KeysDiffer
  /\ op' = Idle
  /\ UNCHANGED <<files, up, used, history, budget>>

Return ==
  /\ op.stage = "return" /\ KeysDiffer
  /\ promise' = [promise EXCEPT ![op.key] = Acknowledged(op.kind, @)]
  /\ IF op.kind = "boot"
     THEN up' = TRUE /\ reported' = op.docs.meta /\ attempted' = {op.docs.meta}
     ELSE UNCHANGED <<up, reported, attempted>>
  /\ op' = Idle
  /\ UNCHANGED <<files, used, budget>>

\* A file operation fails: what was written stays, the caller gets an error;
\* main exits when a start fails.
Fail ==
  /\ op.stage \in {"backup", "rename"}
  /\ faults < MaxFaults
  /\ faults' = faults + 1
  /\ op' = Idle
  /\ UNCHANGED <<files, up, used, history, edits, damage>>

Crash ==
  /\ up \/ op # Idle
  /\ faults < MaxFaults
  /\ faults' = faults + 1
  /\ up' = FALSE
  /\ op' = Idle
  /\ UNCHANGED <<files, used, history, edits, damage>>

\* External: a disk, a full file system or a person ruins a primary file.
Damage(f, tag) ==
  /\ damage < MaxDamage
  /\ damage' = damage + 1
  /\ files' = Store(f, Bare(tag, f), files[f].bak)
  /\ UNCHANGED <<op, up, used, history, edits, faults>>

-----------------------------------------------------------------------------
Init ==
  /\ files = [f \in Files |-> [main |-> Bare("missing", f), bak |-> Bare("missing", f)]]
  /\ op = Idle
  /\ up = FALSE
  /\ used = {}
  /\ promise = [k \in Keys |-> "new"]
  /\ reported = Fresh["meta"]
  /\ attempted = {Fresh["meta"]}
  /\ edits = 0 /\ faults = 0 /\ damage = 0

Next ==
  \/ \E api \in ApiKeys \cup {NoKey}, admin \in AdminKeys \cup {NoKey} : Boot(api, admin)
  \/ \E k \in Keys : \/ CreateClient(k) \/ DeleteClient(k)
                     \/ DisableClient(k) \/ EnableClient(k)
  \/ WriteBackup \/ Rename \/ Return \/ Refuse \/ Fail \/ Crash
  \/ \E f \in Files, tag \in Ruins : Damage(f, tag)

Spec == Init /\ [][Next]_vars

-----------------------------------------------------------------------------
\* The documents and histories have their types, an operation writes
\* documents of the right kind, and a backup is JSON: never what is left of a
\* primary that lost its end (store.go, "Never replace a known-good backup
\* with a corrupt/truncated primary").
TypeOK ==
  /\ \A f \in Files : /\ files[f].main \in Contents(f)
                      /\ files[f].bak \in Backups(f)
  /\ op \in [kind : Kinds, key : Keys \cup {NoKey}, todo : SUBSET Files,
             docs : [clients : Documents["clients"], meta : Documents["meta"]],
             stage : {"none", "backup", "rename", "return"}]
  /\ op.stage \in {"backup", "rename"} <=> op.todo # {}
  /\ op.kind = "none" <=> op.stage = "none"
  /\ up \in BOOLEAN /\ used \subseteq Pool
  /\ promise \in [Keys -> {"new", "valid", "open", "revoked"}]
  /\ reported \in attempted /\ attempted \subseteq Secrets

\* As long as nobody damages the files: a key whose creation, enabling or
\* registration at start-up was acknowledged opens the proxy, through any
\* crashes, failed writes and restarts (clients.go, "API key is always
\* registered as a client key when generated or provided").
GrantsKept ==
  damage = 0 => \A k \in Keys : promise[k] = "valid" => Authenticates(k)

\* As long as nobody damages the files: a key whose deletion or disabling was
\* acknowledged never opens the proxy again, unless the operator rotates back
\* to it (clients.go, "that deletion is a durable revocation and must survive
\* restart").
RevocationsKept ==
  damage = 0 => \A k \in Keys : promise[k] = "revoked" => ~Authenticates(k)

\* As long as nobody damages the files: the secrets a start finds are those
\* the last successful start reported or those some failed start since then
\* was about to, so keys once reported are never replaced by generated ones.
SecretsKept == damage = 0 => Meta \in attempted

\* Each file, however its writes are interrupted and whatever happens to its
\* primary, is a document of the promised kind (store.go, atomicWrite and
\* readJSONFile): a version goes into reserve before it is replaced, and a
\* primary that is missing or no JSON costs one write at most. The contract
\* says in Empty and Spoil where the code does less than that: a primary
\* truncated to nothing reads as empty although its backup is whole (against
\* docs/operations.md, "If a primary JSON file is truncated or corrupt, the
\* proxy reads its `.bak` snapshot"), and JSON of another shape replaces the
\* backup at the next write.
Pending(f) == IF f \in op.todo THEN Whole(op.docs[f]) ELSE Bare("missing", f)
Misshapen(f) == files[f].main.tag = "misshapen"

ClientsDocument ==
  INSTANCE AtomicDocument WITH
    Documents <- Versions("clients"), Fresh <- Whole(Fresh["clients"]),
    Unreadable <- Undecodable("clients"), Spoiled <- Bare("misshapen", "clients"),
    None <- Bare("missing", "clients"),
    value <- Read("clients"), snapshot <- files["clients"].bak,
    pending <- Pending("clients"), foreign <- Misshapen("clients")

MetaDocument ==
  INSTANCE AtomicDocument WITH
    Documents <- Versions("meta"), Fresh <- Whole(Fresh["meta"]),
    Unreadable <- Undecodable("meta"), Spoiled <- Bare("misshapen", "meta"),
    None <- Bare("missing", "meta"),
    value <- Read("meta"), snapshot <- files["meta"].bak,
    pending <- Pending("meta"), foreign <- Misshapen("meta")

ImplementsDocument == ClientsDocument!Spec /\ MetaDocument!Spec
=============================================================================
