------------------------- MODULE ClientStoreProofs --------------------------
(***************************************************************************)
(* Every file of the store is an atomic document with a snapshot, for any  *)
(* keys and any number of operations, crashes, failures and damages.       *)
(***************************************************************************)
EXTENDS ClientStore, TLAPS

\* A primary about to be replaced is in reserve.
BackedUp ==
  op.stage = "rename" /\ files[Current].main.tag = "whole"
    => files[Current].bak = files[Current].main

StoreInv == TypeOK /\ BackedUp

-----------------------------------------------------------------------------
LEMMA FreshDocuments ==
  ASSUME NEW f \in Files PROVE Fresh[f] \in Documents[f]
<1>1. CASE f = "clients"
  <2>1. [k \in Keys |-> "none"] \in [Keys -> Statuses]
    BY DEF Statuses
  <2> QED
    BY <1>1, <2>1 DEF Fresh, Documents
<1>2. CASE f = "meta"
  BY <1>2 DEF Fresh, Documents, Secrets
<1> QED
  BY <1>1, <1>2 DEF Files

\* What a reader gets, by the state of the primary and the backup.
LEMMA ReadType ==
  ASSUME TypeOK, NEW f \in Files
  PROVE  /\ Read(f) \in Versions(f) \cup {Undecodable(f)}
         /\ Read(f).doc \in Documents[f]
<1>1. /\ files[f].main \in Contents(f)
      /\ files[f].bak \in Backups(f)
      /\ Fresh[f] \in Documents[f]
  BY FreshDocuments DEF TypeOK
<1> QED
  BY <1>1 DEF Read, Contents, Backups, Versions, Whole, Bare, Undecodable

LEMMA CurrentFile ==
  ASSUME TypeOK, op.stage \in {"backup", "rename"}
  PROVE  Current \in op.todo /\ Current \in Files
BY DEF TypeOK, Current, Files

-----------------------------------------------------------------------------
LEMMA InitInv == Init => StoreInv
<1> SUFFICES ASSUME Init PROVE StoreInv
  OBVIOUS
<1>1. Fresh["clients"] \in Documents["clients"] /\ Fresh["meta"] \in Documents["meta"]
  BY FreshDocuments DEF Files
<1>2. Fresh["meta"] \in Secrets
  BY DEF Fresh, Secrets
<1>3. Fresh \in [clients : Documents["clients"], meta : Documents["meta"]]
  BY <1>1 DEF Fresh
<1>4. Idle = [kind |-> "none", key |-> NoKey, todo |-> {}, docs |-> Fresh, stage |-> "none"]
  BY DEF Idle, Operation
<1>5. \A f \in Files : /\ files[f].main \in Contents(f)
                       /\ files[f].bak \in Backups(f)
  BY DEF Init, Contents, Backups, Ruins
<1>6. TypeOK
  BY <1>2, <1>3, <1>4, <1>5 DEF Init, TypeOK, Kinds
<1> QED
  BY <1>4, <1>6 DEF StoreInv, BackedUp, Init

-----------------------------------------------------------------------------
\* The invariant's parts about the files and about the operation.
FilesOK ==
  \A f \in Files : /\ files[f].main \in Contents(f)
                   /\ files[f].bak \in Backups(f)

OpOK ==
  /\ op \in [kind : Kinds, key : Keys \cup {NoKey}, todo : SUBSET Files,
             docs : [clients : Documents["clients"], meta : Documents["meta"]],
             stage : {"none", "backup", "rename", "return"}]
  /\ op.stage \in {"backup", "rename"} <=> op.todo # {}
  /\ op.kind = "none" <=> op.stage = "none"

LEMMA IdleOK == Idle.stage = "none" /\ (op' = Idle => OpOK')
<1>1. Fresh["clients"] \in Documents["clients"] /\ Fresh["meta"] \in Documents["meta"]
  BY FreshDocuments DEF Files
<1>2. Fresh \in [clients : Documents["clients"], meta : Documents["meta"]]
  BY <1>1 DEF Fresh
<1>3. Idle = [kind |-> "none", key |-> NoKey, todo |-> {}, docs |-> Fresh, stage |-> "none"]
  BY DEF Idle, Operation
<1> QED
  BY <1>2, <1>3 DEF OpOK, Kinds

\* A new operation that writes documents of the right types.
LEMMA NewOperation ==
  ASSUME NEW kind \in Kinds \ {"none"}, NEW key \in Keys, NEW todo \in SUBSET Files,
         NEW clients \in Documents["clients"], NEW meta \in Documents["meta"],
         op' = Operation(kind, key, todo, [clients |-> clients, meta |-> meta])
  PROVE  OpOK' /\ op'.stage # "rename" /\ op'.todo = todo /\ op'.kind = kind /\ op'.key = key
               /\ op'.docs.clients = clients /\ op'.docs.meta = meta
<1>1. CASE todo = {}
  BY <1>1 DEF OpOK, Operation, Kinds
<1>2. CASE todo # {}
  BY <1>2 DEF OpOK, Operation, Kinds
<1> QED
  BY <1>1, <1>2

HistoryOK ==
  /\ up \in BOOLEAN /\ used \subseteq Pool
  /\ promise \in [Keys -> {"new", "valid", "open", "revoked"}]
  /\ reported \in attempted /\ attempted \subseteq Secrets

LEMMA Parts == /\ TypeOK <=> FilesOK /\ OpOK /\ HistoryOK
               /\ TypeOK' <=> FilesOK' /\ OpOK' /\ HistoryOK'
BY DEF TypeOK, FilesOK, OpOK, HistoryOK

LEMMA FilesStay ==
  ASSUME StoreInv, files' = files PROVE FilesOK'
BY Parts DEF StoreInv, FilesOK

LEMMA FilesStored ==
  ASSUME StoreInv, NEW f \in Files, NEW main \in Contents(f),
         NEW bak \in Backups(f),
         files' = Store(f, main, bak)
  PROVE  FilesOK'
BY Parts DEF StoreInv, FilesOK, Store

LEMMA BootInv ==
  ASSUME StoreInv, NEW api, NEW admin,
         api \in ApiKeys \cup {NoKey}, admin \in AdminKeys \cup {NoKey},
         Boot(api, admin)
  PROVE  StoreInv'
<1>1. FilesOK /\ OpOK /\ HistoryOK
  BY Parts DEF StoreInv
<1>2. Clients \in Documents["clients"] /\ Meta \in Secrets
  BY ReadType DEF StoreInv, Clients, Meta, Files, Documents
<1>3. PICK a \in Resolve(api, Meta.api), d \in Resolve(admin, Meta.admin) :
        LET secrets == [api |-> a, admin |-> d]
            todo == (IF Register(a) THEN {"clients"} ELSE {})
                    \cup (IF Stale(secrets) THEN {"meta"} ELSE {})
        IN /\ a = d => a \notin Pool
           /\ op' = Operation("boot", a, todo,
                      [clients |-> [Clients EXCEPT ![a] =
                                      IF Register(a) THEN "active" ELSE @],
                       meta |-> secrets])
           /\ used' = used \cup ({a, d} \cap Pool)
           /\ promise' = [promise EXCEPT ![a] = Reopen(a)]
           /\ attempted' = attempted \cup {secrets}
  BY DEF Boot
<1> DEFINE secrets == [api |-> a, admin |-> d]
           todo == (IF Register(a) THEN {"clients"} ELSE {})
                   \cup (IF Stale(secrets) THEN {"meta"} ELSE {})
           docs == [Clients EXCEPT ![a] = IF Register(a) THEN "active" ELSE @]
<1>4. a \in Keys /\ d \in AdminKeys \cup Pool
  BY <1>2 DEF Resolve, Secrets, Keys
<1>5. secrets \in Documents["meta"]
  BY <1>4 DEF Documents, Secrets
<1>6. docs \in Documents["clients"]
  BY <1>2, <1>4 DEF Documents, Statuses
<1>7. todo \in SUBSET Files
  BY DEF Files
<1>8. "boot" \in Kinds \ {"none"}
  BY DEF Kinds
<1>9. op' = Operation("boot", a, todo, [clients |-> docs, meta |-> secrets])
  BY <1>3
<1>10. OpOK' /\ op'.stage # "rename"
  <2> HIDE DEF secrets, todo, docs
  <2> QED
    BY <1>4, <1>5, <1>6, <1>7, <1>8, <1>9, NewOperation
<1>11. files' = files /\ up' = up /\ reported' = reported
  BY DEF Boot
<1>12. HistoryOK'
  <2>1. Reopen(a) \in {"new", "valid", "open", "revoked"}
    BY <1>1, <1>4 DEF Reopen, HistoryOK
  <2>2. secrets \in Secrets
    BY <1>5 DEF Documents
  <2> QED
    BY <1>1, <1>3, <1>11, <2>1, <2>2 DEF HistoryOK
<1> QED
  BY <1>10, <1>11, <1>12, Parts, FilesStay DEF StoreInv, BackedUp

LEMMA EditInv ==
  ASSUME StoreInv, NEW kind \in Kinds \ {"none"}, NEW k \in Keys, NEW from,
         NEW to \in Statuses, Edit(kind, k, from, to), used' \subseteq Pool,
         promise' \in [Keys -> {"new", "valid", "open", "revoked"}]
  PROVE  StoreInv'
<1>1. OpOK /\ HistoryOK
  BY Parts DEF StoreInv
<1> DEFINE docs == [Clients EXCEPT ![k] = to]
<1>2. docs \in Documents["clients"]
  BY ReadType DEF StoreInv, Clients, Files, Documents
<1>3. Fresh["meta"] \in Documents["meta"]
  BY FreshDocuments DEF Files
<1>4. op' = Operation(kind, k, {"clients"}, [clients |-> docs, meta |-> Fresh["meta"]])
  BY DEF Edit
<1>5. {"clients"} \in SUBSET Files
  BY DEF Files
<1>6. OpOK' /\ op'.stage # "rename"
  <2> HIDE DEF docs
  <2> QED
    BY <1>2, <1>3, <1>4, <1>5, NewOperation
<1>7. files' = files /\ HistoryOK'
  BY <1>1 DEF Edit, HistoryOK
<1> QED
  BY <1>6, <1>7, Parts, FilesStay DEF StoreInv, BackedUp

LEMMA BackupInv == ASSUME StoreInv, WriteBackup PROVE StoreInv'
<1>1. FilesOK /\ OpOK /\ HistoryOK
  BY Parts DEF StoreInv
<1>2. Current \in op.todo /\ Current \in Files
  BY CurrentFile DEF StoreInv, WriteBackup
<1>3. /\ files' = Store(Current, files[Current].main, BackUp(Current))
      /\ op' = [op EXCEPT !.stage = "rename"]
  BY DEF WriteBackup
<1>4. BackUp(Current) \in Backups(Current)
  BY <1>1, <1>2 DEF FilesOK, BackUp, Contents, Versions, Backups, Ruins, Bare
<1>5. FilesOK'
  BY <1>1, <1>2, <1>3, <1>4, FilesStored DEF FilesOK
<1>6. OpOK' /\ op'.todo = op.todo
  BY <1>1, <1>3 DEF OpOK, WriteBackup
<1>7. HistoryOK'
  BY <1>1 DEF HistoryOK, WriteBackup, history
<1>8. BackedUp'
  <2>1. Current' = Current
    BY <1>6 DEF Current
  <2> QED
    BY <1>2, <1>3, <2>1 DEF BackedUp, Store, BackUp
<1> QED
  BY <1>5, <1>6, <1>7, <1>8, Parts DEF StoreInv

LEMMA RenameInv == ASSUME StoreInv, Rename PROVE StoreInv'
<1>1. FilesOK /\ OpOK /\ HistoryOK
  BY Parts DEF StoreInv
<1>2. Current \in op.todo /\ Current \in Files
  BY CurrentFile DEF StoreInv, Rename
<1>3. /\ files' = Store(Current, Whole(op.docs[Current]), files[Current].bak)
      /\ op' = [op EXCEPT !.todo = @ \ {Current},
                          !.stage = IF op.todo = {Current} THEN "return" ELSE "backup"]
  BY DEF Rename
<1>4. op.docs[Current] \in Documents[Current]
  BY <1>1, <1>2 DEF OpOK, Files
<1>5. FilesOK'
  BY <1>1, <1>2, <1>3, <1>4, FilesStored DEF FilesOK, Contents, Versions, Whole
<1>6. OpOK' /\ op'.stage # "rename"
  <2>1. CASE op.todo = {Current}
    BY <1>1, <1>2, <1>3, <2>1 DEF OpOK, Rename
  <2>2. CASE op.todo # {Current}
    BY <1>1, <1>2, <1>3, <2>2 DEF OpOK, Rename
  <2> QED
    BY <2>1, <2>2
<1>7. HistoryOK'
  BY <1>1 DEF HistoryOK, Rename, history
<1> QED
  BY <1>5, <1>6, <1>7, Parts DEF StoreInv, BackedUp

LEMMA ReturnInv == ASSUME StoreInv, Return PROVE StoreInv'
<1>1. FilesOK /\ OpOK /\ HistoryOK
  BY Parts DEF StoreInv
<1>2. op' = Idle /\ files' = files
  BY DEF Return
<1>3. OpOK' /\ op'.stage # "rename"
  BY <1>2, IdleOK
<1>4. promise' \in [Keys -> {"new", "valid", "open", "revoked"}]
  <2>1. op.kind \in Kinds \ {"none"}
    BY <1>1 DEF OpOK, Return
  <2>2. \A was \in {"new", "valid", "open", "revoked"} :
          Acknowledged(op.kind, was) \in {"new", "valid", "open", "revoked"}
    BY <2>1 DEF Kinds, Acknowledged
  <2> QED
    BY <1>1, <2>2 DEF HistoryOK, Return
<1>5. HistoryOK'
  <2>1. op.docs.meta \in Secrets
    BY <1>1 DEF OpOK, Documents
  <2>2. used' = used
    BY DEF Return
  <2>3. up' \in BOOLEAN /\ reported' \in attempted' /\ attempted' \subseteq Secrets
    <3>1. CASE op.kind = "boot"
      BY <3>1, <2>1 DEF Return
    <3>2. CASE op.kind # "boot"
      BY <1>1, <3>2 DEF Return, HistoryOK
    <3> QED
      BY <3>1, <3>2
  <2> QED
    BY <1>1, <1>4, <2>2, <2>3 DEF HistoryOK
<1> QED
  BY <1>2, <1>3, <1>5, Parts, FilesStay DEF StoreInv, BackedUp

\* A failure and a crash leave the files and the histories alone.
LEMMA AbandonInv == ASSUME StoreInv, Fail \/ Crash \/ Refuse PROVE StoreInv'
<1>1. OpOK /\ HistoryOK
  BY Parts DEF StoreInv
<1>2. op' = Idle /\ files' = files
  BY DEF Fail, Crash, Refuse
<1>3. OpOK' /\ op'.stage # "rename"
  BY <1>2, IdleOK
<1>4. HistoryOK'
  BY <1>1 DEF HistoryOK, Fail, Crash, Refuse, history
<1> QED
  BY <1>2, <1>3, <1>4, Parts, FilesStay DEF StoreInv, BackedUp

LEMMA DamageInv ==
  ASSUME StoreInv, NEW f \in Files, NEW tag \in Ruins,
         Damage(f, tag)
  PROVE  StoreInv'
<1>1. FilesOK /\ OpOK /\ HistoryOK
  BY Parts DEF StoreInv
<1>2. files' = Store(f, Bare(tag, f), files[f].bak) /\ op' = op
  BY DEF Damage
<1>3. FilesOK'
  BY <1>1, <1>2, FilesStored DEF FilesOK, Contents
<1>4. OpOK' /\ HistoryOK'
  BY <1>1 DEF OpOK, HistoryOK, Damage, history
<1>5. BackedUp'
  <2>1. Current' = Current
    BY <1>2 DEF Current
  <2>2. SUFFICES ASSUME op.stage = "rename", files'[Current].main.tag = "whole"
                 PROVE  files'[Current].bak = files'[Current].main
    BY <1>2, <2>1 DEF BackedUp
  <2>3. Current \in Files
    BY <2>2, CurrentFile DEF StoreInv
  <2> QED
    BY <1>2, <2>2, <2>3 DEF StoreInv, BackedUp, Store, Ruins, Bare
<1> QED
  BY <1>3, <1>4, <1>5, Parts DEF StoreInv

LEMMA NextInv == StoreInv /\ [Next]_vars => StoreInv'
<1> SUFFICES ASSUME StoreInv, [Next]_vars PROVE StoreInv'
  OBVIOUS
<1>0. HistoryOK
  BY Parts DEF StoreInv
<1>1. CASE \E api \in ApiKeys \cup {NoKey}, admin \in AdminKeys \cup {NoKey} : Boot(api, admin)
  BY <1>1, BootInv
<1>2. ASSUME NEW k \in Keys, CreateClient(k) PROVE StoreInv'
  <2>1. used' \subseteq Pool /\ promise' = promise
    BY <1>0, <1>2 DEF CreateClient, HistoryOK
  <2> QED
    BY <1>0, <1>2, <2>1, EditInv DEF CreateClient, Kinds, Statuses, HistoryOK
<1>3. ASSUME NEW k \in Keys, DeleteClient(k) \/ DisableClient(k) PROVE StoreInv'
  <2>1. used' \subseteq Pool
    BY <1>0, <1>3 DEF DeleteClient, DisableClient, Revoke, HistoryOK
  <2>2. promise' \in [Keys -> {"new", "valid", "open", "revoked"}]
    BY <1>0, <1>3 DEF DeleteClient, DisableClient, Revoke, HistoryOK
  <2> QED
    BY <1>3, <2>1, <2>2, EditInv DEF DeleteClient, DisableClient, Revoke, Kinds, Statuses
<1>4. ASSUME NEW k \in Keys, EnableClient(k) PROVE StoreInv'
  <2>1. used' \subseteq Pool /\ promise' \in [Keys -> {"new", "valid", "open", "revoked"}]
    BY <1>0, <1>4 DEF EnableClient, HistoryOK
  <2> QED
    BY <1>4, <2>1, EditInv DEF EnableClient, Kinds, Statuses
<1>5. CASE WriteBackup
  BY <1>5, BackupInv
<1>6. CASE Rename
  BY <1>6, RenameInv
<1>7. CASE Return
  BY <1>7, ReturnInv
<1>8. CASE Fail \/ Crash \/ Refuse
  BY <1>8, AbandonInv
<1>9. CASE \E f \in Files, tag \in Ruins : Damage(f, tag)
  BY <1>9, DamageInv
<1>10. CASE UNCHANGED vars
  <2>1. OpOK /\ FilesOK
    BY Parts DEF StoreInv
  <2>2. OpOK' /\ FilesOK' /\ HistoryOK'
    BY <1>0, <1>10, <2>1 DEF OpOK, FilesOK, HistoryOK, vars, history
  <2>3. BackedUp'
    BY <1>10 DEF StoreInv, BackedUp, Current, vars
  <2> QED
    BY <2>2, <2>3, Parts DEF StoreInv
<1> QED
  BY <1>1, <1>2, <1>3, <1>4, <1>5, <1>6, <1>7, <1>8, <1>9, <1>10 DEF Next

\* The store's documents keep their types and a backup is never less than
\* JSON, whatever is interrupted or damaged (store.go, "Never replace a
\* known-good backup with a corrupt/truncated primary").
THEOREM TypeCorrect == Spec => []TypeOK
<1>1. Spec => []StoreInv
  BY InitInv, NextInv, PTL DEF Spec
<1>2. StoreInv => TypeOK
  BY DEF StoreInv
<1> QED
  BY <1>1, <1>2, PTL

-----------------------------------------------------------------------------
(***************************************************************************)
(* Each step is a step, or a stutter, of the document of each file.        *)
(***************************************************************************)
Begins(f) == /\ Pending(f) = Bare("missing", f)
             /\ Read(f) \in Versions(f)
             /\ Pending(f)' \in Versions(f)
             /\ Read(f)' = Read(f) /\ files'[f].bak = files[f].bak
             /\ Misshapen(f)' = Misshapen(f)

Keeps(f) == /\ Pending(f) # Bare("missing", f) /\ ~Misshapen(f)
            /\ Read(f) \in Versions(f) /\ files'[f].bak = Read(f)
            /\ Read(f)' = Read(f) /\ Pending(f)' = Pending(f)
            /\ Misshapen(f)' = Misshapen(f)

Commits(f) == /\ Pending(f) # Bare("missing", f)
              /\ Read(f) \in {files[f].bak, Whole(Fresh[f]), Undecodable(f)}
              /\ Read(f)' = Pending(f)
              /\ Pending(f)' = Bare("missing", f)
              /\ Misshapen(f)' = FALSE
              /\ files'[f].bak = files[f].bak

Aborts(f) == /\ Pending(f) # Bare("missing", f)
             /\ Pending(f)' = Bare("missing", f)
             /\ Read(f)' = Read(f) /\ files'[f].bak = files[f].bak
             /\ Misshapen(f)' = Misshapen(f)

Loses(f) == /\ IF files[f].bak \in Versions(f) THEN Read(f)' = files[f].bak
               ELSE Read(f)' \in {Whole(Fresh[f]), Undecodable(f)}
            /\ Misshapen(f)' = FALSE
            /\ files'[f].bak = files[f].bak /\ Pending(f)' = Pending(f)

Garbles(f) == /\ Read(f)' = IF files[f].bak \in Versions(f) THEN files[f].bak
                            ELSE Undecodable(f)
              /\ Misshapen(f)' = TRUE
              /\ files'[f].bak = files[f].bak /\ Pending(f)' = Pending(f)

Spoils(f) == /\ Misshapen(f) /\ Pending(f) # Bare("missing", f)
             /\ files'[f].bak = Bare("misshapen", f) /\ Read(f)' = Undecodable(f)
             /\ Pending(f)' = Pending(f) /\ Misshapen(f)' = Misshapen(f)

Empties(f) == /\ Read(f)' = Whole(Fresh[f]) /\ Misshapen(f)' = FALSE
              /\ files'[f].bak = files[f].bak /\ Pending(f)' = Pending(f)

Stays(f) == /\ Read(f)' = Read(f) /\ files'[f].bak = files[f].bak
            /\ Pending(f)' = Pending(f) /\ Misshapen(f)' = Misshapen(f)

DocumentStep(f) ==
  \/ Begins(f) \/ Keeps(f) \/ Commits(f) \/ Aborts(f)
  \/ Loses(f) \/ Garbles(f) \/ Spoils(f) \/ Empties(f) \/ Stays(f)

\* An operation that starts or ends without touching the files.
LEMMA StartStep ==
  ASSUME StoreInv, StoreInv', NEW f \in Files, files' = files, op.todo = {},
         f \in op'.todo => Readable(f)
  PROVE  DocumentStep(f)
<1>1. /\ Read(f)' = Read(f) /\ Pending(f) = Bare("missing", f)
      /\ Misshapen(f)' = Misshapen(f)
  BY DEF Read, Pending, Misshapen
<1>2. CASE f \in op'.todo
  <2>1. op'.docs[f] \in Documents[f]
    BY Parts DEF StoreInv, OpOK, Files
  <2>2. Read(f) \in Versions(f)
    BY <1>2, ReadType DEF StoreInv, Readable, Undecodable, Bare
  <2> QED
    BY <1>1, <1>2, <2>1, <2>2 DEF Pending, Versions, Whole, DocumentStep, Begins
<1>3. CASE f \notin op'.todo
  BY <1>1, <1>3 DEF Pending, DocumentStep, Stays
<1> QED
  BY <1>2, <1>3

LEMMA EndStep ==
  ASSUME StoreInv, NEW f \in Files, files' = files, op'.todo = {}
  PROVE  DocumentStep(f)
<1>1. /\ Read(f)' = Read(f) /\ Pending(f)' = Bare("missing", f)
      /\ Misshapen(f)' = Misshapen(f)
  BY DEF Read, Pending, Misshapen
<1> QED
  BY <1>1 DEF DocumentStep, Aborts, Stays

LEMMA BackupStep ==
  ASSUME StoreInv, WriteBackup, NEW f \in Files PROVE DocumentStep(f)
<1>1. FilesOK /\ OpOK
  BY Parts DEF StoreInv
<1>2. Current \in op.todo /\ Current \in Files
  BY CurrentFile DEF StoreInv, WriteBackup
<1>3. /\ files' = Store(Current, files[Current].main, BackUp(Current))
      /\ op'.todo = op.todo /\ op'.docs = op.docs
  BY <1>1 DEF WriteBackup, OpOK
<1>4. Pending(f)' = Pending(f)
  BY <1>3 DEF Pending
<1>5. CASE f # Current
  BY <1>3, <1>4, <1>5 DEF Store, Read, Misshapen, DocumentStep, Stays
<1>6. CASE f = Current /\ files[f].main.tag \notin {"whole", "misshapen"}
  BY <1>3, <1>4, <1>6 DEF Store, BackUp, Read, Misshapen, DocumentStep, Stays
<1>7. CASE f = Current /\ files[f].main.tag = "misshapen"
  <2>1. files[f].main = Bare("misshapen", f)
    BY <1>1, <1>7 DEF FilesOK, Contents, Versions, Bare
  <2>2. files'[f].main = files[f].main /\ files'[f].bak = Bare("misshapen", f)
    BY <1>3, <1>7, <2>1 DEF Store, BackUp
  <2>3. Read(f)' = Undecodable(f) /\ Misshapen(f) /\ Misshapen(f)' = Misshapen(f)
    BY <1>7, <2>2 DEF Read, Misshapen, Bare
  <2>4. Pending(f) # Bare("missing", f)
    BY <1>2, <1>7 DEF Pending, Whole, Bare
  <2> QED
    BY <1>4, <2>2, <2>3, <2>4 DEF DocumentStep, Spoils
<1>8. CASE f = Current /\ files[f].main.tag = "whole"
  <2>1. files[f].main \in Versions(f)
    BY <1>1, <1>8 DEF FilesOK, Contents, Ruins, Bare
  <2>2. files'[f].main = files[f].main /\ files'[f].bak = files[f].main
    BY <1>3, <1>8 DEF Store, BackUp
  <2>3. /\ Read(f) = files[f].main /\ Read(f)' = files[f].main
        /\ ~Misshapen(f) /\ Misshapen(f)' = Misshapen(f)
    BY <1>8, <2>1, <2>2 DEF Read, Whole, Versions, Misshapen
  <2>4. Pending(f) # Bare("missing", f)
    BY <1>2, <1>8 DEF Pending, Whole, Bare
  <2> QED
    BY <1>4, <2>1, <2>2, <2>3, <2>4 DEF DocumentStep, Keeps
<1> QED
  BY <1>5, <1>6, <1>7, <1>8

LEMMA RenameStep ==
  ASSUME StoreInv, Rename, NEW f \in Files PROVE DocumentStep(f)
<1>1. FilesOK /\ OpOK
  BY Parts DEF StoreInv
<1>2. Current \in op.todo /\ Current \in Files
  BY CurrentFile DEF StoreInv, Rename
<1>3. /\ files' = Store(Current, Whole(op.docs[Current]), files[Current].bak)
      /\ op'.todo = op.todo \ {Current} /\ op'.docs = op.docs
  BY <1>1 DEF Rename, OpOK
<1>4. CASE f # Current
  BY <1>3, <1>4 DEF Store, Read, Pending, Misshapen, DocumentStep, Stays
<1>5. CASE f = Current
  <2>1. Pending(f) = Whole(op.docs[f]) /\ Pending(f) # Bare("missing", f)
    BY <1>2, <1>5 DEF Pending, Whole, Bare
  <2>2. Pending(f)' = Bare("missing", f)
    BY <1>3, <1>5 DEF Pending
  <2>3. files'[f].main = Whole(op.docs[f]) /\ files'[f].bak = files[f].bak
    BY <1>3, <1>5 DEF Store
  <2>4. Read(f)' = Pending(f) /\ Misshapen(f)' = FALSE
    BY <2>1, <2>3 DEF Read, Whole, Misshapen
  <2>5. Read(f) \in {files[f].bak, Whole(Fresh[f]), Undecodable(f)}
    <3>1. CASE files[f].main.tag = "whole"
      <4>1. files[f].main \in Versions(f)
        BY <1>1, <3>1 DEF FilesOK, Contents, Ruins, Bare
      <4>2. files[f].bak = files[f].main
        BY <1>5, <3>1 DEF StoreInv, BackedUp, Rename
      <4> QED
        BY <3>1, <4>1, <4>2 DEF Read, Whole, Versions
    <3>2. CASE files[f].main.tag # "whole"
      <4>1. files[f].main.doc = Fresh[f]
        BY <1>1, <3>2 DEF FilesOK, Contents, Versions, Bare
      <4> QED
        BY <4>1 DEF Read
    <3> QED
      BY <3>1, <3>2
  <2> QED
    BY <2>1, <2>2, <2>3, <2>4, <2>5 DEF DocumentStep, Commits
<1> QED
  BY <1>4, <1>5

LEMMA DamageStep ==
  ASSUME StoreInv, NEW g \in Files, NEW tag \in Ruins,
         Damage(g, tag), NEW f \in Files
  PROVE  DocumentStep(f)
<1>1. FilesOK
  BY Parts DEF StoreInv
<1>2. files' = Store(g, Bare(tag, g), files[g].bak) /\ op' = op
  BY DEF Damage
<1>3. Pending(f)' = Pending(f) /\ files'[f].bak = files[f].bak
  BY <1>2 DEF Pending, Store
<1>4. CASE f # g
  BY <1>2, <1>3, <1>4 DEF Store, Read, Misshapen, DocumentStep, Stays
<1>5. CASE f = g
  <2>1. files'[f].main = Bare(tag, f) /\ Misshapen(f)' = (tag = "misshapen")
    BY <1>2, <1>5 DEF Store, Misshapen, Bare
  <2>2. \/ files[f].bak \in Versions(f) /\ files[f].bak.tag = "whole"
        \/ files[f].bak \notin Versions(f) /\ files[f].bak.tag # "whole"
    BY <1>1 DEF FilesOK, Backups, Versions, Bare
  <2>3. CASE tag = "empty"
    <3>1. Read(f)' = Whole(Fresh[f])
      BY <2>1, <2>3 DEF Read, Bare
    <3> QED
      BY <1>3, <2>1, <2>3, <3>1 DEF DocumentStep, Empties
  <2>4. CASE tag = "misshapen"
    <3>1. Read(f)' = IF files[f].bak \in Versions(f) THEN files[f].bak ELSE Undecodable(f)
      BY <1>3, <2>1, <2>2, <2>4 DEF Read, Bare
    <3> QED
      BY <1>3, <2>1, <2>4, <3>1 DEF DocumentStep, Garbles
  <2>5. CASE tag \in {"missing", "corrupt"}
    <3>1. IF files[f].bak \in Versions(f) THEN Read(f)' = files[f].bak
          ELSE Read(f)' \in {Whole(Fresh[f]), Undecodable(f)}
      BY <1>3, <2>1, <2>2, <2>5 DEF Read, Bare
    <3> QED
      BY <1>3, <2>1, <2>5, <3>1 DEF DocumentStep, Loses
  <2> QED
    BY <2>3, <2>4, <2>5 DEF Ruins
<1> QED
  BY <1>4, <1>5

LEMMA NextStep ==
  ASSUME StoreInv, StoreInv', [Next]_vars, NEW f \in Files PROVE DocumentStep(f)
<1>1. ASSUME op = Idle, files' = files, f \in op'.todo => Readable(f) PROVE DocumentStep(f)
  <2>1. op.todo = {}
    BY <1>1, IdleOK, Parts DEF StoreInv, OpOK
  <2> QED
    BY <1>1, <2>1, StartStep
<1>2. ASSUME op' = Idle, files' = files PROVE DocumentStep(f)
  <2>1. op'.todo = {}
    BY <1>2, IdleOK, Parts DEF StoreInv, OpOK
  <2> QED
    BY <1>2, <2>1, EndStep
<1>3. CASE \E api \in ApiKeys \cup {NoKey}, admin \in AdminKeys \cup {NoKey} : Boot(api, admin)
  BY <1>1, <1>3 DEF Boot, Files
<1>4. ASSUME NEW k \in Keys,
             \/ CreateClient(k) \/ DeleteClient(k) \/ DisableClient(k) \/ EnableClient(k)
      PROVE  DocumentStep(f)
  <2>1. PICK kind, from, to : Edit(kind, k, from, to)
    BY <1>4 DEF CreateClient, DeleteClient, DisableClient, EnableClient, Revoke
  <2>2. op'.todo = {"clients"}
    BY <2>1 DEF Edit, Operation
  <2> QED
    BY <1>1, <2>1, <2>2 DEF Edit
<1>5. CASE WriteBackup
  BY <1>5, BackupStep
<1>6. CASE Rename
  BY <1>6, RenameStep
<1>7. CASE Return \/ Fail \/ Crash \/ Refuse
  BY <1>2, <1>7 DEF Return, Fail, Crash, Refuse
<1>8. CASE \E g \in Files, tag \in Ruins : Damage(g, tag)
  BY <1>8, DamageStep
<1>9. CASE UNCHANGED vars
  BY <1>9 DEF vars, Read, Pending, Misshapen, DocumentStep, Stays
<1> QED
  BY <1>3, <1>4, <1>5, <1>6, <1>7, <1>8, <1>9 DEF Next

LEMMA InitDocument ==
  ASSUME Init, NEW f \in Files
  PROVE  /\ Read(f) = Whole(Fresh[f])
         /\ files[f].bak = Bare("missing", f)
         /\ Pending(f) = Bare("missing", f)
         /\ Misshapen(f) = FALSE
<1>1. op.todo = {}
  BY DEF Init, Idle, Operation
<1> QED
  BY <1>1 DEF Init, Read, Bare, Pending, Misshapen

\* Every file, through interrupted writes, failures and damage, is a document
\* that changes only as a whole to the version being written, after its
\* current version went into reserve, and that a loss of the primary turns into
\* that reserve (store.go, atomicWrite and readJSONFile); it empties only when
\* the primary is truncated to nothing, and its reserve is spoiled only by a
\* write over JSON of another shape.
THEOREM DocumentsAtomic == Spec => ImplementsDocument
<1>1. Init => ClientsDocument!Init /\ MetaDocument!Init
  BY InitDocument DEF ClientsDocument!Init, MetaDocument!Init, Files
<1>2. ASSUME StoreInv, StoreInv', [Next]_vars
      PROVE  /\ [ClientsDocument!Next]_(ClientsDocument!document)
             /\ [MetaDocument!Next]_(MetaDocument!document)
  <2>1. DocumentStep("clients") /\ DocumentStep("meta")
    BY <1>2, NextStep DEF Files
  <2>2. [ClientsDocument!Next]_(ClientsDocument!document)
    BY <2>1 DEF DocumentStep, Begins, Keeps, Commits, Aborts, Loses, Garbles,
         Spoils, Empties, Stays, ClientsDocument!Next, ClientsDocument!document, ClientsDocument!Begin,
         ClientsDocument!Keep, ClientsDocument!Commit, ClientsDocument!Abort,
         ClientsDocument!Damage, ClientsDocument!Misshape, ClientsDocument!Spoil,
         ClientsDocument!Empty
  <2>3. [MetaDocument!Next]_(MetaDocument!document)
    BY <2>1 DEF DocumentStep, Begins, Keeps, Commits, Aborts, Loses, Garbles,
         Spoils, Empties, Stays, MetaDocument!Next, MetaDocument!document, MetaDocument!Begin,
         MetaDocument!Keep, MetaDocument!Commit, MetaDocument!Abort,
         MetaDocument!Damage, MetaDocument!Misshape, MetaDocument!Spoil,
         MetaDocument!Empty
  <2> QED
    BY <2>2, <2>3
<1>3. Spec => []StoreInv
  BY InitInv, NextInv, PTL DEF Spec
<1> QED
  BY <1>1, <1>2, <1>3, PTL DEF Spec, ImplementsDocument, ClientsDocument!Spec, MetaDocument!Spec
-----------------------------------------------------------------------------
(***************************************************************************)
(* What the store keeps of keys and secrets while nobody damages a file.   *)
(***************************************************************************)
\* A file that was ever written is whole.
Intact ==
  \A f \in Files : \/ files[f].main.tag = "whole"
                   \/ files[f].main.tag = "missing" /\ files[f].bak.tag = "missing"

\* What was promised of a key shows in its record. A key never acknowledged
\* has no record but an active one, and none before it is drawn.
KeyKept(k) ==
  /\ promise[k] = "valid" => Clients[k] = "active"
  /\ promise[k] = "revoked" => Clients[k] # "active"
  /\ promise[k] = "new" => Clients[k] \in {"none", "active"}
  /\ k \in Pool \ used => promise[k] = "new" /\ Clients[k] = "none"

\* Secrets in meta.json that no start has reported yet name a key that has its
\* record, as that was written before them.
SecretsNamed ==
  /\ Meta \in attempted
  /\ reported.api # NoKey => promise[reported.api] # "new"
  /\ up => Meta = reported
  /\ Meta.api \notin {reported.api, NoKey} => Clients[Meta.api] # "none"

\* The write of the keys under way changes one record, from what it is now,
\* and against no promise.
ClientsPending ==
  /\ \A k \in Keys \ {op.key} : op.docs.clients[k] = Clients[k]
  /\ IF op.kind \in {"delete", "disable"}
     THEN op.docs.clients[op.key] # "active" /\ promise[op.key] \in {"open", "revoked"}
     ELSE op.docs.clients[op.key] = "active" /\ promise[op.key] # "revoked"

\* No such write, or it has been made.
ClientsWritten ==
  /\ op.kind \in {"create", "enable"} => Clients[op.key] = "active"
  /\ op.kind \in {"delete", "disable"} => Clients[op.key] # "active"
  /\ op.kind = "boot" =>
       /\ promise[op.key] = "new" => Clients[op.key] = "active"
       /\ Clients[op.key] # "none" \/ op.key = reported.api

StartUnderWay ==
  /\ op.docs.meta \in attempted /\ op.docs.meta.api = op.key
  /\ "meta" \notin op.todo => Meta = op.docs.meta

UnderWay ==
  /\ op.key \in Keys \ (Pool \ used)
  /\ op.kind = "boot" <=> ~up
  /\ IF op.kind = "boot" THEN StartUnderWay ELSE "meta" \notin op.todo
  /\ IF "clients" \in op.todo THEN ClientsPending ELSE ClientsWritten

KeysKept ==
  /\ Intact
  /\ \A k \in Keys : KeyKept(k)
  /\ SecretsNamed
  /\ op.kind # "none" => UnderWay

KeptInv == StoreInv /\ damage \in Nat /\ (damage = 0 => KeysKept)

LEMMA DocTypes ==
  ASSUME StoreInv
  PROVE  /\ Clients \in [Keys -> Statuses] /\ Meta \in Secrets
         /\ op.docs.clients \in [Keys -> Statuses] /\ op.docs.meta \in Secrets
         /\ promise \in [Keys -> {"new", "valid", "open", "revoked"}]
         /\ reported \in attempted /\ attempted \subseteq Secrets
<1>1. Clients \in Documents["clients"] /\ Meta \in Documents["meta"]
  BY ReadType DEF StoreInv, Clients, Meta, Files
<1>2. OpOK /\ HistoryOK
  BY Parts DEF StoreInv
<1>. QED
  BY <1>1, <1>2 DEF OpOK, HistoryOK, Documents

LEMMA SameFiles ==
  ASSUME files' = files PROVE Clients' = Clients /\ Meta' = Meta /\ (Intact => Intact')
BY DEF Clients, Meta, Read, Intact

LEMMA BackupReads ==
  ASSUME StoreInv, Intact, WriteBackup PROVE Clients' = Clients /\ Meta' = Meta /\ Intact'
<1>1. FilesOK
  BY Parts DEF StoreInv
<1>2. Current \in Files /\ files' = Store(Current, files[Current].main, BackUp(Current))
  BY CurrentFile DEF StoreInv, WriteBackup
<1>3. ASSUME NEW f \in Files PROVE files'[f].main = files[f].main
  BY <1>2 DEF Store
<1>4. ASSUME NEW f \in Files
      PROVE  \/ files'[f].bak = files[f].bak
             \/ files[f].main.tag = "whole"
  BY <1>2 DEF Store, BackUp, Intact
<1>5. Intact'
  BY <1>3, <1>4 DEF Intact
<1>6. ASSUME NEW f \in Files PROVE Read(f)' = Read(f)
  BY <1>3, <1>4 DEF Read
<1>. QED
  BY <1>5, <1>6 DEF Clients, Meta, Files

LEMMA RenameReads ==
  ASSUME StoreInv, Intact, Rename
  PROVE  /\ Intact'
         /\ "clients" \in op.todo => Clients' = op.docs.clients /\ Meta' = Meta
         /\ "clients" \notin op.todo =>
              Clients' = Clients /\ Meta' = op.docs.meta /\ "meta" \in op.todo
<1>1. Current \in op.todo /\ Current \in Files
  BY CurrentFile DEF StoreInv, Rename
<1>2. files' = Store(Current, Whole(op.docs[Current]), files[Current].bak)
  BY DEF Rename
<1>3. ASSUME NEW f \in Files, f # Current PROVE files'[f] = files[f] /\ Read(f)' = Read(f)
  BY <1>2, <1>3 DEF Store, Read
<1>4. files'[Current].main = Whole(op.docs[Current])
  BY <1>1, <1>2 DEF Store
<1>5. ASSUME NEW f \in Files, f = Current PROVE Read(f)' = Whole(op.docs[f])
  BY <1>4, <1>5 DEF Read, Whole
<1>6. Intact'
  BY <1>3, <1>4 DEF Intact, Whole
<1>7. CASE "clients" \in op.todo
  <2>1. Current = "clients"
    BY <1>7 DEF Current
  <2>2. Read("clients")' = Whole(op.docs.clients) /\ Read("meta")' = Read("meta")
    BY <1>3, <1>5, <2>1 DEF Files
  <2>. QED
    BY <1>6, <1>7, <2>2 DEF Clients, Meta, Whole
<1>8. CASE "clients" \notin op.todo
  <2>1. Current = "meta"
    BY <1>8 DEF Current
  <2>2. Read("meta")' = Whole(op.docs.meta) /\ Read("clients")' = Read("clients")
    BY <1>3, <1>5, <2>1 DEF Files
  <2>. QED
    BY <1>1, <1>6, <1>8, <2>1, <2>2 DEF Clients, Meta, Whole
<1>. QED
  BY <1>7, <1>8
LEMMA InitKept == Init => KeptInv
<1>. SUFFICES ASSUME Init PROVE KeptInv
  OBVIOUS
<1>1. Read("clients") = Whole(Fresh["clients"]) /\ Read("meta") = Whole(Fresh["meta"])
  BY InitDocument DEF Files
<1>2. Clients = [k \in Keys |-> "none"] /\ Meta = Fresh["meta"] /\ Meta.api = NoKey
  BY <1>1 DEF Clients, Meta, Whole, Fresh
<1>3. Intact
  BY DEF Init, Intact, Bare
<1>4. \A k \in Keys : KeyKept(k)
  BY <1>2 DEF Init, KeyKept
<1>5. SecretsNamed
  BY <1>2 DEF Init, SecretsNamed
<1>6. op.kind = "none"
  BY DEF Init, Idle, Operation
<1>. QED
  BY <1>3, <1>4, <1>5, <1>6, InitInv DEF KeptInv, KeysKept, Init

\* The secrets that a start finds and that no start has reported were about to
\* be: it knows that it may have come from another key.
LEMMA ReopenKept ==
  ASSUME StoreInv, KeysKept, NEW a \in Keys
  PROVE  /\ Clients[a] # "none" => Reopen(a) = promise[a]
         /\ Clients[a] = "none" => Reopen(a) # "valid"
         /\ Register(a) => Reopen(a) \in {"new", "open"}
         /\ Clients[a] = "none" /\ Meta.api = a => reported.api = a /\ Reopen(a) # "new"
         /\ Reopen(a) = "new" /\ reported.api = a => promise[a] = "new"
         /\ Reopen(a) = "revoked" => promise[a] = "revoked"
<1>1. KeyKept(a) /\ SecretsNamed
  BY DEF KeysKept
<1>2. Clients[a] # "none" => Reopen(a) = promise[a]
  BY DEF Reopen
<1>3. Reopen(a) \in {promise[a], "new", "open"}
  BY DEF Reopen
<1>4. Clients[a] = "none" => Reopen(a) # "valid"
  BY <1>1, <1>3 DEF KeyKept
<1>5. a # NoKey
  BY ConstantsOK
<1>6. CASE Register(a)
  <2>1. Clients[a] = "none" /\ Meta.api # a /\ Meta \in attempted
    BY <1>1, <1>6 DEF Register, SecretsNamed
  <2>2. Reopen(a) \in {"new", "open"}
    BY <2>1 DEF Reopen
  <2>3. reported.api = a => Reopen(a) = "open"
    BY <2>1 DEF Reopen
  <2>. QED
    BY <1>3, <1>4, <2>1, <2>2, <2>3
<1>7. CASE ~Register(a) /\ Clients[a] = "none"
  <2>1. Meta.api = a
    BY <1>7 DEF Register
  <2>2. reported.api = a
    BY <1>1, <1>5, <1>7, <2>1 DEF SecretsNamed
  <2>3. Reopen(a) \in {promise[a], "open"} /\ promise[a] # "new"
    BY <1>1, <1>5, <1>7, <2>2 DEF Reopen, SecretsNamed
  <2>. QED
    BY <1>3, <1>4, <1>7, <2>2, <2>3
<1>8. CASE Clients[a] # "none"
  BY <1>2, <1>8 DEF Register
<1>. QED
  BY <1>6, <1>7, <1>8

LEMMA BootKept ==
  ASSUME StoreInv, KeysKept, NEW api \in ApiKeys \cup {NoKey},
         NEW admin \in AdminKeys \cup {NoKey}, Boot(api, admin)
  PROVE  KeysKept'
<1>1. PICK a \in Resolve(api, Meta.api), d \in Resolve(admin, Meta.admin) :
        LET secrets == [api |-> a, admin |-> d]
            todo == (IF Register(a) THEN {"clients"} ELSE {})
                    \cup (IF Stale(secrets) THEN {"meta"} ELSE {})
        IN /\ op' = Operation("boot", a, todo,
                      [clients |-> [Clients EXCEPT ![a] =
                                      IF Register(a) THEN "active" ELSE @],
                       meta |-> secrets])
           /\ used' = used \cup ({a, d} \cap Pool)
           /\ promise' = [promise EXCEPT ![a] = Reopen(a)]
           /\ attempted' = attempted \cup {secrets}
  BY DEF Boot
<1>2. files' = files /\ up' = up /\ reported' = reported /\ ~up
  BY DEF Boot
<1>3. Clients' = Clients /\ Meta' = Meta /\ Intact'
  BY <1>2, SameFiles DEF KeysKept
<1>. DEFINE secrets == [api |-> a, admin |-> d]
            todo == (IF Register(a) THEN {"clients"} ELSE {})
                    \cup (IF Stale(secrets) THEN {"meta"} ELSE {})
            doc == [Clients EXCEPT ![a] = IF Register(a) THEN "active" ELSE Clients[a]]
<1>4. a \in Keys /\ d \in AdminKeys \cup Pool
  BY DocTypes DEF Resolve, Secrets, Keys
<1>5. secrets \in Documents["meta"] /\ secrets.api = a
  BY <1>4 DEF Documents, Secrets
<1>6. doc \in Documents["clients"]
  BY <1>4, DocTypes DEF Documents, Statuses
<1>7. /\ todo \in SUBSET Files /\ ("clients" \in todo <=> Register(a))
      /\ "meta" \in todo <=> secrets # Meta
  BY DEF Files, Stale
<1>8. Register(a) => doc[a] = "active" /\ \A k \in Keys \ {a} : doc[k] = Clients[k]
  BY <1>4, DocTypes
<1>9. op' = Operation("boot", a, todo, [clients |-> doc, meta |-> secrets])
  BY <1>1
<1>10. /\ attempted' = attempted \cup {secrets}
       /\ promise' = [promise EXCEPT ![a] = Reopen(a)]
       /\ used' = used \cup ({a, d} \cap Pool)
  BY <1>1
<1>11. /\ op'.kind = "boot" /\ op'.key = a /\ op'.todo = todo
       /\ op'.docs.clients = doc /\ op'.docs.meta = secrets
  <2>. HIDE DEF secrets, todo, doc
  <2>1. "boot" \in Kinds \ {"none"}
    BY DEF Kinds
  <2>. QED
    BY <1>4, <1>5, <1>6, <1>7, <1>9, <2>1, NewOperation
<1>. HIDE DEF secrets, todo, doc
<1>12. /\ promise'[a] = Reopen(a) /\ \A k \in Keys \ {a} : promise'[k] = promise[k]
       /\ a \notin Pool \ used'
  BY <1>4, <1>10, DocTypes
<1>13. ASSUME NEW k \in Keys PROVE KeyKept(k)'
  <2>1. KeyKept(k)
    BY DEF KeysKept
  <2>2. CASE k # a
    BY <1>3, <1>10, <1>12, <2>1, <2>2 DEF KeyKept
  <2>3. CASE k = a
    <3>1. Clients[a] # "none" => Reopen(a) = promise[a]
      BY <1>4, ReopenKept
    <3>2. Clients[a] = "none" => Reopen(a) # "valid"
      BY <1>4, ReopenKept
    <3>. QED
      BY <1>3, <1>12, <2>1, <2>3, <3>1, <3>2 DEF KeyKept
  <2>. QED
    BY <2>2, <2>3
<1>14. SecretsNamed'
  <2>1. SecretsNamed
    BY DEF KeysKept
  <2>2. reported.api = a => promise'[a] # "new"
    <3>1. a # NoKey
      BY <1>4, ConstantsOK
    <3>. QED
      BY <1>4, <1>12, <2>1, <3>1, ReopenKept DEF SecretsNamed
  <2>3. reported.api # NoKey => promise'[reported.api] # "new"
    <3>1. reported.api \in Keys \cup {NoKey}
      BY DocTypes DEF Secrets
    <3>. QED
      BY <1>12, <2>1, <2>2, <3>1 DEF SecretsNamed
  <2>. QED
    BY <1>2, <1>3, <1>10, <2>1, <2>3 DEF SecretsNamed
<1>15. UnderWay'
  <2>1. StartUnderWay'
    BY <1>3, <1>5, <1>7, <1>10, <1>11 DEF StartUnderWay
  <2>2. CASE Register(a)
    <3>1. ClientsPending'
      BY <1>3, <1>4, <1>8, <1>11, <1>12, <2>2, ReopenKept DEF ClientsPending
    <3>. QED
      BY <1>2, <1>4, <1>7, <1>11, <1>12, <2>1, <2>2, <3>1 DEF UnderWay
  <2>3. CASE ~Register(a)
    <3>1. KeyKept(a)
      BY <1>4 DEF KeysKept
    <3>2. CASE Clients[a] # "none"
      <4>1. promise'[a] = "new" => Clients[a] = "active"
        BY <1>4, <1>12, <3>1, <3>2, ReopenKept DEF KeyKept
      <4>. QED
        BY <1>2, <1>3, <1>4, <1>7, <1>11, <1>12, <2>1, <2>3, <3>2, <4>1
          DEF UnderWay, ClientsWritten
    <3>3. CASE Clients[a] = "none"
      <4>1. Meta.api = a
        BY <2>3, <3>3 DEF Register
      <4>2. reported.api = a /\ promise'[a] # "new"
        BY <1>4, <1>12, <3>3, <4>1, ReopenKept
      <4>. QED
        BY <1>2, <1>3, <1>4, <1>7, <1>11, <1>12, <2>1, <2>3, <4>2
          DEF UnderWay, ClientsWritten
    <3>. QED
      BY <3>2, <3>3
  <2>. QED
    BY <2>2, <2>3
<1>. QED
  BY <1>3, <1>13, <1>14, <1>15 DEF KeysKept

\* An operation on the record of a key that is there, or of one just drawn.
LEMMA EditKept ==
  ASSUME StoreInv, KeysKept, NEW kind \in Kinds \ {"none", "boot"}, NEW k \in Keys,
         NEW from, NEW to \in Statuses, Edit(kind, k, from, to),
         IF kind \in {"delete", "disable"}
         THEN to # "active" /\ promise'[k] \in {"open", "revoked"}
         ELSE to = "active" /\ promise'[k] # "revoked",
         k \in Pool \ used \/ Clients[k] # "none",
         k \in Pool => k \in used',
         used \subseteq used',
         \/ promise' = promise
         \/ \E p \in {"open", "revoked"} :
              /\ promise' = [promise EXCEPT ![k] = p]
              /\ p = "revoked" => promise[k] = "revoked"
  PROVE  KeysKept'
<1>. DEFINE doc == [Clients EXCEPT ![k] = to]
<1>1. /\ files' = files /\ up' = up /\ reported' = reported /\ up /\ attempted' = attempted
      /\ op' = Operation(kind, k, {"clients"}, [clients |-> doc, meta |-> Fresh["meta"]])
  BY DEF Edit
<1>2. Clients' = Clients /\ Meta' = Meta /\ Intact'
  BY <1>1, SameFiles DEF KeysKept
<1>3. doc \in Documents["clients"] /\ Fresh["meta"] \in Documents["meta"]
  BY DocTypes, FreshDocuments DEF Documents, Files
<1>4. {"clients"} \in SUBSET Files
  BY DEF Files
<1>5. doc[k] = to /\ \A j \in Keys \ {k} : doc[j] = Clients[j]
  BY DocTypes
<1>. HIDE DEF doc
<1>6. op'.kind = kind /\ op'.key = k /\ op'.todo = {"clients"} /\ op'.docs.clients = doc
  BY <1>1, <1>3, <1>4, NewOperation
<1>7. \A j \in Keys \ {k} : promise'[j] = promise[j]
  BY DocTypes
<1>8. promise'[k] = promise[k] \/ promise'[k] = "open"
  BY DocTypes
<1>9. ASSUME NEW j \in Keys PROVE KeyKept(j)'
  <2>1. KeyKept(j)
    BY DEF KeysKept
  <2>2. CASE j # k
    BY <1>2, <1>7, <2>1, <2>2 DEF KeyKept
  <2>3. CASE j = k
    BY <1>2, <1>8, <2>1, <2>3 DEF KeyKept
  <2>. QED
    BY <2>2, <2>3
<1>10. SecretsNamed'
  <2>1. SecretsNamed /\ reported.api \in Keys \cup {NoKey}
    BY DocTypes DEF KeysKept, Secrets
  <2>2. reported.api # NoKey => promise'[reported.api] # "new"
    BY <1>7, <1>8, <2>1 DEF SecretsNamed
  <2>. QED
    BY <1>1, <1>2, <2>1, <2>2 DEF SecretsNamed
<1>11. ClientsPending'
  BY <1>2, <1>5, <1>6 DEF ClientsPending
<1>12. UnderWay'
  BY <1>1, <1>6, <1>11 DEF UnderWay
<1>. QED
  BY <1>2, <1>9, <1>10, <1>12 DEF KeysKept

LEMMA EditsKept ==
  ASSUME StoreInv, KeysKept, NEW k \in Keys,
         CreateClient(k) \/ DeleteClient(k) \/ DisableClient(k) \/ EnableClient(k)
  PROVE  KeysKept'
<1>1. KeyKept(k) /\ promise \in [Keys -> {"new", "valid", "open", "revoked"}] /\ used \subseteq Pool
  BY DocTypes, Parts DEF KeysKept, StoreInv, HistoryOK
<1>2. CASE CreateClient(k)
  <2>1. promise[k] = "new" /\ promise' = promise /\ k \in Pool \ used /\ used' = used \cup {k}
    BY <1>1, <1>2 DEF CreateClient, KeyKept
  <2>2. Edit("create", k, {"none"}, "active")
    BY <1>2 DEF CreateClient
  <2>. QED
    BY <2>1, <2>2, EditKept DEF Kinds, Statuses
<1>3. ASSUME NEW kind \in {"delete", "disable"}, NEW to \in {"none", "disabled"}, Revoke(kind, k, to)
      PROVE  KeysKept'
  <2>1. /\ Edit(kind, k, {"active", "disabled"}, to) /\ used' = used
        /\ promise' = [promise EXCEPT ![k] = IF @ = "revoked" THEN @ ELSE "open"]
    BY <1>3 DEF Revoke
  <2>2. Clients[k] # "none" /\ k \notin Pool \ used
    BY <1>1, <2>1 DEF Edit, KeyKept
  <2>3. \E p \in {"open", "revoked"} :
          /\ promise' = [promise EXCEPT ![k] = p]
          /\ p = "revoked" => promise[k] = "revoked"
    BY <1>1, <2>1
  <2>4. promise'[k] \in {"open", "revoked"}
    BY <1>1, <2>1
  <2>5. kind \in Kinds \ {"none", "boot"} /\ to \in Statuses /\ to # "active"
    BY <1>3 DEF Kinds, Statuses
  <2>6. IF kind \in {"delete", "disable"}
        THEN to # "active" /\ promise'[k] \in {"open", "revoked"}
        ELSE to = "active" /\ promise'[k] # "revoked"
    BY <1>3, <2>4, <2>5
  <2>7. (k \in Pool => k \in used') /\ used \subseteq used'
    BY <2>1, <2>2
  <2>. QED
    BY <2>1, <2>2, <2>3, <2>5, <2>6, <2>7, EditKept
<1>4. CASE EnableClient(k)
  <2>1. /\ Edit("enable", k, {"active", "disabled"}, "active") /\ used' = used
        /\ promise' = [promise EXCEPT ![k] = "open"]
    BY <1>4 DEF EnableClient
  <2>2. Clients[k] # "none" /\ k \notin Pool \ used /\ promise'[k] = "open"
    BY <1>1, <2>1 DEF Edit, KeyKept
  <2>. QED
    BY <1>1, <2>1, <2>2, EditKept DEF Kinds, Statuses
<1>. QED
  BY <1>2, <1>3, <1>4 DEF DeleteClient, DisableClient

LEMMA BackupKept == ASSUME StoreInv, KeysKept, WriteBackup PROVE KeysKept'
<1>1. /\ op' = [op EXCEPT !.stage = "rename"]
      /\ UNCHANGED <<up, used, promise, reported, attempted>>
  BY DEF WriteBackup, history
<1>2. op'.kind = op.kind /\ op'.key = op.key /\ op'.todo = op.todo /\ op'.docs = op.docs
  BY <1>1, Parts DEF StoreInv, OpOK
<1>3. Clients' = Clients /\ Meta' = Meta /\ Intact'
  BY BackupReads DEF KeysKept
<1>4. \A k \in Keys : KeyKept(k)'
  BY <1>1, <1>3 DEF KeysKept, KeyKept
<1>5. SecretsNamed'
  BY <1>1, <1>3 DEF KeysKept, SecretsNamed
<1>6. op.kind # "none" => UnderWay'
  BY <1>1, <1>2, <1>3 DEF KeysKept, UnderWay, StartUnderWay, ClientsPending, ClientsWritten
<1>. QED
  BY <1>2, <1>3, <1>4, <1>5, <1>6 DEF KeysKept

\* The keys before the secrets: when the secrets are written, the key that
\* they name has its record.
LEMMA RenameKept == ASSUME StoreInv, KeysKept, Rename PROVE KeysKept'
<1>1. UNCHANGED <<up, used, promise, reported, attempted>>
  BY DEF Rename, history
<1>2. /\ op'.kind = op.kind /\ op'.key = op.key /\ op'.docs = op.docs
      /\ op'.todo = op.todo \ {Current} /\ op.kind # "none"
  BY Parts DEF StoreInv, OpOK, Rename
<1>3. UnderWay /\ SecretsNamed /\ op.key \in Keys
  BY <1>2 DEF KeysKept, UnderWay
<1>4. op.kind \in Kinds
  BY Parts DEF StoreInv, OpOK
<1>5. CASE "clients" \in op.todo
  <2>1. /\ Clients' = op.docs.clients /\ Meta' = Meta /\ Intact' /\ Current = "clients"
        /\ "clients" \notin op'.todo /\ ("meta" \in op'.todo <=> "meta" \in op.todo)
    BY <1>2, <1>5, RenameReads DEF KeysKept, Current
  <2>2. ClientsPending
    BY <1>3, <1>5 DEF UnderWay
  <2>3. ASSUME NEW k \in Keys PROVE KeyKept(k)'
    <3>1. KeyKept(k)
      BY DEF KeysKept
    <3>2. CASE k # op.key
      <4>1. Clients'[k] = Clients[k]
        BY <2>1, <2>2, <3>2 DEF ClientsPending
      <4>. QED
        BY <1>1, <3>1, <4>1 DEF KeyKept
    <3>3. CASE k = op.key
      <4>1. k \notin Pool \ used
        BY <1>3, <3>3 DEF UnderWay
      <4>. QED
        BY <1>1, <2>1, <2>2, <3>3, <4>1 DEF KeyKept, ClientsPending
    <3>. QED
      BY <3>2, <3>3
  <2>4. SecretsNamed'
    <3>1. ASSUME Meta.api \notin {reported.api, NoKey} PROVE Clients'[Meta.api] # "none"
      <4>1. ~up /\ op.kind = "boot" /\ Meta.api \in Keys /\ Clients[Meta.api] # "none"
        BY <1>3, <3>1, DocTypes DEF SecretsNamed, UnderWay, Secrets
      <4>. QED
        BY <2>1, <2>2, <4>1 DEF ClientsPending
    <3>. QED
      BY <1>1, <1>3, <2>1, <3>1 DEF SecretsNamed
  <2>5. ClientsWritten'
    BY <1>1, <1>2, <2>1, <2>2 DEF ClientsWritten, ClientsPending
  <2>6. UnderWay'
    BY <1>1, <1>2, <1>3, <2>1, <2>5 DEF UnderWay, StartUnderWay
  <2>. QED
    BY <2>1, <2>3, <2>4, <2>6 DEF KeysKept
<1>6. CASE "clients" \notin op.todo
  <2>1. /\ Clients' = Clients /\ Meta' = op.docs.meta /\ Intact' /\ Current = "meta"
        /\ "meta" \in op.todo /\ "clients" \notin op'.todo
    BY <1>2, <1>6, RenameReads DEF KeysKept, Current
  <2>2. op.kind = "boot" /\ ~up /\ StartUnderWay /\ ClientsWritten
    BY <1>3, <1>6, <2>1 DEF UnderWay
  <2>3. \A k \in Keys : KeyKept(k)'
    BY <1>1, <2>1 DEF KeysKept, KeyKept
  <2>4. SecretsNamed'
    BY <1>1, <1>3, <2>1, <2>2 DEF SecretsNamed, StartUnderWay, ClientsWritten
  <2>5. ClientsWritten' /\ StartUnderWay'
    BY <1>1, <1>2, <2>1, <2>2 DEF ClientsWritten, StartUnderWay
  <2>6. UnderWay'
    BY <1>1, <1>2, <1>3, <2>1, <2>2, <2>5 DEF UnderWay
  <2>. QED
    BY <2>1, <2>3, <2>4, <2>6 DEF KeysKept
<1>. QED
  BY <1>5, <1>6

LEMMA IdleKind == Idle.kind = "none"
BY DEF Idle, Operation

LEMMA ReturnKept == ASSUME StoreInv, KeysKept, Return PROVE KeysKept'
<1>1. /\ files' = files /\ used' = used /\ op' = Idle
      /\ promise' = [promise EXCEPT ![op.key] = Acknowledged(op.kind, promise[op.key])]
  BY DEF Return
<1>2. op.kind \in Kinds \ {"none"} /\ op.todo = {}
  BY Parts DEF StoreInv, OpOK, Return
<1>3. UnderWay /\ ClientsWritten /\ op.key \in Keys \ (Pool \ used) /\ SecretsNamed
  BY <1>2 DEF KeysKept, UnderWay
<1>4. Clients' = Clients /\ Meta' = Meta /\ Intact'
  BY <1>1, SameFiles DEF KeysKept
<1>5. /\ promise'[op.key] = Acknowledged(op.kind, promise[op.key])
      /\ \A k \in Keys \ {op.key} : promise'[k] = promise[k]
  BY <1>1, <1>3, DocTypes
<1>6. /\ op.kind \in {"create", "enable"} => promise'[op.key] = "valid"
      /\ op.kind \in {"delete", "disable"} => promise'[op.key] = "revoked"
      /\ op.kind = "boot" => promise'[op.key] = IF promise[op.key] = "new" THEN "valid"
                                                ELSE promise[op.key]
  BY <1>5 DEF Acknowledged
<1>7. ASSUME NEW k \in Keys PROVE KeyKept(k)'
  <2>1. KeyKept(k)
    BY DEF KeysKept
  <2>2. CASE k # op.key
    BY <1>1, <1>4, <1>5, <2>1, <2>2 DEF KeyKept
  <2>3. CASE k = op.key
    BY <1>1, <1>2, <1>3, <1>4, <1>6, <2>1, <2>3 DEF KeyKept, ClientsWritten, Kinds
  <2>. QED
    BY <2>2, <2>3
<1>8. SecretsNamed'
  <2>1. CASE op.kind = "boot"
    <3>1. Meta = op.docs.meta /\ op.docs.meta.api = op.key
      BY <1>2, <1>3, <2>1 DEF UnderWay, StartUnderWay
    <3>2. reported' = op.docs.meta /\ attempted' = {op.docs.meta}
      BY <2>1 DEF Return
    <3>3. promise'[op.key] # "new"
      BY <1>6, <2>1
    <3>. QED
      BY <1>4, <3>1, <3>2, <3>3 DEF SecretsNamed
  <2>2. CASE op.kind # "boot"
    <3>1. reported' = reported /\ attempted' = attempted /\ up' = up
      BY <2>2 DEF Return
    <3>2. promise'[op.key] # "new"
      BY <1>2, <1>6, <2>2 DEF Kinds
    <3>3. reported.api \in Keys \cup {NoKey}
      BY DocTypes DEF Secrets
    <3>4. reported.api # NoKey => promise'[reported.api] # "new"
      BY <1>3, <1>5, <3>2, <3>3 DEF SecretsNamed
    <3>. QED
      BY <1>3, <1>4, <3>1, <3>4 DEF SecretsNamed
  <2>. QED
    BY <2>1, <2>2
<1>. QED
  BY <1>1, <1>4, <1>7, <1>8, IdleKind DEF KeysKept

LEMMA AbandonKept == ASSUME StoreInv, KeysKept, Fail \/ Crash \/ Refuse PROVE KeysKept'
<1>1. /\ files' = files /\ op' = Idle /\ (up' => up)
      /\ UNCHANGED <<used, promise, reported, attempted>>
  BY DEF Fail, Crash, Refuse, history
<1>2. Clients' = Clients /\ Meta' = Meta /\ Intact'
  BY <1>1, SameFiles DEF KeysKept
<1>3. \A k \in Keys : KeyKept(k)'
  BY <1>1, <1>2 DEF KeysKept, KeyKept
<1>4. SecretsNamed'
  BY <1>1, <1>2 DEF KeysKept, SecretsNamed
<1>. QED
  BY <1>1, <1>2, <1>3, <1>4, IdleKind DEF KeysKept

LEMMA NextKept == KeptInv /\ [Next]_vars => KeptInv'
<1>. SUFFICES ASSUME KeptInv, [Next]_vars PROVE KeptInv'
  OBVIOUS
<1>1. StoreInv /\ StoreInv' /\ damage \in Nat
  BY NextInv DEF KeptInv
<1>2. ASSUME damage' = damage, KeysKept => KeysKept' PROVE KeptInv'
  BY <1>1, <1>2 DEF KeptInv
<1>3. CASE \E api \in ApiKeys \cup {NoKey}, admin \in AdminKeys \cup {NoKey} : Boot(api, admin)
  <2>1. damage' = damage
    BY <1>3 DEF Boot, budget
  <2>. QED
    BY <1>1, <1>2, <1>3, <2>1, BootKept
<1>4. CASE \E k \in Keys : \/ CreateClient(k) \/ DeleteClient(k)
                           \/ DisableClient(k) \/ EnableClient(k)
  <2>1. damage' = damage
    BY <1>4 DEF CreateClient, DeleteClient, DisableClient, EnableClient, Revoke, Edit
  <2>. QED
    BY <1>1, <1>2, <1>4, <2>1, EditsKept
<1>5. CASE WriteBackup
  <2>1. damage' = damage
    BY <1>5 DEF WriteBackup, budget
  <2>. QED
    BY <1>1, <1>2, <1>5, <2>1, BackupKept
<1>6. CASE Rename
  <2>1. damage' = damage
    BY <1>6 DEF Rename, budget
  <2>. QED
    BY <1>1, <1>2, <1>6, <2>1, RenameKept
<1>7. CASE Return
  <2>1. damage' = damage
    BY <1>7 DEF Return, budget
  <2>. QED
    BY <1>1, <1>2, <1>7, <2>1, ReturnKept
<1>8. CASE Fail \/ Crash \/ Refuse
  <2>1. damage' = damage
    BY <1>8 DEF Fail, Crash, Refuse, budget
  <2>. QED
    BY <1>1, <1>2, <1>8, <2>1, AbandonKept
<1>9. CASE \E f \in Files, tag \in Ruins : Damage(f, tag)
  <2>1. damage' = damage + 1
    BY <1>9 DEF Damage
  <2>. QED
    BY <1>1, <2>1 DEF KeptInv
<1>10. CASE UNCHANGED vars
  <2>1. damage' = damage /\ UNCHANGED <<files, op, up, used, promise, reported, attempted>>
    BY <1>10 DEF vars, budget, history
  <2>2. Clients' = Clients /\ Meta' = Meta /\ (Intact => Intact')
    BY <2>1, SameFiles
  <2>3. KeysKept => KeysKept'
    BY <2>1, <2>2 DEF KeysKept, KeyKept, SecretsNamed, UnderWay, StartUnderWay,
                      ClientsPending, ClientsWritten
  <2>. QED
    BY <1>2, <2>1, <2>3
<1>. QED
  BY <1>3, <1>4, <1>5, <1>6, <1>7, <1>8, <1>9, <1>10 DEF Next

LEMMA Kept == Spec => []KeptInv
BY InitKept, NextKept, PTL DEF Spec

LEMMA IntactReadable == ASSUME Intact PROVE Readable("clients")
BY DEF Intact, Readable, Read, Whole, Files

\* An acknowledged key opens the proxy through any crashes, failed writes and
\* restarts (EnsureBootstrapKeys, CreateClient, SetClientDisabled).
THEOREM GrantsAreKept == Spec => []GrantsKept
<1>1. KeptInv => GrantsKept
  BY IntactReadable DEF KeptInv, KeysKept, KeyKept, GrantsKept, Authenticates
<1>. QED
  BY <1>1, Kept, PTL

\* A revoked key stays out through any crashes, failed writes and restarts,
\* unless the operator rotates back to it (EnsureBootstrapKeys, DeleteClient,
\* SetClientDisabled).
THEOREM RevocationsAreKept == Spec => []RevocationsKept
<1>1. KeptInv => RevocationsKept
  BY DEF KeptInv, KeysKept, KeyKept, RevocationsKept, Authenticates
<1>. QED
  BY <1>1, Kept, PTL

\* A start finds the secrets of the last successful start or of an attempt
\* since (EnsureBootstrapKeys).
THEOREM SecretsAreKept == Spec => []SecretsKept
<1>1. KeptInv => SecretsKept
  BY DEF KeptInv, KeysKept, SecretsNamed, SecretsKept
<1>. QED
  BY <1>1, Kept, PTL
=============================================================================
