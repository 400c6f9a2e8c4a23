--------------------------- MODULE AtomicDocument ---------------------------
(***************************************************************************)
(* What the store promises of one JSON document (store.go): a reader finds *)
(* the whole of the last committed version, whatever happens during a      *)
(* write, and the version it replaces is snapshotted first. When the       *)
(* primary is missing or no JSON, the reader gets that snapshot: one write *)
(* is lost and no more. Two kinds of damage are outside that promise, and  *)
(* are actions of their own: a primary of length zero reads as an empty    *)
(* document although there is a snapshot (Empty), and one that is JSON but *)
(* not of the document's shape takes the snapshot's place at the next      *)
(* write, so that nothing can be read until that write is done (Spoil).    *)
(***************************************************************************)
CONSTANTS
  Documents,    \* the versions a document can have
  Fresh,        \* the document of a file that does not exist or is empty
  Unreadable,   \* what a reader gets when nothing can be decoded
  Spoiled,      \* a snapshot that is no version of the document
  None          \* no snapshot; no write in progress

VARIABLES
  value,     \* the version a reader gets
  snapshot,  \* the version kept in reserve
  pending,   \* the version being written
  foreign    \* whether the primary is JSON of another shape

document == <<value, snapshot, pending, foreign>>

Init == value = Fresh /\ snapshot = None /\ pending = None /\ foreign = FALSE

Begin == /\ pending = None
         /\ value \in Documents
         /\ pending' \in Documents
         /\ UNCHANGED <<value, snapshot, foreign>>

Keep == /\ pending # None
        /\ ~foreign
        /\ value \in Documents
        /\ snapshot' = value
        /\ UNCHANGED <<value, pending, foreign>>

\* A version may be replaced once it is in reserve; nothing is to be kept of a
\* document that is empty, was never written or was ruined during the write.
Commit == /\ pending # None
          /\ value \in {snapshot, Fresh, Unreadable}
          /\ value' = pending
          /\ pending' = None
          /\ foreign' = FALSE
          /\ UNCHANGED snapshot

Abort == /\ pending # None
         /\ pending' = None
         /\ UNCHANGED <<value, snapshot, foreign>>

\* The primary is lost from outside, or is no JSON any more. Where there is no
\* snapshot there was one write at most, or the snapshot was spoiled before.
Damage == /\ IF snapshot \in Documents THEN value' = snapshot
                                       ELSE value' \in {Fresh, Unreadable}
          /\ foreign' = FALSE
          /\ UNCHANGED <<snapshot, pending>>

\* The primary is JSON of another shape.
Misshape == /\ value' = IF snapshot \in Documents THEN snapshot ELSE Unreadable
            /\ foreign' = TRUE
            /\ UNCHANGED <<snapshot, pending>>

\* Such a primary is taken for one worth keeping: a good snapshot is gone.
Spoil == /\ foreign /\ pending # None
         /\ snapshot' = Spoiled
         /\ value' = Unreadable
         /\ UNCHANGED <<pending, foreign>>

\* The primary is truncated to nothing: everything reads as lost, and the
\* snapshot is not looked at.
Empty == /\ value' = Fresh
         /\ foreign' = FALSE
         /\ UNCHANGED <<snapshot, pending>>

Next == Begin \/ Keep \/ Commit \/ Abort \/ Damage \/ Misshape \/ Spoil \/ Empty
Spec == Init /\ [][Next]_document
=============================================================================
