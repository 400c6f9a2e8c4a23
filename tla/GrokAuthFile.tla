---------------------------- MODULE GrokAuthFile ----------------------------
(***************************************************************************)
(* What an uploaded document is to the two parsers of an import:           *)
(* ParseGrokAuthJSONDetailedLimit (internal/auth/import_grok.go), a count  *)
(* that stops early and then the parse itself, and parseSSOValues          *)
(* (internal/importer/manager.go).                                         *)
(*                                                                         *)
(* A document has a shape; JSON that does not parse is "broken", anything  *)
(* else that is not JSON is "text". An array is a sequence of entries, an  *)
(* object a sequence of members (text, a list, an object) in the order of  *)
(* the file, repeated names included. sso holds the cookies the SSO parser *)
(* would collect, bare the entry an object is when it has token fields of  *)
(* its own. An entry either has tokens or not, and names an account. It is *)
(* sound when it decodes and, if it has tokens, validates (type,           *)
(* expires_at, oidc_issuer): a member without tokens is passed over before *)
(* it would be validated, and a list is rejected for it anyway.            *)
(***************************************************************************)
EXTENDS Naturals, Sequences, SequencesExt

CONSTANTS
  MaxEntries,         \* import.max_entries
  MaxImportWarnings   \* maxImportWarnings: members beyond the entries

ASSUME MaxEntriesOK == MaxEntries \in Nat \ {0}
ASSUME MaxImportWarningsOK == MaxImportWarnings \in Nat

Ok(list) == [outcome |-> "ok", list |-> list]
Bad      == [outcome |-> "bad", list |-> <<>>]
TooMany  == [outcome |-> "limit", list |-> <<>>]

TokenFields == {"key", "access_token", "refresh_token"}
ListFields  == {"accounts", "credentials"}

HasText(member) == member.kind = "text" /\ ~member.blank

-----------------------------------------------------------------------------
(***************************************************************************)
(* The parser.                                                             *)
(***************************************************************************)
\* normalizeRawEntries: one bad entry rejects the list.
NormalizeRawEntries(entries) ==
  IF entries # <<>> /\ \A i \in DOMAIN entries : entries[i].token /\ entries[i].sound
  THEN Ok([i \in DOMAIN entries |-> entries[i].who])
  ELSE Bad

\* The last of the members with a name is the one that is decoded.
LastOfName(members, i) == \A k \in DOMAIN members : members[k].name = members[i].name => k <= i

TokenMembers(members) ==
  {i \in DOMAIN members : members[i].name \in TokenFields /\ LastOfName(members, i)}

\* What one member adds to a document that has no token fields of its own.
ParseMember(member) ==
  IF member.name \in ListFields
  THEN IF member.kind = "list" THEN NormalizeRawEntries(member.entries) ELSE Bad
  ELSE IF member.kind # "object" THEN Ok(<<>>)
  ELSE IF ~member.entry.sound THEN Bad
  ELSE Ok(IF member.entry.token THEN <<member.entry.who>> ELSE <<>>)

ParseMembers(members) ==
  LET parts == [i \in DOMAIN members |-> ParseMember(members[i])]
      list  == FlattenSeq([i \in DOMAIN members |-> parts[i].list])
  IN IF (\A i \in DOMAIN parts : parts[i].outcome = "ok") /\ list # <<>> THEN Ok(list) ELSE Bad

\* ParseGrokAuthJSONDetailed
Parse(doc) ==
  CASE doc.shape = "list" -> NormalizeRawEntries(doc.entries)
    [] doc.shape = "object" ->
         IF \E i \in TokenMembers(doc.members) : doc.members[i].kind # "text" THEN Bad
         ELSE IF \E i \in TokenMembers(doc.members) : HasText(doc.members[i])
              THEN NormalizeRawEntries(<<doc.bare>>)
              ELSE ParseMembers(doc.members)
    [] OTHER -> Bad

-----------------------------------------------------------------------------
(***************************************************************************)
(* The count before it, which never builds more than one entry.            *)
(***************************************************************************)
\* topLevelBareHasToken: unlike the parser it takes any of the members with
\* the name.
TopLevelBareHasToken(members) ==
  \E i \in DOMAIN members : members[i].name \in TokenFields /\ HasText(members[i])

\* countCredentialMap after the members before this one: a count above the
\* limit or an error ends it.
CountMember(count, member, limit) ==
  IF count.bad \/ count.n > limit THEN count
  ELSE IF member.name \in ListFields
       THEN IF member.kind # "list" THEN [count EXCEPT !.bad = TRUE]
            ELSE [count EXCEPT !.n = IF Len(member.entries) > limit - @ THEN limit + 1
                                     ELSE @ + Len(member.entries)]
  ELSE IF member.kind = "object" /\ member.entry.token
       THEN [count EXCEPT !.n = @ + 1] ELSE count

CountCredentialMap(members, limit) ==
  LET seen  == SubSeq(members, 1, Min({Len(members), limit + MaxImportWarnings}))
      count == FoldLeft(LAMBDA c, member : CountMember(c, member, limit),
                        [n |-> 0, bad |-> FALSE], seen)
  IN IF ~count.bad /\ Len(members) > limit + MaxImportWarnings
     THEN [count EXCEPT !.n = limit + 1] ELSE count

\* countGrokAuthEntries
CountEntries(doc, limit) ==
  CASE doc.shape = "list" -> [n |-> Len(doc.entries), bad |-> FALSE]
    [] doc.shape = "object" ->
         IF TopLevelBareHasToken(doc.members) THEN [n |-> 1, bad |-> FALSE]
         ELSE CountCredentialMap(doc.members, limit)
    [] OTHER -> [n |-> 0, bad |-> TRUE]

\* ParseGrokAuthJSONDetailedLimit, with a positive limit
ParseLimit(doc, limit) ==
  LET count == CountEntries(doc, limit)
  IN IF count.bad THEN Bad ELSE IF count.n > limit THEN TooMany ELSE Parse(doc)

\* parseSSOValues
ParseSSOValues(doc, limit) ==
  IF doc.sso = <<>> THEN Bad ELSE IF Len(doc.sso) > limit THEN TooMany ELSE Ok(doc.sso)
=============================================================================
