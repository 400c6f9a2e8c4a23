---------------------------- MODULE MCImportJobs ----------------------------
(* Uploads and stored credentials for the run of ImportJobs. *)
EXTENDS ImportJobs

Ann == [user |-> "ann", team |-> "", email |-> "a@x", client |-> "cli",
        at |-> "a1", rt |-> "r1", valid |-> TRUE]
AnnAgain == [Ann EXCEPT !.at = "a2", !.rt = "r2"]
AnnByMail == [AnnAgain EXCEPT !.user = ""]
Bob == [user |-> "", team |-> "", email |-> "b@x", client |-> "cli",
        at |-> "b1", rt |-> "", valid |-> TRUE]
BadProxy == [Bob EXCEPT !.email = "c@x", !.valid = FALSE]

Entry(who) == [token |-> TRUE, sound |-> TRUE, who |-> who]
NoToken == [Entry(Bob) EXCEPT !.token = FALSE]

Text(name, blank) == [name |-> name, kind |-> "text", blank |-> blank]
Object(name, entry) == [name |-> name, kind |-> "object", entry |-> entry]
List(name, entries) == [name |-> name, kind |-> "list", entries |-> entries]

File(format, size, doc) == [format |-> format, size |-> size, doc |-> doc]
Array(entries) == [shape |-> "list", entries |-> entries, sso |-> <<>>]
Members(ms) == [shape |-> "object", members |-> ms, bare |-> Entry(Ann), sso |-> <<>>]
Cookies(values) == [shape |-> "text", sso |-> values]
Broken == [shape |-> "broken", sso |-> <<>>]

MCSeeded == <<NewCredential(Ann)>>

(* Members of every kind, one of them Ann without her user id, and a       *)
(* duplicate in another file.                                              *)
Plain == <<File("auto", 1, Members(<<Text("note", FALSE), List("accounts", <<Entry(AnnByMail)>>),
                                     Object("x", Entry(Bob)), Object("y", NoToken)>>)),
           File("json", 1, Array(<<Entry(Bob)>>))>>

(* Four entries that are hidden from the first count, and four that only   *)
(* add up when a file turns out to be bad.                                 *)
Four == <<Entry(Ann), Entry(Bob), Entry(Ann), Entry(Bob)>>
Hidden == <<File("auto", 1, Members(<<Text("key", FALSE), List("accounts", Four), Text("key", TRUE)>>))>>
AddUp == <<File("auto", 1, Array(<<Entry(AnnAgain), Entry(Bob)>>)), File("json", 1, Broken),
           File("sso", 0, Cookies(<<Bob>>))>>

Invalid == <<File("json", 1, Array(<<Entry(Bob), Entry(BadProxy)>>))>>

(* Cookies, also in a file that only looks like JSON by its name.          *)
Cookie == <<File("sso", 1, Cookies(<<Bob, AnnAgain>>)),
            File("auto", 1, [Broken EXCEPT !.sso = <<Ann>>])>>

(* An object with token fields of its own.                                 *)
Bare == <<File("auto", 1, Members(<<Text("key", FALSE), Object("x", Entry(Bob))>>))>>

MCUploads == [j \in Jobs |-> CASE j = "import_1" -> {Plain, Hidden, AddUp, Invalid}
                               [] j = "import_2" -> {Cookie}
                               [] OTHER -> {Bare, <<>>}]
=============================================================================
