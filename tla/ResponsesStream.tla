--------------------------- MODULE ResponsesStream ---------------------------
(***************************************************************************)
(* The upstream's event stream of one answer, as both stream translators   *)
(* of the proxy read it (internal/anthropic/stream.go and                  *)
(* internal/openai/chat_stream.go).  The upstream is not part of this      *)
(* repository: its events are the ones the translators have a case for.    *)
(*                                                                         *)
(* An answer is a set of output items.  The content of item i is Full[i]   *)
(* fragments, sent one by one in delta events or whole in the payload of a *)
(* "done" event or of the terminal event.                                  *)
(*                                                                         *)
(* An orderly upstream sends every fragment of an item once and in its     *)
(* place: the discipline of MaySend.  Any other upstream may send any      *)
(* event at any time, also after its own terminal event.                   *)
(***************************************************************************)
EXTENDS Naturals, Sequences, FiniteSets

CONSTANTS
  Messages,     \* output items of type "message"
  Calls,        \* output items of type "function_call"
  Reasonings,   \* output items of type "reasoning"
  Anonymous,    \* items the upstream gives no id: a message, a reasoning item
  Signed,       \* reasoning items that carry encrypted_content
  Output,       \* the items in the order of the terminal event's "output"
  Full,         \* fragments in the content of an item
  MaxStray,     \* bound on the events of an upstream that is not orderly
  NoItem        \* "no item id"

Items == Messages \cup Calls \cup Reasonings

ASSUME ItemsAssumption ==
  /\ Messages \cap Calls = {} /\ Messages \cap Reasonings = {}
  /\ Calls \cap Reasonings = {}
  /\ NoItem \notin Items
  /\ Signed \subseteq Reasonings
  /\ Anonymous \subseteq Messages \cup Reasonings
  /\ \A x, y \in Anonymous : (x \in Messages <=> y \in Messages) => x = y

ASSUME BoundsAssumption ==
  /\ Full \in [Items -> Nat \ {0}]
  /\ MaxStray \in Nat
  /\ Output \in Seq(Items)

VARIABLES
  orderly,   \* does the upstream keep to the discipline
  sent,      \* what an orderly upstream has sent of each item
  verdict,   \* the terminal event it has sent: "none", "ok" or "failed"
  strays     \* events a disorderly upstream has sent

upstreamVars == <<orderly, sent, verdict, strays>>

Untouched == [parts |-> 0, opened |-> 0, added |-> FALSE, whole |-> FALSE,
              closed |-> FALSE, done |-> FALSE, signed |-> FALSE]

UpstreamInit ==
  /\ orderly \in BOOLEAN
  /\ sent = [i \in Items |-> Untouched]
  /\ verdict = "none"
  /\ strays = 0

(***************************************************************************)
(* Events.  n is the number of fragments an event carries, for a terminal  *)
(* event whether it carries the "output"; sig tells that encrypted_content *)
(* is present.                                                             *)
(***************************************************************************)
Ev(types, items, amounts, sigs) ==
  [type : types, item : items, n : amounts, sig : sigs]

\* Events whose payload is the whole content of the item, or absent.
Whole(types, items, sigs) ==
  UNION {Ev(types, {i}, {0, Full[i]}, sigs) : i \in items}

Deltas == {"output_text.delta", "arguments.delta", "reasoning.delta"}
PartBegins == {"content_part.added", "reasoning_part.added"}
Ends == {"content_part.done", "arguments.done", "item.done"}
Verdicts == {"completed", "incomplete", "failed"}

Events ==
  Ev({"created", "failed", "[DONE]", "invalid"}, {NoItem}, {0}, {FALSE})
  \cup Ev({"completed", "incomplete"}, {NoItem}, {0, 1}, {FALSE})
  \cup Ev({"output_text.delta"}, Messages, {1}, {FALSE})
  \cup Ev({"content_part.added"}, Messages, {0}, {FALSE})
  \cup Whole({"content_part.done", "item.done"}, Messages, {FALSE})
  \cup Ev({"arguments.delta"}, Calls, {1}, {FALSE})
  \cup Whole({"item.added", "arguments.done", "item.done"}, Calls, {FALSE})
  \cup Ev({"item.added"}, Messages, {0}, {FALSE})
  \cup Ev({"reasoning_part.added", "reasoning_part.done"}, Reasonings, {0}, {FALSE})
  \cup Ev({"reasoning.delta"}, Reasonings, {1}, {FALSE})
  \cup Ev({"item.added"}, Reasonings, {0}, BOOLEAN)
  \cup Whole({"item.done"}, Reasonings, BOOLEAN)

(***************************************************************************)
(* The discipline.  The announcement of a message (item.added) may be       *)
(* repeated until its content comes; everything else is sent once.         *)
(***************************************************************************)
Conveyed(i) == sent[i].parts = Full[i]

\* Reasoning items are sent one at a time, from their first event to their last.
OpenReasoning == {i \in Reasonings : sent[i] # Untouched /\ ~sent[i].done}

MaySendDelta(i) == ~sent[i].closed /\ sent[i].parts < Full[i]

\* A "done" payload repeats what the deltas said, or stands in for all of them.
MaySendWhole(i, n) == ~sent[i].done /\ n = Full[i] /\ sent[i].parts \in {0, n}

MaySendItem(ev) ==
  LET i == ev.item IN
  /\ OpenReasoning \subseteq {i}
  /\ ev.type \in Deltas \cup PartBegins => MaySendDelta(i)
  /\ ev.type = "content_part.added" => sent[i].parts = 0
  /\ ev.type = "item.added" =>
       sent[i].parts = 0 /\ ~sent[i].added /\ sent[i].opened = 0 /\ (ev.sig => i \in Signed)
  /\ ev.type \in {"arguments.delta", "arguments.done"} => sent[i].added
  /\ ev.type \in PartBegins => sent[i].opened <= sent[i].parts
  /\ ev.type = "reasoning_part.done" => sent[i].parts > 0 /\ ~sent[i].done
  /\ ev.type \in {"content_part.done", "arguments.done"} => ~sent[i].closed
  /\ ev.type \in Ends => MaySendWhole(i, ev.n)
  /\ ev.type = "item.done" /\ i \in Reasonings =>
       /\ sent[i].opened > 0 => Conveyed(i)
       /\ (ev.sig \/ sent[i].signed) <=> i \in Signed

\* The terminal event finds no item half sent.  What has not been conveyed is in
\* its "output"; of the messages only a lone one may come there first.
MaySendVerdict(ev) ==
  /\ \A i \in Items : sent[i] = Untouched \/ sent[i].closed
  /\ OpenReasoning = {}
  /\ \A i \in Items : Conveyed(i) \/ (ev.n = 1 /\ \E n \in DOMAIN Output : Output[n] = i)
  /\ \A m \in Messages : Conveyed(m) \/ Messages = {m}

MaySend(ev) ==
  /\ verdict # "none" => ev.type = "[DONE]"
  /\ ev.type = "[DONE]" => verdict # "none"
  /\ ev.item \in Items => MaySendItem(ev)
  /\ ev.type \in {"completed", "incomplete"} => MaySendVerdict(ev)

NowSent(ev) ==
  LET i == ev.item
      s == sent[i]
      ends == ev.type \in Ends
  IN [parts  |-> IF ends THEN Full[i] ELSE s.parts + ev.n,
      opened |-> IF ev.type \in PartBegins THEN s.parts + 1 ELSE s.opened,
      added  |-> s.added \/ (ev.type = "item.added" /\ i \notin Messages),
      whole  |-> s.whole \/ (ends /\ s.parts = 0),
      closed |-> s.closed \/ ends,
      done   |-> s.done \/ ev.type = "item.done",
      signed |-> s.signed \/ ev.sig]

Sends(ev) ==
  /\ IF orderly
     THEN /\ MaySend(ev)
          /\ sent' = IF ev.item \in Items THEN [sent EXCEPT ![ev.item] = NowSent(ev)]
                                          ELSE sent
          /\ UNCHANGED strays
     ELSE /\ strays < MaxStray
          /\ strays' = strays + 1
          /\ UNCHANGED sent
  /\ verdict' = IF verdict = "none" /\ ev.type \in Verdicts
                THEN IF ev.type = "failed" THEN "failed" ELSE "ok"
                ELSE verdict
  /\ UNCHANGED orderly

UpstreamTypeOK ==
  /\ orderly \in BOOLEAN
  /\ DOMAIN sent = Items
  /\ \A i \in Items :
       sent[i] \in [parts : 0 .. Full[i], opened : 0 .. Full[i], added : BOOLEAN,
                    whole : BOOLEAN, closed : BOOLEAN,
                    done : BOOLEAN, signed : BOOLEAN]
  /\ verdict \in {"none", "ok", "failed"}
  /\ strays \in 0 .. MaxStray
=============================================================================
