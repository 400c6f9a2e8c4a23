---------------------------- MODULE ClaudeClient ----------------------------
(***************************************************************************)
(* What a client of the Messages API has understood of a streamed answer:  *)
(* the abstract automaton every event sequence must satisfy.  It keeps no  *)
(* state of the proxy's; AnthropicStream feeds it each event it writes.    *)
(*                                                                         *)
(*   message_start, then content blocks at consecutive indexes, each       *)
(*   opened once, fed while it is open and closed once; with every block   *)
(*   closed one end, message_delta + message_stop or error; then nothing.  *)
(*                                                                         *)
(* ok falls, and stays down, at the first event that breaks this; after    *)
(* tells that something was written behind the end.                        *)
(***************************************************************************)
EXTENDS Naturals, Sequences

NothingReceived(items) ==
  [begun |-> FALSE, blocks |-> <<>>, got |-> [i \in items |-> 0],
   signed |-> {}, end |-> "none", ok |-> TRUE, after |-> FALSE]

Open(w) == {b \in DOMAIN w.blocks : w.blocks[b].open}

Past(w) == w.after \/ w.end # "none"

MessageStart(w) ==
  [w EXCEPT !.begun = TRUE, !.ok = @ /\ ~w.begun, !.after = Past(w)]

\* b is the position of the index the event carries; named tells whether a
\* tool_use block carries the name the upstream gave the call.
BlockStart(w, b, kind, item, named) ==
  [w EXCEPT !.blocks = Append(@, [kind |-> kind, item |-> item, named |-> named,
                                  open |-> TRUE]),
            !.ok = @ /\ w.begun /\ b = Len(w.blocks) + 1,
            !.after = Past(w)]

\* n fragments of item's content, in a delta of the given kind.
BlockDelta(w, b, kind, item, n) ==
  [w EXCEPT !.got[item] = @ + n,
            !.ok = @ /\ b \in Open(w) /\ w.blocks[b].kind = kind,
            !.after = Past(w)]

\* The encrypted content of item, as the signature of block b.
SignatureDelta(w, b, item) ==
  [w EXCEPT !.signed = @ \cup {<<w.blocks[b].item, item>>},
            !.ok = @ /\ b \in Open(w) /\ w.blocks[b].kind = "thinking",
            !.after = Past(w)]

Closed(block) == [block EXCEPT !.open = FALSE]

BlocksStop(w, stopping) ==
  [w EXCEPT !.blocks = [b \in DOMAIN w.blocks |->
                          IF b \in stopping THEN Closed(w.blocks[b]) ELSE w.blocks[b]],
            !.ok = @ /\ stopping \subseteq Open(w),
            !.after = IF stopping = {} THEN @ ELSE Past(w)]

\* The end: "end_turn", "max_tokens" or "tool_use" (message_delta with that
\* stop reason, then message_stop), "error" (an error event), or "rejected"
\* (an HTTP error instead of a stream).
TheEnd(w, how) ==
  [w EXCEPT !.end = how,
            !.ok = /\ @ /\ w.end = "none" /\ Open(w) = {}
                   /\ how = "rejected" => w.blocks = <<>> /\ ~w.begun
                   /\ how \notin {"error", "rejected"} => w.begun]
=============================================================================
