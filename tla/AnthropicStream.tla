--------------------------- MODULE AnthropicStream ---------------------------
(***************************************************************************)
(* The translator from the Responses event stream to the Messages API's    *)
(* (internal/anthropic/stream.go and thinking_stream.go) with the part of  *)
(* HandleMessages that drives it.                                          *)
(*                                                                         *)
(* tr is the StreamTranslator.  The helpers are functions from one         *)
(* translator state to the next, composed in each handler as the code      *)
(* calls them; a handler is one step, except that emitFinalOutput takes    *)
(* one step per output item.  tr.wire is what the client has understood of *)
(* the events written so far, judged event by event: a write that fails in *)
(* the middle of a handler ends the handler and leaves the client with a   *)
(* prefix of a sequence that has been judged, so that it needs no action.  *)
(***************************************************************************)
EXTENDS ResponsesStream, ClaudeClient

VARIABLES
  tr,       \* the translator, with the client's view of what it wrote
  phase,    \* "reading", "final" (in emitFinalOutput) or "over"
  rest,     \* items emitFinalOutput has still to look at
  reason    \* stop reason the terminal event asks for

anthropicVars == <<tr, phase, rest, reason>>

Nowhere == 0                            \* "no block"
Modes == {"off", "summarized", "omitted"}   \* Thinking.Enabled and Display
StopReasons == {"end_turn", "max_tokens", "tool_use"}

(***************************************************************************)
(* The keys under which text and tool blocks are registered and reasoning  *)
(* items remembered.  Items without an id fall back to their index or      *)
(* "default", in the terminal event's output to their position; the kind   *)
(* that normalizeBlockKey prefixes is that of the item.                    *)
(***************************************************************************)
Key(i) == <<i, FALSE>>
FinalKey(i) == <<i, i \in Anonymous>>
Keys == (Messages \cup Calls) \X BOOLEAN
ReasoningKeys == Reasonings \X BOOLEAN
NoKey == Key(NoItem)
KindOf(k) == IF k[1] \in Calls THEN "tool" ELSE "text"

NewTranslator(mode) ==
  [mode |-> mode, started |-> FALSE, finished |-> FALSE,
   blocks |-> <<>>, next |-> 0, hasTool |-> FALSE,
   thinking |-> Nowhere, stopPending |-> FALSE,
   signature |-> NoItem, reasonKey |-> NoKey, completed |-> {},
   wire |-> NothingReceived(Items)]

Registered(s, k) == k \in DOMAIN s.blocks
Stopped(block) == [block EXCEPT !.stopped = TRUE]
Marked(s, k, block) == [s.blocks EXCEPT ![k] = block]
Emitted(s, k) == Registered(s, k) /\ s.blocks[k].emitted

EnsureStart(s) ==
  IF s.started THEN s
               ELSE [s EXCEPT !.started = TRUE, !.wire = MessageStart(@)]

(***************************************************************************)
(* Thinking blocks (thinking_stream.go).                                   *)
(***************************************************************************)
FinalizeThinking(s, clear) ==
  IF s.mode = "off" THEN s
  ELSE IF s.thinking = Nowhere
  THEN IF clear THEN [s EXCEPT !.signature = NoItem] ELSE s
  ELSE LET signed == IF s.signature = NoItem THEN s.wire
                     ELSE SignatureDelta(s.wire, s.thinking, s.signature)
       IN [s EXCEPT !.wire = BlocksStop(signed, {s.thinking}),
                    !.completed = @ \cup ({s.reasonKey} \ {NoKey}),
                    !.thinking = Nowhere,
                    !.stopPending = FALSE,
                    !.signature = IF clear THEN NoItem ELSE @,
                    !.reasonKey = IF clear THEN NoKey ELSE @]

FinishThinkingBeforeContent(s) ==
  IF s.thinking = Nowhere THEN s ELSE FinalizeThinking(s, TRUE)

EnsureThinkingBlock(s) ==
  IF s.mode = "off" \/ s.thinking # Nowhere THEN s
  ELSE LET r == EnsureStart(s) IN
       [r EXCEPT !.wire = BlockStart(@, r.next + 1, "thinking", r.reasonKey[1], FALSE),
                 !.next = @ + 1,
                 !.thinking = r.next + 1,
                 !.stopPending = FALSE]

StartThinkingPart(s, i) ==
  IF s.mode = "off" THEN s
  ELSE LET r == IF s.thinking # Nowhere /\ s.stopPending
                THEN FinalizeThinking(s, FALSE) ELSE s
       IN EnsureThinkingBlock([r EXCEPT !.reasonKey = Key(i)])

ThinkingDelta(s, i, n) ==
  IF s.mode # "summarized" \/ n = 0 THEN s
  ELSE LET r == EnsureThinkingBlock(s) IN
       [r EXCEPT !.wire = BlockDelta(@, r.thinking, "thinking", i, n)]

CaptureSignature(s, i, sig) ==
  IF s.mode = "off" \/ ~sig THEN s
  ELSE [s EXCEPT !.signature = i, !.reasonKey = Key(i)]

\* A reasoning item met whole, under key k: in item.done or in the terminal
\* event.
EmitFinalReasoning(s, k, n, sig) ==
  LET summary == IF s.mode = "omitted" THEN 0 ELSE n
      signature == IF sig THEN k[1] ELSE s.signature
  IN IF \/ s.mode = "off"
        \/ k \in s.completed
        \/ summary = 0 /\ signature = NoItem
     THEN s
     ELSE LET r == EnsureThinkingBlock([s EXCEPT !.reasonKey = k,
                                                 !.signature = signature])
          IN FinalizeThinking(ThinkingDelta(r, k[1], summary), TRUE)

(***************************************************************************)
(* Text and tool blocks.  A tool block that is opened by an event without  *)
(* the name of the call is called "tool".                                  *)
(***************************************************************************)
EnsureBlock(s, k, named) ==
  LET r == FinishThinkingBeforeContent(s) IN
  IF Registered(r, k) THEN r
  ELSE [r EXCEPT
          !.wire = BlockStart(@, r.next + 1, KindOf(k), k[1], named),
          !.next = @ + 1,
          !.blocks = [x \in DOMAIN r.blocks \cup {k} |->
                        IF x = k THEN [index |-> r.next + 1, emitted |-> FALSE,
                                       stopped |-> FALSE]
                                 ELSE r.blocks[x]],
          !.hasTool = @ \/ KindOf(k) = "tool"]

\* textDelta and toolArgsDelta: what comes for a stopped block is dropped.
Feed(s, k, n, named) ==
  IF n = 0 THEN s
  ELSE LET r == EnsureBlock(s, k, named) IN
       IF r.blocks[k].stopped THEN r
       ELSE [r EXCEPT
               !.wire = BlockDelta(@, r.blocks[k].index, KindOf(k), k[1], n),
               !.blocks = Marked(r, k, [r.blocks[k] EXCEPT !.emitted = TRUE])]

StopBlock(s, k) ==
  IF ~Registered(s, k) \/ s.blocks[k].stopped THEN s
  ELSE [s EXCEPT !.wire = BlocksStop(@, {s.blocks[k].index}),
                 !.blocks = Marked(s, k, Stopped(s.blocks[k]))]

StopAllBlocks(s) ==
  LET unstopped == {k \in DOMAIN s.blocks : ~s.blocks[k].stopped} IN
  [s EXCEPT !.wire = BlocksStop(@, {s.blocks[k].index : k \in unstopped}),
            !.blocks = [k \in DOMAIN s.blocks |-> Stopped(s.blocks[k])]]

HasEmittedText(s) == \E k \in DOMAIN s.blocks : KindOf(k) = "text" /\ Emitted(s, k)

(***************************************************************************)
(* The ends.                                                               *)
(***************************************************************************)
\* Mutant of Fail: the open thinking block is forgotten.
FailWithoutThinking(s) ==
  LET r == StopAllBlocks(s) IN
  [r EXCEPT !.wire = TheEnd(@, "error"), !.finished = TRUE]

Finish(s, how) ==
  IF s.finished THEN s
  ELSE LET r == StopAllBlocks(FinalizeThinking(EnsureStart(s), TRUE))
           stopReason == IF how # "none" THEN how
                         ELSE IF r.hasTool THEN "tool_use" ELSE "end_turn"
       IN [r EXCEPT !.wire = TheEnd(@, stopReason), !.finished = TRUE]

Fail(s) ==
  IF s.finished THEN s
  ELSE LET r == StopAllBlocks(FinalizeThinking(s, TRUE)) IN
       [r EXCEPT !.wire = TheEnd(@, "error"), !.finished = TRUE]

\* Mutant of PipeFailed: a cut stream that has started is finished as if whole.
PipeFinished(s) ==
  IF s.started THEN Finish(s, "none") ELSE [s EXCEPT !.wire = TheEnd(@, "rejected")]

\* HandleMessages when the pipe has returned an error: Fail if the stream has
\* started, nothing if it has ended, otherwise a plain HTTP error.
PipeFailed(s) ==
  IF s.started \/ s.finished THEN Fail(s)
                             ELSE [s EXCEPT !.wire = TheEnd(@, "rejected")]

(***************************************************************************)
(* ProcessData on the next event, one action per case of its switch.       *)
(***************************************************************************)
Becomes(s) == tr' = s /\ UNCHANGED <<phase, rest, reason>>

Created(ev) == ev.type = "created" /\ Becomes(EnsureStart(tr))

TextDelta(ev) ==
  /\ ev.type = "output_text.delta"
  /\ Becomes(Feed(EnsureStart(tr), Key(ev.item), ev.n, FALSE))

ReasoningPartAdded(ev) ==
  /\ ev.type = "reasoning_part.added"
  /\ Becomes(StartThinkingPart(EnsureStart(tr), ev.item))

ReasoningDelta(ev) ==
  /\ ev.type = "reasoning.delta"
  /\ LET s == EnsureStart(tr)
         r == IF s.thinking = Nowhere THEN StartThinkingPart(s, ev.item) ELSE s
     IN Becomes(ThinkingDelta(r, ev.item, ev.n))

ReasoningPartDone(ev) ==
  /\ ev.type = "reasoning_part.done"
  /\ Becomes([tr EXCEPT !.stopPending = TRUE])

ContentPartAdded(ev) ==
  /\ ev.type = "content_part.added"
  /\ Becomes(EnsureBlock(EnsureStart(tr), Key(ev.item), FALSE))

ContentPartDone(ev) ==
  /\ ev.type = "content_part.done"
  /\ LET k == Key(ev.item)
         r == IF Emitted(tr, k) \/ ev.n = 0 THEN tr
              ELSE Feed(EnsureStart(tr), k, ev.n, FALSE)
     IN Becomes(StopBlock(r, k))

MessageAdded(ev) ==
  /\ ev.type = "item.added" /\ ev.item \in Messages
  /\ Becomes(EnsureStart(tr))

ReasoningAdded(ev) ==
  /\ ev.type = "item.added" /\ ev.item \in Reasonings
  /\ Becomes(CaptureSignature([EnsureStart(tr) EXCEPT !.reasonKey = Key(ev.item)],
                              ev.item, ev.sig))

CallAdded(ev) ==
  /\ ev.type = "item.added" /\ ev.item \in Calls
  /\ Becomes(LET k == Key(ev.item)
             IN Feed(EnsureBlock(EnsureStart(tr), k, TRUE), k, ev.n, TRUE))

ArgumentsDelta(ev) ==
  /\ ev.type = "arguments.delta"
  /\ Becomes(Feed(EnsureStart(tr), Key(ev.item), ev.n, FALSE))

\* Arguments that no delta has brought come with the "done" event.
CallDone(ev) ==
  /\ ev.type \in {"arguments.done", "item.done"} /\ ev.item \in Calls
  /\ LET k == Key(ev.item)
         named == ev.type = "item.done"
         s == EnsureBlock(EnsureStart(tr), k, named)
         r == IF Emitted(s, k) THEN s ELSE Feed(s, k, ev.n, named)
     IN Becomes(StopBlock(r, k))

\* Mutant of MessageDone: the payload is written after the deltas too.
MessageDoneAgain(ev) ==
  /\ ev.type = "item.done" /\ ev.item \in Messages
  /\ LET k == Key(ev.item)
         r == IF ev.n = 0 THEN tr ELSE Feed(EnsureStart(tr), k, ev.n, FALSE)
     IN Becomes(StopBlock(r, k))

MessageDone(ev) ==
  /\ ev.type = "item.done" /\ ev.item \in Messages
  /\ LET k == Key(ev.item)
         r == IF Emitted(tr, k) \/ ev.n = 0 THEN tr
              ELSE Feed(EnsureStart(tr), k, ev.n, FALSE)
     IN Becomes(StopBlock(r, k))

ReasoningDone(ev) ==
  /\ ev.type = "item.done" /\ ev.item \in Reasonings
  /\ LET s == CaptureSignature([tr EXCEPT !.reasonKey = Key(ev.item)], ev.item, ev.sig)
     IN Becomes(IF s.thinking = Nowhere
                THEN EmitFinalReasoning(s, Key(ev.item), ev.n, ev.sig)
                ELSE FinalizeThinking(s, TRUE))

\* "response.completed" and "response.incomplete" up to emitFinalOutput.
Completed(ev) ==
  /\ ev.type \in {"completed", "incomplete"}
  /\ tr' = EnsureStart(tr)
  /\ phase' = "final"
  /\ rest' = IF ev.n = 1 THEN Output ELSE <<>>
  /\ reason' = IF ev.type = "incomplete" THEN "max_tokens" ELSE "end_turn"

Failed(ev) == ev.type = "failed" /\ Becomes(Fail(tr))

\* "[DONE]" ends a stream that has started and no event has ended.
DoneMark(ev) ==
  /\ ev.type = "[DONE]"
  /\ Becomes(IF tr.started THEN Finish(tr, "none") ELSE tr)

\* An event that does not parse ends the pipe with an error.
Invalid(ev) ==
  /\ ev.type = "invalid"
  /\ tr' = PipeFailed(tr)
  /\ phase' = "over"
  /\ UNCHANGED <<rest, reason>>

Process(ev) ==
  /\ phase = "reading"
  /\ Sends(ev)
  /\ \/ Created(ev) \/ TextDelta(ev) \/ ContentPartAdded(ev) \/ ContentPartDone(ev)
     \/ ReasoningPartAdded(ev) \/ ReasoningDelta(ev) \/ ReasoningPartDone(ev)
     \/ MessageAdded(ev) \/ CallAdded(ev) \/ ReasoningAdded(ev)
     \/ ArgumentsDelta(ev) \/ CallDone(ev) \/ MessageDone(ev) \/ ReasoningDone(ev)
     \/ Completed(ev) \/ Failed(ev) \/ DoneMark(ev) \/ Invalid(ev)

(***************************************************************************)
(* emitFinalOutput, one item at a time, then Finish.                       *)
(***************************************************************************)
FinalMessage(s, i) ==
  LET k == FinalKey(i) IN
  IF ~Registered(s, k) /\ HasEmittedText(s) THEN s
  ELSE StopBlock(IF Emitted(s, k) THEN s ELSE Feed(s, k, Full[i], FALSE), k)

FinalCall(s, i) ==
  LET k == FinalKey(i)
      r == EnsureBlock(s, k, TRUE)
  IN StopBlock(IF Emitted(r, k) THEN r ELSE Feed(r, k, Full[i], TRUE), k)

FinalItem ==
  /\ phase = "final" /\ rest # <<>>
  /\ LET i == Head(rest) IN
     tr' = IF i \in Reasonings THEN EmitFinalReasoning(tr, FinalKey(i), Full[i], i \in Signed)
           ELSE IF i \in Calls THEN FinalCall(tr, i)
           ELSE FinalMessage(tr, i)
  /\ rest' = Tail(rest)
  /\ UNCHANGED <<phase, reason>>

FinishCompleted ==
  /\ phase = "final" /\ rest = <<>>
  /\ tr' = Finish(tr, IF tr.hasTool THEN "tool_use" ELSE reason)
  /\ phase' = "reading"
  /\ UNCHANGED <<rest, reason>>

\* The upstream's body ends, or reading it fails.
UpstreamEOF ==
  /\ phase = "reading"
  /\ tr' = IF tr.finished THEN tr ELSE PipeFailed(tr)
  /\ phase' = "over"
  /\ UNCHANGED <<rest, reason>>

AnthropicInit ==
  /\ \E mode \in Modes : tr = NewTranslator(mode)
  /\ phase = "reading"
  /\ rest = <<>>
  /\ reason = "end_turn"

AnthropicNext ==
  \/ \E ev \in Events : Process(ev)
  \/ (FinalItem \/ FinishCompleted \/ UpstreamEOF)
     /\ UNCHANGED upstreamVars

------------------------------------------------------------------------------
(***************************************************************************)
(* The same answer, not streamed: TranslateResponse on the "output".       *)
(***************************************************************************)
\* Fragments of item i in the content of the message.
Translated(mode, i) ==
  IF i \in Reasonings /\ mode # "summarized" THEN 0 ELSE Full[i]

\* Reasoning items that become a thinking block with a signature.
TranslatedSigned(mode) == IF mode = "off" THEN {} ELSE Signed

\* The reasons a response may give of its own, in stop_reason or, failing that,
\* in its incomplete_details.
CutShort == {"max_tokens", "max_output_tokens", "length"}
Regular == {"stop", "completed", "end_turn", "tool_use", "tool_calls", "function_call"}
Special == {"content_filter", "refusal", "stop_sequence", "pause_turn"}

\* mapStopReason, for a response that says `said`, or nothing of its own.
TranslatedReason(incomplete, said) ==
  IF Calls # {} THEN "tool_use"
  ELSE IF said = "content_filter" THEN "refusal"
  ELSE IF said \in Special THEN said
  ELSE IF said \in CutShort \/ (said = "nothing" /\ incomplete) THEN "max_tokens"
  ELSE "end_turn"

\* What a response may say that says no more than its status does.
Plain(incomplete) == {"nothing"} \cup (IF incomplete THEN CutShort ELSE Regular)

(***************************************************************************)
(* Properties.                                                             *)
(***************************************************************************)
Block == [index : Nat, emitted : BOOLEAN, stopped : BOOLEAN]

AnthropicTypeOK ==
  /\ tr.mode \in Modes
  /\ {tr.started, tr.finished, tr.hasTool, tr.stopPending} \subseteq BOOLEAN
  /\ DOMAIN tr.blocks \subseteq Keys
  /\ \A k \in DOMAIN tr.blocks : tr.blocks[k] \in Block
  /\ tr.next \in Nat
  /\ tr.thinking \in 0 .. tr.next
  /\ tr.signature \in Reasonings \cup {NoItem}
  /\ tr.reasonKey \in ReasoningKeys \cup {NoKey}
  /\ tr.completed \subseteq ReasoningKeys
  /\ phase \in {"reading", "final", "over"}
  /\ rest \in Seq(Items)
  /\ reason \in StopReasons

\* Whatever the upstream sends, in whatever order, what the translator writes
\* is an answer a client of the Messages API understands: one message_start
\* before everything else, blocks at consecutive indexes, no delta for a block
\* that is not open, no block closed twice or left open at the end, one end.
AnswerWellFormed == tr.wire.ok

\* A stream that ended normally said what TranslateResponse makes of the same
\* answer: every fragment once, whether it came in deltas, in a "done" payload,
\* in the terminal event or in several of them; one block for each message and
\* call, calls by their names; each signature on a block of its own item; the
\* stop reason that the calls and the status give.
\*
\* Two things the code does not do, and this does not claim.  Reasoning without
\* an id has one key in its events and another in the terminal event's output
\* (emitFinalOutput), so that what its events brought is written again from
\* there, signature and all: it is said once or twice.  And the stream does not
\* read a reason of the response's own, so that it ends by the status alone where
\* that reason is Special ("content_filter" is a "refusal" when the answer is not
\* streamed) or contradicts the status.
Said(i) ==
  LET whole == Translated(tr.mode, i) IN
  \/ tr.wire.got[i] = whole
  \/ i \in Anonymous \cap Reasonings /\ tr.wire.got[i] = 2 * whole

AnswerComplete ==
  orderly =>
    /\ \A x \in tr.wire.signed : x[1] = x[2]
    /\ tr.wire.end \in StopReasons =>
         /\ \A i \in Items : Said(i)
         /\ {x[2] : x \in tr.wire.signed} = TranslatedSigned(tr.mode)
         /\ \A b, c \in DOMAIN tr.wire.blocks :
              /\ tr.wire.blocks[b].item = tr.wire.blocks[c].item
              /\ tr.wire.blocks[b].kind # "thinking"
              => b = c
         /\ \A b \in DOMAIN tr.wire.blocks :
              tr.wire.blocks[b].kind = "tool" => tr.wire.blocks[b].named
         /\ LET incomplete == reason = "max_tokens"
            IN \A said \in Plain(incomplete) :
                 tr.wire.end = TranslatedReason(incomplete, said)
=============================================================================
