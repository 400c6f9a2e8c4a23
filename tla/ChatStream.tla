----------------------------- MODULE ChatStream -----------------------------
(***************************************************************************)
(* The translator from the Responses event stream to chat.completion       *)
(* chunks (internal/openai/chat_stream.go) with handleChatStream, which    *)
(* drives it, and the conversion of an answer that is not streamed         *)
(* (ResponsesToChat in internal/openai/chat.go).                           *)
(*                                                                         *)
(* chat is the chatStreamTranslator; chat.wire is what the client has      *)
(* understood of the chunks, judged chunk by chunk.  An event is one step: *)
(* a write that fails ends the handler, and the client keeps a prefix.     *)
(***************************************************************************)
EXTENDS ResponsesStream

VARIABLES
  chat,      \* the translator, with the client's view of what it wrote
  chatOver   \* handleChatStream has returned

chatVars == <<chat, chatOver>>

(***************************************************************************)
(* The client's automaton: the role in the first chunk that has a delta    *)
(* and in no other; a call's id and name once, in its first chunk, calls   *)
(* at consecutive indexes; one finish_reason or error; one "[DONE]", last. *)
(***************************************************************************)
NoChunks ==
  [role |-> FALSE, tools |-> <<>>, named |-> {}, got |-> [i \in Items |-> 0],
   end |-> "none", marked |-> FALSE, ok |-> TRUE, after |-> FALSE]

Chunk(w, role, i, n) ==
  [w EXCEPT !.role = TRUE,
            !.got = IF i \in Items THEN [w.got EXCEPT ![i] = @ + n] ELSE @,
            !.ok = @ /\ (role <=> ~w.role) /\ ~w.marked,
            !.after = @ \/ w.end # "none"]

ToolChunk(w, role, index, identity, named, i, n) ==
  [Chunk(w, role, i, n) EXCEPT
     !.tools = IF identity THEN Append(@, i) ELSE @,
     !.named = IF identity /\ named THEN @ \cup {i} ELSE @,
     !.ok = /\ @
            /\ IF identity THEN index = Len(w.tools) + 1
                           ELSE index \in 1 .. Len(w.tools) /\ w.tools[index] = i]

FinishChunk(w, how) ==
  [w EXCEPT !.end = IF @ = "none" THEN how ELSE @,
            !.after = @ \/ w.end # "none",
            !.ok = @ /\ ~w.marked]

DoneChunk(w) == [w EXCEPT !.marked = TRUE, !.ok = @ /\ ~w.marked /\ w.end # "none"]

(***************************************************************************)
(* The translator.                                                         *)
(***************************************************************************)
NewChatTranslator ==
  [sentRole |-> FALSE, terminal |-> FALSE, tools |-> <<>>, nextTool |-> 0,
   wire |-> NoChunks]

Updated(s, i, tool) == [s EXCEPT !.tools = [s.tools EXCEPT ![i] = tool]]

\* A chunk with i's content; the first one carries the role.
SendChunk(s, i, n) ==
  [s EXCEPT !.sentRole = TRUE, !.wire = Chunk(@, ~s.sentRole, i, n)]

\* Mutant of EnsureTool: the next call gets the same index.
EnsureToolSameIndex(s, i, named) ==
  IF i \in DOMAIN s.tools THEN s
  ELSE [s EXCEPT
          !.tools = [x \in DOMAIN s.tools \cup {i} |->
                       IF x = i THEN [index |-> s.nextTool + 1, named |-> named,
                                      sawArgs |-> FALSE, finalized |-> FALSE,
                                      identitySent |-> FALSE]
                                ELSE s.tools[x]]]

\* ensureTool: the call is registered when its key is first met, and named as
\* soon as an event brings the name.
EnsureTool(s, i, named) ==
  IF i \in DOMAIN s.tools
  THEN Updated(s, i, [s.tools[i] EXCEPT !.named = @ \/ named])
  ELSE [s EXCEPT
          !.tools = [x \in DOMAIN s.tools \cup {i} |->
                       IF x = i THEN [index |-> s.nextTool + 1, named |-> named,
                                      sawArgs |-> FALSE, finalized |-> FALSE,
                                      identitySent |-> FALSE]
                                ELSE s.tools[x]],
          !.nextTool = @ + 1]

\* Mutant of SendTool: the identity is not marked as sent.
SendToolAnew(s, i, n) ==
  LET tool == s.tools[i] IN
  [s EXCEPT !.sentRole = TRUE,
            !.wire = ToolChunk(@, ~s.sentRole, tool.index, ~tool.identitySent,
                               tool.named, i, n)]

\* toolChunk: the id and the name the call has now go into its first chunk.
SendTool(s, i, n) ==
  LET tool == s.tools[i] IN
  [Updated(s, i, [tool EXCEPT !.identitySent = TRUE]) EXCEPT
     !.sentRole = TRUE,
     !.wire = ToolChunk(@, ~s.sentRole, tool.index, ~tool.identitySent,
                        tool.named, i, n)]

SawArgs(s, i) == Updated(s, i, [s.tools[i] EXCEPT !.sawArgs = TRUE])

\* Mutant of FinalizeTool: arguments the deltas have brought are sent again.
FinalizeToolAgain(s, i, n) ==
  LET tool == s.tools[i]
      r == Updated(s, i, [tool EXCEPT !.finalized = TRUE])
  IN IF tool.finalized THEN s ELSE SendTool(SawArgs(r, i), i, n)

\* Both "done" events of a call: the first one finalizes it, and brings the
\* arguments unless deltas have ("{}", no fragment, if it has none).
FinalizeTool(s, i, n) ==
  LET tool == s.tools[i]
      r == Updated(s, i, [tool EXCEPT !.finalized = TRUE])
  IN IF tool.finalized THEN s
     ELSE IF tool.sawArgs THEN r
     ELSE SendTool(SawArgs(r, i), i, n)

FinishChat(s, how) ==
  IF s.terminal THEN s
  ELSE LET tools == IF DOMAIN s.tools = {} THEN "stop" ELSE "tool_calls" IN
       [s EXCEPT !.terminal = TRUE,
                 !.wire = FinishChunk(@, IF how = "none" THEN tools ELSE how)]

\* The error chunk, of a "failed" event or of a stream that was cut.
ErrorChunk(s) == [s EXCEPT !.terminal = TRUE, !.wire = FinishChunk(@, "error")]

\* handleChatStream after the last event.
CloseChat(s) ==
  LET r == IF s.terminal THEN s ELSE ErrorChunk(s) IN
  [r EXCEPT !.wire = DoneChunk(@)]

(***************************************************************************)
(* process, one action per case of its switch.                             *)
(***************************************************************************)
ChatBecomes(s) == chat' = s /\ UNCHANGED chatOver

ChatCreated(ev) ==
  /\ ev.type = "created"
  /\ ChatBecomes(IF chat.sentRole THEN chat ELSE SendChunk(chat, NoItem, 0))

ChatText(ev) ==
  /\ ev.type = "output_text.delta"
  /\ ChatBecomes(SendChunk(chat, ev.item, ev.n))

\* The arguments an added call may carry already are left to its "done" event.
ChatCallAdded(ev) ==
  /\ ev.type = "item.added" /\ ev.item \in Calls
  /\ ChatBecomes(SendTool(EnsureTool(chat, ev.item, TRUE), ev.item, 0))

ChatArguments(ev) ==
  /\ ev.type = "arguments.delta"
  /\ ChatBecomes(SendTool(SawArgs(EnsureTool(chat, ev.item, FALSE), ev.item),
                          ev.item, ev.n))

ChatCallDone(ev) ==
  /\ ev.type \in {"arguments.done", "item.done"} /\ ev.item \in Calls
  /\ LET s == EnsureTool(chat, ev.item, ev.type = "item.done")
     IN ChatBecomes(FinalizeTool(s, ev.item, ev.n))

\* The terminal event's "output" is not looked at.
ChatCompleted(ev) ==
  /\ ev.type \in {"completed", "incomplete"}
  /\ ChatBecomes(FinishChat(chat, IF ev.type = "incomplete" THEN "length" ELSE "none"))

ChatFailed(ev) == ev.type = "failed" /\ ChatBecomes(ErrorChunk(chat))

ChatDoneMark(ev) == ev.type = "[DONE]" /\ ChatBecomes(FinishChat(chat, "none"))

ChatInvalid(ev) ==
  /\ ev.type = "invalid"
  /\ chat' = CloseChat(chat)
  /\ chatOver' = TRUE

\* Reasoning, and the announcements and payloads of messages, have no case.
ChatIgnored(ev) ==
  /\ \/ ev.type \in PartBegins \cup
          {"content_part.done", "reasoning.delta", "reasoning_part.done"}
     \/ ev.type \in {"item.added", "item.done"} /\ ev.item \notin Calls
  /\ ChatBecomes(chat)

ChatProcess(ev) ==
  /\ ~chatOver
  /\ Sends(ev)
  /\ \/ ChatCreated(ev) \/ ChatText(ev) \/ ChatCallAdded(ev) \/ ChatArguments(ev)
     \/ ChatCallDone(ev) \/ ChatCompleted(ev) \/ ChatFailed(ev) \/ ChatDoneMark(ev)
     \/ ChatInvalid(ev) \/ ChatIgnored(ev)

\* The upstream's body ends, or reading it fails.
ChatEOF ==
  /\ ~chatOver
  /\ chat' = CloseChat(chat)
  /\ chatOver' = TRUE

(***************************************************************************)
(* The answer as one JSON body: extractOutput and responsesMapToChat.      *)
(***************************************************************************)
ChatTranslated(i) == IF i \in Reasonings THEN 0 ELSE Full[i]

ChatReason(incomplete) ==
  IF Calls # {} THEN "tool_calls" ELSE IF incomplete THEN "length" ELSE "stop"

\* writeChatSSEFromCompletion: the upstream has answered the streaming request
\* with a plain body, which becomes a single chunk and "[DONE]".
ChatWholeBody ==
  /\ ~chatOver /\ chat = NewChatTranslator /\ verdict = "none" /\ strays = 0
  /\ \A i \in Items : sent[i] = Untouched
  /\ \E incomplete \in BOOLEAN :
       chat' = [chat EXCEPT
                  !.wire = DoneChunk([FinishChunk(Chunk(@, TRUE, NoItem, 0),
                                                  ChatReason(incomplete))
                                      EXCEPT !.got = [i \in Items |-> ChatTranslated(i)],
                                             !.named = Calls])]
  /\ verdict' = "ok"
  /\ chatOver' = TRUE
  /\ UNCHANGED <<orderly, sent, strays>>

ChatInit == chat = NewChatTranslator /\ chatOver = FALSE

ChatNext ==
  \/ \E ev \in Events : ChatProcess(ev)
  \/ ChatEOF /\ UNCHANGED upstreamVars
  \/ ChatWholeBody

------------------------------------------------------------------------------
Tool == [index : Nat, named : BOOLEAN, sawArgs : BOOLEAN, finalized : BOOLEAN,
         identitySent : BOOLEAN]

ChatTypeOK ==
  /\ {chat.sentRole, chat.terminal, chatOver} \subseteq BOOLEAN
  /\ DOMAIN chat.tools \subseteq Calls
  /\ \A i \in DOMAIN chat.tools : chat.tools[i] \in Tool
  /\ chat.nextTool = Cardinality(DOMAIN chat.tools)

\* Whatever the upstream sends, in whatever order, the chunks are a stream a
\* client of the chat API understands: the role first and once, each call's id
\* once and before its arguments, at an index of its own, and exactly one
\* "[DONE]", behind a finish_reason or an error.
ChatWellFormed == chat.wire.ok /\ (chatOver => chat.wire.marked)

\* A stream that ended normally has said every call in full, with its name, and
\* every message whose text came in deltas; each fragment once, however often
\* "done" events repeat it.  What came in "done" payloads or in the terminal
\* event only is lost where TranslateResponse's counterpart here,
\* ChatTranslated, has it: text always, a call if no event announced it.
ChatComplete ==
  orderly /\ chat.wire.end \in {"stop", "length", "tool_calls"} =>
    \A i \in Items :
      \/ chat.wire.got[i] = ChatTranslated(i) /\ (i \in Calls => i \in chat.wire.named)
      \/ chat.wire.got[i] = 0 /\ IF i \in Calls THEN sent[i] = Untouched
                                                ELSE sent[i].whole \/ ~Conveyed(i)
=============================================================================
