------------------------------ MODULE Streams ------------------------------
(***************************************************************************)
(* One streamed answer: the upstream's events and the handler of the       *)
(* endpoint the request came in on, /v1/messages or /v1/chat/completions.  *)
(* The handler reads the upstream's body line by line and writes before it *)
(* reads on, so that an event sent and what is written for it are a step.  *)
(***************************************************************************)
EXTENDS AnthropicStream, ChatStream

VARIABLE endpoint   \* the endpoint of the request

vars == <<endpoint, upstreamVars, anthropicVars, chatVars>>

Init ==
  /\ endpoint \in {"messages", "chat"}
  /\ UpstreamInit
  /\ AnthropicInit
  /\ endpoint = "chat" => tr.mode = "off"
  /\ ChatInit

Next ==
  /\ \/ endpoint = "messages" /\ AnthropicNext /\ UNCHANGED chatVars
     \/ endpoint = "chat" /\ ChatNext /\ UNCHANGED anthropicVars
  /\ UNCHANGED endpoint

Spec == Init /\ [][Next]_vars

------------------------------------------------------------------------------
TypeOK ==
  /\ endpoint \in {"messages", "chat"}
  /\ UpstreamTypeOK
  /\ AnthropicTypeOK
  /\ ChatTypeOK

\* The end of an answer (message_stop, a finish_reason, an error) is the end
\* and is honest: as long as the upstream itself sends nothing behind its
\* terminal event nothing is written behind the end, an answer ends normally
\* only on the upstream's word and with an error if the upstream said so, and
\* a handler returns only when the client has been told an end.
EndIsHonest ==
  /\ orderly => ~tr.wire.after /\ ~chat.wire.after
  /\ orderly =>
       /\ tr.wire.end \in StopReasons => verdict = "ok"
       /\ chat.wire.end \in {"stop", "length", "tool_calls"} => verdict = "ok"
       /\ verdict = "failed" => /\ tr.wire.end \in {"none", "error"}
                                /\ chat.wire.end \in {"none", "error"}
  /\ phase = "over" => tr.wire.end # "none"
  /\ chatOver => chat.wire.end # "none"
=============================================================================
