----------------------------- MODULE MCPlatform -----------------------------
(***************************************************************************)
(* The parts of the server around a chat's turn, on small instances. They  *)
(* share no variable, so each behaviour runs one of them, the part chosen  *)
(* at the start, and leaves the others where they begin.                   *)
(***************************************************************************)
EXTENDS EventChannel, CommandGate, AgentStream, ChatStore, ResultStore

VARIABLE part

platformVars == <<part, channelVars, gateVars, streamVars, storeVars, resultVars>>

Parts == {"channel", "gate", "stream", "chats", "results"}

\* Two calls of chat a, one of which may change what the other may do, and a
\* mutating call of chat b, the only chat that gets a second turn.
MCChatOf == [k \in Calls |-> IF k = "b1" THEN "b" ELSE "a"]
MCOpsOf  == [k \in Calls |-> CASE k = "a1" -> {"shell_deploy"}
                               [] k = "a2" -> {"check", "unlisted"}
                               [] OTHER    -> {"teardown", "fetch"}]
MCMaxGen == [c \in Chats |-> IF c = "a" THEN 1 ELSE 2]

\* One use in the first message, two parallel uses in the second.
MCMsgOf == [u \in Uses |-> IF u = 1 THEN 1 ELSE 2]

\* Three reports without a uid at one path, alike but for the body and for validity.
MCReports ==
  {[uid |-> "none", headline |-> 1, body |-> b, valid |-> b < 3] : b \in 1..3}

PlatformInit ==
  /\ part \in Parts
  /\ ChannelInit /\ GateInit /\ StreamInit /\ StoreInit /\ ResultInit
  /\ part # "gate" => ~simulate
  /\ part # "stream" => ~nudging /\ \A u, v \in Uses : payload[u] = payload[v]
  /\ payload[1] = CHOOSE p \in Payloads : TRUE   \* payloads are interchangeable

PlatformNext ==
  /\ UNCHANGED part
  /\ \/ /\ part = "channel" /\ ChannelNext
        /\ UNCHANGED <<gateVars, streamVars, storeVars, resultVars>>
     \/ /\ part = "gate" /\ GateNext
        /\ UNCHANGED <<channelVars, streamVars, storeVars, resultVars>>
     \/ /\ part = "stream" /\ StreamNext
        /\ UNCHANGED <<channelVars, gateVars, storeVars, resultVars>>
     \/ /\ part = "chats" /\ StoreNext
        /\ UNCHANGED <<channelVars, gateVars, streamVars, resultVars>>
     \/ /\ part = "results" /\ ResultNext
        /\ UNCHANGED <<channelVars, gateVars, streamVars, storeVars>>

\* The fairness of the parts, each demanded of its own behaviours only: the stream's
\* poll is enabled in its initial state.
PlatformFairness ==
  /\ GateFairness
  /\ WF_streamVars(part = "stream" /\ Poll) /\ WF_streamVars(part = "stream" /\ ReadMessage)

PlatformSpec == PlatformInit /\ [][PlatformNext]_platformVars /\ PlatformFairness
=============================================================================
