----------------------------- MODULE BotSession -----------------------------
(***************************************************************************)
(* The lifecycle of the bots together with the chat bridge of one of them. *)
(* registerBotEventHandlers gives every bot a bridge of its own, which     *)
(* hears chats while its bot is in the world and outlives it: nothing      *)
(* closes it.                                                              *)
(***************************************************************************)
EXTENDS BotLifecycle, ChatBridge

CONSTANT Host  \* the bot whose bridge is looked at

ASSUME HostAssumption == Host \in Bots

Init == LifeInit /\ BridgeInit

\* 'chat' of Host: somebody else speaks, and it is no order to collect wood.
HearChat ==
  /\ conn[Host] = "play"
  /\ ForwardChat
  /\ UNCHANGED lifeVars

Next ==
  \/ HearChat
  \/ LifeNext /\ UNCHANGED bridgeVars
  \/ BridgeNext /\ UNCHANGED lifeVars

vars == <<lifeVars, bridgeVars>>

Spec == Init /\ [][Next]_vars /\ LifeFair /\ BridgeFair

=============================================================================
