---------------------------- MODULE ChatDelivery ----------------------------
(***************************************************************************)
(* What the chat queue promises about one chat, whatever the queue's size  *)
(* and whoever is suspended where: it is processed one at a time, at most  *)
(* MaxRuns times, and nothing happens to it once it is closed.  One        *)
(* arrival or one requeue may push out one waiting chat.                   *)
(*                                                                         *)
(* ChatQueue implements this specification; it models no code of its own.  *)
(***************************************************************************)
EXTENDS Naturals

CONSTANTS Chats, MaxRuns

VARIABLES
  stage,  \* "unsent", "waiting", "running" or "closed", per chat
  starts  \* how often the chat was started

vars == <<stage, starts>>

Init ==
  /\ stage = [c \in Chats |-> "unsent"]
  /\ starts = [c \in Chats |-> 0]

(* pushed: the waiting chats that lose their place, at most one. *)
AtMostOneWaiting(pushed) ==
  /\ \A d \in pushed : stage[d] = "waiting"
  /\ \A d, e \in pushed : d = e

Move(c, to, pushed) ==
  stage' = [d \in Chats |-> IF d = c THEN to
                            ELSE IF d \in pushed THEN "closed" ELSE stage[d]]

Receive(c, pushed) ==
  /\ stage[c] = "unsent"
  /\ AtMostOneWaiting(pushed)
  /\ Move(c, "waiting", pushed)
  /\ UNCHANGED starts

Start(c) ==
  /\ stage[c] = "waiting"
  /\ \A d \in Chats : stage[d] # "running"
  /\ starts[c] < MaxRuns
  /\ Move(c, "running", {})
  /\ starts' = [starts EXCEPT ![c] = @ + 1]

Retry(c, pushed) ==
  /\ stage[c] = "running"
  /\ starts[c] < MaxRuns
  /\ AtMostOneWaiting(pushed)
  /\ Move(c, "waiting", pushed)
  /\ UNCHANGED starts

Close(c) ==
  /\ stage[c] = "running"
  /\ Move(c, "closed", {})
  /\ UNCHANGED starts

Next ==
  \E c \in Chats :
    \/ \E pushed \in SUBSET Chats : Receive(c, pushed) \/ Retry(c, pushed)
    \/ Start(c)
    \/ Close(c)

Spec == Init /\ [][Next]_vars
=============================================================================
