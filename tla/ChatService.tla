---------------------------- MODULE ChatService ----------------------------
(***************************************************************************)
(* What the gateway promises to its chats, without queues, turns, tools or *)
(* subagents: a question is answered once, in its own chat, after all      *)
(* earlier questions of that chat.  AgentGateway implements this module.   *)
(***************************************************************************)
EXTENDS Naturals

CONSTANT Chats          \* the conversations ("channel:chat_id")

VARIABLES
    asked,              \* the questions accepted so far
    answered            \* those of them that have been answered

vars == <<asked, answered>>

Question == [chat : Chats, id : Nat]    \* id: the order of acceptance

TypeOK == asked \subseteq Question /\ answered \subseteq asked

Init == asked = {} /\ answered = {}

\* A chat asks something newer than everything asked before.
Ask(c) ==
    /\ \E q \in asked' \ asked :
          /\ q \in Question
          /\ q.chat = c
          /\ \A e \in asked : e.id < q.id
          /\ asked' = asked \cup {q}
    /\ UNCHANGED answered

\* The oldest open question of a chat is answered.
Answer(c) ==
    /\ \E q \in asked \ answered :
          /\ q.chat = c
          /\ \A e \in asked : e.chat = c /\ e.id < q.id => e \in answered
          /\ answered' = answered \cup {q}
    /\ UNCHANGED asked

Next == \E c \in Chats : Ask(c) \/ Answer(c)

Spec == Init /\ [][Next]_vars

\* A chat that has an open question is not ignored for ever.
FairSpec == Spec /\ \A c \in Chats : WF_vars(Answer(c))
=============================================================================
