---------------------------- MODULE DiscordChannel ----------------------------
(***************************************************************************)
(* The Discord channel: the gateway connection with its heartbeat task,    *)
(* and the typing indicator that is on from a message to its answer.       *)
(* Nothing is resumed: what is said while the gateway is down is lost.     *)
(***************************************************************************)
EXTENDS ChannelBus

VARIABLES
    gateway,            \* the websocket: down, open before HELLO, ready
    beat,               \* the heartbeat task
    typing              \* chat -> its typing task runs

discordVars == <<gateway, beat, typing>>

DiscordTypeOK ==
    /\ gateway \in {"down", "open", "ready"}
    /\ beat \in {"none", "alive", "ended"}
    /\ typing \in [Chats -> BOOLEAN]

DiscordInit == gateway = "down" /\ beat = "none" /\ typing = [c \in Chats |-> FALSE]

\* start: connects again and again.
Connect ==
    /\ gateway = "down"
    /\ gateway' = "open"
    /\ UNCHANGED <<busVars, beat, typing>>

\* HELLO, _start_heartbeat, which replaces the task, _identify, READY.
Hello ==
    /\ gateway = "open"
    /\ beat' = "alive"
    /\ gateway' = "ready"
    /\ UNCHANGED <<busVars, typing>>

\* The connection breaks, or Discord asks for a new one (op 7, op 9).
GatewayCloses ==
    /\ gateway # "down"
    /\ Fails("discord")
    /\ gateway' = "down"
    /\ UNCHANGED <<inbound, accepted, said, sendVars, beat, typing>>

\* The task sends on a closed websocket.
BeatFails ==
    /\ gateway = "down" /\ beat = "alive"
    /\ beat' = "ended"
    /\ UNCHANGED <<busVars, gateway, typing>>

\* _handle_message_create: nobody sees the bot type for a refused sender.
MessageCreate(c) ==
    /\ gateway = "ready"
    /\ Says("discord")
    /\ typing' = [typing EXCEPT ![c] = @ \/ c \notin Refused]
    /\ HandleMessage(Latest("discord", c))
    /\ UNCHANGED <<sendVars, faults, gateway, beat>>

\* Mutation: the indicator is stopped after a success only.
StopTypingIfSent(c) == IF delivered' # delivered THEN [typing EXCEPT ![c] = FALSE] ELSE typing
StopTyping(c) == [typing EXCEPT ![c] = FALSE]

\* send: three attempts, a rate limit is one of them; whatever comes of them,
\* the indicator is stopped.
DiscordSend ==
    /\ Attempt("discord", 3)
    /\ typing' = IF sending' = NoMessage THEN StopTyping(sending.chat) ELSE typing
    /\ UNCHANGED <<gateway, beat>>

DiscordNext ==
    \/ Connect \/ Hello \/ GatewayCloses \/ BeatFails
    \/ \E c \in Chats : MessageCreate(c)
    \/ DiscordSend

DiscordFairness ==
    /\ WF_<<busVars, discordVars>>(DiscordSend)
    /\ WF_<<busVars, discordVars>>("discord" \in enabled /\ (Connect \/ Hello))

-----------------------------------------------------------------------------
\* The bot is shown typing in a chat only while a message of the chat or an
\* answer to it is on its way; no failed send leaves the indicator on (send,
\* _start_typing, _stop_typing).
TypingMeansPending ==
    \A c \in Chats : typing[c] =>
        \/ \E i \in DOMAIN inbound : inbound[i].channel = "discord" /\ inbound[i].chat = c
        \/ \E i \in DOMAIN outbound : outbound[i].channel = "discord" /\ outbound[i].chat = c
        \/ sending # NoMessage /\ sending.channel = "discord" /\ sending.chat = c

=============================================================================
