------------------------------- MODULE Channels -------------------------------
(***************************************************************************)
(* The channels of a gateway, on one bus and one dispatcher.  A            *)
(* configuration enables some of them; the others do not exist.            *)
(***************************************************************************)
EXTENDS HttpInbound, DiscordChannel, WhatsAppLink, MatrixChannel, FeishuChannel,
        TelegramChannel, NextcloudTalk

vars == <<busVars, httpVars, discordVars, whatsAppVars, matrixVars, feishuVars,
          telegramVars, nextcloudVars>>

TypeOK ==
    /\ BusTypeOK
    /\ HttpTypeOK /\ DiscordTypeOK /\ WhatsAppTypeOK /\ MatrixTypeOK
    /\ FeishuTypeOK /\ TelegramTypeOK /\ NextcloudTypeOK

Init ==
    /\ BusInit
    /\ HttpInit /\ DiscordInit /\ WhatsAppInit /\ MatrixInit
    /\ FeishuInit /\ TelegramInit /\ NextcloudInit
    /\ "nextcloud_talk" \notin enabled => ~bridged

-----------------------------------------------------------------------------
\* The agent and the dispatcher leave what the channels keep alone.
Bus ==
    /\ \/ Answer
       \/ \E ch \in enabled \cup {Unserved}, c \in Chats : Note(ch, c)
       \/ Dispatch
    /\ UNCHANGED <<httpVars, discordVars, whatsAppVars, matrixVars, feishuVars,
                   telegramVars, nextcloudVars>>

Http ==
    /\ "http_inbound" \in enabled
    /\ HttpNext
    /\ UNCHANGED <<discordVars, whatsAppVars, matrixVars, feishuVars, telegramVars,
                   nextcloudVars>>

Discord ==
    /\ "discord" \in enabled
    /\ DiscordNext
    /\ UNCHANGED <<httpVars, whatsAppVars, matrixVars, feishuVars, telegramVars, nextcloudVars>>

WhatsApp ==
    /\ "whatsapp" \in enabled
    /\ WhatsAppNext
    /\ UNCHANGED <<httpVars, discordVars, matrixVars, feishuVars, telegramVars, nextcloudVars>>

Matrix ==
    /\ "matrix" \in enabled
    /\ MatrixNext
    /\ UNCHANGED <<httpVars, discordVars, whatsAppVars, feishuVars, telegramVars, nextcloudVars>>

Feishu ==
    /\ "feishu" \in enabled
    /\ FeishuNext
    /\ UNCHANGED <<httpVars, discordVars, whatsAppVars, matrixVars, telegramVars, nextcloudVars>>

Telegram ==
    /\ "telegram" \in enabled
    /\ TelegramNext
    /\ UNCHANGED <<httpVars, discordVars, whatsAppVars, matrixVars, feishuVars, nextcloudVars>>

Nextcloud ==
    /\ "nextcloud_talk" \in enabled
    /\ NextcloudNext
    /\ UNCHANGED <<httpVars, discordVars, whatsAppVars, matrixVars, feishuVars, telegramVars>>

Next == Bus \/ Http \/ Discord \/ WhatsApp \/ Matrix \/ Feishu \/ Telegram \/ Nextcloud

Spec == Init /\ [][Next]_vars

\* The dispatcher's task gets its turns, and a send ends where the requests
\* have timeouts: nothing is assumed of those of Matrix and Feishu.
FairSpec ==
    /\ Spec
    /\ WF_vars(Bus /\ Dispatch)
    /\ HttpFairness /\ DiscordFairness /\ WhatsAppFairness
    /\ TelegramFairness /\ NextcloudFairness

-----------------------------------------------------------------------------
(* Properties of the dispatcher and all channels                           *)

\* As long as no platform takes a message and answers with an error, a chat
\* gets no answer twice, whatever is tried again, unless the agent was given
\* the question twice; and it gets those that came through the outbound queue
\* in the order in which they were published, except on WhatsApp, whose bridge
\* sends concurrently (_dispatch_outbound, the send methods).
SentOnceInOrder ==
    ~blind =>
        \A i, j \in DOMAIN delivered :
            LET a == delivered[i]
                b == delivered[j]
            IN  i < j /\ a.channel = b.channel /\ a.chat = b.chat =>
                    /\ a.of = b.of => a.of \in again
                    /\ a.channel # "whatsapp" /\ a.no # 0 /\ b.no # 0 => a.no < b.no

\* The agent is given every message of a user at most once: the sync token
\* and the cache of message ids see to it.  Except for what a Matrix batch had
\* handed over when a callback raised: the batch is asked for again (Sync,
\* OnMessage, the except in MatrixChannel.start).
HandedOverOnce ==
    \A i, j \in DOMAIN accepted :
        i # j /\ accepted[i].id = accepted[j].id => accepted[i].id \in again

Waiters == {"dispatcher", "forward", "request", "gateway", "phone"}
Waiting(w) ==
    CASE w = "dispatcher" -> outbound # <<>> \/ sending # NoMessage
      [] w = "forward" -> forwards # <<>>
      [] w = "request" -> \E f \in DOMAIN requests : requests[f].state = "open"
      [] w = "gateway" -> "discord" \in enabled /\ gateway # "ready"
      [] w = "phone" -> "whatsapp" \in enabled /\ phone \in {"connecting", "closed"}

\* The send of a Matrix message holds the dispatcher, that of a Feishu message
\* everybody.
Held(w) ==
    /\ sending # NoMessage
    /\ \/ sending.channel = "feishu"
       \/ sending.channel = "matrix" /\ w = "dispatcher"

\* Nobody waits for ever, unless held by a send that has no timeout: the
\* dispatcher gets rid of every message, whatever its send comes to; a
\* forwarded message and a request are dealt with, whatever holds the
\* dispatcher; the connections to Discord and, until it logs the bridge out,
\* WhatsApp return.
NobodyWaitsForEver == \A w \in Waiters : Waiting(w) ~> ~Waiting(w) \/ Held(w)
=============================================================================
