---------------------------- MODULE TelegramChannel ----------------------------
(***************************************************************************)
(* The Telegram channel: long polling that drops what came before it, one  *)
(* update handled after the other, and a send that is repeated as plain    *)
(* text when the first attempt fails for whatever reason.                  *)
(***************************************************************************)
EXTENDS ChannelBus

VARIABLES
    updates,            \* messages at Telegram that have not been polled
    polling             \* the stage of start()

telegramVars == <<updates, polling>>

TelegramTypeOK == updates \in Seq(Heard) /\ polling \in {"starting", "on", "never"}

TelegramInit == updates = <<>> /\ polling = "starting"

TelegramSays(c) ==
    /\ Says("telegram")
    /\ updates' = Append(updates, Latest("telegram", c))
    /\ UNCHANGED <<inbound, accepted, sendVars, faults, polling>>

\* start_polling(drop_pending_updates=True)
StartPolling ==
    /\ polling = "starting"
    /\ polling' = "on"
    /\ updates' = <<>>
    /\ UNCHANGED busVars

\* start() raises, and nobody starts the channel again (start_all).
StartRaises ==
    /\ polling = "starting"
    /\ Fails("telegram")
    /\ polling' = "never"
    /\ UNCHANGED <<inbound, accepted, said, sendVars, updates>>

\* _on_message: a download or a transcription that fails leaves a note in the
\* text of the message.
OnUpdate ==
    /\ polling = "on"
    /\ updates # <<>>
    /\ updates' = Tail(updates)
    /\ HandleMessage(Head(updates))
    /\ UNCHANGED <<said, faults, sendVars, polling>>

TelegramSend == Attempt("telegram", 2) /\ UNCHANGED telegramVars

TelegramNext ==
    \/ \E c \in Chats : TelegramSays(c)
    \/ StartPolling \/ StartRaises \/ OnUpdate \/ TelegramSend

TelegramFairness == WF_<<busVars, telegramVars>>(TelegramSend)
=============================================================================
