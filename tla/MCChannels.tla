----------------------------- MODULE MCChannels -----------------------------
(* Instances of Channels.                                                  *)
EXTENDS Channels

\* Channels by themselves; Matrix, which may hold the dispatcher for ever,
\* beside HTTP, whose requests have a timeout.
MCConfigurations ==
    {{ch} : ch \in {"discord", "whatsapp", "feishu", "telegram", "nextcloud_talk"}}
        \cup {{"http_inbound", "matrix"}}
\* WhatsApp has enough states of its own; HTTP has those of Matrix beside it.
MCMaxSaid == [ch \in Names |-> IF ch \in {"whatsapp", "http_inbound"} THEN 2 ELSE 3]
\* So that Discord may fail three times.
MCMaxFaults ==
    [ch \in Names |-> CASE ch = "discord" -> 3
                        [] ch \in {"http_inbound", "matrix"} -> 1
                        [] OTHER -> 2]
=============================================================================
