----------------------------- MODULE NextcloudTalk -----------------------------
(***************************************************************************)
(* The Nextcloud Talk channel: a webhook that hands a message either to    *)
(* the bus or, when an OpenClaw gateway is configured, to a task of its    *)
(* own, which asks OpenClaw, then a local model, and sends the answer past *)
(* the outbound queue.  Its HTTP calls block, so the task runs as a whole. *)
(***************************************************************************)
EXTENDS ChannelBus

VARIABLES
    bridged,            \* openclaw_url and openclaw_token are configured
    forwards            \* the tasks created, in their order

nextcloudVars == <<bridged, forwards>>

NextcloudTypeOK == bridged \in BOOLEAN /\ forwards \in Seq(Heard)

NextcloudInit == bridged \in BOOLEAN /\ forwards = <<>>

\* _handle_webhook, for a message with a valid signature that is not the
\* channel's own.
Webhook(c) ==
    LET m == Latest("nextcloud_talk", c) IN
    /\ Says("nextcloud_talk")
    /\ IF bridged THEN forwards' = Append(forwards, m) /\ UNCHANGED <<inbound, accepted>>
       ELSE HandleMessage(m) /\ UNCHANGED forwards
    /\ UNCHANGED <<sendVars, faults, bridged>>

\* An answer that has not been in the outbound queue has no place in it.
PastTheQueue(m) == [channel |-> m.channel, chat |-> m.chat, of |-> m.id, no |-> 0]

\* _forward_to_openclaw, with the send at its end.
Forward ==
    /\ forwards # <<>>
    /\ forwards' = Tail(forwards)
    /\ \/ /\ delivered' = Append(delivered, PastTheQueue(Head(forwards)))
          /\ UNCHANGED <<blind, faults>>
       \/ /\ Fails("nextcloud_talk")              \* both brains are silent, or the post fails
          /\ \/ UNCHANGED <<delivered, blind>>
             \/ delivered' = Append(delivered, PastTheQueue(Head(forwards))) /\ blind' = TRUE
    /\ UNCHANGED <<enabled, inbound, outbound, sending, tries, accepted, said, published, bridged>>

NextcloudSend == Attempt("nextcloud_talk", 1) /\ UNCHANGED nextcloudVars

NextcloudNext ==
    \/ \E c \in Chats : Webhook(c)
    \/ Forward \/ NextcloudSend

NextcloudFairness ==
    WF_<<busVars, nextcloudVars>>(NextcloudSend) /\ WF_<<busVars, nextcloudVars>>(Forward)
=============================================================================
