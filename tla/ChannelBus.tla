------------------------------ MODULE ChannelBus ------------------------------
(***************************************************************************)
(* What the channels of a gateway share: the two queues of the bus, the    *)
(* access list, and the ChannelManager's dispatcher, which takes one       *)
(* outbound message at a time and waits for the send of its channel.  The  *)
(* agent between the queues is reduced to what a channel sees of it        *)
(* (AgentGateway has the rest): it answers the messages in their order and *)
(* may send something of its own accord.                                   *)
(***************************************************************************)
EXTENDS Naturals, Sequences

CONSTANTS
    Configurations,     \* sets of channels that may be enabled together
    Chats,
    Refused,            \* chats whose senders the access list does not have
    Unserved,           \* a channel no configuration enables ("cli")
    NoMessage,          \* what an idle dispatcher sends
    MaxSaid,            \* channel -> bound: messages of its users and for it
                        \* of the agent's own accord
    MaxFaults           \* channel -> bound: requests, connections, processes
                        \* that fail

ASSUME RefusedAssumption == Refused \subseteq Chats
ASSUME UnservedAssumption == Unserved \notin UNION Configurations

VARIABLES
    enabled,            \* the channels of this gateway
    inbound,            \* MessageBus.inbound
    outbound,           \* MessageBus.outbound
    sending,            \* the message whose send() the dispatcher awaits
    tries,              \* attempts of that send so far
    delivered,          \* what the platforms have taken, in their order
    accepted,           \* the messages ever put into inbound (observation)
    said,               \* number of messages of users and of the agent's own
    published,          \* number of messages published for the channels
    blind,              \* a platform took a message and answered with an error
    faults

busVars == <<enabled, inbound, outbound, sending, tries, delivered, accepted,
             said, published, blind, faults>>
\* Of these, what the arrival of a message leaves alone.
sendVars == <<enabled, outbound, sending, tries, delivered, published, blind>>

Names == (UNION Configurations) \cup {Unserved}
Heard == [channel : Names, chat : Chats, id : Nat \ {0}]
\* of: the message it answers; no: the order of publication.
Outbound == [channel : Names, chat : Chats, of : Nat \ {0}, no : Nat]

ASSUME NoMessageAssumption == NoMessage \notin Outbound
ASSUME ChannelBoundsAssumption == MaxSaid \in [Names -> Nat] /\ MaxFaults \in [Names -> Nat]

BusTypeOK ==
    /\ enabled \in Configurations
    /\ inbound \in Seq(Heard) /\ accepted \in Seq(Heard)
    /\ outbound \in Seq(Outbound) /\ delivered \in Seq(Outbound)
    /\ sending \in Outbound \cup {NoMessage}
    /\ tries \in 0..2
    /\ said \in Nat /\ published \in Nat
    /\ blind \in BOOLEAN
    /\ faults \in Nat

BusInit ==
    /\ enabled \in Configurations
    /\ inbound = <<>> /\ outbound = <<>> /\ delivered = <<>> /\ accepted = <<>>
    /\ sending = NoMessage
    /\ tries = 0 /\ said = 0 /\ published = 0 /\ faults = 0
    /\ blind = FALSE

-----------------------------------------------------------------------------
(* Arrival                                                                 *)

Fails(ch) == faults < MaxFaults[ch] /\ faults' = faults + 1

\* A user says something on a channel.
Says(ch) == ch \in enabled /\ said < MaxSaid[ch] /\ said' = said + 1
Latest(ch, c) == [channel |-> ch, chat |-> c, id |-> said + 1]

\* BaseChannel._handle_message, with is_allowed.
HandleMessage(m) ==
    IF m.chat \in Refused THEN UNCHANGED <<inbound, accepted>>
    ELSE inbound' = Append(inbound, m) /\ accepted' = Append(accepted, m)

\* publish_outbound
Publish(ch, c, n) ==
    /\ outbound' = Append(outbound,
                          [channel |-> ch, chat |-> c, of |-> n, no |-> published + 1])
    /\ published' = published + 1

\* The agent loop answers the oldest message.
Answer ==
    /\ inbound # <<>>
    /\ inbound' = Tail(inbound)
    /\ Publish(Head(inbound).channel, Head(inbound).chat, Head(inbound).id)
    /\ UNCHANGED <<enabled, sending, tries, delivered, accepted, said, blind, faults>>

\* The message tool, a cron delivery.
Note(ch, c) ==
    /\ said < MaxSaid[ch]
    /\ said' = said + 1
    /\ Publish(ch, c, said + 1)
    /\ UNCHANGED <<enabled, inbound, sending, tries, delivered, accepted, blind, faults>>

-----------------------------------------------------------------------------
(* The dispatcher                                                          *)

\* The next message; one for an unknown channel is dropped.
Dispatch ==
    /\ sending = NoMessage
    /\ outbound # <<>>
    /\ outbound' = Tail(outbound)
    /\ sending' = IF Head(outbound).channel \in enabled THEN Head(outbound) ELSE NoMessage
    /\ UNCHANGED <<enabled, inbound, tries, delivered, accepted, said, published, blind, faults>>

\* A send that returns or raises ends here: the manager logs an exception.
SendEnds == sending' = NoMessage /\ tries' = 0
\* Mutation: the exception ends the dispatcher.
DispatcherEnds(q, m) == sending' = m /\ tries' = 3 /\ outbound' = q
\* A message that could not be sent is gone.
Dropped(q, m) == SendEnds /\ outbound' = q

\* Mutation: the attempt after one that was carried out is made as well.
TriedAgain(limit) ==
    IF tries + 1 < limit THEN tries' = tries + 1 /\ sending' = sending ELSE SendEnds
Done(limit) == SendEnds

\* One request to the platform of the message; at most limit are made, and a
\* request that fails may have been carried out.
Attempt(ch, limit) ==
    /\ sending # NoMessage /\ sending.channel = ch
    /\ tries < limit
    /\ \/ /\ delivered' = Append(delivered, sending)
          /\ Done(limit)
          /\ UNCHANGED <<outbound, blind, faults>>
       \/ /\ Fails(ch)
          /\ \/ UNCHANGED <<delivered, blind>>
             \/ delivered' = Append(delivered, sending) /\ blind' = TRUE
          /\ IF tries + 1 < limit
             THEN tries' = tries + 1 /\ UNCHANGED <<sending, outbound>>
             ELSE Dropped(outbound, sending)
    /\ UNCHANGED <<enabled, inbound, accepted, said, published>>
=============================================================================
