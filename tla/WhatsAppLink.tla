----------------------------- MODULE WhatsAppLink -----------------------------
(***************************************************************************)
(* WhatsApp: the Python channel and the Node bridge, joined by a websocket *)
(* that carries messages and connection statuses one way and send commands *)
(* the other.  The bridge reconnects to WhatsApp five seconds after a      *)
(* close, the channel to the bridge five seconds after an error.           *)
(***************************************************************************)
EXTENDS ChannelBus

VARIABLES
    phone,              \* the bridge's WhatsApp socket
    timer,              \* reconnecting: connect() runs in five seconds
    link,               \* the websocket as the channel sees it
    connected,          \* _connected
    wire,               \* from the bridge to the channel
    told,               \* a status was sent on this link (observation)
    commands            \* sends the bridge is working on

whatsAppVars == <<phone, timer, link, connected, wire, told, commands>>

Statuses == {"connected", "disconnected"}
\* What the bridge broadcasts: a status, or a message.
Packets == [status : Statuses] \cup [heard : Heard]

WhatsAppTypeOK ==
    /\ phone \in {"connecting", "open", "closed", "logged out"}
    /\ timer \in BOOLEAN /\ connected \in BOOLEAN /\ told \in BOOLEAN
    /\ link \in {"down", "up", "closed"}
    /\ wire \in Seq(Packets)
    /\ commands \subseteq Outbound

\* BridgeServer.start has called connect().
WhatsAppInit ==
    /\ phone = "connecting" /\ timer = FALSE
    /\ link = "down" /\ connected = FALSE
    /\ wire = <<>> /\ told = FALSE /\ commands = {}

\* broadcast reaches a client that is connected.
Broadcast(packet) == wire' = IF link = "up" THEN Append(wire, packet) ELSE wire
Status(s) == Broadcast([status |-> s]) /\ told' = (told \/ link = "up")

\* connection.update
PhoneOpens ==
    /\ phone = "connecting"
    /\ phone' = "open"
    /\ Status("connected")
    /\ UNCHANGED <<busVars, timer, link, connected, commands>>

PhoneCloses(loggedOut) ==
    /\ phone \in {"connecting", "open"}
    /\ Fails("whatsapp")
    /\ phone' = IF loggedOut THEN "logged out" ELSE "closed"
    /\ timer' = (timer \/ ~loggedOut)
    /\ Status("disconnected")
    /\ UNCHANGED <<inbound, accepted, said, sendVars, link, connected, commands>>

\* The callback of setTimeout calls connect().
TimerFires ==
    /\ timer
    /\ timer' = FALSE
    /\ phone' = "connecting"
    /\ UNCHANGED <<busVars, link, connected, wire, told, commands>>

\* messages.upsert
PhoneHears(c) ==
    /\ phone = "open"
    /\ Says("whatsapp")
    /\ Broadcast([heard |-> Latest("whatsapp", c)])
    /\ UNCHANGED <<inbound, accepted, sendVars, faults, phone, timer, link, connected,
                   told, commands>>

\* start: until a status says otherwise, the bridge's WhatsApp is taken to be
\* connected.
LinkOpens ==
    /\ link # "up"
    /\ link' = "up"
    /\ connected' = TRUE
    /\ told' = FALSE
    /\ wire' = <<>>
    /\ UNCHANGED <<busVars, phone, timer, commands>>

\* Anything but a proper close raises; what was on its way is lost.
LinkBreaks ==
    /\ link = "up"
    /\ Fails("whatsapp")
    /\ link' = "down"
    /\ connected' = FALSE
    /\ wire' = <<>>
    /\ commands' \in SUBSET commands
    /\ UNCHANGED <<inbound, accepted, said, sendVars, phone, timer, told>>

\* The bridge is stopped, which closes the websocket properly, and started
\* again: the channel keeps _connected.
BridgeRestarts ==
    /\ Fails("whatsapp")
    /\ link' = IF link = "up" THEN "closed" ELSE link
    /\ phone' = "connecting"
    /\ timer' = FALSE
    /\ wire' = <<>>
    /\ commands' = {}
    /\ UNCHANGED <<inbound, accepted, said, sendVars, connected, told>>

\* The next attempt to connect raises.
LinkRefused ==
    /\ link = "closed"
    /\ link' = "down"
    /\ connected' = FALSE
    /\ UNCHANGED <<busVars, phone, timer, wire, told, commands>>

\* Mutation: a status is noticed when it says connected.
OnlyConnected(s) == connected \/ s = "connected"
SaysConnected(s) == s = "connected"

\* _handle_bridge_message
LinkReceives ==
    /\ wire # <<>>
    /\ wire' = Tail(wire)
    /\ IF "status" \in DOMAIN Head(wire)
       THEN /\ connected' = SaysConnected(Head(wire).status)
            /\ UNCHANGED <<inbound, accepted>>
       ELSE /\ HandleMessage(Head(wire).heard)
            /\ UNCHANGED connected
    /\ UNCHANGED <<said, faults, sendVars, phone, timer, link, told, commands>>

\* send: without a connection, or on a websocket that is closed, the message
\* is gone.
WhatsAppSend ==
    /\ sending # NoMessage /\ sending.channel = "whatsapp"
    /\ commands' = commands \cup {m \in {sending} : link = "up" /\ connected}
    /\ SendEnds
    /\ UNCHANGED <<enabled, inbound, outbound, delivered, accepted, said, published,
                   blind, faults, phone, timer, link, connected, wire, told>>

\* handleCommand: the commands are handled concurrently; sendMessage fails on
\* a socket that is not open.
BridgeSends(m) ==
    /\ m \in commands
    /\ commands' = commands \ {m}
    /\ \/ phone = "open" /\ delivered' = Append(delivered, m)
       \/ phone # "open" /\ UNCHANGED delivered
    /\ UNCHANGED <<enabled, inbound, outbound, sending, tries, accepted, said, published,
                   blind, faults, phone, timer, link, connected, wire, told>>

WhatsAppNext ==
    \/ PhoneOpens \/ TimerFires
    \/ \E b \in BOOLEAN : PhoneCloses(b)
    \/ \E c \in Chats : PhoneHears(c)
    \/ LinkOpens \/ LinkBreaks \/ BridgeRestarts \/ LinkRefused \/ LinkReceives
    \/ WhatsAppSend
    \/ \E m \in commands : BridgeSends(m)

\* WhatsApp can be reached again after a while.
WhatsAppFairness ==
    /\ WF_<<busVars, whatsAppVars>>(WhatsAppSend)
    /\ WF_<<busVars, whatsAppVars>>(TimerFires)
    /\ WF_<<busVars, whatsAppVars>>("whatsapp" \in enabled /\ PhoneOpens)

-----------------------------------------------------------------------------
\* Once the bridge has said anything about WhatsApp on the present link, and
\* the channel has heard all of it, the channel knows whether WhatsApp is
\* connected (onStatus, _handle_bridge_message).
ConnectedIsCurrent ==
    link = "up" /\ told /\ wire = <<>> => (connected <=> phone = "open")
=============================================================================
