----------------------------- MODULE HttpInbound -----------------------------
(***************************************************************************)
(* The HTTP channel of the router: a request waits up to 120 seconds for a *)
(* future which the send of an answer resolves.  The futures are kept by   *)
(* the chat_id of the JSON body, a text or a number; the bus knows the     *)
(* chat by its text, and by the text an answer looks its future up.        *)
(***************************************************************************)
EXTENDS ChannelBus

VARIABLES
    requests,           \* the requests in the order of their arrival
    pending             \* _pending: chat_id -> the number of a request, or 0

httpVars == <<requests, pending>>

\* A chat_id as it stands in the body, and str(chat_id).
ChatIds == {"text", "number"} \X Chats
Str(raw) == raw[2]

\* answer: what its future has been resolved with, or 0; alone: no other
\* request of the chat_id has been open at the same time (observation).
Request == [id : Nat, raw : ChatIds, state : {"open", "ok", "timeout", "error"},
            answer : Nat, alone : BOOLEAN]

HttpTypeOK ==
    /\ requests \in Seq(Request)
    /\ pending \in [ChatIds -> 0..Len(requests)]

HttpInit == requests = <<>> /\ pending = [raw \in ChatIds |-> 0]

OpenOf(raw) ==
    {f \in DOMAIN requests : requests[f].state = "open" /\ requests[f].raw = raw}

\* A new future takes the place of the one the chat_id had.
Register(raw, state) ==
    /\ requests' = Append([f \in DOMAIN requests |->
                              IF f \in OpenOf(raw) THEN [requests[f] EXCEPT !.alone = FALSE]
                              ELSE requests[f]],
                          [id |-> said + 1, raw |-> raw, state |-> state,
                           answer |-> 0, alone |-> OpenOf(raw) = {}])
    /\ pending' = [pending EXCEPT ![raw] = Len(requests) + 1]

\* _handle_inbound up to wait_for.
HandleInbound(raw) ==
    /\ Says("http_inbound")
    /\ Register(raw, "open")
    /\ HandleMessage(Latest("http_inbound", Str(raw)))
    /\ UNCHANGED <<sendVars, faults>>

\* metadata is no object: metadata.get raises, and nothing pops the future.
HandleInboundRaises(raw) ==
    /\ Says("http_inbound")
    /\ Fails("http_inbound")
    /\ Register(raw, "error")
    /\ UNCHANGED <<inbound, accepted, sendVars>>

\* Mutation: the answer is looked up by its session key.
SessionKey(m) == <<m.channel, m.chat>>
Key(m) == <<"text", m.chat>>

\* The future an answer finds, if it is not done.
Found(m) ==
    {f \in DOMAIN requests : /\ Key(m) \in ChatIds
                             /\ pending[Key(m)] = f
                             /\ requests[f].answer = 0}

HttpSend ==
    /\ sending # NoMessage /\ sending.channel = "http_inbound"
    /\ requests' = [f \in DOMAIN requests |->
                        IF f \in Found(sending) THEN [requests[f] EXCEPT !.answer = sending.of]
                        ELSE requests[f]]
    /\ SendEnds
    /\ UNCHANGED <<enabled, inbound, outbound, delivered, accepted, said, published,
                   blind, faults, pending>>

\* The end of _handle_inbound; finally pops whatever the
\* chat_id has.
Return(f, state) ==
    /\ requests[f].state = "open"
    /\ requests' = [requests EXCEPT ![f].state = state]
    /\ pending' = [pending EXCEPT ![requests[f].raw] = 0]
    /\ UNCHANGED busVars

Respond(f) == requests[f].answer # 0 /\ Return(f, "ok")
\* Mutation: wait_for without a timeout.
NeverExpires(f) == FALSE
Expires(f) == requests[f].answer = 0
TimeOut(f) == Expires(f) /\ Return(f, "timeout")

HttpNext ==
    \/ \E raw \in ChatIds : HandleInbound(raw) \/ HandleInboundRaises(raw)
    \/ HttpSend
    \/ \E f \in DOMAIN requests : Respond(f) \/ TimeOut(f)

HttpFairness ==
    /\ WF_<<busVars, httpVars>>(HttpSend)
    /\ \A f \in 1..MaxSaid["http_inbound"] :
          WF_<<busVars, httpVars>>(f \in DOMAIN requests /\ (Respond(f) \/ TimeOut(f)))

-----------------------------------------------------------------------------
\* The question or the answer of a message is on its way to the channel.
OnTheWay(ch, c, n) ==
    \/ \E i \in DOMAIN inbound : inbound[i] = [channel |-> ch, chat |-> c, id |-> n]
    \/ \E i \in DOMAIN outbound :
          outbound[i].channel = ch /\ outbound[i].chat = c /\ outbound[i].of = n
    \/ sending # NoMessage /\ sending.channel = ch /\ sending.chat = c /\ sending.of = n

\* A request with a textual chat_id that has been alone, or whose future is
\* still the one in _pending, waits only for what is on its way, or for what
\* the access list has refused: no answer passes it.  The future of a request
\* with a numeric chat_id no answer finds (send, _handle_inbound, str(chat_id)
\* in _handle_message).
WaitingIsForSomething ==
    \A f \in DOMAIN requests :
        LET r == requests[f] IN
        /\ r.state = "open" /\ r.answer = 0 /\ r.raw[1] = "text"
        /\ r.alone \/ pending[r.raw] = f
        => OnTheWay("http_inbound", Str(r.raw), r.id) \/ Str(r.raw) \in Refused

=============================================================================
