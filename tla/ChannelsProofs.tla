---------------------------- MODULE ChannelsProofs ----------------------------
(***************************************************************************)
(* Proofs about Channels for every set of configurations and chats, every  *)
(* bound.  A message that is on its way to a channel, as a question or as  *)
(* its answer, stays on its way until a send of that channel ends: this is *)
(* shown once for every kind of step, and the promises of the channels     *)
(* that wait for messages rest on it.  The second half follows the         *)
(* messages themselves: each is at one stage of its way, once, so that     *)
(* none is handed over or sent twice, and those in the dispatcher's hands  *)
(* are in the order of their publication.  Messages of a Matrix batch that *)
(* was given up half-way are the exception (again).                        *)
(***************************************************************************)
EXTENDS Channels, SequenceTheorems, TLAPS

\* Steps that leave the queue of the dispatcher and its send alone; a message
\* may arrive.
Around ==
    /\ UNCHANGED <<enabled, outbound, sending, tries, published>>
    /\ inbound' \in Seq(Heard) /\ accepted' \in Seq(Heard)
    /\ Len(inbound) <= Len(inbound')
    /\ \A i \in 1..Len(inbound) : inbound'[i] = inbound[i]
    /\ delivered' \in Seq(Outbound)
    /\ said' \in Nat /\ faults' \in Nat /\ blind' \in BOOLEAN

\* Steps of a channel's send.
Sends(ch) ==
    /\ sending # NoMessage /\ sending.channel = ch
    /\ UNCHANGED <<enabled, inbound, outbound, accepted, said, published>>
    /\ sending' \in {sending, NoMessage}
    /\ tries' \in 0..2
    /\ delivered' \in Seq(Outbound)
    /\ faults' \in Nat /\ blind' \in BOOLEAN

\* A message of a chat is on its way, whatever its number.
Pending(ch, c) == \E n \in Nat \ {0} : OnTheWay(ch, c, n)

-----------------------------------------------------------------------------
(* The bus                                                                 *)

LEMMA HandleMessageAdds ==
    ASSUME BusTypeOK, NEW m \in Heard, HandleMessage(m)
    PROVE  /\ inbound' \in Seq(Heard) /\ accepted' \in Seq(Heard)
           /\ Len(inbound) <= Len(inbound')
           /\ \A i \in 1..Len(inbound) : inbound'[i] = inbound[i]
           /\ m.chat \notin Refused =>
                 Len(inbound') = Len(inbound) + 1 /\ inbound'[Len(inbound) + 1] = m
<1>1. inbound \in Seq(Heard) /\ accepted \in Seq(Heard)
  BY DEF BusTypeOK
<1>2. CASE m.chat \in Refused
  BY <1>1, <1>2 DEF HandleMessage
<1>3. CASE m.chat \notin Refused
  <2>1. inbound' = Append(inbound, m) /\ accepted' = Append(accepted, m)
    BY <1>3 DEF HandleMessage
  <2> QED
    BY <1>1, <2>1
<1> QED
  BY <1>2, <1>3

LEMMA LatestIsHeard ==
    ASSUME BusTypeOK, NEW ch, Says(ch), NEW c \in Chats
    PROVE  /\ Latest(ch, c) \in Heard /\ said' \in Nat
           /\ Latest(ch, c).channel = ch /\ Latest(ch, c).chat = c /\ Latest(ch, c).id = said + 1
<1>1. ch \in Names
  BY DEF BusTypeOK, Says, Names
<1>2. said \in Nat /\ said' = said + 1
  BY DEF BusTypeOK, Says
<1> QED
  BY <1>1, <1>2 DEF Latest, Heard

LEMMA AttemptSends ==
    ASSUME BusTypeOK, NEW ch, NEW limit \in 1..3, Attempt(ch, limit)
    PROVE  Sends(ch)
<1>1. /\ sending # NoMessage /\ sending.channel = ch /\ sending \in Outbound
      /\ UNCHANGED <<enabled, inbound, accepted, said, published>>
  BY DEF Attempt, BusTypeOK
<1>2. /\ tries \in 0..2 /\ delivered \in Seq(Outbound) /\ blind \in BOOLEAN /\ faults \in Nat
  BY DEF BusTypeOK
<1>3. Append(delivered, sending) \in Seq(Outbound)
  BY <1>1, <1>2
<1>4. CASE /\ delivered' = Append(delivered, sending) /\ Done(limit)
           /\ UNCHANGED <<outbound, blind, faults>>
  BY <1>1, <1>2, <1>3, <1>4 DEF Sends, Done, SendEnds
<1>5. CASE /\ Fails(ch)
           /\ \/ UNCHANGED <<delivered, blind>>
              \/ delivered' = Append(delivered, sending) /\ blind' = TRUE
           /\ IF tries + 1 < limit
              THEN tries' = tries + 1 /\ UNCHANGED <<sending, outbound>>
              ELSE Dropped(outbound, sending)
  <2>1. faults' \in Nat
    BY <1>2, <1>5 DEF Fails
  <2>2. delivered' \in Seq(Outbound) /\ blind' \in BOOLEAN
    BY <1>2, <1>3, <1>5
  <2>3. outbound' = outbound /\ sending' \in {sending, NoMessage} /\ tries' \in 0..2
    BY <1>2, <1>5 DEF Dropped, SendEnds
  <2> QED
    BY <1>1, <2>1, <2>2, <2>3 DEF Sends
<1> QED
  BY <1>4, <1>5 DEF Attempt

LEMMA AroundKeeps ==
    ASSUME BusTypeOK, Around
    PROVE  /\ BusTypeOK'
           /\ \A ch, c, n : OnTheWay(ch, c, n) => OnTheWay(ch, c, n)'
<1>1. BusTypeOK'
  BY DEF BusTypeOK, Around
<1>2. ASSUME NEW ch, NEW c, NEW n, OnTheWay(ch, c, n) PROVE OnTheWay(ch, c, n)'
  <2>1. DOMAIN inbound = 1..Len(inbound) /\ DOMAIN inbound' = 1..Len(inbound')
    BY <1>1 DEF BusTypeOK
  <2>2. Len(inbound) \in Nat /\ Len(inbound') \in Nat
    BY <1>1 DEF BusTypeOK
  <2>3. CASE \E i \in DOMAIN inbound : inbound[i] = [channel |-> ch, chat |-> c, id |-> n]
    <3>1. PICK i \in 1..Len(inbound) : inbound[i] = [channel |-> ch, chat |-> c, id |-> n]
      BY <2>1, <2>3
    <3>2. i \in DOMAIN inbound' /\ inbound'[i] = inbound[i]
      BY <2>1, <2>2 DEF Around
    <3> QED
      BY <3>1, <3>2 DEF OnTheWay
  <2>4. outbound' = outbound /\ sending' = sending
    BY DEF Around
  <2> QED
    BY <1>2, <2>3, <2>4 DEF OnTheWay
<1> QED
  BY <1>1, <1>2

LEMMA SendsKeeps ==
    ASSUME BusTypeOK, NEW ch, Sends(ch)
    PROVE  /\ BusTypeOK'
           /\ \A d, c, n : OnTheWay(d, c, n) =>
                 OnTheWay(d, c, n)' \/ (d = ch /\ c = sending.chat /\ sending' = NoMessage)
<1>1. BusTypeOK'
  BY DEF BusTypeOK, Sends
<1>2. ASSUME NEW d, NEW c, NEW n, OnTheWay(d, c, n)
      PROVE  OnTheWay(d, c, n)' \/ (d = ch /\ c = sending.chat /\ sending' = NoMessage)
  BY <1>2 DEF OnTheWay, Sends
<1> QED
  BY <1>1, <1>2

\* A message that is put at the end of the outbound queue.
LEMMA PublishAdds ==
    ASSUME BusTypeOK, NEW ch \in Names, NEW c \in Chats, NEW n \in Nat \ {0}, Publish(ch, c, n)
    PROVE  /\ outbound' \in Seq(Outbound) /\ published' \in Nat
           /\ Len(outbound') = Len(outbound) + 1
           /\ \A i \in 1..Len(outbound) : outbound'[i] = outbound[i]
           /\ LET last == outbound'[Len(outbound) + 1]
              IN  last.channel = ch /\ last.chat = c /\ last.of = n
<1> DEFINE m == [channel |-> ch, chat |-> c, of |-> n, no |-> published + 1]
<1>1. outbound \in Seq(Outbound) /\ published \in Nat
  BY DEF BusTypeOK
<1>2. m \in Outbound /\ m.channel = ch /\ m.chat = c /\ m.of = n
  BY <1>1 DEF Outbound
<1>3. outbound' = Append(outbound, m) /\ published' = published + 1
  BY DEF Publish
<1> HIDE DEF m
<1> QED
  BY <1>1, <1>2, <1>3

LEMMA AnswerKeeps ==
    ASSUME BusTypeOK, Answer
    PROVE  /\ BusTypeOK'
           /\ \A ch, c, n : OnTheWay(ch, c, n) => OnTheWay(ch, c, n)'
<1> DEFINE h == Head(inbound)
<1>1. /\ inbound \in Seq(Heard) /\ inbound # <<>> /\ inbound' = Tail(inbound)
      /\ Publish(h.channel, h.chat, h.id)
      /\ UNCHANGED <<enabled, sending, tries, delivered, accepted, said, blind, faults>>
  BY DEF Answer, BusTypeOK
<1>2. h \in Heard /\ h = inbound[1]
  BY <1>1
<1>3. h.channel \in Names /\ h.chat \in Chats /\ h.id \in Nat \ {0}
  BY <1>2 DEF Heard
<1>4. /\ Tail(inbound) \in Seq(Heard) /\ Len(Tail(inbound)) = Len(inbound) - 1
      /\ \A i \in 2..Len(inbound) : Tail(inbound)[i - 1] = inbound[i]
  BY <1>1
<1> HIDE DEF h
<1>5. /\ outbound' \in Seq(Outbound) /\ published' \in Nat
      /\ Len(outbound') = Len(outbound) + 1
      /\ \A i \in 1..Len(outbound) : outbound'[i] = outbound[i]
      /\ outbound'[Len(outbound) + 1].channel = h.channel
      /\ outbound'[Len(outbound) + 1].chat = h.chat
      /\ outbound'[Len(outbound) + 1].of = h.id
  BY <1>1, <1>3, PublishAdds
<1>6. BusTypeOK'
  BY <1>1, <1>4, <1>5 DEF BusTypeOK
<1>7. outbound \in Seq(Outbound)
  BY DEF BusTypeOK
<1>8. ASSUME NEW ch, NEW c, NEW n, OnTheWay(ch, c, n) PROVE OnTheWay(ch, c, n)'
  <2>1. ASSUME NEW i \in DOMAIN inbound, inbound[i] = [channel |-> ch, chat |-> c, id |-> n]
        PROVE  OnTheWay(ch, c, n)'
    <3>1. CASE i = 1
      <4>1. h.channel = ch /\ h.chat = c /\ h.id = n
        BY <1>2, <2>1, <3>1
      <4>2. Len(outbound) + 1 \in DOMAIN outbound'
        BY <1>5, <1>7
      <4> QED
        BY <1>5, <4>1, <4>2 DEF OnTheWay
    <3>2. CASE i # 1
      <4>1. i \in 2..Len(inbound)
        BY <1>1, <2>1, <3>2
      <4>2. i - 1 \in DOMAIN inbound' /\ inbound'[i - 1] = inbound[i]
        BY <1>1, <1>4, <4>1
      <4> QED
        BY <2>1, <4>2 DEF OnTheWay
    <3> QED
      BY <3>1, <3>2
  <2>2. ASSUME NEW i \in DOMAIN outbound,
               outbound[i].channel = ch, outbound[i].chat = c, outbound[i].of = n
        PROVE  OnTheWay(ch, c, n)'
    <3>1. i \in DOMAIN outbound' /\ outbound'[i] = outbound[i]
      BY <1>5, <1>7
    <3> QED
      BY <2>2, <3>1 DEF OnTheWay
  <2>3. ASSUME sending # NoMessage, sending.channel = ch, sending.chat = c, sending.of = n
        PROVE  OnTheWay(ch, c, n)'
    BY <1>1, <2>3 DEF OnTheWay
  <2> QED
    BY <1>8, <2>1, <2>2, <2>3 DEF OnTheWay
<1> QED
  BY <1>6, <1>8

LEMMA NoteKeeps ==
    ASSUME BusTypeOK, NEW ch \in enabled \cup {Unserved}, NEW c \in Chats, Note(ch, c)
    PROVE  /\ BusTypeOK'
           /\ \A d, e, n : OnTheWay(d, e, n) => OnTheWay(d, e, n)'
<1>1. ch \in Names
  BY DEF BusTypeOK, Names
<1>2. /\ said' = said + 1 /\ Publish(ch, c, said + 1)
      /\ UNCHANGED <<enabled, inbound, sending, tries, delivered, accepted, blind, faults>>
  BY DEF Note
<1>3. said + 1 \in Nat \ {0}
  BY DEF BusTypeOK
<1>4. /\ outbound' \in Seq(Outbound) /\ published' \in Nat
      /\ Len(outbound') = Len(outbound) + 1
      /\ \A i \in 1..Len(outbound) : outbound'[i] = outbound[i]
  BY <1>1, <1>2, <1>3, PublishAdds
<1>5. BusTypeOK'
  BY <1>2, <1>3, <1>4 DEF BusTypeOK
<1>6. ASSUME NEW d, NEW e, NEW n, OnTheWay(d, e, n) PROVE OnTheWay(d, e, n)'
  <2>1. outbound \in Seq(Outbound)
    BY DEF BusTypeOK
  <2>2. ASSUME NEW i \in DOMAIN outbound PROVE i \in DOMAIN outbound' /\ outbound'[i] = outbound[i]
    BY <1>4, <2>1
  <2> QED
    BY <1>2, <1>6, <2>2 DEF OnTheWay
<1> QED
  BY <1>5, <1>6

LEMMA DispatchKeeps ==
    ASSUME BusTypeOK, Dispatch
    PROVE  /\ BusTypeOK'
           /\ \A ch \in enabled : \A c, n : OnTheWay(ch, c, n) => OnTheWay(ch, c, n)'
<1>1. /\ outbound \in Seq(Outbound) /\ outbound # <<>> /\ outbound' = Tail(outbound)
      /\ sending = NoMessage
      /\ sending' = IF Head(outbound).channel \in enabled THEN Head(outbound) ELSE NoMessage
      /\ UNCHANGED <<enabled, inbound, tries, delivered, accepted, said, published, blind, faults>>
  BY DEF Dispatch, BusTypeOK
<1>2. Head(outbound) \in Outbound /\ Head(outbound) = outbound[1]
  BY <1>1
<1>3. /\ Tail(outbound) \in Seq(Outbound) /\ Len(Tail(outbound)) = Len(outbound) - 1
      /\ \A i \in 2..Len(outbound) : Tail(outbound)[i - 1] = outbound[i]
  BY <1>1
<1>4. BusTypeOK'
  BY <1>1, <1>2, <1>3 DEF BusTypeOK
<1>5. ASSUME NEW ch \in enabled, NEW c, NEW n, OnTheWay(ch, c, n) PROVE OnTheWay(ch, c, n)'
  <2>1. ASSUME NEW i \in DOMAIN outbound,
               outbound[i].channel = ch, outbound[i].chat = c, outbound[i].of = n
        PROVE  OnTheWay(ch, c, n)'
    <3>1. CASE i = 1
      <4>1. sending' = outbound[1] /\ sending' # NoMessage
        BY <1>1, <1>2, <2>1, <3>1, NoMessageAssumption
      <4> QED
        BY <2>1, <3>1, <4>1 DEF OnTheWay
    <3>2. CASE i # 1
      <4>1. i \in 2..Len(outbound)
        BY <1>1, <2>1, <3>2
      <4>2. i - 1 \in DOMAIN outbound' /\ outbound'[i - 1] = outbound[i]
        BY <1>1, <1>3, <4>1
      <4> QED
        BY <2>1, <4>2 DEF OnTheWay
    <3> QED
      BY <3>1, <3>2
  <2>2. CASE \E i \in DOMAIN inbound : inbound[i] = [channel |-> ch, chat |-> c, id |-> n]
    BY <1>1, <2>2 DEF OnTheWay
  <2> QED
    BY <1>1, <1>5, <2>1, <2>2 DEF OnTheWay
<1> QED
  BY <1>4, <1>5

-----------------------------------------------------------------------------
(* The kinds of steps of the channels                                      *)

LEMMA ArrivalIsAround ==
    ASSUME BusTypeOK, NEW m \in Heard, HandleMessage(m), UNCHANGED sendVars,
           said' \in Nat, faults' \in Nat
    PROVE  Around
<1>1. /\ inbound' \in Seq(Heard) /\ accepted' \in Seq(Heard)
      /\ Len(inbound) <= Len(inbound')
      /\ \A i \in 1..Len(inbound) : inbound'[i] = inbound[i]
  BY HandleMessageAdds
<1> QED
  BY <1>1 DEF Around, BusTypeOK, sendVars

LEMMA StillIsAround ==
    ASSUME BusTypeOK, UNCHANGED <<inbound, accepted, sendVars>>, said' \in Nat, faults' \in Nat
    PROVE  Around
<1>1. inbound \in Seq(Heard) /\ Len(inbound) \in Nat
  BY DEF BusTypeOK
<1> QED
  BY <1>1 DEF Around, BusTypeOK, sendVars

LEMMA QuietIsAround ==
    ASSUME BusTypeOK, UNCHANGED busVars
    PROVE  Around
<1>1. UNCHANGED <<inbound, accepted, sendVars>> /\ said' \in Nat /\ faults' \in Nat
  BY DEF BusTypeOK, busVars, sendVars
<1> QED
  BY <1>1, StillIsAround

LEMMA FailsCounts == ASSUME BusTypeOK, NEW ch, Fails(ch) PROVE faults' \in Nat
BY DEF BusTypeOK, Fails

LEMMA DeliveryIsAround ==
    ASSUME BusTypeOK, delivered' \in Seq(Outbound), blind' \in BOOLEAN, faults' \in Nat,
           UNCHANGED <<enabled, inbound, outbound, sending, tries, accepted, said, published>>
    PROVE  Around
<1>1. inbound \in Seq(Heard) /\ Len(inbound) \in Nat
  BY DEF BusTypeOK
<1> QED
  BY <1>1 DEF Around, BusTypeOK

-----------------------------------------------------------------------------
(* The channels                                                            *)

LEMMA MatrixSteps ==
    ASSUME BusTypeOK, MatrixTypeOK, MatrixNext
    PROVE  MatrixTypeOK' /\ (Around \/ Sends("matrix"))
<1>1. /\ timeline \in Seq(Heard) /\ Len(timeline) \in Nat
      /\ token \in Nat /\ handled \in Nat /\ batch \in Nat
      /\ token <= handled /\ handled <= batch /\ batch <= Len(timeline)
      /\ syncing \in {"first", "on", "raised", "never"}
      /\ (syncing = "raised" => handled = token) /\ again \subseteq Nat
  BY DEF MatrixTypeOK
<1>2. said \in Nat /\ faults \in Nat
  BY DEF BusTypeOK
<1>3. ASSUME NEW c \in Chats, MatrixSays(c) PROVE MatrixTypeOK' /\ Around
  <2>1. Says("matrix") /\ UNCHANGED <<inbound, accepted, sendVars, faults>>
    BY <1>3 DEF MatrixSays
  <2>2. Latest("matrix", c) \in Heard /\ said' \in Nat
    BY <2>1, LatestIsHeard
  <2>3. /\ timeline' = Append(timeline, Latest("matrix", c))
        /\ UNCHANGED <<token, handled, batch, syncing, again>>
    BY <1>3 DEF MatrixSays
  <2>4. timeline' \in Seq(Heard) /\ Len(timeline') = Len(timeline) + 1
    BY <1>1, <2>2, <2>3
  <2>5. MatrixTypeOK'
    BY <1>1, <2>3, <2>4 DEF MatrixTypeOK
  <2> QED
    BY <1>2, <2>1, <2>2, <2>5, StillIsAround
<1>4. CASE FirstSync
  <2>1. Around
    BY <1>4, QuietIsAround DEF FirstSync
  <2> QED
    BY <1>1, <1>4, <2>1 DEF FirstSync, MatrixTypeOK
<1>5. CASE FirstSyncFails
  <2>1. /\ UNCHANGED <<inbound, accepted, sendVars>> /\ said' \in Nat /\ Fails("matrix")
    BY <1>2, <1>5 DEF FirstSyncFails
  <2>2. Around
    BY <2>1, FailsCounts, StillIsAround
  <2> QED
    BY <1>1, <1>5, <2>2 DEF FirstSyncFails, MatrixTypeOK
<1>6. CASE Sync
  <2>1. Around
    BY <1>6, QuietIsAround DEF Sync
  <2> QED
    BY <1>1, <1>6, <2>1 DEF Sync, MatrixTypeOK
<1>7. CASE OnRoomMessage
  <2>1. timeline[handled + 1] \in Heard
    BY <1>1, <1>7 DEF OnRoomMessage
  <2>2. HandleMessage(timeline[handled + 1]) /\ UNCHANGED <<said, faults, sendVars>>
    BY <1>7 DEF OnRoomMessage
  <2>3. Around
    BY <1>2, <2>1, <2>2, ArrivalIsAround
  <2> QED
    BY <1>1, <1>7, <2>3 DEF OnRoomMessage, MatrixTypeOK
<1>8. CASE TokenMoves
  <2>1. Around
    BY <1>8, QuietIsAround DEF TokenMoves
  <2> QED
    BY <1>1, <1>8, <2>1 DEF TokenMoves, MatrixTypeOK
<1>10. CASE CallbackRaises
  <2>1. /\ UNCHANGED <<inbound, accepted, sendVars>> /\ said' \in Nat /\ Fails("matrix")
    BY <1>2, <1>10 DEF CallbackRaises
  <2>2. Around
    BY <2>1, FailsCounts, StillIsAround
  <2>3. ASSUME NEW i \in (token + 1)..handled PROVE timeline[i].id \in Nat
    <3>1. timeline[i] \in Heard
      BY <1>1
    <3> QED
      BY <3>1 DEF Heard
  <2>4. again' \subseteq Nat
    BY <1>1, <1>10, <2>3 DEF CallbackRaises
  <2> QED
    BY <1>1, <1>10, <2>2, <2>4 DEF CallbackRaises, MatrixTypeOK
<1>11. CASE SyncAgain
  <2>1. Around
    BY <1>11, QuietIsAround DEF SyncAgain
  <2> QED
    BY <1>1, <1>11, <2>1 DEF SyncAgain, MatrixTypeOK
<1>9. CASE MatrixSend
  <2>1. Sends("matrix")
    BY <1>9, AttemptSends DEF MatrixSend
  <2> QED
    BY <1>1, <1>9, <2>1 DEF MatrixSend, MatrixTypeOK, matrixVars
<1> QED
  BY <1>3, <1>4, <1>5, <1>6, <1>7, <1>8, <1>9, <1>10, <1>11 DEF MatrixNext

LEMMA TelegramSteps ==
    ASSUME BusTypeOK, TelegramTypeOK, TelegramNext
    PROVE  TelegramTypeOK' /\ (Around \/ Sends("telegram"))
<1>1. updates \in Seq(Heard) /\ polling \in {"starting", "on", "never"}
  BY DEF TelegramTypeOK
<1>2. said \in Nat /\ faults \in Nat
  BY DEF BusTypeOK
<1>3. ASSUME NEW c \in Chats, TelegramSays(c) PROVE TelegramTypeOK' /\ Around
  <2>1. Says("telegram") /\ UNCHANGED <<inbound, accepted, sendVars, faults>>
    BY <1>3 DEF TelegramSays
  <2>2. Latest("telegram", c) \in Heard /\ said' \in Nat
    BY <2>1, LatestIsHeard
  <2>3. updates' = Append(updates, Latest("telegram", c)) /\ UNCHANGED polling
    BY <1>3 DEF TelegramSays
  <2>4. updates' \in Seq(Heard)
    BY <1>1, <2>2, <2>3
  <2> QED
    BY <1>1, <1>2, <2>1, <2>2, <2>3, <2>4, StillIsAround DEF TelegramTypeOK
<1>4. CASE StartPolling
  <2>1. Around
    BY <1>4, QuietIsAround DEF StartPolling
  <2> QED
    BY <1>4, <2>1 DEF StartPolling, TelegramTypeOK
<1>5. CASE StartRaises
  <2>1. UNCHANGED <<inbound, accepted, sendVars>> /\ said' \in Nat /\ Fails("telegram")
    BY <1>2, <1>5 DEF StartRaises
  <2>2. Around
    BY <2>1, FailsCounts, StillIsAround
  <2> QED
    BY <1>1, <1>5, <2>2 DEF StartRaises, TelegramTypeOK
<1>6. CASE OnUpdate
  <2>1. Head(updates) \in Heard /\ Tail(updates) \in Seq(Heard)
    BY <1>1, <1>6 DEF OnUpdate
  <2>2. HandleMessage(Head(updates)) /\ UNCHANGED <<said, faults, sendVars>>
    BY <1>6 DEF OnUpdate
  <2>3. Around
    BY <1>2, <2>1, <2>2, ArrivalIsAround
  <2> QED
    BY <1>1, <1>6, <2>1, <2>3 DEF OnUpdate, TelegramTypeOK
<1>7. CASE TelegramSend
  <2>1. Sends("telegram")
    BY <1>7, AttemptSends DEF TelegramSend
  <2> QED
    BY <1>1, <1>7, <2>1 DEF TelegramSend, TelegramTypeOK, telegramVars
<1> QED
  BY <1>3, <1>4, <1>5, <1>6, <1>7 DEF TelegramNext

LEMMA FeishuSteps ==
    ASSUME BusTypeOK, FeishuTypeOK, FeishuNext
    PROVE  FeishuTypeOK' /\ (Around \/ Sends("feishu"))
<1>1. /\ posts \in Seq(Post) /\ cache \in Seq(Nat) /\ Len(cache) <= CacheMax
      /\ reacting \subseteq Heard
  BY DEF FeishuTypeOK
<1>2. said \in Nat /\ faults \in Nat /\ CacheMax \in Nat \ {0}
  BY CacheAssumption DEF BusTypeOK
<1>3. ASSUME NEW p \in Post, OnMessage(p)
      PROVE  cache' \in Seq(Nat) /\ Len(cache') <= CacheMax /\ reacting' \subseteq Heard
  <2>1. p.heard \in Heard /\ p.heard.id \in Nat
    BY DEF Post, Heard
  <2>2. CASE Cached(p.heard.id)
    BY <1>1, <1>3, <2>2 DEF OnMessage
  <2>3. CASE ~Cached(p.heard.id)
    <3> DEFINE q == Append(cache, p.heard.id)
    <3>1. q \in Seq(Nat) /\ Len(q) = Len(cache) + 1
      BY <1>1, <2>1
    <3>2. cache' = Trim(q) /\ reacting' = reacting \cup {m \in {p.heard} : ~p.bot}
      BY <1>3, <2>3 DEF OnMessage
    <3> HIDE DEF q
    <3>3. Trim(q) \in Seq(Nat) /\ Len(Trim(q)) <= CacheMax
      <4>1. CASE Len(q) > CacheMax
        <5>1. Trim(q) = Tail(q) /\ q # <<>>
          BY <1>1, <1>2, <3>1, <4>1 DEF Trim
        <5> QED
          BY <1>1, <1>2, <3>1, <4>1, <5>1
      <4>2. CASE ~(Len(q) > CacheMax)
        BY <1>1, <1>2, <3>1, <4>2 DEF Trim
      <4> QED
        BY <4>1, <4>2
    <3> QED
      BY <1>1, <2>1, <3>2, <3>3
  <2> QED
    BY <2>2, <2>3
<1>4. ASSUME NEW c \in Chats, NEW bot \in BOOLEAN, FeishuSays(c, bot) PROVE FeishuTypeOK' /\ Around
  <2> DEFINE p == [heard |-> Latest("feishu", c), bot |-> bot]
  <2>1. Says("feishu") /\ UNCHANGED <<inbound, accepted, sendVars, faults>>
    BY <1>4 DEF FeishuSays
  <2>2. Latest("feishu", c) \in Heard /\ said' \in Nat
    BY <2>1, LatestIsHeard
  <2>3. p \in Post
    BY <2>2 DEF Post
  <2>4. posts' = Append(posts, p) /\ OnMessage(p)
    BY <1>4 DEF FeishuSays
  <2> HIDE DEF p
  <2>5. posts' \in Seq(Post)
    BY <1>1, <2>3, <2>4
  <2>6. FeishuTypeOK'
    BY <1>3, <2>3, <2>4, <2>5 DEF FeishuTypeOK
  <2> QED
    BY <1>2, <2>1, <2>2, <2>6, StillIsAround
<1>5. ASSUME NEW i \in DOMAIN posts, DeliverAgain(i) PROVE FeishuTypeOK' /\ Around
  <2>1. posts[i] \in Post
    BY <1>1
  <2>2. OnMessage(posts[i]) /\ UNCHANGED busVars /\ posts' = posts
    BY <1>5 DEF DeliverAgain
  <2>3. FeishuTypeOK'
    BY <1>1, <1>3, <2>1, <2>2 DEF FeishuTypeOK
  <2> QED
    BY <2>2, <2>3, QuietIsAround
<1>6. ASSUME NEW m \in reacting, Reacted(m) PROVE FeishuTypeOK' /\ Around
  <2>1. m \in Heard
    BY <1>1
  <2>2. HandleMessage(m) /\ UNCHANGED <<said, faults, sendVars>>
    BY <1>6 DEF Reacted
  <2>3. Around
    BY <1>2, <2>1, <2>2, ArrivalIsAround
  <2> QED
    BY <1>1, <1>6, <2>3 DEF Reacted, FeishuTypeOK
<1>7. CASE FeishuSend
  <2>1. Sends("feishu")
    BY <1>7, AttemptSends DEF FeishuSend
  <2> QED
    BY <1>1, <1>7, <2>1 DEF FeishuSend, FeishuTypeOK, feishuVars
<1> QED
  BY <1>4, <1>5, <1>6, <1>7 DEF FeishuNext

LEMMA NextcloudSteps ==
    ASSUME BusTypeOK, NextcloudTypeOK, NextcloudNext
    PROVE  NextcloudTypeOK' /\ (Around \/ Sends("nextcloud_talk"))
<1>1. bridged \in BOOLEAN /\ forwards \in Seq(Heard)
  BY DEF NextcloudTypeOK
<1>2. said \in Nat /\ faults \in Nat /\ delivered \in Seq(Outbound) /\ blind \in BOOLEAN
  BY DEF BusTypeOK
<1>3. ASSUME NEW c \in Chats, Webhook(c) PROVE NextcloudTypeOK' /\ Around
  <2> DEFINE m == Latest("nextcloud_talk", c)
  <2>1. Says("nextcloud_talk") /\ UNCHANGED <<sendVars, faults, bridged>>
    BY <1>3 DEF Webhook
  <2>2. m \in Heard /\ said' \in Nat
    BY <2>1, LatestIsHeard
  <2>3. IF bridged THEN forwards' = Append(forwards, m) /\ UNCHANGED <<inbound, accepted>>
        ELSE HandleMessage(m) /\ UNCHANGED forwards
    BY <1>3 DEF Webhook
  <2> HIDE DEF m
  <2>4. CASE bridged
    <3>1. forwards' \in Seq(Heard)
      BY <1>1, <2>2, <2>3, <2>4
    <3> QED
      BY <1>1, <1>2, <2>1, <2>2, <2>3, <2>4, <3>1, StillIsAround DEF NextcloudTypeOK
  <2>5. CASE ~bridged
    BY <1>1, <1>2, <2>1, <2>2, <2>3, <2>5, ArrivalIsAround DEF NextcloudTypeOK
  <2> QED
    BY <2>4, <2>5
<1>4. CASE Forward
  <2>1. /\ forwards # <<>> /\ forwards' = Tail(forwards)
        /\ UNCHANGED <<enabled, inbound, outbound, sending, tries, accepted, said, published, bridged>>
    BY <1>4 DEF Forward
  <2>2. Head(forwards) \in Heard /\ Tail(forwards) \in Seq(Heard)
    BY <1>1, <2>1
  <2>3. Append(delivered, PastTheQueue(Head(forwards))) \in Seq(Outbound)
    <3>1. PastTheQueue(Head(forwards)) \in Outbound
      BY <2>2 DEF PastTheQueue, Heard, Outbound
    <3> QED
      BY <1>2, <3>1
  <2>4. delivered' \in Seq(Outbound) /\ blind' \in BOOLEAN /\ faults' \in Nat
    <3> DEFINE new == Append(delivered, PastTheQueue(Head(forwards)))
    <3>1. \/ delivered' = new /\ UNCHANGED <<blind, faults>>
          \/ /\ Fails("nextcloud_talk")
             /\ UNCHANGED <<delivered, blind>> \/ (delivered' = new /\ blind' = TRUE)
      BY <1>4 DEF Forward
    <3> HIDE DEF new
    <3>2. new \in Seq(Outbound)
      BY <2>3 DEF new
    <3>3. Fails("nextcloud_talk") => faults' \in Nat
      BY FailsCounts
    <3> QED
      BY <1>2, <3>1, <3>2, <3>3
  <2>5. Around
    BY <2>1, <2>4, DeliveryIsAround
  <2> QED
    BY <1>1, <2>1, <2>2, <2>5 DEF NextcloudTypeOK
<1>5. CASE NextcloudSend
  <2>1. Sends("nextcloud_talk")
    BY <1>5, AttemptSends DEF NextcloudSend
  <2> QED
    BY <1>1, <1>5, <2>1 DEF NextcloudSend, NextcloudTypeOK, nextcloudVars
<1> QED
  BY <1>3, <1>4, <1>5 DEF NextcloudNext

-----------------------------------------------------------------------------
(* Discord: the typing indicator                                           *)

TypingInv ==
    \A c \in Chats : typing[c] => "discord" \in enabled /\ Pending("discord", c)

LEMMA DiscordSteps ==
    ASSUME BusTypeOK, DiscordTypeOK, TypingInv, "discord" \in enabled, DiscordNext
    PROVE  /\ DiscordTypeOK' /\ TypingInv'
           /\ Around \/ Sends("discord")
<1>1. /\ gateway \in {"down", "open", "ready"} /\ beat \in {"none", "alive", "ended"}
      /\ typing \in [Chats -> BOOLEAN]
  BY DEF DiscordTypeOK
<1>2. said \in Nat /\ faults \in Nat
  BY DEF BusTypeOK
<1>3. ASSUME Around, typing' = typing PROVE TypingInv'
  <2>1. \A c, n : OnTheWay("discord", c, n) => OnTheWay("discord", c, n)'
    BY <1>3, AroundKeeps
  <2>2. enabled' = enabled
    BY <1>3 DEF Around
  <2> QED
    BY <1>3, <2>1, <2>2 DEF TypingInv, Pending
<1>4. CASE Connect \/ Hello \/ BeatFails
  <2>1. UNCHANGED busVars /\ typing' = typing
    BY <1>4 DEF Connect, Hello, BeatFails
  <2>2. Around
    BY <2>1, QuietIsAround
  <2>3. gateway' \in {"down", "open", "ready"} /\ beat' \in {"none", "alive", "ended"}
    BY <1>1, <1>4 DEF Connect, Hello, BeatFails
  <2> QED
    BY <1>1, <1>3, <2>1, <2>2, <2>3 DEF DiscordTypeOK
<1>5. CASE GatewayCloses
  <2>1. /\ Fails("discord") /\ UNCHANGED <<inbound, accepted, said, sendVars, beat, typing>>
        /\ gateway' = "down"
    BY <1>5 DEF GatewayCloses
  <2>2. Around
    BY <1>2, <2>1, FailsCounts, StillIsAround
  <2> QED
    BY <1>1, <1>3, <2>1, <2>2 DEF DiscordTypeOK
<1>6. ASSUME NEW c \in Chats, MessageCreate(c) PROVE DiscordTypeOK' /\ TypingInv' /\ Around
  <2> DEFINE m == Latest("discord", c)
  <2>1. /\ Says("discord") /\ HandleMessage(m)
        /\ typing' = [typing EXCEPT ![c] = @ \/ c \notin Refused]
        /\ UNCHANGED <<sendVars, faults, gateway, beat>>
    BY <1>6 DEF MessageCreate
  <2>2. m \in Heard /\ said' \in Nat /\ m.channel = "discord" /\ m.chat = c /\ m.id = said + 1
    BY <2>1, LatestIsHeard
  <2>10. PICK k \in Nat \ {0} : k = said + 1
    BY <1>2
  <2>3. m = [channel |-> "discord", chat |-> c, id |-> k]
    BY <2>10 DEF Latest
  <2> HIDE DEF m
  <2>4. Around
    BY <1>2, <2>1, <2>2, ArrivalIsAround
  <2>5. enabled' = enabled /\ \A d, n : OnTheWay("discord", d, n) => OnTheWay("discord", d, n)'
    BY <2>4, AroundKeeps DEF Around
  <2>6. c \notin Refused => OnTheWay("discord", c, k)'
    <3>1. /\ inbound' \in Seq(Heard)
          /\ c \notin Refused =>
                Len(inbound') = Len(inbound) + 1 /\ inbound'[Len(inbound) + 1] = m
      BY <2>1, <2>2, HandleMessageAdds
    <3>2. Len(inbound) \in Nat
      BY DEF BusTypeOK
    <3>3. c \notin Refused => Len(inbound) + 1 \in DOMAIN inbound'
      BY <3>1, <3>2
    <3> QED
      BY <2>3, <3>1, <3>3 DEF OnTheWay
  <2>7. typing' \in [Chats -> BOOLEAN]
    BY <1>1, <2>1
  <2>8. ASSUME NEW d \in Chats, typing'[d] PROVE Pending("discord", d)'
    <3>1. CASE typing[d]
      BY <2>5, <3>1 DEF TypingInv, Pending
    <3>2. CASE ~typing[d]
      <4>1. d = c /\ c \notin Refused
        BY <1>1, <2>1, <2>8, <3>2
      <4> QED
        BY <2>6, <2>10, <4>1 DEF Pending
    <3> QED
      BY <3>1, <3>2
  <2>9. TypingInv'
    BY <2>5, <2>8 DEF TypingInv
  <2> QED
    BY <1>1, <2>1, <2>4, <2>7, <2>9 DEF DiscordTypeOK
<1>7. CASE DiscordSend
  <2>1. Sends("discord") /\ UNCHANGED <<gateway, beat>>
    BY <1>7, AttemptSends DEF DiscordSend
  <2>2. typing' = IF sending' = NoMessage THEN [typing EXCEPT ![sending.chat] = FALSE] ELSE typing
    BY <1>7 DEF DiscordSend, StopTyping
  <2>3. enabled' = enabled
    BY <2>1 DEF Sends
  <2>4. \A c, n : OnTheWay("discord", c, n) =>
                     OnTheWay("discord", c, n)' \/ (c = sending.chat /\ sending' = NoMessage)
    BY <2>1, SendsKeeps
  <2>5. typing' \in [Chats -> BOOLEAN]
    BY <1>1, <2>2
  <2>6. ASSUME NEW c \in Chats, typing'[c] PROVE Pending("discord", c)'
    <3>1. typing[c] /\ ~(c = sending.chat /\ sending' = NoMessage)
      BY <1>1, <2>2, <2>6
    <3>2. PICK n \in Nat \ {0} : OnTheWay("discord", c, n)
      BY <3>1 DEF TypingInv, Pending
    <3> QED
      BY <2>4, <3>1, <3>2 DEF Pending
  <2>7. TypingInv'
    BY <2>3, <2>6 DEF TypingInv
  <2> QED
    BY <1>1, <2>1, <2>5, <2>7 DEF DiscordTypeOK
<1> QED
  BY <1>4, <1>5, <1>6, <1>7 DEF DiscordNext

-----------------------------------------------------------------------------
(* HTTP: the requests that wait                                            *)

\* A request that is alone with its chat_id owns the future of it.
Owned(f) ==
    requests[f].alone =>
        /\ pending[requests[f].raw] = f
        /\ \A g \in DOMAIN requests :
              requests[g].state = "open" /\ requests[g].raw = requests[f].raw => g = f

\* The answer to a request whose future can be found has not passed.
Answerable(f) ==
    /\ pending[requests[f].raw] = f
    /\ requests[f].answer = 0 /\ requests[f].raw[1] = "text"
    => \/ OnTheWay("http_inbound", Str(requests[f].raw), requests[f].id)
       \/ Str(requests[f].raw) \in Refused

WaitInv ==
    \A f \in DOMAIN requests :
        requests[f].state = "open" => "http_inbound" \in enabled /\ Owned(f) /\ Answerable(f)

LEMMA SeqOfFunction ==
    ASSUME NEW S, NEW n \in Nat, NEW t \in [1..n -> S]
    PROVE  t \in Seq(S) /\ Len(t) = n
<1>1. t \in Seq(S)
  BY SeqDef
<1>2. Len(t) \in Nat /\ DOMAIN t = 1..Len(t) /\ DOMAIN t = 1..n
  BY <1>1, LenProperties
<1> QED
  BY <1>1, <1>2

LEMMA TextOfChatId ==
    ASSUME NEW raw \in ChatIds
    PROVE  Str(raw) \in Chats /\ (raw[1] = "text" => raw = <<"text", Str(raw)>>)
BY DEF ChatIds, Str

\* What a step has to show of one request.
LEMMA AnswerableNext ==
    ASSUME NEW f, NEW c, NEW n, c = Str(requests'[f].raw), n = requests'[f].id,
           pending'[requests'[f].raw] = f /\ requests'[f].answer = 0 /\ requests'[f].raw[1] = "text"
              => OnTheWay("http_inbound", c, n)' \/ c \in Refused
    PROVE  Answerable(f)'
BY DEF Answerable, OnTheWay, Str

\* Requests that stay as they are go on waiting for the same message.
LEMMA WaitGoesOn ==
    ASSUME WaitInv, enabled' = enabled, UNCHANGED <<requests, pending>>,
           "http_inbound" \in enabled =>
               \A c, n : OnTheWay("http_inbound", c, n) => OnTheWay("http_inbound", c, n)'
    PROVE  WaitInv'
<1>1. ASSUME NEW f \in DOMAIN requests', requests'[f].state = "open"
      PROVE  "http_inbound" \in enabled' /\ Owned(f)' /\ Answerable(f)'
  <2>1. "http_inbound" \in enabled /\ Owned(f) /\ Answerable(f)
    BY <1>1 DEF WaitInv
  <2>2. Owned(f)'
    BY <2>1 DEF Owned
  <2>3. PICK c, n : c = Str(requests[f].raw) /\ n = requests[f].id
    OBVIOUS
  <2>4. Answerable(f)'
    BY <2>1, <2>3, AnswerableNext DEF Answerable
  <2> QED
    BY <2>1, <2>2, <2>4
<1> QED
  BY <1>1 DEF WaitInv

LEMMA RegisterKeeps ==
    ASSUME BusTypeOK, HttpTypeOK, WaitInv, Around, "http_inbound" \in enabled,
           NEW raw \in ChatIds, NEW state \in {"open", "error"}, Register(raw, state),
           NEW c, c = Str(raw), NEW k \in Nat \ {0}, k = said + 1,
           state = "open" => OnTheWay("http_inbound", c, k)' \/ c \in Refused
    PROVE  HttpTypeOK' /\ WaitInv'
<1> DEFINE old == [f \in DOMAIN requests |->
                      IF f \in OpenOf(raw) THEN [requests[f] EXCEPT !.alone = FALSE] ELSE requests[f]]
           new == [id |-> said + 1, raw |-> raw, state |-> state, answer |-> 0,
                   alone |-> OpenOf(raw) = {}]
           n == Len(requests)
<1>1. /\ requests \in Seq(Request) /\ n \in Nat /\ DOMAIN requests = 1..n
      /\ pending \in [ChatIds -> 0..n]
  BY DEF HttpTypeOK
<1>2. requests' = Append(old, new) /\ pending' = [pending EXCEPT ![raw] = n + 1]
  BY DEF Register
<1>3. ASSUME NEW f \in DOMAIN requests
      PROVE  /\ old[f] \in Request
             /\ old[f].id = requests[f].id /\ old[f].raw = requests[f].raw
             /\ old[f].state = requests[f].state /\ old[f].answer = requests[f].answer
             /\ old[f].alone => requests[f].alone /\ f \notin OpenOf(raw)
  <2>1. requests[f] \in Request
    BY <1>1
  <2>2. CASE f \in OpenOf(raw)
    BY <2>1, <2>2 DEF Request
  <2>3. CASE f \notin OpenOf(raw)
    BY <2>1, <2>3
  <2> QED
    BY <2>2, <2>3
<1>4. new \in Request /\ new.id = k /\ new.raw = raw /\ new.state = state /\ new.answer = 0
  BY DEF Request
<1>5. new.alone => OpenOf(raw) = {}
  OBVIOUS
<1>6. old \in Seq(Request) /\ Len(old) = n
  <2>1. old \in [1..n -> Request]
    BY <1>1, <1>3
  <2> HIDE DEF old
  <2> QED
    BY <1>1, <2>1, SeqOfFunction
<1> HIDE DEF old, new, n
<1>7. /\ requests' \in Seq(Request) /\ Len(requests') = n + 1 /\ DOMAIN requests' = 1..(n + 1)
      /\ \A f \in 1..n : requests'[f] = old[f]
      /\ requests'[n + 1] = new
  BY <1>1, <1>2, <1>4, <1>6
<1>8. HttpTypeOK'
  <2>1. pending' \in [ChatIds -> 0..(n + 1)]
    BY <1>1, <1>2
  <2> QED
    BY <1>7, <2>1 DEF HttpTypeOK
<1>9. enabled' = enabled /\ \A d, i : OnTheWay("http_inbound", d, i) => OnTheWay("http_inbound", d, i)'
  BY AroundKeeps DEF Around
<1>10. ASSUME NEW f \in DOMAIN requests', requests'[f].state = "open"
       PROVE  "http_inbound" \in enabled' /\ Owned(f)' /\ Answerable(f)'
  <2>1. CASE f = n + 1
    <3>1. requests'[f].raw = raw /\ requests'[f].id = k /\ state = "open"
      BY <1>4, <1>7, <1>10, <2>1
    <3>2. pending'[raw] = f
      BY <1>1, <1>2, <2>1
    <3>3. ASSUME requests'[f].alone,
                 NEW g \in DOMAIN requests', requests'[g].state = "open", requests'[g].raw = raw
          PROVE  g = f
      <4>1. OpenOf(raw) = {}
        BY <1>5, <1>7, <2>1, <3>3
      <4>2. CASE g \in 1..n
        <5>1. g \in OpenOf(raw)
          BY <1>1, <1>3, <1>7, <3>3, <4>2 DEF OpenOf
        <5> QED
          BY <4>1, <5>1
      <4> QED
        BY <1>1, <1>7, <2>1, <4>2
    <3>4. Owned(f)'
      BY <3>1, <3>2, <3>3 DEF Owned
    <3>5. Answerable(f)'
      BY <3>1, AnswerableNext
    <3> QED
      BY <1>9, <3>4, <3>5
  <2>2. CASE f \in 1..n
    <3>1. /\ requests'[f] = old[f] /\ f \in DOMAIN requests
          /\ requests[f].state = "open" /\ requests'[f].raw = requests[f].raw
          /\ requests'[f].id = requests[f].id /\ requests'[f].answer = requests[f].answer
          /\ requests'[f].alone => requests[f].alone /\ f \notin OpenOf(raw)
      BY <1>1, <1>3, <1>7, <1>10, <2>2
    <3>2. requests[f] \in Request
      BY <1>1, <3>1
    <3>3. requests[f].raw \in ChatIds
      BY <3>2 DEF Request
    <3>4. Owned(f) /\ Answerable(f)
      BY <3>1 DEF WaitInv
    <3>5. CASE requests[f].raw = raw
      <4>1. ~requests'[f].alone
        BY <3>1, <3>5 DEF OpenOf
      <4>2. pending'[raw] = n + 1 /\ f # n + 1
        BY <1>1, <1>2, <2>2
      <4>3. PICK d, i : d = Str(requests[f].raw) /\ i = requests[f].id
        OBVIOUS
      <4>4. Answerable(f)'
        BY <3>1, <3>5, <4>2, <4>3, AnswerableNext
      <4>5. Owned(f)'
        BY <4>1 DEF Owned
      <4> QED
        BY <1>9, <4>4, <4>5
    <3>6. CASE requests[f].raw # raw
      <4>1. pending'[requests[f].raw] = pending[requests[f].raw]
        BY <1>1, <1>2, <3>3, <3>6
      <4>2. ASSUME requests'[f].alone, NEW g \in DOMAIN requests',
                   requests'[g].state = "open", requests'[g].raw = requests'[f].raw
            PROVE  g = f
        <5>1. g # n + 1
          BY <1>4, <1>7, <3>1, <3>6, <4>2
        <5>2. g \in DOMAIN requests /\ requests'[g] = old[g]
          BY <1>1, <1>7, <5>1
        <5> QED
          BY <1>3, <3>1, <3>4, <4>2, <5>2 DEF Owned
      <4>3. Owned(f)'
        BY <3>1, <3>4, <4>1, <4>2 DEF Owned
      <4>4. PICK d, i : d = Str(requests[f].raw) /\ i = requests[f].id
        OBVIOUS
      <4>5. Answerable(f)'
        BY <1>9, <3>1, <3>4, <4>1, <4>4, AnswerableNext DEF Answerable
      <4> QED
        BY <1>9, <4>3, <4>5
    <3> QED
      BY <3>5, <3>6
  <2> QED
    BY <1>1, <1>7, <1>10, <2>1, <2>2
<1>11. WaitInv'
  BY <1>10 DEF WaitInv
<1> QED
  BY <1>8, <1>11

LEMMA HandleInboundKeeps ==
    ASSUME BusTypeOK, HttpTypeOK, WaitInv, "http_inbound" \in enabled,
           NEW raw \in ChatIds, HandleInbound(raw)
    PROVE  HttpTypeOK' /\ WaitInv' /\ Around
<1> DEFINE m == Latest("http_inbound", Str(raw))
<1>1. /\ Says("http_inbound") /\ HandleMessage(m) /\ UNCHANGED <<sendVars, faults>>
      /\ Register(raw, "open")
  BY DEF HandleInbound
<1>2. PICK c \in Chats : c = Str(raw)
  BY TextOfChatId
<1>3. m \in Heard /\ said' \in Nat /\ m.channel = "http_inbound" /\ m.chat = c
  BY <1>1, <1>2, LatestIsHeard
<1>4. said \in Nat /\ faults \in Nat
  BY DEF BusTypeOK
<1>5. PICK k \in Nat \ {0} : k = said + 1
  BY <1>4
<1>6. m = [channel |-> "http_inbound", chat |-> c, id |-> k]
  BY <1>2, <1>5 DEF Latest
<1>7. Around
  BY <1>1, <1>3, <1>4, ArrivalIsAround
<1> HIDE DEF m
<1>8. c \notin Refused => OnTheWay("http_inbound", c, k)'
  <2>1. /\ inbound' \in Seq(Heard)
        /\ c \notin Refused =>
              Len(inbound') = Len(inbound) + 1 /\ inbound'[Len(inbound) + 1] = m
    BY <1>1, <1>3, HandleMessageAdds
  <2>2. Len(inbound) \in Nat
    BY DEF BusTypeOK
  <2>3. c \notin Refused => Len(inbound) + 1 \in DOMAIN inbound'
    BY <2>1, <2>2
  <2> QED
    BY <1>6, <2>1, <2>3 DEF OnTheWay
<1> QED
  BY <1>1, <1>2, <1>5, <1>7, <1>8, RegisterKeeps

LEMMA HandleInboundRaisesKeeps ==
    ASSUME BusTypeOK, HttpTypeOK, WaitInv, "http_inbound" \in enabled,
           NEW raw \in ChatIds, HandleInboundRaises(raw)
    PROVE  HttpTypeOK' /\ WaitInv' /\ Around
<1>1. /\ said' = said + 1 /\ Register(raw, "error")
      /\ UNCHANGED <<inbound, accepted, sendVars>>
  BY DEF HandleInboundRaises, Says
<1>2. said \in Nat /\ faults' \in Nat
  BY FailsCounts DEF HandleInboundRaises, BusTypeOK
<1>3. Around
  BY <1>1, <1>2 DEF Around, sendVars, BusTypeOK
<1>4. PICK c, k : c = Str(raw) /\ k = said + 1 /\ k \in Nat \ {0}
  BY <1>2
<1> QED
  BY <1>1, <1>3, <1>4, RegisterKeeps

LEMMA ReturnKeeps ==
    ASSUME BusTypeOK, HttpTypeOK, WaitInv, NEW f \in DOMAIN requests,
           NEW state \in {"ok", "timeout"}, Return(f, state)
    PROVE  HttpTypeOK' /\ WaitInv' /\ Around
<1>1. /\ requests \in Seq(Request) /\ Len(requests) \in Nat /\ DOMAIN requests = 1..Len(requests)
      /\ pending \in [ChatIds -> 0..Len(requests)]
  BY DEF HttpTypeOK
<1>2. /\ requests[f].state = "open" /\ UNCHANGED busVars
      /\ requests' = [requests EXCEPT ![f].state = state]
      /\ pending' = [pending EXCEPT ![requests[f].raw] = 0]
  BY DEF Return
<1>3. requests[f] \in Request
  BY <1>1
<1>4. [requests[f] EXCEPT !.state = state] \in Request
  BY <1>3 DEF Request
<1>5. /\ requests' \in Seq(Request) /\ Len(requests') = Len(requests)
      /\ \A g \in DOMAIN requests :
            requests'[g] = IF g = f THEN [requests[f] EXCEPT !.state = state] ELSE requests[g]
  <2>1. requests' = [requests EXCEPT ![f] = [requests[f] EXCEPT !.state = state]]
    BY <1>2
  <2> QED
    BY <1>1, <1>4, <2>1, ExceptSeq
<1>6. Around
  BY <1>2, QuietIsAround
<1>7. HttpTypeOK'
  <2>1. 0 \in 0..Len(requests)
    BY <1>1
  <2> DEFINE raw == requests[f].raw
  <2>2. pending' = [pending EXCEPT ![raw] = 0]
    BY <1>2
  <2> HIDE DEF raw
  <2>3. pending' \in [ChatIds -> 0..Len(requests)]
    BY <1>1, <2>1, <2>2
  <2> QED
    BY <1>5, <2>3 DEF HttpTypeOK
<1>8. enabled' = enabled /\ \A d, i : OnTheWay("http_inbound", d, i) => OnTheWay("http_inbound", d, i)'
  BY <1>6, AroundKeeps DEF Around
<1>9. DOMAIN requests' = DOMAIN requests
  BY <1>1, <1>5
<1>10. requests'[f].state = state /\ requests'[f].state # "open"
  BY <1>5, <1>3 DEF Request
<1>11. ASSUME NEW g \in DOMAIN requests', requests'[g].state = "open"
       PROVE  "http_inbound" \in enabled' /\ Owned(g)' /\ Answerable(g)'
  <2>1. g \in DOMAIN requests /\ g # f /\ g # 0 /\ requests'[g] = requests[g]
    BY <1>1, <1>5, <1>9, <1>10, <1>11
  <2>2. "http_inbound" \in enabled /\ Owned(g) /\ Answerable(g)
    BY <1>11, <2>1 DEF WaitInv
  <2>3. requests[g] \in Request /\ requests[f] \in Request
    BY <1>1, <2>1
  <2>4. requests[g].raw \in ChatIds /\ requests[f].raw \in ChatIds
    BY <2>3 DEF Request
  <2>5. pending'[requests[g].raw] = g => pending[requests[g].raw] = g
    BY <1>1, <1>2, <2>1, <2>4
  <2>6. requests[g].alone => requests[f].raw # requests[g].raw
    BY <1>2, <2>1, <2>2 DEF Owned
  <2>7. requests[g].alone => pending'[requests[g].raw] = g
    BY <1>1, <1>2, <2>2, <2>4, <2>6 DEF Owned
  <2>8. ASSUME NEW h \in DOMAIN requests', requests'[h].state = "open"
        PROVE  h \in DOMAIN requests /\ requests'[h] = requests[h]
    BY <1>5, <1>9, <1>10, <2>8
  <2>9. Owned(g)'
    BY <2>1, <2>2, <2>7, <2>8 DEF Owned
  <2>10. PICK d, i : d = Str(requests[g].raw) /\ i = requests[g].id
    OBVIOUS
  <2>11. Answerable(g)'
    BY <1>8, <2>1, <2>2, <2>5, <2>10, AnswerableNext DEF Answerable
  <2> QED
    BY <1>8, <2>2, <2>9, <2>11
<1>12. WaitInv'
  BY <1>11 DEF WaitInv
<1> QED
  BY <1>6, <1>7, <1>12

LEMMA HttpSendKeeps ==
    ASSUME BusTypeOK, HttpTypeOK, WaitInv, HttpSend
    PROVE  HttpTypeOK' /\ WaitInv' /\ Sends("http_inbound")
<1>1. /\ requests \in Seq(Request) /\ Len(requests) \in Nat /\ DOMAIN requests = 1..Len(requests)
      /\ pending \in [ChatIds -> 0..Len(requests)]
  BY DEF HttpTypeOK
<1>2. /\ sending # NoMessage /\ sending.channel = "http_inbound" /\ sending \in Outbound
      /\ requests' = [f \in DOMAIN requests |->
                          IF f \in Found(sending) THEN [requests[f] EXCEPT !.answer = sending.of]
                          ELSE requests[f]]
      /\ SendEnds
      /\ UNCHANGED <<enabled, inbound, outbound, delivered, accepted, said, published,
                      blind, faults, pending>>
  BY DEF HttpSend, BusTypeOK
<1>3. sending.of \in Nat \ {0} /\ sending.chat \in Chats
  BY <1>2 DEF Outbound
<1>4. Sends("http_inbound") /\ enabled' = enabled
  BY <1>2 DEF Sends, SendEnds, BusTypeOK
<1>5. ASSUME NEW f \in DOMAIN requests
      PROVE  /\ requests'[f] \in Request
             /\ requests'[f].id = requests[f].id /\ requests'[f].raw = requests[f].raw
             /\ requests'[f].state = requests[f].state /\ requests'[f].alone = requests[f].alone
             /\ requests'[f].answer = 0 => requests[f].answer = 0 /\ f \notin Found(sending)
  <2>1. requests[f] \in Request
    BY <1>1
  <2>2. requests'[f] = IF f \in Found(sending) THEN [requests[f] EXCEPT !.answer = sending.of]
                       ELSE requests[f]
    BY <1>2
  <2> QED
    BY <1>3, <2>1, <2>2 DEF Request
<1>6. requests' \in Seq(Request) /\ Len(requests') = Len(requests)
  <2>1. requests' \in [1..Len(requests) -> Request]
    BY <1>1, <1>2, <1>5
  <2> QED
    BY <1>1, <2>1, SeqOfFunction
<1>7. HttpTypeOK'
  BY <1>1, <1>2, <1>6 DEF HttpTypeOK
<1>8. DOMAIN requests' = DOMAIN requests /\ pending' = pending
  BY <1>2
<1>9. ASSUME NEW f \in DOMAIN requests', requests'[f].state = "open"
      PROVE  "http_inbound" \in enabled' /\ Owned(f)' /\ Answerable(f)'
  <2>1. f \in DOMAIN requests /\ requests[f].state = "open" /\ requests[f] \in Request
    BY <1>1, <1>5, <1>8, <1>9
  <2>2. "http_inbound" \in enabled /\ Owned(f) /\ Answerable(f)
    BY <2>1 DEF WaitInv
  <2>3. Owned(f)'
    BY <1>5, <1>8, <2>1, <2>2 DEF Owned
  <2>4. PICK raw \in ChatIds : raw = requests[f].raw
    BY <2>1 DEF Request
  <2>5. PICK c, n : c = Str(requests[f].raw) /\ n = requests[f].id
    OBVIOUS
  <2>6. raw[1] = "text" => raw = <<"text", c>>
    BY <2>4, <2>5, TextOfChatId
  <2>7. pending[raw] = f /\ requests[f].answer = 0 /\ raw[1] = "text" /\ c = sending.chat
           => f \in Found(sending)
    BY <2>1, <2>4, <2>6 DEF Found, Key
  <2>8. OnTheWay("http_inbound", c, n) /\ c # sending.chat => OnTheWay("http_inbound", c, n)'
    BY <1>2, <1>4, SendsKeeps
  <2>9. Answerable(f)'
    BY <1>5, <1>8, <2>1, <2>2, <2>4, <2>5, <2>7, <2>8, AnswerableNext DEF Answerable
  <2> QED
    BY <1>4, <2>2, <2>3, <2>9
<1>10. WaitInv'
  BY <1>9 DEF WaitInv
<1> QED
  BY <1>4, <1>7, <1>10

LEMMA HttpSteps ==
    ASSUME BusTypeOK, HttpTypeOK, WaitInv, "http_inbound" \in enabled, HttpNext
    PROVE  /\ HttpTypeOK' /\ WaitInv'
           /\ Around \/ Sends("http_inbound")
<1>1. ASSUME NEW raw \in ChatIds, HandleInbound(raw) \/ HandleInboundRaises(raw)
      PROVE  HttpTypeOK' /\ WaitInv' /\ Around
  BY <1>1, HandleInboundKeeps, HandleInboundRaisesKeeps
<1>2. CASE HttpSend
  BY <1>2, HttpSendKeeps
<1>3. ASSUME NEW f \in DOMAIN requests, Respond(f) \/ TimeOut(f)
      PROVE  HttpTypeOK' /\ WaitInv' /\ Around
  BY <1>3, ReturnKeeps DEF Respond, TimeOut
<1> QED
  BY <1>1, <1>2, <1>3 DEF HttpNext

-----------------------------------------------------------------------------
(* WhatsApp: what the channel knows of the bridge's connection             *)

IsStatus(packet) == packet \in [status : Statuses]

\* What a channel that thinks c, and has the packets w still to receive, will
\* think in the end is true of a phone in state p.
Current(w, c, p) ==
    \/ /\ \A i \in 1..Len(w) : ~IsStatus(w[i])
       /\ c <=> p = "open"
    \/ \E i \in 1..Len(w) :
          /\ IsStatus(w[i])
          /\ w[i].status = "connected" <=> p = "open"
          /\ \A j \in (i + 1)..Len(w) : ~IsStatus(w[j])

\* A phone that waits for its timer is closed; what the bridge has told on the
\* present link ends with the truth.
LinkInv ==
    /\ timer => phone = "closed"
    /\ link = "up" /\ told => Current(wire, connected, phone)

LEMMA PacketShapes ==
    ASSUME NEW k \in Packets
    PROVE  /\ IsStatus(k) <=> "status" \in DOMAIN k
           /\ IsStatus(k) => k.status \in Statuses
           /\ ~IsStatus(k) => k.heard \in Heard
<1>1. CASE k \in [status : Statuses]
  <2>1. DOMAIN k = {"status"}
    BY <1>1
  <2> QED
    BY <1>1, <2>1 DEF IsStatus
<1>2. CASE k \in [heard : Heard]
  <2>1. DOMAIN k = {"heard"}
    BY <1>2
  <2>2. "status" \notin DOMAIN k
    BY <2>1
  <2>3. ~IsStatus(k)
    <3>1. IsStatus(k) => DOMAIN k = {"status"}
      BY DEF IsStatus
    <3> QED
      BY <2>2, <3>1
  <2> QED
    BY <1>2, <2>2, <2>3
<1> QED
  BY <1>1, <1>2 DEF Packets

LEMMA StatusIsNews ==
    ASSUME NEW w \in Seq(Packets), NEW s \in Statuses, NEW c, NEW p,
           s = "connected" <=> p = "open"
    PROVE  /\ Append(w, [status |-> s]) \in Seq(Packets)
           /\ Current(Append(w, [status |-> s]), c, p)
<1> DEFINE k == [status |-> s]
           v == Append(w, k)
<1>1. k \in Packets /\ IsStatus(k) /\ k.status = s
  BY DEF Packets, IsStatus
<1> HIDE DEF k
<1>2. v \in Seq(Packets) /\ Len(w) \in Nat /\ Len(v) = Len(w) + 1 /\ v[Len(w) + 1] = k
  BY <1>1
<1> HIDE DEF v
<1>3. Current(v, c, p)
  <2>1. Len(w) + 1 \in 1..Len(v)
    BY <1>2
  <2>2. \A j \in (Len(w) + 1 + 1)..Len(v) : ~IsStatus(v[j])
    BY <1>2
  <2> QED
    BY <1>1, <1>2, <2>1, <2>2 DEF Current
<1> QED
  BY <1>2, <1>3 DEF v, k

LEMMA HeardIsNoNews ==
    ASSUME NEW w \in Seq(Packets), NEW m \in Heard, NEW c, NEW p
    PROVE  /\ Append(w, [heard |-> m]) \in Seq(Packets)
           /\ Current(w, c, p) => Current(Append(w, [heard |-> m]), c, p)
<1> DEFINE k == [heard |-> m]
           v == Append(w, k)
<1>1. k \in Packets /\ "status" \notin DOMAIN k
  BY DEF Packets
<1>2. ~IsStatus(k)
  BY <1>1, PacketShapes
<1> HIDE DEF k
<1>3. /\ v \in Seq(Packets) /\ Len(w) \in Nat /\ Len(v) = Len(w) + 1 /\ v[Len(w) + 1] = k
      /\ \A i \in 1..Len(w) : v[i] = w[i]
  BY <1>1
<1> HIDE DEF v
<1>4. CASE (\A i \in 1..Len(w) : ~IsStatus(w[i])) /\ (c <=> p = "open")
  <2>1. \A i \in 1..Len(v) : ~IsStatus(v[i])
    BY <1>2, <1>3, <1>4
  <2> QED
    BY <1>3, <1>4, <2>1 DEF v, k, Current
<1>5. ASSUME NEW i \in 1..Len(w), IsStatus(w[i]), w[i].status = "connected" <=> p = "open",
             \A j \in (i + 1)..Len(w) : ~IsStatus(w[j])
      PROVE  Current(v, c, p)
  <2>1. i \in 1..Len(v) /\ v[i] = w[i]
    BY <1>3
  <2>2. \A j \in (i + 1)..Len(v) : ~IsStatus(v[j])
    BY <1>2, <1>3, <1>5
  <2> QED
    BY <1>5, <2>1, <2>2 DEF Current
<1> QED
  BY <1>3, <1>4, <1>5 DEF Current, v, k

LEMMA ReceivingIsCurrent ==
    ASSUME NEW w \in Seq(Packets), w # <<>>, NEW c, NEW p, Current(w, c, p)
    PROVE  /\ Tail(w) \in Seq(Packets)
           /\ IsStatus(Head(w)) => Current(Tail(w), Head(w).status = "connected", p)
           /\ ~IsStatus(Head(w)) => Current(Tail(w), c, p)
<1> DEFINE v == Tail(w)
<1>1. /\ v \in Seq(Packets) /\ Len(w) \in Nat /\ Len(v) = Len(w) - 1 /\ Head(w) = w[1]
      /\ \A i \in 2..Len(w) : v[i - 1] = w[i]
      /\ Len(w) > 0
  OBVIOUS
<1> HIDE DEF v
<1>2. \A i \in 1..Len(v) : i + 1 \in 2..Len(w) /\ v[i] = w[i + 1]
  BY <1>1
<1>3. CASE (\A i \in 1..Len(w) : ~IsStatus(w[i])) /\ (c <=> p = "open")
  <2>1. ~IsStatus(Head(w)) /\ \A i \in 1..Len(v) : ~IsStatus(v[i])
    BY <1>1, <1>2, <1>3
  <2> QED
    BY <1>1, <1>3, <2>1 DEF Current, v
<1>4. ASSUME NEW i \in 1..Len(w), IsStatus(w[i]), w[i].status = "connected" <=> p = "open",
             \A j \in (i + 1)..Len(w) : ~IsStatus(w[j])
      PROVE  /\ IsStatus(Head(w)) => Current(v, Head(w).status = "connected", p)
             /\ ~IsStatus(Head(w)) => Current(v, c, p)
  <2>1. CASE i = 1
    <3>1. \A j \in 1..Len(v) : ~IsStatus(v[j])
      BY <1>1, <1>2, <1>4, <2>1
    <3>2. IsStatus(Head(w)) /\ (Head(w).status = "connected" <=> p = "open")
      BY <1>1, <1>4, <2>1
    <3> QED
      BY <3>1, <3>2 DEF Current
  <2>2. CASE i # 1
    <3>1. i - 1 \in 1..Len(v) /\ v[i - 1] = w[i]
      BY <1>1, <2>2
    <3>2. \A j \in (i - 1 + 1)..Len(v) : ~IsStatus(v[j])
      BY <1>1, <1>2, <1>4, <2>2
    <3>3. \A d : Current(v, d, p)
      BY <1>4, <3>1, <3>2 DEF Current
    <3> QED
      BY <3>3
  <2> QED
    BY <2>1, <2>2
<1> QED
  BY <1>1, <1>3, <1>4 DEF Current, v

\* A status that tells the truth may be broadcast at any time.
LEMMA StatusKeeps ==
    ASSUME WhatsAppTypeOK, NEW s \in Statuses, Status(s), UNCHANGED <<link, connected>>,
           s = "connected" <=> phone' = "open"
    PROVE  /\ wire' \in Seq(Packets) /\ told' \in BOOLEAN
           /\ link' = "up" /\ told' => Current(wire', connected', phone')
<1>1. wire \in Seq(Packets) /\ told \in BOOLEAN
  BY DEF WhatsAppTypeOK
<1>2. /\ wire' = IF link = "up" THEN Append(wire, [status |-> s]) ELSE wire
      /\ told' = (told \/ link = "up")
  BY DEF Status, Broadcast
<1>3. PICK c, p : c = connected' /\ p = phone'
  OBVIOUS
<1>4. /\ Append(wire, [status |-> s]) \in Seq(Packets)
      /\ Current(Append(wire, [status |-> s]), c, p)
  BY <1>1, <1>3, StatusIsNews
<1> QED
  BY <1>1, <1>2, <1>3, <1>4

LEMMA WhatsAppSteps ==
    ASSUME BusTypeOK, WhatsAppTypeOK, LinkInv, WhatsAppNext
    PROVE  /\ WhatsAppTypeOK' /\ LinkInv'
           /\ Around \/ Sends("whatsapp")
<1>1. /\ phone \in {"connecting", "open", "closed", "logged out"}
      /\ timer \in BOOLEAN /\ connected \in BOOLEAN /\ told \in BOOLEAN
      /\ link \in {"down", "up", "closed"}
      /\ wire \in Seq(Packets)
      /\ commands \subseteq Outbound
  BY DEF WhatsAppTypeOK
<1>2. said \in Nat /\ faults \in Nat /\ delivered \in Seq(Outbound) /\ blind \in BOOLEAN
  BY DEF BusTypeOK
<1>3. <<>> \in Seq(Packets)
  OBVIOUS
<1>4. CASE PhoneOpens
  <2>1. /\ phone = "connecting" /\ phone' = "open" /\ Status("connected")
        /\ UNCHANGED <<busVars, timer, link, connected, commands>>
    BY <1>4 DEF PhoneOpens
  <2>2. /\ wire' \in Seq(Packets) /\ told' \in BOOLEAN
        /\ link' = "up" /\ told' => Current(wire', connected', phone')
    BY <2>1, StatusKeeps DEF Statuses
  <2>3. Around
    BY <2>1, QuietIsAround
  <2> QED
    BY <1>1, <2>1, <2>2, <2>3 DEF WhatsAppTypeOK, LinkInv
<1>5. ASSUME NEW b \in BOOLEAN, PhoneCloses(b) PROVE WhatsAppTypeOK' /\ LinkInv' /\ Around
  <2>1. /\ phone \in {"connecting", "open"} /\ Fails("whatsapp") /\ Status("disconnected")
        /\ phone' = IF b THEN "logged out" ELSE "closed"
        /\ timer' = (timer \/ ~b)
        /\ UNCHANGED <<inbound, accepted, said, sendVars, link, connected, commands>>
    BY <1>5 DEF PhoneCloses
  <2>2. /\ wire' \in Seq(Packets) /\ told' \in BOOLEAN
        /\ link' = "up" /\ told' => Current(wire', connected', phone')
    BY <2>1, StatusKeeps DEF Statuses
  <2>3. Around
    BY <1>2, <2>1, FailsCounts, StillIsAround
  <2>4. timer' \in BOOLEAN /\ (timer' => phone' = "closed")
    BY <1>1, <2>1 DEF LinkInv
  <2>5. phone' \in {"connecting", "open", "closed", "logged out"}
    BY <2>1
  <2> QED
    BY <1>1, <2>1, <2>2, <2>3, <2>4, <2>5 DEF WhatsAppTypeOK, LinkInv
<1>6. CASE TimerFires
  <2>1. /\ timer /\ timer' = FALSE /\ phone' = "connecting"
        /\ UNCHANGED <<busVars, link, connected, wire, told, commands>>
    BY <1>6 DEF TimerFires
  <2>2. phone = "closed"
    BY <2>1 DEF LinkInv
  <2>3. link' = "up" /\ told' => Current(wire', connected', phone')
    BY <2>1, <2>2 DEF LinkInv, Current
  <2>4. Around
    BY <2>1, QuietIsAround
  <2> QED
    BY <1>1, <2>1, <2>3, <2>4 DEF WhatsAppTypeOK, LinkInv
<1>7. ASSUME NEW c \in Chats, PhoneHears(c) PROVE WhatsAppTypeOK' /\ LinkInv' /\ Around
  <2> DEFINE m == Latest("whatsapp", c)
  <2>1. /\ Says("whatsapp") /\ Broadcast([heard |-> m])
        /\ UNCHANGED <<inbound, accepted, sendVars, faults, phone, timer, link, connected, told,
                        commands>>
    BY <1>7 DEF PhoneHears
  <2>2. m \in Heard /\ said' \in Nat
    BY <2>1, LatestIsHeard
  <2> HIDE DEF m
  <2>3. /\ Append(wire, [heard |-> m]) \in Seq(Packets)
        /\ Current(wire, connected, phone) => Current(Append(wire, [heard |-> m]), connected, phone)
    BY <1>1, <2>2, HeardIsNoNews
  <2>4. wire' = IF link = "up" THEN Append(wire, [heard |-> m]) ELSE wire
    BY <2>1 DEF Broadcast
  <2>5. Around
    BY <1>2, <2>1, <2>2, StillIsAround
  <2>6. wire' \in Seq(Packets)
    BY <1>1, <2>3, <2>4
  <2>7. LinkInv'
    BY <2>1, <2>3, <2>4 DEF LinkInv
  <2> QED
    BY <1>1, <2>1, <2>5, <2>6, <2>7 DEF WhatsAppTypeOK
<1>8. CASE LinkOpens
  <2>1. Around
    BY <1>8, QuietIsAround DEF LinkOpens
  <2>2. WhatsAppTypeOK'
    BY <1>1, <1>3, <1>8 DEF LinkOpens, WhatsAppTypeOK
  <2>3. LinkInv'
    BY <1>8 DEF LinkOpens, LinkInv
  <2> QED
    BY <2>1, <2>2, <2>3
<1>9. CASE LinkBreaks
  <2>1. Around
    <3>1. Fails("whatsapp") /\ UNCHANGED <<inbound, accepted, said, sendVars>>
      BY <1>9 DEF LinkBreaks
    <3> QED
      BY <1>2, <3>1, FailsCounts, StillIsAround
  <2>2. WhatsAppTypeOK'
    BY <1>1, <1>3, <1>9 DEF LinkBreaks, WhatsAppTypeOK
  <2>3. LinkInv'
    BY <1>9 DEF LinkBreaks, LinkInv
  <2> QED
    BY <2>1, <2>2, <2>3
<1>10. CASE BridgeRestarts
  <2>1. Around
    <3>1. Fails("whatsapp") /\ UNCHANGED <<inbound, accepted, said, sendVars>>
      BY <1>10 DEF BridgeRestarts
    <3> QED
      BY <1>2, <3>1, FailsCounts, StillIsAround
  <2>2. WhatsAppTypeOK'
    BY <1>1, <1>3, <1>10 DEF BridgeRestarts, WhatsAppTypeOK
  <2>3. LinkInv'
    BY <1>10 DEF BridgeRestarts, LinkInv
  <2> QED
    BY <2>1, <2>2, <2>3
<1>11. CASE LinkRefused
  <2>1. Around
    BY <1>11, QuietIsAround DEF LinkRefused
  <2>2. WhatsAppTypeOK'
    BY <1>1, <1>11 DEF LinkRefused, WhatsAppTypeOK
  <2>3. LinkInv'
    BY <1>11 DEF LinkRefused, LinkInv
  <2> QED
    BY <2>1, <2>2, <2>3
<1>12. CASE LinkReceives
  <2>1. /\ wire # <<>> /\ wire' = Tail(wire)
        /\ UNCHANGED <<said, faults, sendVars, phone, timer, link, told, commands>>
        /\ IF "status" \in DOMAIN Head(wire)
           THEN connected' = (Head(wire).status = "connected") /\ UNCHANGED <<inbound, accepted>>
           ELSE HandleMessage(Head(wire).heard) /\ UNCHANGED connected
    BY <1>12 DEF LinkReceives, SaysConnected
  <2>2. Head(wire) \in Packets /\ Tail(wire) \in Seq(Packets)
    BY <1>1, <2>1, HeadTailProperties
  <2>3. /\ IsStatus(Head(wire)) <=> "status" \in DOMAIN Head(wire)
        /\ ~IsStatus(Head(wire)) => Head(wire).heard \in Heard
    BY <2>2, PacketShapes
  <2>4. Current(wire, connected, phone) =>
           /\ IsStatus(Head(wire)) => Current(Tail(wire), Head(wire).status = "connected", phone)
           /\ ~IsStatus(Head(wire)) => Current(Tail(wire), connected, phone)
    BY <1>1, <2>1, ReceivingIsCurrent
  <2>5. CASE IsStatus(Head(wire))
    <3>1. connected' = (Head(wire).status = "connected") /\ UNCHANGED <<inbound, accepted>>
      BY <2>1, <2>3, <2>5
    <3>2. connected' \in BOOLEAN
      BY <3>1
    <3>3. Around
      BY <1>2, <2>1, <3>1, StillIsAround
    <3>4. WhatsAppTypeOK'
      BY <1>1, <2>1, <2>2, <3>2 DEF WhatsAppTypeOK
    <3>5. LinkInv'
      <4>1. link' = "up" /\ told' => Current(wire', connected', phone')
        BY <2>1, <2>4, <2>5, <3>1 DEF LinkInv
      <4> QED
        BY <2>1, <4>1 DEF LinkInv
    <3> QED
      BY <3>3, <3>4, <3>5
  <2>6. CASE ~IsStatus(Head(wire))
    <3>1. HandleMessage(Head(wire).heard) /\ connected' = connected /\ Head(wire).heard \in Heard
      BY <2>1, <2>3, <2>6
    <3>2. Around
      BY <1>2, <2>1, <3>1, ArrivalIsAround
    <3>3. WhatsAppTypeOK'
      BY <1>1, <2>1, <2>2, <3>1 DEF WhatsAppTypeOK
    <3>4. LinkInv'
      <4>1. link' = "up" /\ told' => Current(wire', connected', phone')
        BY <2>1, <2>4, <2>6, <3>1 DEF LinkInv
      <4> QED
        BY <2>1, <4>1 DEF LinkInv
    <3> QED
      BY <3>2, <3>3, <3>4
  <2> QED
    BY <2>5, <2>6
<1>13. CASE WhatsAppSend
  <2>1. /\ sending # NoMessage /\ sending.channel = "whatsapp" /\ SendEnds
        /\ commands' = commands \cup {m \in {sending} : link = "up" /\ connected}
        /\ UNCHANGED <<enabled, inbound, outbound, delivered, accepted, said, published, blind,
                        faults, phone, timer, link, connected, wire, told>>
    BY <1>13 DEF WhatsAppSend
  <2>2. Sends("whatsapp")
    BY <1>2, <2>1 DEF Sends, SendEnds
  <2>3. sending \in Outbound
    BY <2>1 DEF BusTypeOK
  <2>4. commands' \subseteq Outbound
    BY <1>1, <2>1, <2>3
  <2> QED
    BY <1>1, <2>1, <2>2, <2>4 DEF WhatsAppTypeOK, LinkInv
<1>14. ASSUME NEW m \in commands, BridgeSends(m) PROVE WhatsAppTypeOK' /\ LinkInv' /\ Around
  <2>1. /\ commands' = commands \ {m}
        /\ delivered' = Append(delivered, m) \/ UNCHANGED delivered
        /\ UNCHANGED <<enabled, inbound, outbound, sending, tries, accepted, said, published,
                        blind, faults, phone, timer, link, connected, wire, told>>
    BY <1>14 DEF BridgeSends
  <2>2. m \in Outbound
    BY <1>1
  <2>3. delivered' \in Seq(Outbound)
    BY <1>2, <2>1, <2>2
  <2>4. Around
    BY <1>2, <2>1, <2>3, DeliveryIsAround
  <2> QED
    BY <1>1, <2>1, <2>4 DEF WhatsAppTypeOK, LinkInv
<1> QED
  BY <1>4, <1>5, <1>6, <1>7, <1>8, <1>9, <1>10, <1>11, <1>12, <1>13, <1>14 DEF WhatsAppNext

-----------------------------------------------------------------------------
(* The invariant                                                           *)

ChannelsInv == TypeOK /\ TypingInv /\ WaitInv /\ LinkInv

LEMMA InitChannels == Init => ChannelsInv
<1> SUFFICES ASSUME Init PROVE ChannelsInv
  OBVIOUS
<1>1. /\ <<>> \in Seq(Heard) /\ <<>> \in Seq(Outbound) /\ <<>> \in Seq(Request)
      /\ <<>> \in Seq(Packets) /\ <<>> \in Seq(Post) /\ <<>> \in Seq(Nat)
      /\ Len(<<>>) = 0 /\ DOMAIN <<>> = {}
  OBVIOUS
<1>2. BusTypeOK
  <2>1. /\ enabled \in Configurations
        /\ inbound = <<>> /\ outbound = <<>> /\ delivered = <<>> /\ accepted = <<>>
        /\ sending = NoMessage
        /\ tries = 0 /\ said = 0 /\ published = 0 /\ faults = 0 /\ blind = FALSE
    BY DEF Init, BusInit
  <2>2. tries \in 0..2 /\ said \in Nat /\ published \in Nat /\ faults \in Nat
    BY <2>1
  <2>3. inbound \in Seq(Heard) /\ accepted \in Seq(Heard)
    BY <1>1, <2>1
  <2>4. outbound \in Seq(Outbound) /\ delivered \in Seq(Outbound)
    BY <1>1, <2>1
  <2> QED
    BY <2>1, <2>2, <2>3, <2>4 DEF BusTypeOK
<1>3. HttpTypeOK /\ WaitInv
  BY <1>1 DEF Init, HttpInit, HttpTypeOK, WaitInv
<1>4. DiscordTypeOK /\ TypingInv
  BY DEF Init, DiscordInit, DiscordTypeOK, TypingInv
<1>5. WhatsAppTypeOK /\ LinkInv
  BY <1>1 DEF Init, WhatsAppInit, WhatsAppTypeOK, LinkInv
<1>6. MatrixTypeOK
  BY <1>1 DEF Init, MatrixInit, MatrixTypeOK
<1>7. FeishuTypeOK
  BY <1>1, CacheAssumption DEF Init, FeishuInit, FeishuTypeOK
<1>8. TelegramTypeOK /\ NextcloudTypeOK
  BY <1>1 DEF Init, TelegramInit, TelegramTypeOK, NextcloudInit, NextcloudTypeOK
<1> QED
  BY <1>2, <1>3, <1>4, <1>5, <1>6, <1>7, <1>8 DEF ChannelsInv, TypeOK

\* Who waits for a message goes on doing so when another channel moves.
LEMMA WaitersKeep ==
    ASSUME ChannelsInv, enabled' = enabled, UNCHANGED <<requests, pending, typing>>,
           \A ch \in {"discord", "http_inbound"} : \A c, n :
              ch \in enabled /\ OnTheWay(ch, c, n) => OnTheWay(ch, c, n)'
    PROVE  TypingInv' /\ WaitInv'
<1>1. TypingInv'
  BY DEF ChannelsInv, TypingInv, Pending
<1>2. WaitInv'
  BY WaitGoesOn DEF ChannelsInv
<1> QED
  BY <1>1, <1>2

\* A step of the bus.
LEMMA MovesKeep ==
    ASSUME BusTypeOK, NEW own,
           Around \/ Sends(own)
    PROVE  /\ BusTypeOK' /\ enabled' = enabled
           /\ \A ch, c, n : ch # own /\ OnTheWay(ch, c, n) => OnTheWay(ch, c, n)'
<1>1. CASE Around
  BY <1>1, AroundKeeps DEF Around
<1>2. CASE Sends(own)
  BY <1>2, SendsKeeps DEF Sends
<1> QED
  BY <1>1, <1>2

LEMMA BusKeeps ==
    ASSUME ChannelsInv, Bus
    PROVE  ChannelsInv'
<1>1. BusTypeOK
  BY DEF ChannelsInv, TypeOK
<1>2. UNCHANGED <<httpVars, discordVars, whatsAppVars, matrixVars, feishuVars, telegramVars,
                  nextcloudVars>>
  BY DEF Bus
<1>3. /\ BusTypeOK' /\ enabled' = enabled
      /\ \A ch \in enabled : \A c, n : OnTheWay(ch, c, n) => OnTheWay(ch, c, n)'
  <2>1. CASE Answer
    BY <1>1, <2>1, AnswerKeeps DEF Answer
  <2>2. ASSUME NEW ch \in enabled \cup {Unserved}, NEW c \in Chats, Note(ch, c)
        PROVE  /\ BusTypeOK' /\ enabled' = enabled
               /\ \A d, e, n : OnTheWay(d, e, n) => OnTheWay(d, e, n)'
    BY <1>1, <2>2, NoteKeeps DEF Note
  <2>3. CASE Dispatch
    BY <1>1, <2>3, DispatchKeeps DEF Dispatch
  <2> QED
    BY <2>1, <2>2, <2>3 DEF Bus
<1>4. TypingInv' /\ WaitInv'
  BY <1>2, <1>3, WaitersKeep DEF httpVars, discordVars
<1>5. LinkInv'
  BY <1>2 DEF ChannelsInv, LinkInv, whatsAppVars
<1>6. HttpTypeOK' /\ DiscordTypeOK'
  BY <1>2 DEF ChannelsInv, TypeOK, HttpTypeOK, DiscordTypeOK, httpVars, discordVars
<1>7. WhatsAppTypeOK' /\ MatrixTypeOK'
  BY <1>2 DEF ChannelsInv, TypeOK, WhatsAppTypeOK, MatrixTypeOK, whatsAppVars, matrixVars
<1>8. FeishuTypeOK'
  BY <1>2 DEF ChannelsInv, TypeOK, FeishuTypeOK, feishuVars
<1>9. TelegramTypeOK' /\ NextcloudTypeOK'
  BY <1>2 DEF ChannelsInv, TypeOK, TelegramTypeOK, NextcloudTypeOK, telegramVars, nextcloudVars
<1> QED
  BY <1>3, <1>4, <1>5, <1>6, <1>7, <1>8, <1>9 DEF ChannelsInv, TypeOK

LEMMA HttpKeeps ==
    ASSUME ChannelsInv, Http
    PROVE  ChannelsInv'
<1>1. /\ BusTypeOK /\ HttpTypeOK /\ WaitInv /\ "http_inbound" \in enabled /\ HttpNext
      /\ UNCHANGED <<discordVars, whatsAppVars, matrixVars, feishuVars, telegramVars,
                      nextcloudVars>>
  BY DEF ChannelsInv, TypeOK, Http
<1>2. HttpTypeOK' /\ WaitInv' /\ (Around \/ Sends("http_inbound"))
  BY <1>1, HttpSteps
<1>3. /\ BusTypeOK' /\ enabled' = enabled
      /\ \A c, n : OnTheWay("discord", c, n) => OnTheWay("discord", c, n)'
  <2>3. PICK own : own = "http_inbound"
    OBVIOUS
  <2>4. BusTypeOK /\ (Around \/ Sends(own))
    BY <1>1, <1>2, <2>3
  <2>1. /\ BusTypeOK' /\ enabled' = enabled
        /\ \A ch, c, n : ch # own /\ OnTheWay(ch, c, n) => OnTheWay(ch, c, n)'
    BY <2>4, MovesKeep
  <2>2. own # "discord"
    BY <2>3
  <2> QED
    BY <2>1, <2>2
<1>4. TypingInv'
  BY <1>1, <1>3 DEF ChannelsInv, TypingInv, Pending, discordVars
<1>5. LinkInv'
  BY <1>1 DEF ChannelsInv, LinkInv, whatsAppVars
<1>6. DiscordTypeOK'
  BY <1>1 DEF ChannelsInv, TypeOK, DiscordTypeOK, discordVars
<1>7. WhatsAppTypeOK' /\ MatrixTypeOK'
  BY <1>1 DEF ChannelsInv, TypeOK, WhatsAppTypeOK, MatrixTypeOK, whatsAppVars, matrixVars
<1>8. FeishuTypeOK'
  BY <1>1 DEF ChannelsInv, TypeOK, FeishuTypeOK, feishuVars
<1>9. TelegramTypeOK' /\ NextcloudTypeOK'
  BY <1>1 DEF ChannelsInv, TypeOK, TelegramTypeOK, NextcloudTypeOK, telegramVars, nextcloudVars
<1> QED
  BY <1>2, <1>3, <1>4, <1>5, <1>6, <1>7, <1>8, <1>9 DEF ChannelsInv, TypeOK

LEMMA DiscordKeeps ==
    ASSUME ChannelsInv, Discord
    PROVE  ChannelsInv'
<1>1. /\ BusTypeOK /\ DiscordTypeOK /\ TypingInv /\ "discord" \in enabled /\ DiscordNext
      /\ UNCHANGED <<httpVars, whatsAppVars, matrixVars, feishuVars, telegramVars, nextcloudVars>>
  BY DEF ChannelsInv, TypeOK, Discord
<1>2. DiscordTypeOK' /\ TypingInv' /\ (Around \/ Sends("discord"))
  BY <1>1, DiscordSteps
<1>3. /\ BusTypeOK' /\ enabled' = enabled
      /\ \A c, n : OnTheWay("http_inbound", c, n) => OnTheWay("http_inbound", c, n)'
  <2>3. PICK own : own = "discord"
    OBVIOUS
  <2>4. BusTypeOK /\ (Around \/ Sends(own))
    BY <1>1, <1>2, <2>3
  <2>1. /\ BusTypeOK' /\ enabled' = enabled
        /\ \A ch, c, n : ch # own /\ OnTheWay(ch, c, n) => OnTheWay(ch, c, n)'
    BY <2>4, MovesKeep
  <2>2. own # "http_inbound"
    BY <2>3
  <2> QED
    BY <2>1, <2>2
<1>4. WaitInv'
  BY <1>1, <1>3, WaitGoesOn DEF ChannelsInv, httpVars
<1>5. LinkInv'
  BY <1>1 DEF ChannelsInv, LinkInv, whatsAppVars
<1>6. HttpTypeOK'
  BY <1>1 DEF ChannelsInv, TypeOK, HttpTypeOK, httpVars
<1>7. WhatsAppTypeOK' /\ MatrixTypeOK'
  BY <1>1 DEF ChannelsInv, TypeOK, WhatsAppTypeOK, MatrixTypeOK, whatsAppVars, matrixVars
<1>8. FeishuTypeOK'
  BY <1>1 DEF ChannelsInv, TypeOK, FeishuTypeOK, feishuVars
<1>9. TelegramTypeOK' /\ NextcloudTypeOK'
  BY <1>1 DEF ChannelsInv, TypeOK, TelegramTypeOK, NextcloudTypeOK, telegramVars, nextcloudVars
<1> QED
  BY <1>2, <1>3, <1>4, <1>5, <1>6, <1>7, <1>8, <1>9 DEF ChannelsInv, TypeOK

\* The other channels: none of them has waiters.
LEMMA OthersKeep ==
    ASSUME ChannelsInv, NEW own \in {"whatsapp", "matrix", "feishu", "telegram", "nextcloud_talk"},
           Around \/ Sends(own), UNCHANGED <<httpVars, discordVars>>
    PROVE  BusTypeOK' /\ HttpTypeOK' /\ DiscordTypeOK' /\ TypingInv' /\ WaitInv'
<1>1. BusTypeOK
  BY DEF ChannelsInv, TypeOK
<1>2. /\ BusTypeOK' /\ enabled' = enabled
      /\ \A ch \in {"discord", "http_inbound"} : \A c, n :
            OnTheWay(ch, c, n) => OnTheWay(ch, c, n)'
  BY <1>1, MovesKeep
<1>3. TypingInv' /\ WaitInv'
  BY <1>2, WaitersKeep DEF httpVars, discordVars
<1>4. HttpTypeOK' /\ DiscordTypeOK'
  BY DEF ChannelsInv, TypeOK, HttpTypeOK, DiscordTypeOK, httpVars, discordVars
<1> QED
  BY <1>2, <1>3, <1>4

LEMMA OtherChannelsKeep ==
    ASSUME ChannelsInv, WhatsApp \/ Matrix \/ Feishu \/ Telegram \/ Nextcloud
    PROVE  ChannelsInv'
<1>1. /\ BusTypeOK /\ WhatsAppTypeOK /\ MatrixTypeOK /\ FeishuTypeOK /\ TelegramTypeOK
      /\ NextcloudTypeOK /\ LinkInv
  BY DEF ChannelsInv, TypeOK
<1>2. UNCHANGED whatsAppVars => WhatsAppTypeOK' /\ LinkInv'
  <2> SUFFICES ASSUME UNCHANGED whatsAppVars PROVE WhatsAppTypeOK' /\ LinkInv'
    OBVIOUS
  <2>1. WhatsAppTypeOK'
    BY <1>1 DEF WhatsAppTypeOK, whatsAppVars
  <2>2. LinkInv'
    BY <1>1 DEF LinkInv, whatsAppVars
  <2> QED
    BY <2>1, <2>2
<1>3. UNCHANGED matrixVars => MatrixTypeOK'
  BY <1>1 DEF MatrixTypeOK, matrixVars
<1>4. UNCHANGED feishuVars => FeishuTypeOK'
  BY <1>1 DEF FeishuTypeOK, feishuVars
<1>5. UNCHANGED telegramVars => TelegramTypeOK'
  BY <1>1 DEF TelegramTypeOK, telegramVars
<1>6. UNCHANGED nextcloudVars => NextcloudTypeOK'
  BY <1>1 DEF NextcloudTypeOK, nextcloudVars
<1>7. CASE WhatsApp
  <2>1. /\ WhatsAppNext
        /\ UNCHANGED <<httpVars, discordVars, matrixVars, feishuVars, telegramVars, nextcloudVars>>
    BY <1>7 DEF WhatsApp
  <2>2. WhatsAppTypeOK' /\ LinkInv' /\ (Around \/ Sends("whatsapp"))
    BY <1>1, <2>1, WhatsAppSteps
  <2>3. BusTypeOK' /\ HttpTypeOK' /\ DiscordTypeOK' /\ TypingInv' /\ WaitInv'
    BY <2>1, <2>2, OthersKeep
  <2> QED
    BY <1>3, <1>4, <1>5, <1>6, <2>1, <2>2, <2>3 DEF ChannelsInv, TypeOK
<1>8. CASE Matrix
  <2>1. /\ MatrixNext
        /\ UNCHANGED <<httpVars, discordVars, whatsAppVars, feishuVars, telegramVars, nextcloudVars>>
    BY <1>8 DEF Matrix
  <2>2. MatrixTypeOK' /\ (Around \/ Sends("matrix"))
    BY <1>1, <2>1, MatrixSteps
  <2>3. BusTypeOK' /\ HttpTypeOK' /\ DiscordTypeOK' /\ TypingInv' /\ WaitInv'
    BY <2>1, <2>2, OthersKeep
  <2> QED
    BY <1>2, <1>4, <1>5, <1>6, <2>1, <2>2, <2>3 DEF ChannelsInv, TypeOK
<1>9. CASE Feishu
  <2>1. /\ FeishuNext
        /\ UNCHANGED <<httpVars, discordVars, whatsAppVars, matrixVars, telegramVars, nextcloudVars>>
    BY <1>9 DEF Feishu
  <2>2. FeishuTypeOK' /\ (Around \/ Sends("feishu"))
    BY <1>1, <2>1, FeishuSteps
  <2>3. BusTypeOK' /\ HttpTypeOK' /\ DiscordTypeOK' /\ TypingInv' /\ WaitInv'
    BY <2>1, <2>2, OthersKeep
  <2> QED
    BY <1>2, <1>3, <1>5, <1>6, <2>1, <2>2, <2>3 DEF ChannelsInv, TypeOK
<1>10. CASE Telegram
  <2>1. /\ TelegramNext
        /\ UNCHANGED <<httpVars, discordVars, whatsAppVars, matrixVars, feishuVars, nextcloudVars>>
    BY <1>10 DEF Telegram
  <2>2. TelegramTypeOK' /\ (Around \/ Sends("telegram"))
    BY <1>1, <2>1, TelegramSteps
  <2>3. BusTypeOK' /\ HttpTypeOK' /\ DiscordTypeOK' /\ TypingInv' /\ WaitInv'
    BY <2>1, <2>2, OthersKeep
  <2> QED
    BY <1>2, <1>3, <1>4, <1>6, <2>1, <2>2, <2>3 DEF ChannelsInv, TypeOK
<1>11. CASE Nextcloud
  <2>1. /\ NextcloudNext
        /\ UNCHANGED <<httpVars, discordVars, whatsAppVars, matrixVars, feishuVars, telegramVars>>
    BY <1>11 DEF Nextcloud
  <2>2. NextcloudTypeOK' /\ (Around \/ Sends("nextcloud_talk"))
    BY <1>1, <2>1, NextcloudSteps
  <2>3. BusTypeOK' /\ HttpTypeOK' /\ DiscordTypeOK' /\ TypingInv' /\ WaitInv'
    BY <2>1, <2>2, OthersKeep
  <2> QED
    BY <1>2, <1>3, <1>4, <1>5, <2>1, <2>2, <2>3 DEF ChannelsInv, TypeOK
<1> QED
  BY <1>7, <1>8, <1>9, <1>10, <1>11

LEMMA NextChannels ==
    ASSUME ChannelsInv, [Next]_vars
    PROVE  ChannelsInv'
<1>1. CASE Next
  BY <1>1, BusKeeps, HttpKeeps, DiscordKeeps, OtherChannelsKeep DEF Next
<1>2. CASE UNCHANGED vars
  <2>1. /\ UNCHANGED busVars
        /\ UNCHANGED <<httpVars, discordVars, whatsAppVars, matrixVars, feishuVars, telegramVars,
                        nextcloudVars>>
    BY <1>2 DEF vars
  <2>2. Around
    BY <2>1, QuietIsAround DEF ChannelsInv, TypeOK
  <2>3. BusTypeOK' /\ HttpTypeOK' /\ DiscordTypeOK' /\ TypingInv' /\ WaitInv'
    BY <2>1, <2>2, OthersKeep
  <2>4. WhatsAppTypeOK' /\ MatrixTypeOK' /\ LinkInv'
    BY <2>1 DEF ChannelsInv, TypeOK, WhatsAppTypeOK, MatrixTypeOK, LinkInv, whatsAppVars, matrixVars
  <2>5. FeishuTypeOK'
    BY <2>1 DEF ChannelsInv, TypeOK, FeishuTypeOK, feishuVars
  <2>6. TelegramTypeOK' /\ NextcloudTypeOK'
    BY <2>1 DEF ChannelsInv, TypeOK, TelegramTypeOK, NextcloudTypeOK, telegramVars, nextcloudVars
  <2> QED
    BY <2>3, <2>4, <2>5, <2>6 DEF ChannelsInv, TypeOK
<1> QED
  BY <1>1, <1>2

\* The inductive invariant of the gateway's channels (ChannelManager and the
\* channels' handlers in every interleaving).
THEOREM ChannelsInvariant == Spec => []ChannelsInv
<1>1. Init => ChannelsInv
  BY InitChannels
<1>2. ChannelsInv /\ [Next]_vars => ChannelsInv'
  BY NextChannels
<1> QED
  BY <1>1, <1>2, PTL DEF Spec

-----------------------------------------------------------------------------
(* What follows                                                            *)

\* The state of every channel keeps its form: Feishu's cache stays within its
\* size, Matrix's token within the timeline, HTTP's futures within the
\* requests, and a send makes at most three attempts.
THEOREM TypeCorrect == Spec => []TypeOK
<1>1. ChannelsInv => TypeOK
  BY DEF ChannelsInv
<1> QED
  BY <1>1, ChannelsInvariant, PTL

\* Discord shows the bot typing only while something is on its way
\* (DiscordChannel.send, _start_typing, _stop_typing).
THEOREM TypingIsPending == Spec => []TypingMeansPending
<1>1. ChannelsInv => TypingMeansPending
  <2> SUFFICES ASSUME ChannelsInv, NEW c \in Chats, typing[c]
               PROVE  \/ \E i \in DOMAIN inbound :
                            inbound[i].channel = "discord" /\ inbound[i].chat = c
                      \/ \E i \in DOMAIN outbound :
                            outbound[i].channel = "discord" /\ outbound[i].chat = c
                      \/ sending # NoMessage /\ sending.channel = "discord" /\ sending.chat = c
    BY DEF TypingMeansPending
  <2>1. PICK n \in Nat \ {0} : OnTheWay("discord", c, n)
    BY DEF ChannelsInv, TypingInv, Pending
  <2> QED
    BY <2>1 DEF OnTheWay
<1> QED
  BY <1>1, ChannelsInvariant, PTL

\* An HTTP request with a textual chat_id that is alone with it, or whose
\* future is the one an answer finds, is not passed by its answer
\* (HttpInboundChannel.send, _handle_inbound).
THEOREM WaitingIsJustified == Spec => []WaitingIsForSomething
<1>1. ChannelsInv => WaitingIsForSomething
  BY DEF ChannelsInv, WaitInv, Owned, Answerable, WaitingIsForSomething
<1> QED
  BY <1>1, ChannelsInvariant, PTL

\* The WhatsApp channel's _connected is right when it has heard all that the
\* bridge has said (_handle_bridge_message, BridgeServer.broadcast).
THEOREM ConnectedIsTrue == Spec => []ConnectedIsCurrent
<1>1. ChannelsInv => ConnectedIsCurrent
  <2> SUFFICES ASSUME ChannelsInv, link = "up", told, wire = <<>>
               PROVE  connected <=> phone = "open"
    BY DEF ConnectedIsCurrent
  <2>1. Current(wire, connected, phone) /\ Len(wire) = 0
    BY DEF ChannelsInv, LinkInv
  <2> QED
    BY <2>1 DEF Current
<1> QED
  BY <1>1, ChannelsInvariant, PTL

-----------------------------------------------------------------------------
(* Where a message is                                                      *)

\* A line holds the numbers of messages, each at a key of its own: an index,
\* or the message itself.  A 0 is no message.
Unique(f) == \A i, j \in DOMAIN f : f[i] # 0 /\ f[i] = f[j] => i = j
Members(f) == {f[i] : i \in DOMAIN f} \ {0}

\* What was handed over from a batch that was then given up comes again:
\* nothing is claimed of it.
Once(n) == IF n \in again THEN 0 ELSE n

Ids(q) == [i \in DOMAIN q |-> Once(q[i].id)]
Ofs(q) == [i \in DOMAIN q |-> Once(q[i].of)]
News(q) == [i \in DOMAIN q |-> IF "status" \in DOMAIN q[i] THEN 0 ELSE Once(q[i].heard.id)]

\* What the message is, or the message it answers, at each stage of its way.
Lines == [
    wire |-> News(wire),
    timeline |-> [i \in (handled + 1)..Len(timeline) |-> Once(timeline[i].id)],
    reacting |-> [m \in reacting |-> Once(m.id)],
    updates |-> Ids(updates),
    accepted |-> Ids(accepted),
    inbound |-> Ids(inbound),
    forwards |-> Ids(forwards),
    outbound |-> Ofs(outbound),
    sending |-> [m \in {sending} \ {NoMessage} |-> Once(m.of)],
    commands |-> [m \in commands |-> Once(m.of)],
    delivered |-> IF blind THEN <<>> ELSE Ofs(delivered)]

\* The stages before the agent's queue, with what the queue has ever had.
Questions == {"wire", "timeline", "reacting", "updates", "accepted"}
\* The stages from a message's arrival to the platform's having its answer.
Way == {"wire", "timeline", "reacting", "updates", "inbound", "forwards",
        "outbound", "sending", "commands", "delivered"}

Apart(L, P) ==
    /\ \A p \in P : Unique(L[p])
    /\ \A p, q \in P : p # q => Members(L[p]) \cap Members(L[q]) = {}

\* A message is at one stage only, once.
LineInv ==
    /\ \A p \in Questions \cup Way : Members(Lines[p]) \subseteq 1..said
    /\ Apart(Lines, Questions) /\ Apart(Lines, Way)

\* The cache has the ids of the last messages, so that whatever the platform
\* delivers again is in it.
CacheInv ==
    /\ \A i \in DOMAIN posts : posts[i].heard.id <= said
    /\ Len(cache) <= Len(posts)
    /\ Len(cache) = Len(posts) \/ Len(cache) = CacheMax
    /\ \A i \in DOMAIN cache : cache[i] = posts[Len(posts) - Len(cache) + i].heard.id

\* What has come through the dispatcher itself; the bridge of WhatsApp and
\* the forwarding task send past it.
Direct(m) == m.channel # "whatsapp" /\ m.no # 0

\* The order of publication, from the last message the platforms have to the
\* end of the queue.
QueueInOrder ==
    /\ \A j \in DOMAIN outbound : outbound[j].no \in 1..published
    /\ \A i, j \in DOMAIN outbound : i < j => outbound[i].no < outbound[j].no
SendingInOrder ==
    sending # NoMessage =>
        /\ sending.no \in 1..published
        /\ \A j \in DOMAIN outbound : sending.no < outbound[j].no
DeliveredInOrder ==
    ~blind =>
        \A i \in DOMAIN delivered : Direct(delivered[i]) =>
            /\ delivered[i].no <= published
            /\ \A j \in DOMAIN outbound : delivered[i].no < outbound[j].no
            /\ sending # NoMessage => delivered[i].no < sending.no
            /\ \A j \in DOMAIN delivered :
                  i < j /\ Direct(delivered[j]) => delivered[i].no < delivered[j].no
OrderInv ==
    /\ QueueInOrder /\ SendingInOrder /\ DeliveredInOrder
    /\ \A m \in commands : m.channel = "whatsapp"

\* How a line changes in a step.
Shrinks(f, g) == (Unique(f) => Unique(g)) /\ Members(g) \subseteq Members(f)
Gains(f, g, n) ==
    /\ Unique(f) /\ n \notin Members(f) => Unique(g)
    /\ Members(g) \subseteq Members(f) \cup {n}
Loses(f, g, n) ==
    Unique(f) => Unique(g) /\ (n # 0 => n \in Members(f) /\ n \notin Members(g))

-----------------------------------------------------------------------------
(* Lines                                                                   *)

LEMMA PartOfLine ==
    ASSUME NEW f, NEW g, DOMAIN g \subseteq DOMAIN f, \A i \in DOMAIN g : g[i] = f[i]
    PROVE  Shrinks(f, g)
BY DEF Shrinks, Unique, Members

\* Of some of a line nothing is claimed any more.
LEMMA LineFades ==
    ASSUME NEW f, NEW g, \A i \in DOMAIN g : g[i] = 0 \/ (i \in DOMAIN f /\ g[i] = f[i])
    PROVE  Shrinks(f, g)
BY DEF Shrinks, Unique, Members

LEMMA LineLosesKey ==
    ASSUME NEW f, NEW g, NEW k \in DOMAIN f,
           DOMAIN g \subseteq DOMAIN f \ {k}, \A i \in DOMAIN g : g[i] = f[i]
    PROVE  Shrinks(f, g) /\ Loses(f, g, f[k])
BY DEF Shrinks, Loses, Unique, Members

LEMMA LineGainsKey ==
    ASSUME NEW f, NEW g, NEW k, k \notin DOMAIN f,
           DOMAIN g = DOMAIN f \cup {k}, \A i \in DOMAIN f : g[i] = f[i]
    PROVE  Gains(f, g, g[k])
<1>1. Members(g) \subseteq Members(f) \cup {g[k]}
  BY DEF Members
<1>2. ASSUME Unique(f), g[k] \notin Members(f) PROVE Unique(g)
  <2>1. SUFFICES ASSUME NEW i \in DOMAIN g, NEW j \in DOMAIN g, g[i] # 0, g[i] = g[j]
                 PROVE  i = j
    BY DEF Unique
  <2>2. CASE i \in DOMAIN f /\ j \in DOMAIN f
    BY <1>2, <2>1, <2>2 DEF Unique
  <2>3. CASE i = k /\ j \in DOMAIN f
    BY <1>2, <2>1, <2>3 DEF Members
  <2>4. CASE j = k /\ i \in DOMAIN f
    BY <1>2, <2>1, <2>4 DEF Members
  <2> QED
    BY <2>2, <2>3, <2>4
<1> QED
  BY <1>1, <1>2 DEF Gains

LEMMA AppendLine ==
    ASSUME NEW f, NEW g, NEW k \in Nat, DOMAIN f = 1..k, DOMAIN g = 1..(k + 1),
           \A i \in 1..k : g[i] = f[i]
    PROVE  Gains(f, g, g[k + 1])
<1>1. k + 1 \notin DOMAIN f /\ DOMAIN g = DOMAIN f \cup {k + 1}
  OBVIOUS
<1> QED
  BY <1>1, LineGainsKey

LEMMA TailLine ==
    ASSUME NEW f, NEW g, NEW k \in Nat \ {0}, DOMAIN f = 1..k, DOMAIN g = 1..(k - 1),
           \A i \in 1..(k - 1) : g[i] = f[i + 1]
    PROVE  Shrinks(f, g) /\ Loses(f, g, f[1])
<1>1. ASSUME NEW i \in DOMAIN g PROVE i + 1 \in DOMAIN f /\ g[i] = f[i + 1] /\ i + 1 # 1 /\ i \in Nat
  OBVIOUS
<1>2. Members(g) \subseteq Members(f)
  BY <1>1 DEF Members
<1>3. ASSUME Unique(f) PROVE Unique(g)
  <2>1. SUFFICES ASSUME NEW i \in DOMAIN g, NEW j \in DOMAIN g, g[i] # 0, g[i] = g[j]
                 PROVE  i = j
    BY DEF Unique
  <2>2. i + 1 = j + 1
    BY <1>1, <1>3, <2>1 DEF Unique
  <2> QED
    BY <1>1, <2>2
<1>4. ASSUME f[1] # 0, Unique(f) PROVE f[1] \in Members(f) /\ f[1] \notin Members(g)
  <2>1. 1 \in DOMAIN f
    OBVIOUS
  <2>2. ASSUME NEW i \in DOMAIN g, g[i] = f[1] PROVE FALSE
    BY <1>1, <1>4, <2>1, <2>2 DEF Unique
  <2> QED
    BY <1>4, <2>1, <2>2 DEF Members
<1> QED
  BY <1>2, <1>3, <1>4 DEF Shrinks, Loses

LEMMA GainsNothing ==
    ASSUME NEW f, NEW g, Gains(f, g, 0)
    PROVE  Shrinks(f, g)
BY DEF Gains, Shrinks, Members

LEMMA SameLine == ASSUME NEW f, NEW g, g = f PROVE Shrinks(f, g)
BY DEF Shrinks

-----------------------------------------------------------------------------
(* A message goes on                                                       *)

LEMMA ApartShrinks ==
    ASSUME NEW L, NEW M, NEW P, Apart(L, P), \A p \in P : Shrinks(L[p], M[p])
    PROVE  Apart(M, P)
BY DEF Apart, Shrinks

LEMMA ApartGains ==
    ASSUME NEW L, NEW M, NEW P, NEW k \in P, NEW n, Apart(L, P),
           n \notin Members(L[k]), Gains(L[k], M[k], n),
           \A p \in P \ {k} : Shrinks(L[p], M[p]) /\ n \notin Members(M[p])
    PROVE  Apart(M, P)
<1>1. ASSUME NEW p \in P PROVE Unique(M[p])
  BY DEF Apart, Shrinks, Gains
<1>2. ASSUME NEW p \in P, NEW q \in P, p # q PROVE Members(M[p]) \cap Members(M[q]) = {}
  <2>1. Members(L[p]) \cap Members(L[q]) = {}
    BY <1>2 DEF Apart
  <2>2. CASE p # k /\ q # k
    BY <2>1, <2>2 DEF Shrinks
  <2>3. CASE p = k /\ q # k
    BY <2>1, <2>3 DEF Shrinks, Gains
  <2>4. CASE p # k /\ q = k
    BY <2>1, <2>4 DEF Shrinks, Gains
  <2> QED
    BY <1>2, <2>2, <2>3, <2>4
<1> QED
  BY <1>1, <1>2 DEF Apart

Stages == Questions \cup Way
\* Where a message may get in one step.
Targets == {{"wire"}, {"timeline"}, {"reacting"}, {"updates"}, {"inbound", "accepted"},
            {"forwards"}, {"outbound"}, {"sending"}, {"commands"}, {"delivered"}}

\* The message n gets to K, and nothing else does anywhere.
Gets(n, K) ==
    /\ \A p \in K : Gains(Lines[p], Lines[p]', n)
    /\ \A p \in Stages \ K : Shrinks(Lines[p], Lines[p]')

LEMMA LinesShrink ==
    ASSUME LineInv, said \in Nat, said' \in Nat, said <= said',
           \A p \in Stages : Shrinks(Lines[p], Lines[p]')
    PROVE  LineInv'
<1>1. PICK L : L = Lines
  OBVIOUS
<1>2. PICK M : M = Lines'
  OBVIOUS
<1>3. \A p \in Stages : Shrinks(L[p], M[p]) /\ Members(L[p]) \subseteq 1..said
  BY <1>1, <1>2 DEF LineInv, Stages
<1>4. Apart(M, Questions) /\ Apart(M, Way)
  <2>1. Apart(L, Questions) /\ Apart(L, Way)
    BY <1>1 DEF LineInv
  <2> QED
    BY <1>3, <2>1, ApartShrinks DEF Stages
<1>5. ASSUME NEW p \in Stages PROVE Members(M[p]) \subseteq 1..said'
  <2>1. Members(M[p]) \subseteq 1..said
    BY <1>3 DEF Shrinks
  <2> QED
    BY <2>1
<1> QED
  BY <1>2, <1>4, <1>5 DEF LineInv, Stages

LEMMA MessageGets ==
    ASSUME LineInv, said \in Nat, said' \in Nat, said <= said',
           NEW n \in 1..said', NEW K \in Targets, Gets(n, K),
           \A p \in K : n \notin Members(Lines[p]),
           \A p \in Way \ K : n \notin Members(Lines[p]'),
           K \cap Questions # {} => \A p \in Questions \ K : n \notin Members(Lines[p]')
    PROVE  LineInv'
<1>1. PICK L : L = Lines
  OBVIOUS
<1>2. PICK M : M = Lines'
  OBVIOUS
<1>3. /\ \A p \in K : Gains(L[p], M[p], n) /\ n \notin Members(L[p])
      /\ \A p \in Stages \ K : Shrinks(L[p], M[p])
      /\ \A p \in Stages : Members(L[p]) \subseteq 1..said
      /\ Apart(L, Questions) /\ Apart(L, Way)
  BY <1>1, <1>2 DEF LineInv, Stages, Gets
<1>4. Apart(M, Way)
  <2>1. PICK k \in Way : K \cap Way = {k}
    BY DEF Targets, Way
  <2>2. \A p \in Way \ {k} : p \in Stages \ K /\ n \notin Members(M[p])
    BY <1>2, <2>1 DEF Stages
  <2> QED
    BY <1>3, <2>1, <2>2, ApartGains
<1>5. Apart(M, Questions)
  <2>1. CASE K \cap Questions = {}
    BY <1>3, <2>1, ApartShrinks DEF Stages
  <2>2. CASE K \cap Questions # {}
    <3>1. PICK k \in Questions : K \cap Questions = {k}
      BY <2>2 DEF Targets, Questions
    <3>2. \A p \in Questions \ {k} : p \in Stages \ K /\ n \notin Members(M[p])
      BY <1>2, <2>2, <3>1 DEF Stages
    <3> QED
      BY <1>3, <3>1, <3>2, ApartGains
  <2> QED
    BY <2>1, <2>2
<1>6. ASSUME NEW p \in Stages PROVE Members(M[p]) \subseteq 1..said'
  <2>1. Members(M[p]) \subseteq 1..said \cup {n}
    BY <1>3 DEF Shrinks, Gains
  <2> QED
    BY <2>1
<1> QED
  BY <1>2, <1>4, <1>5, <1>6 DEF LineInv, Stages

\* Nothing is claimed of the message.
LEMMA NothingGets ==
    ASSUME LineInv, said \in Nat, said' \in Nat, said <= said', NEW K \in Targets, Gets(0, K)
    PROVE  LineInv'
<1>1. \A p \in Stages : Shrinks(Lines[p], Lines[p]')
  BY GainsNothing DEF Gets
<1> QED
  BY <1>1, LinesShrink

LEMMA NumberEnters ==
    ASSUME LineInv, said \in Nat, said' = said + 1, NEW K \in Targets, Gets(said + 1, K)
    PROVE  LineInv'
<1>1. K \subseteq Stages
  BY DEF Targets, Stages, Questions, Way
<1>2. \A p \in Stages : said + 1 \notin Members(Lines[p])
  BY DEF LineInv, Stages
<1>3. \A p \in Stages \ K : said + 1 \notin Members(Lines[p]')
  BY <1>2 DEF Gets, Shrinks
<1>4. said + 1 \in 1..said' /\ said' \in Nat /\ said <= said'
  OBVIOUS
<1> QED
  BY <1>1, <1>2, <1>3, <1>4, MessageGets DEF Stages

\* A new message.
LEMMA MessageEnters ==
    ASSUME LineInv, said \in Nat, said' = said + 1, NEW K \in Targets,
           Gets(Once(said + 1), K)
    PROVE  LineInv'
<1>1. CASE Once(said + 1) = 0
  BY <1>1, NothingGets
<1>2. CASE Once(said + 1) # 0
  <2>1. Once(said + 1) = said + 1
    BY <1>2 DEF Once
  <2> QED
    BY <2>1, NumberEnters
<1> QED
  BY <1>1, <1>2

\* A message goes from one stage to the next.
LEMMA NumberMoves ==
    ASSUME LineInv, said \in Nat, said' = said, NEW K \in Targets,
           NEW s \in Way \ K, K \cap Questions # {} => s \in Questions,
           NEW n, n # 0, Loses(Lines[s], Lines[s]', n), Gets(n, K)
    PROVE  LineInv'
<1>1. K \subseteq Stages /\ s \in Stages
  BY DEF Targets, Stages, Questions, Way
<1>2. n \in Members(Lines[s]) /\ n \notin Members(Lines[s]')
  BY DEF LineInv, Apart, Loses
<1>3. \A p \in Way \ {s} : n \notin Members(Lines[p])
  BY <1>2 DEF LineInv, Apart
<1>4. s \in Questions => \A p \in Questions \ {s} : n \notin Members(Lines[p])
  BY <1>2 DEF LineInv, Apart
<1>5. n \in 1..said' /\ said' \in Nat /\ said <= said'
  BY <1>1, <1>2 DEF LineInv, Stages
<1>6. \A p \in K : n \notin Members(Lines[p])
  BY <1>3, <1>4 DEF Targets, Questions, Way
<1>7. \A p \in Way \ K : n \notin Members(Lines[p]')
  BY <1>2, <1>3 DEF Gets, Shrinks, Stages
<1>8. K \cap Questions # {} => \A p \in Questions \ K : n \notin Members(Lines[p]')
  BY <1>2, <1>4 DEF Gets, Shrinks, Stages
<1> QED
  BY <1>5, <1>6, <1>7, <1>8, MessageGets

LEMMA MessageMoves ==
    ASSUME LineInv, said \in Nat, said' = said, NEW K \in Targets,
           NEW s \in Way \ K, K \cap Questions # {} => s \in Questions,
           NEW n, Loses(Lines[s], Lines[s]', n), Gets(n, K)
    PROVE  LineInv'
<1>1. CASE n = 0
  BY <1>1, NothingGets
<1>2. CASE n # 0
  BY <1>2, NumberMoves
<1> QED
  BY <1>1, <1>2

-----------------------------------------------------------------------------
(* The lines of the queues                                                 *)

LEMMA AppendNumbers ==
    ASSUME NEW S, NEW q \in Seq(S), NEW m \in S
    PROVE  /\ Gains(Ids(q), Ids(Append(q, m)), Once(m.id))
           /\ Gains(Ofs(q), Ofs(Append(q, m)), Once(m.of))
<1> DEFINE r == Append(q, m)
           k == Len(q)
<1>1. /\ r \in Seq(S) /\ Len(r) = k + 1 /\ r[k + 1] = m /\ k \in Nat
      /\ \A i \in 1..k : r[i] = q[i]
  BY AppendProperties
<1>2. DOMAIN q = 1..k /\ DOMAIN r = 1..(k + 1)
  BY <1>1
<1> HIDE DEF r, k
<1>3. /\ DOMAIN Ids(q) = 1..k /\ DOMAIN Ids(r) = 1..(k + 1)
      /\ \A i \in 1..k : Ids(r)[i] = Ids(q)[i]
      /\ Ids(r)[k + 1] = Once(m.id)
  BY <1>1, <1>2 DEF Ids
<1>4. /\ DOMAIN Ofs(q) = 1..k /\ DOMAIN Ofs(r) = 1..(k + 1)
      /\ \A i \in 1..k : Ofs(r)[i] = Ofs(q)[i]
      /\ Ofs(r)[k + 1] = Once(m.of)
  BY <1>1, <1>2 DEF Ofs
<1>5. Gains(Ids(q), Ids(r), Once(m.id))
  BY <1>1, <1>3, AppendLine
<1>6. Gains(Ofs(q), Ofs(r), Once(m.of))
  BY <1>1, <1>4, AppendLine
<1> QED
  BY <1>5, <1>6 DEF r

LEMMA TailNumbers ==
    ASSUME NEW S, NEW q \in Seq(S), q # <<>>
    PROVE  /\ Shrinks(Ids(q), Ids(Tail(q))) /\ Shrinks(Ofs(q), Ofs(Tail(q)))
           /\ Loses(Ids(q), Ids(Tail(q)), Once(Head(q).id))
           /\ Loses(Ofs(q), Ofs(Tail(q)), Once(Head(q).of))
<1> DEFINE r == Tail(q)
           k == Len(q)
<1>1. /\ r \in Seq(S) /\ Len(r) = k - 1 /\ k \in Nat \ {0} /\ Head(q) = q[1]
      /\ \A i \in 1..(k - 1) : r[i] = q[i + 1]
  BY HeadTailProperties
<1>2. DOMAIN q = 1..k /\ DOMAIN r = 1..(k - 1)
  BY <1>1
<1> HIDE DEF r, k
<1>3. /\ DOMAIN Ids(q) = 1..k /\ DOMAIN Ids(r) = 1..(k - 1)
      /\ \A i \in 1..(k - 1) : Ids(r)[i] = Ids(q)[i + 1]
      /\ Ids(q)[1] = Once(Head(q).id)
  BY <1>1, <1>2 DEF Ids
<1>4. /\ DOMAIN Ofs(q) = 1..k /\ DOMAIN Ofs(r) = 1..(k - 1)
      /\ \A i \in 1..(k - 1) : Ofs(r)[i] = Ofs(q)[i + 1]
      /\ Ofs(q)[1] = Once(Head(q).of)
  BY <1>1, <1>2 DEF Ofs
<1>5. Shrinks(Ids(q), Ids(r)) /\ Loses(Ids(q), Ids(r), Once(Head(q).id))
  BY <1>1, <1>3, TailLine
<1>6. Shrinks(Ofs(q), Ofs(r)) /\ Loses(Ofs(q), Ofs(r), Once(Head(q).of))
  BY <1>1, <1>4, TailLine
<1> QED
  BY <1>5, <1>6 DEF r

\* A line changes with the state it is made of.
LEMMA LinesRest ==
    ASSUME again' = again
    PROVE  /\ wire' = wire => Lines["wire"]' = Lines["wire"]
           /\ UNCHANGED <<timeline, handled>> => Lines["timeline"]' = Lines["timeline"]
           /\ reacting' = reacting => Lines["reacting"]' = Lines["reacting"]
           /\ updates' = updates => Lines["updates"]' = Lines["updates"]
           /\ accepted' = accepted => Lines["accepted"]' = Lines["accepted"]
           /\ inbound' = inbound => Lines["inbound"]' = Lines["inbound"]
           /\ forwards' = forwards => Lines["forwards"]' = Lines["forwards"]
           /\ outbound' = outbound => Lines["outbound"]' = Lines["outbound"]
           /\ sending' = sending => Lines["sending"]' = Lines["sending"]
           /\ commands' = commands => Lines["commands"]' = Lines["commands"]
           /\ UNCHANGED <<delivered, blind>> => Lines["delivered"]' = Lines["delivered"]
BY DEF Lines, Ids, Ofs, News, Once

\* The stages the bus does not have.
Channel == {"wire", "timeline", "reacting", "updates", "forwards", "commands"}
channelStages == <<wire, timeline, handled, reacting, updates, forwards, commands>>

LEMMA HandleMessageGets ==
    ASSUME BusTypeOK, NEW m \in Heard, HandleMessage(m), UNCHANGED sendVars,
           \A p \in Channel : Shrinks(Lines[p], Lines[p]'),
           again' = again
    PROVE  \/ Gets(Once(m.id), {"inbound", "accepted"})
           \/ \A p \in Stages : Shrinks(Lines[p], Lines[p]')
<1>1. inbound \in Seq(Heard) /\ accepted \in Seq(Heard)
  BY DEF BusTypeOK
<1>2. \A p \in {"outbound", "sending", "delivered"} : Lines[p]' = Lines[p]
  BY LinesRest DEF sendVars
<1>3. \A p \in {"outbound", "sending", "delivered"} : Shrinks(Lines[p], Lines[p]')
  BY <1>2, SameLine
<1>4. CASE m.chat \in Refused
  <2>1. \A p \in {"inbound", "accepted"} : Lines[p]' = Lines[p]
    BY <1>4, LinesRest DEF HandleMessage
  <2>2. \A p \in {"inbound", "accepted"} : Shrinks(Lines[p], Lines[p]')
    BY <2>1, SameLine
  <2> QED
    BY <1>3, <2>2 DEF Stages, Questions, Way, Channel
<1>5. CASE m.chat \notin Refused
  <2>1. inbound' = Append(inbound, m) /\ accepted' = Append(accepted, m)
    BY <1>5 DEF HandleMessage
  <2>2. /\ Lines["inbound"] = Ids(inbound) /\ Lines["accepted"] = Ids(accepted)
        /\ Lines["inbound"]' = Ids(Append(inbound, m)) /\ Lines["accepted"]' = Ids(Append(accepted, m))
    BY <2>1 DEF Lines, Ids, Once
  <2>3. \A p \in {"inbound", "accepted"} : Gains(Lines[p], Lines[p]', Once(m.id))
    BY <1>1, <2>2, AppendNumbers
  <2> QED
    BY <1>3, <2>3 DEF Gets, Stages, Questions, Way, Channel
<1> QED
  BY <1>4, <1>5

-----------------------------------------------------------------------------
(* The lines in the steps of the bus                                       *)

LEMMA SendingLoses ==
    ASSUME BusTypeOK, sending # NoMessage, sending' = NoMessage,
           again' = again
    PROVE  /\ Shrinks(Lines["sending"], Lines["sending"]')
           /\ Loses(Lines["sending"], Lines["sending"]', Once(sending.of))
<1>1. sending \in Outbound /\ sending.of # 0
  BY DEF BusTypeOK, Outbound
<1>2. /\ Lines["sending"] = [m \in {sending} |-> Once(m.of)]
      /\ Lines["sending"]' = [m \in {} |-> Once(m.of)]
  BY DEF Lines
<1>3. PICK f : f = Lines["sending"]
  OBVIOUS
<1>4. PICK g : g = Lines["sending"]'
  OBVIOUS
<1>5. PICK s : s = sending
  OBVIOUS
<1>6. s \in DOMAIN f /\ f[s] = Once(s.of) /\ DOMAIN f = {s} /\ DOMAIN g = {}
  BY <1>1, <1>2, <1>3, <1>4, <1>5
<1>7. Shrinks(f, g) /\ Loses(f, g, Once(s.of))
  BY <1>6, LineLosesKey
<1> QED
  BY <1>3, <1>4, <1>5, <1>7

LEMMA OutboundGets ==
    ASSUME BusTypeOK, NEW ch \in Names, NEW c \in Chats, NEW n \in Nat \ {0}, Publish(ch, c, n),
           again' = again
    PROVE  Gains(Lines["outbound"], Lines["outbound"]', Once(n))
<1> DEFINE m == [channel |-> ch, chat |-> c, of |-> n, no |-> published + 1]
<1>1. outbound \in Seq(Outbound) /\ m \in Outbound /\ m.of = n
  BY DEF BusTypeOK, Outbound
<1>2. outbound' = Append(outbound, m)
  BY DEF Publish
<1> HIDE DEF m
<1>3. Lines["outbound"] = Ofs(outbound) /\ Lines["outbound"]' = Ofs(Append(outbound, m))
  BY <1>2 DEF Lines, Ofs, Once
<1>4. Gains(Ofs(outbound), Ofs(Append(outbound, m)), Once(m.of))
  BY <1>1, AppendNumbers
<1> QED
  BY <1>1, <1>3, <1>4

LEMMA AnswerLines ==
    ASSUME BusTypeOK, LineInv, Answer, UNCHANGED channelStages, again' = again
    PROVE  LineInv'
<1>1. /\ inbound \in Seq(Heard) /\ inbound # <<>> /\ inbound' = Tail(inbound)
      /\ Publish(Head(inbound).channel, Head(inbound).chat, Head(inbound).id)
      /\ UNCHANGED <<sending, delivered, accepted, said, blind>>
  BY DEF Answer, BusTypeOK
<1>2. PICK n : n = Head(inbound).id
  OBVIOUS
<1>3. /\ Head(inbound).channel \in Names /\ Head(inbound).chat \in Chats
      /\ n \in Nat \ {0}
  <2>1. Head(inbound) \in Heard
    BY <1>1, HeadTailProperties
  <2> QED
    BY <1>2, <2>1 DEF Heard
<1>4. Gains(Lines["outbound"], Lines["outbound"]', Once(n))
  BY <1>1, <1>2, <1>3, OutboundGets
<1>5. /\ Shrinks(Lines["inbound"], Lines["inbound"]')
      /\ Loses(Lines["inbound"], Lines["inbound"]', Once(n))
  <2>1. Lines["inbound"] = Ids(inbound) /\ Lines["inbound"]' = Ids(Tail(inbound))
    BY <1>1 DEF Lines, Ids, Once
  <2>2. Shrinks(Ids(inbound), Ids(Tail(inbound))) /\ Loses(Ids(inbound), Ids(Tail(inbound)), Once(n))
    BY <1>1, <1>2, <1>3, TailNumbers
  <2> QED
    BY <2>1, <2>2
<1>6. \A p \in Stages \ {"inbound", "outbound"} : Lines[p]' = Lines[p]
  BY <1>1, LinesRest DEF Stages, Questions, Way, channelStages
<1>7. \A p \in Stages \ {"inbound", "outbound"} : Shrinks(Lines[p], Lines[p]')
  BY <1>6, SameLine
<1>8. Gets(Once(n), {"outbound"})
  BY <1>4, <1>5, <1>7 DEF Gets
<1>9. {"outbound"} \in Targets /\ "inbound" \in Way \ {"outbound"} /\ {"outbound"} \cap Questions = {}
  BY DEF Targets, Way, Questions
<1>10. said \in Nat
  BY DEF BusTypeOK
<1> QED
  BY <1>1, <1>5, <1>8, <1>9, <1>10, MessageMoves

LEMMA NoteLines ==
    ASSUME BusTypeOK, LineInv, NEW ch \in enabled \cup {Unserved}, NEW c \in Chats, Note(ch, c),
           UNCHANGED channelStages, again' = again
    PROVE  LineInv'
<1>1. ch \in Names /\ said \in Nat
  BY DEF BusTypeOK, Names
<1>2. /\ said' = said + 1 /\ Publish(ch, c, said + 1)
      /\ UNCHANGED <<inbound, sending, delivered, accepted, blind>>
  BY DEF Note
<1>3. Gains(Lines["outbound"], Lines["outbound"]', Once(said + 1))
  BY <1>1, <1>2, OutboundGets
<1>4. \A p \in Stages \ {"outbound"} : Lines[p]' = Lines[p]
  BY <1>2, LinesRest DEF Stages, Questions, Way, channelStages
<1>5. \A p \in Stages \ {"outbound"} : Shrinks(Lines[p], Lines[p]')
  BY <1>4, SameLine
<1>6. Gets(Once(said + 1), {"outbound"}) /\ {"outbound"} \in Targets
  BY <1>3, <1>5 DEF Gets, Targets
<1> QED
  BY <1>1, <1>2, <1>6, MessageEnters

LEMMA DispatchLines ==
    ASSUME BusTypeOK, LineInv, Dispatch, UNCHANGED channelStages, again' = again
    PROVE  LineInv'
<1>1. /\ outbound \in Seq(Outbound) /\ outbound # <<>> /\ outbound' = Tail(outbound)
      /\ sending = NoMessage
      /\ sending' = IF Head(outbound).channel \in enabled THEN Head(outbound) ELSE NoMessage
      /\ UNCHANGED <<inbound, delivered, accepted, said, blind>>
  BY DEF Dispatch, BusTypeOK
<1>2. PICK m : m = Head(outbound)
  OBVIOUS
<1>3. m \in Outbound /\ m # NoMessage /\ m.of # 0
  <2>1. m \in Outbound
    BY <1>1, <1>2, HeadTailProperties
  <2> QED
    BY <2>1, NoMessageAssumption DEF Outbound
<1>4. /\ Shrinks(Lines["outbound"], Lines["outbound"]')
      /\ Loses(Lines["outbound"], Lines["outbound"]', Once(m.of))
  <2>1. Lines["outbound"] = Ofs(outbound) /\ Lines["outbound"]' = Ofs(Tail(outbound))
    BY <1>1 DEF Lines, Ofs, Once
  <2>2. /\ Shrinks(Ofs(outbound), Ofs(Tail(outbound)))
        /\ Loses(Ofs(outbound), Ofs(Tail(outbound)), Once(m.of))
    BY <1>1, <1>2, <1>3, TailNumbers
  <2> QED
    BY <2>1, <2>2
<1>5. \A p \in Stages \ {"sending", "outbound"} : Lines[p]' = Lines[p]
  BY <1>1, LinesRest DEF Stages, Questions, Way, channelStages
<1>6. \A p \in Stages \ {"sending", "outbound"} : Shrinks(Lines[p], Lines[p]')
  BY <1>5, SameLine
<1>7. said \in Nat
  BY DEF BusTypeOK
<1>8. CASE sending' = NoMessage
  <2>1. Lines["sending"]' = Lines["sending"]
    BY <1>1, <1>8, LinesRest
  <2>2. \A p \in Stages : Shrinks(Lines[p], Lines[p]')
    BY <1>4, <1>6, <2>1, SameLine DEF Stages
  <2> QED
    BY <1>1, <1>7, <2>2, LinesShrink
<1>9. CASE sending' = m
  <2>1. /\ Lines["sending"] = [k \in {} |-> Once(k.of)]
        /\ Lines["sending"]' = [k \in {m} |-> Once(k.of)]
    BY <1>1, <1>3, <1>9 DEF Lines, Once
  <2>2. PICK f : f = Lines["sending"]
    OBVIOUS
  <2>3. PICK g : g = Lines["sending"]'
    OBVIOUS
  <2>4. DOMAIN f = {} /\ DOMAIN g = {m} /\ g[m] = Once(m.of)
    BY <2>1, <2>2, <2>3
  <2>5. Gains(f, g, g[m])
    BY <2>4, LineGainsKey
  <2>6. Gets(Once(m.of), {"sending"})
    BY <1>4, <1>6, <2>2, <2>3, <2>4, <2>5 DEF Gets
  <2>7. {"sending"} \in Targets /\ "outbound" \in Way \ {"sending"} /\ {"sending"} \cap Questions = {}
    BY DEF Targets, Way, Questions
  <2> QED
    BY <1>1, <1>4, <1>7, <2>6, <2>7, MessageMoves
<1> QED
  BY <1>1, <1>2, <1>8, <1>9

\* A platform takes a message and says so.
LEMMA DeliveredGets ==
    ASSUME BusTypeOK, NEW m \in Outbound, delivered' = Append(delivered, m), blind' = blind,
           again' = again
    PROVE  \/ Gains(Lines["delivered"], Lines["delivered"]', Once(m.of))
           \/ Lines["delivered"]' = Lines["delivered"]
<1>1. delivered \in Seq(Outbound)
  BY DEF BusTypeOK
<1>2. CASE blind
  BY <1>2 DEF Lines
<1>3. CASE ~blind
  <2>1. Lines["delivered"] = Ofs(delivered) /\ Lines["delivered"]' = Ofs(Append(delivered, m))
    BY <1>3 DEF Lines, Ofs, Once
  <2> QED
    BY <1>1, <2>1, AppendNumbers
<1> QED
  BY <1>2, <1>3

\* A message of a stage s is delivered, or lost.
LEMMA Delivers ==
    ASSUME BusTypeOK, LineInv, NEW m \in Outbound,
           NEW s \in {"sending", "forwards", "commands"},
           said' = said, delivered' = Append(delivered, m), blind' = blind,
           Shrinks(Lines[s], Lines[s]'), Loses(Lines[s], Lines[s]', Once(m.of)),
           \A p \in Stages \ {s, "delivered"} : Lines[p]' = Lines[p],
           again' = again
    PROVE  LineInv'
<1>1. said \in Nat
  BY DEF BusTypeOK
<1>2. \A p \in Stages \ {"delivered"} : Shrinks(Lines[p], Lines[p]')
  BY SameLine
<1>3. CASE Gains(Lines["delivered"], Lines["delivered"]', Once(m.of))
  <2>1. Gets(Once(m.of), {"delivered"})
    BY <1>2, <1>3 DEF Gets
  <2>2. /\ {"delivered"} \in Targets /\ s \in Way \ {"delivered"}
        /\ {"delivered"} \cap Questions = {}
    BY DEF Targets, Way, Questions
  <2> QED
    BY <1>1, <2>1, <2>2, MessageMoves
<1>4. CASE Lines["delivered"]' = Lines["delivered"]
  <2>1. \A p \in Stages : Shrinks(Lines[p], Lines[p]')
    BY <1>2, <1>4, SameLine
  <2> QED
    BY <1>1, <2>1, LinesShrink
<1> QED
  BY <1>3, <1>4, DeliveredGets

\* After an error that is none, what is delivered counts no more.
LEMMA BlindShrinks ==
    ASSUME blind' = TRUE \/ UNCHANGED <<delivered, blind>>,
           again' = again
    PROVE  Shrinks(Lines["delivered"], Lines["delivered"]')
<1>1. CASE UNCHANGED <<delivered, blind>>
  BY <1>1, LinesRest, SameLine
<1>2. CASE blind' = TRUE
  <2>1. PICK f : f = Lines["delivered"]
    OBVIOUS
  <2>2. PICK g : g = Lines["delivered"]'
    OBVIOUS
  <2>3. g = <<>>
    BY <1>2, <2>2 DEF Lines
  <2>4. DOMAIN g = {}
    BY <2>3
  <2>5. Shrinks(f, g)
    BY <2>4, PartOfLine
  <2> QED
    BY <2>1, <2>2, <2>5
<1> QED
  BY <1>1, <1>2

LEMMA AttemptLines ==
    ASSUME BusTypeOK, LineInv, NEW ch, NEW limit, Attempt(ch, limit), UNCHANGED channelStages, again' = again
    PROVE  LineInv'
<1>1. /\ sending # NoMessage /\ sending \in Outbound
      /\ UNCHANGED <<inbound, accepted, said>> /\ said \in Nat
  BY DEF Attempt, BusTypeOK
<1>2. /\ sending' = NoMessage =>
            /\ Shrinks(Lines["sending"], Lines["sending"]')
            /\ Loses(Lines["sending"], Lines["sending"]', Once(sending.of))
      /\ sending' = sending => Shrinks(Lines["sending"], Lines["sending"]')
  BY <1>1, SendingLoses, LinesRest, SameLine
<1>3. CASE /\ delivered' = Append(delivered, sending) /\ Done(limit)
           /\ UNCHANGED <<outbound, blind, faults>>
  <2>1. sending' = NoMessage
    BY <1>3 DEF Done, SendEnds
  <2>2. \A p \in Stages \ {"sending", "delivered"} : Lines[p]' = Lines[p]
    BY <1>1, <1>3, LinesRest DEF Stages, Questions, Way, channelStages
  <2> QED
    BY <1>1, <1>2, <1>3, <2>1, <2>2, Delivers
<1>4. CASE /\ Fails(ch)
           /\ \/ UNCHANGED <<delivered, blind>>
              \/ delivered' = Append(delivered, sending) /\ blind' = TRUE
           /\ IF tries + 1 < limit
              THEN tries' = tries + 1 /\ UNCHANGED <<sending, outbound>>
              ELSE Dropped(outbound, sending)
  <2>1. outbound' = outbound /\ (sending' = sending \/ sending' = NoMessage)
    BY <1>4 DEF Dropped, SendEnds
  <2>2. \A p \in Stages \ {"sending", "delivered"} : Lines[p]' = Lines[p]
    BY <1>1, <2>1, LinesRest DEF Stages, Questions, Way, channelStages
  <2>3. Shrinks(Lines["delivered"], Lines["delivered"]')
    BY <1>4, BlindShrinks
  <2>4. \A p \in Stages : Shrinks(Lines[p], Lines[p]')
    BY <1>2, <2>1, <2>2, <2>3, SameLine
  <2> QED
    BY <1>1, <2>4, LinesShrink
<1> QED
  BY <1>3, <1>4 DEF Attempt

-----------------------------------------------------------------------------
(* The lines in the steps of the channels                                  *)

LEMMA QuietLines ==
    ASSUME BusTypeOK, LineInv, UNCHANGED <<inbound, accepted, said, sendVars>>,
           \A p \in Channel : Shrinks(Lines[p], Lines[p]'),
           again' = again
    PROVE  LineInv'
<1>1. \A p \in Stages \ Channel : Lines[p]' = Lines[p]
  BY LinesRest DEF Stages, Questions, Way, Channel, sendVars
<1>2. \A p \in Stages : Shrinks(Lines[p], Lines[p]')
  BY <1>1, SameLine
<1>3. said \in Nat /\ said' = said
  BY DEF BusTypeOK
<1> QED
  BY <1>2, <1>3, LinesShrink

LEMMA StillLines ==
    ASSUME BusTypeOK, LineInv, UNCHANGED <<inbound, accepted, said, sendVars>>,
           UNCHANGED channelStages, again' = again
    PROVE  LineInv'
<1>1. \A p \in Channel : Lines[p]' = Lines[p]
  BY LinesRest DEF Channel, channelStages
<1>2. \A p \in Channel : Shrinks(Lines[p], Lines[p]')
  BY <1>1, SameLine
<1> QED
  BY <1>2, QuietLines

\* A channel keeps what a user says.
LEMMA KeptLines ==
    ASSUME BusTypeOK, LineInv, NEW k \in Channel \ {"commands"},
           UNCHANGED <<inbound, accepted, sendVars>>, said' = said + 1,
           Gains(Lines[k], Lines[k]', Once(said + 1)),
           \A p \in Channel \ {k} : Lines[p]' = Lines[p],
           again' = again
    PROVE  LineInv'
<1>1. \A p \in Stages \ Channel : Lines[p]' = Lines[p]
  BY LinesRest DEF Stages, Questions, Way, Channel, sendVars
<1>2. \A p \in Stages \ {k} : Shrinks(Lines[p], Lines[p]')
  BY <1>1, SameLine
<1>3. Gets(Once(said + 1), {k}) /\ {k} \in Targets
  BY <1>2 DEF Gets, Targets, Channel
<1>4. said \in Nat
  BY DEF BusTypeOK
<1> QED
  BY <1>3, <1>4, MessageEnters

\* The agent's queue gets a message that a channel has kept.
LEMMA ArrivingLines ==
    ASSUME BusTypeOK, LineInv, NEW m \in Heard, HandleMessage(m), UNCHANGED <<said, sendVars>>,
           NEW s \in {"wire", "timeline", "reacting", "updates"},
           Shrinks(Lines[s], Lines[s]'), Loses(Lines[s], Lines[s]', Once(m.id)),
           \A p \in Channel \ {s} : Lines[p]' = Lines[p],
           again' = again
    PROVE  LineInv'
<1>1. \A p \in Channel : Shrinks(Lines[p], Lines[p]')
  BY SameLine
<1>2. said \in Nat /\ said' = said
  BY DEF BusTypeOK
<1>3. CASE Gets(Once(m.id), {"inbound", "accepted"})
  <2>1. /\ {"inbound", "accepted"} \in Targets /\ s \in Way \ {"inbound", "accepted"}
        /\ s \in Questions
    BY DEF Targets, Way, Questions
  <2> QED
    BY <1>2, <1>3, <2>1, MessageMoves
<1>4. CASE \A p \in Stages : Shrinks(Lines[p], Lines[p]')
  BY <1>2, <1>4, LinesShrink
<1> QED
  BY <1>1, <1>3, <1>4, HandleMessageGets

\* The agent's queue gets what a user says at once.
LEMMA StraightLines ==
    ASSUME BusTypeOK, LineInv, NEW m \in Heard, HandleMessage(m), m.id = said + 1,
           said' = said + 1, UNCHANGED sendVars, UNCHANGED channelStages, again' = again
    PROVE  LineInv'
<1>1. \A p \in Channel : Lines[p]' = Lines[p]
  BY LinesRest DEF Channel, channelStages
<1>2. \A p \in Channel : Shrinks(Lines[p], Lines[p]')
  BY <1>1, SameLine
<1>3. said \in Nat
  BY DEF BusTypeOK
<1>4. CASE Gets(Once(m.id), {"inbound", "accepted"})
  <2>1. {"inbound", "accepted"} \in Targets
    BY DEF Targets
  <2> QED
    BY <1>3, <1>4, <2>1, MessageEnters
<1>5. CASE \A p \in Stages : Shrinks(Lines[p], Lines[p]')
  BY <1>3, <1>5, LinesShrink
<1> QED
  BY <1>2, <1>4, <1>5, HandleMessageGets

LEMMA HttpLines ==
    ASSUME BusTypeOK, LineInv, HttpNext, UNCHANGED channelStages, again' = again
    PROVE  LineInv'
<1>1. ASSUME NEW raw \in ChatIds, HandleInbound(raw) PROVE LineInv'
  <2>3. PICK c \in Chats : c = Str(raw)
    BY TextOfChatId
  <2>1. /\ Says("http_inbound") /\ HandleMessage(Latest("http_inbound", c))
        /\ UNCHANGED sendVars
    BY <1>1, <2>3 DEF HandleInbound
  <2>2. /\ Latest("http_inbound", c) \in Heard /\ Latest("http_inbound", c).id = said + 1
        /\ said' = said + 1
    BY <2>1, LatestIsHeard DEF Says
  <2> QED
    BY <2>1, <2>2, StraightLines
<1>2. CASE HttpSend
  <2>1. /\ sending # NoMessage /\ sending' = NoMessage
        /\ UNCHANGED <<inbound, outbound, delivered, accepted, said, blind>>
    BY <1>2 DEF HttpSend, SendEnds
  <2>2. \A p \in Stages \ {"sending"} : Lines[p]' = Lines[p]
    BY <2>1, LinesRest DEF Stages, Questions, Way, channelStages
  <2>3. \A p \in Stages : Shrinks(Lines[p], Lines[p]')
    BY <2>1, <2>2, SendingLoses, SameLine
  <2>4. said \in Nat
    BY DEF BusTypeOK
  <2> QED
    BY <2>1, <2>3, <2>4, LinesShrink
<1>3. ASSUME NEW f \in DOMAIN requests, Respond(f) \/ TimeOut(f) PROVE LineInv'
  <2>1. UNCHANGED <<inbound, accepted, said, sendVars>>
    BY <1>3 DEF Respond, TimeOut, Return, busVars, sendVars
  <2> QED
    BY <2>1, StillLines
<1>4. ASSUME NEW raw \in ChatIds, HandleInboundRaises(raw) PROVE LineInv'
  <2>1. UNCHANGED <<inbound, accepted, sendVars>> /\ said' = said + 1 /\ said \in Nat
    BY <1>4 DEF HandleInboundRaises, Says, BusTypeOK
  <2>2. \A p \in Stages : Lines[p]' = Lines[p]
    BY <2>1, LinesRest DEF Stages, Questions, Way, channelStages, sendVars
  <2>3. \A p \in Stages : Shrinks(Lines[p], Lines[p]')
    BY <2>2, SameLine
  <2> QED
    BY <2>1, <2>3, LinesShrink
<1> QED
  BY <1>1, <1>2, <1>3, <1>4 DEF HttpNext

LEMMA DiscordLines ==
    ASSUME BusTypeOK, LineInv, DiscordNext, UNCHANGED channelStages, again' = again
    PROVE  LineInv'
<1>1. CASE Connect \/ Hello \/ GatewayCloses \/ BeatFails
  <2>1. UNCHANGED <<inbound, accepted, said, sendVars>>
    BY <1>1 DEF Connect, Hello, GatewayCloses, BeatFails, busVars, sendVars
  <2> QED
    BY <2>1, StillLines
<1>2. ASSUME NEW c \in Chats, MessageCreate(c) PROVE LineInv'
  <2>1. /\ Says("discord") /\ HandleMessage(Latest("discord", c))
        /\ UNCHANGED sendVars
    BY <1>2 DEF MessageCreate
  <2>2. /\ Latest("discord", c) \in Heard /\ Latest("discord", c).id = said + 1
        /\ said' = said + 1
    BY <2>1, LatestIsHeard DEF Says
  <2> QED
    BY <2>1, <2>2, StraightLines
<1>3. CASE DiscordSend
  BY <1>3, AttemptLines DEF DiscordSend
<1> QED
  BY <1>1, <1>2, <1>3 DEF DiscordNext

LEMMA TelegramLines ==
    ASSUME BusTypeOK, TelegramTypeOK, LineInv, TelegramNext,
           UNCHANGED <<wire, timeline, handled, reacting, forwards, commands, again>>
    PROVE  LineInv'
<1>1. updates \in Seq(Heard)
  BY DEF TelegramTypeOK
<1>2. \A p \in Channel \ {"updates"} : Lines[p]' = Lines[p]
  BY LinesRest DEF Channel
<1>3. ASSUME NEW c \in Chats, TelegramSays(c) PROVE LineInv'
  <2>1. /\ Says("telegram") /\ updates' = Append(updates, Latest("telegram", c))
        /\ UNCHANGED <<inbound, accepted, sendVars>>
    BY <1>3 DEF TelegramSays
  <2>2. /\ Latest("telegram", c) \in Heard /\ Latest("telegram", c).id = said + 1
        /\ said' = said + 1
    BY <2>1, LatestIsHeard DEF Says
  <2>3. Gains(Ids(updates), Ids(Append(updates, Latest("telegram", c))), Once(said + 1))
    BY <1>1, <2>2, AppendNumbers
  <2>4. Gains(Lines["updates"], Lines["updates"]', Once(said + 1))
    BY <2>1, <2>3 DEF Lines, Ids, Once
  <2>5. "updates" \in Channel \ {"commands"}
    BY DEF Channel
  <2> QED
    BY <1>2, <2>1, <2>2, <2>4, <2>5, KeptLines
<1>4. CASE StartPolling
  <2>1. PICK f : f = Lines["updates"]
    OBVIOUS
  <2>2. PICK g : g = Lines["updates"]'
    OBVIOUS
  <2>3. DOMAIN g = {}
    BY <1>4, <2>2 DEF StartPolling, Lines, Ids
  <2>4. Shrinks(f, g)
    BY <2>3, PartOfLine
  <2>5. \A p \in Channel : Shrinks(Lines[p], Lines[p]')
    BY <1>2, <2>1, <2>2, <2>4, SameLine
  <2>6. UNCHANGED <<inbound, accepted, said, sendVars>>
    BY <1>4 DEF StartPolling, busVars, sendVars
  <2> QED
    BY <2>5, <2>6, QuietLines
<1>5. CASE StartRaises
  <2>1. UNCHANGED <<inbound, accepted, said, sendVars>> /\ UNCHANGED channelStages
    BY <1>5 DEF StartRaises, channelStages
  <2> QED
    BY <2>1, StillLines
<1>6. CASE OnUpdate
  <2>1. /\ updates # <<>> /\ updates' = Tail(updates) /\ HandleMessage(Head(updates))
        /\ UNCHANGED <<said, sendVars>>
    BY <1>6 DEF OnUpdate
  <2>2. Head(updates) \in Heard /\ Head(updates).id # 0
    <3>1. Head(updates) \in Heard
      BY <1>1, <2>1, HeadTailProperties
    <3> QED
      BY <3>1 DEF Heard
  <2>3. /\ Shrinks(Ids(updates), Ids(Tail(updates)))
        /\ Loses(Ids(updates), Ids(Tail(updates)), Once(Head(updates).id))
    BY <1>1, <2>1, <2>2, TailNumbers
  <2>4. Lines["updates"] = Ids(updates) /\ Lines["updates"]' = Ids(Tail(updates))
    BY <2>1 DEF Lines, Ids, Once
  <2> QED
    BY <1>2, <2>1, <2>2, <2>3, <2>4, ArrivingLines
<1>7. CASE TelegramSend
  <2>1. UNCHANGED channelStages
    BY <1>7 DEF TelegramSend, telegramVars, channelStages
  <2> QED
    BY <1>7, <2>1, AttemptLines DEF TelegramSend
<1> QED
  BY <1>3, <1>4, <1>5, <1>6, <1>7 DEF TelegramNext

LEMMA NextcloudLines ==
    ASSUME BusTypeOK, NextcloudTypeOK, LineInv, NextcloudNext,
           UNCHANGED <<wire, timeline, handled, reacting, updates, commands, again>>
    PROVE  LineInv'
<1>1. forwards \in Seq(Heard)
  BY DEF NextcloudTypeOK
<1>2. \A p \in Channel \ {"forwards"} : Lines[p]' = Lines[p]
  BY LinesRest DEF Channel
<1>3. ASSUME NEW c \in Chats, Webhook(c) PROVE LineInv'
  <2> DEFINE m == Latest("nextcloud_talk", c)
  <2>1. /\ Says("nextcloud_talk") /\ UNCHANGED sendVars
        /\ IF bridged THEN forwards' = Append(forwards, m) /\ UNCHANGED <<inbound, accepted>>
           ELSE HandleMessage(m) /\ UNCHANGED forwards
    BY <1>3 DEF Webhook
  <2>2. m \in Heard /\ m.id = said + 1 /\ said' = said + 1
    BY <2>1, LatestIsHeard DEF Says
  <2> HIDE DEF m
  <2>3. CASE bridged
    <3>1. Gains(Ids(forwards), Ids(Append(forwards, m)), Once(said + 1))
      BY <1>1, <2>2, AppendNumbers
    <3>2. Gains(Lines["forwards"], Lines["forwards"]', Once(said + 1))
      BY <2>1, <2>3, <3>1 DEF Lines, Ids, Once
    <3>3. "forwards" \in Channel \ {"commands"}
      BY DEF Channel
    <3> QED
      BY <1>2, <2>1, <2>2, <2>3, <3>2, <3>3, KeptLines
  <2>4. CASE ~bridged
    <3>1. UNCHANGED channelStages
      BY <2>1, <2>4 DEF channelStages
    <3> QED
      BY <2>1, <2>2, <2>4, <3>1, StraightLines
  <2> QED
    BY <2>3, <2>4
<1>4. CASE Forward
  <2>1. /\ forwards # <<>> /\ forwards' = Tail(forwards)
        /\ UNCHANGED <<inbound, outbound, sending, accepted, said>>
    BY <1>4 DEF Forward
  <2>2. PICK m : m = PastTheQueue(Head(forwards))
    OBVIOUS
  <2>3. m \in Outbound /\ m.of = Head(forwards).id /\ m.of # 0
    <3>1. Head(forwards) \in Heard
      BY <1>1, <2>1, HeadTailProperties
    <3> QED
      BY <2>2, <3>1 DEF PastTheQueue, Heard, Outbound
  <2>4. /\ Shrinks(Lines["forwards"], Lines["forwards"]')
        /\ Loses(Lines["forwards"], Lines["forwards"]', Once(m.of))
    <3>1. /\ Shrinks(Ids(forwards), Ids(Tail(forwards)))
          /\ Loses(Ids(forwards), Ids(Tail(forwards)), Once(m.of))
      BY <1>1, <2>1, <2>3, TailNumbers
    <3>2. Lines["forwards"] = Ids(forwards) /\ Lines["forwards"]' = Ids(Tail(forwards))
      BY <2>1 DEF Lines, Ids, Once
    <3> QED
      BY <3>1, <3>2
  <2>5. \A p \in Stages \ {"forwards", "delivered"} : Lines[p]' = Lines[p]
    BY <1>2, <2>1, LinesRest DEF Stages, Questions, Way, Channel
  <2>6. CASE delivered' = Append(delivered, m) /\ blind' = blind
    BY <2>1, <2>3, <2>4, <2>5, <2>6, Delivers
  <2>7. CASE blind' = TRUE \/ UNCHANGED <<delivered, blind>>
    <3>1. Shrinks(Lines["delivered"], Lines["delivered"]')
      BY <2>7, BlindShrinks
    <3>2. \A p \in Stages : Shrinks(Lines[p], Lines[p]')
      BY <2>4, <2>5, <3>1, SameLine
    <3>3. said \in Nat
      BY DEF BusTypeOK
    <3> QED
      BY <2>1, <3>2, <3>3, LinesShrink
  <2> QED
    BY <1>4, <2>2, <2>6, <2>7 DEF Forward
<1>5. CASE NextcloudSend
  <2>1. UNCHANGED channelStages
    BY <1>5 DEF NextcloudSend, nextcloudVars, channelStages
  <2> QED
    BY <1>5, <2>1, AttemptLines DEF NextcloudSend
<1> QED
  BY <1>3, <1>4, <1>5 DEF NextcloudNext

\* What the callbacks have seen of a batch that is given up is asked for again,
\* and nothing is claimed of it from then on.
LEMMA BatchIsGivenUp ==
    ASSUME BusTypeOK, MatrixTypeOK, LineInv, CallbackRaises,
           UNCHANGED <<wire, reacting, updates, forwards, commands>>
    PROVE  LineInv'
<1>1. /\ UNCHANGED <<inbound, accepted, said, sendVars>> /\ timeline' = timeline
      /\ handled' = token
      /\ again' = again \cup {timeline[i].id : i \in (token + 1)..handled}
  BY DEF CallbackRaises
<1>2. UNCHANGED <<outbound, sending, delivered, blind>>
  BY <1>1 DEF sendVars
<1>3. token \in Nat /\ handled \in Nat /\ Len(timeline) \in Nat /\ said \in Nat
  BY DEF MatrixTypeOK, BusTypeOK
<1>4. again \subseteq again'
  BY <1>1
<1>5. ASSUME NEW p \in Stages PROVE Shrinks(Lines[p], Lines[p]')
  <2>1. PICK f : f = Lines[p]
    OBVIOUS
  <2>2. PICK g : g = Lines[p]'
    OBVIOUS
  <2>3. \A i \in DOMAIN g : g[i] = 0 \/ (i \in DOMAIN f /\ g[i] = f[i])
    <3>1. CASE p = "inbound"
      BY <1>1, <1>4, <2>1, <2>2, <3>1 DEF Lines, Ids, Once
    <3>6. CASE p = "accepted"
      BY <1>1, <1>4, <2>1, <2>2, <3>6 DEF Lines, Ids, Once
    <3>7. CASE p = "updates"
      BY <1>4, <2>1, <2>2, <3>7 DEF Lines, Ids, Once
    <3>8. CASE p = "forwards"
      BY <1>4, <2>1, <2>2, <3>8 DEF Lines, Ids, Once
    <3>2. CASE p = "wire"
      BY <1>4, <2>1, <2>2, <3>2 DEF Lines, News, Once
    <3>3. CASE p \in {"outbound", "delivered"}
      BY <1>2, <1>4, <2>1, <2>2, <3>3 DEF Lines, Ofs, Once
    <3>4. CASE p \in {"reacting", "sending", "commands"}
      BY <1>2, <1>4, <2>1, <2>2, <3>4 DEF Lines, Once
    <3>5. CASE p = "timeline"
      <4>1. /\ f = [i \in (handled + 1)..Len(timeline) |-> Once(timeline[i].id)]
            /\ g = [i \in (token + 1)..Len(timeline) |->
                       IF timeline[i].id \in again' THEN 0 ELSE timeline[i].id]
        BY <1>1, <2>1, <2>2, <3>5 DEF Lines, Once
      <4>2. ASSUME NEW i \in DOMAIN g PROVE g[i] = 0 \/ (i \in DOMAIN f /\ g[i] = f[i])
        <5>1. CASE i \in (token + 1)..handled
          BY <1>1, <4>1, <5>1
        <5>2. CASE i \in (handled + 1)..Len(timeline)
          BY <1>4, <4>1, <5>2 DEF Once
        <5> QED
          BY <1>3, <4>1, <5>1, <5>2
      <4> QED
        BY <4>2
    <3> QED
      BY <3>1, <3>2, <3>3, <3>4, <3>5, <3>6, <3>7, <3>8 DEF Stages, Questions, Way
  <2> QED
    BY <2>1, <2>2, <2>3, LineFades
<1> QED
  BY <1>1, <1>3, <1>5, LinesShrink

LEMMA LaterInLine ==
    ASSUME NEW m \in Nat, NEW n \in Nat, NEW l \in Nat, m <= n
    PROVE  \A i \in (n + 1)..l : i \in (m + 1)..l
OBVIOUS

LEMMA TokenLines ==
    ASSUME BusTypeOK, MatrixTypeOK, LineInv, MatrixNext,
           UNCHANGED <<wire, reacting, updates, forwards, commands>>, again' = again
    PROVE  LineInv'
<1>1. /\ timeline \in Seq(Heard) /\ Len(timeline) \in Nat /\ handled \in Nat
      /\ handled <= batch /\ batch <= Len(timeline) /\ batch \in Nat
  BY DEF MatrixTypeOK
<1>2. \A p \in Channel \ {"timeline"} : Lines[p]' = Lines[p]
  BY LinesRest DEF Channel
<1>3. PICK f : f = Lines["timeline"]
  OBVIOUS
<1>4. PICK g : g = Lines["timeline"]'
  OBVIOUS
<1>5. PICK h : h = handled + 1
  OBVIOUS
<1>6. /\ f = [i \in h..Len(timeline) |-> Once(timeline[i].id)] /\ h \in Nat \ {0}
      /\ g = [i \in (handled' + 1)..Len(timeline') |-> Once(timeline'[i].id)]
  BY <1>1, <1>3, <1>4, <1>5 DEF Lines, Once
<1>7. ASSUME NEW c \in Chats, MatrixSays(c) PROVE LineInv'
  <2>1. /\ Says("matrix") /\ timeline' = Append(timeline, Latest("matrix", c))
        /\ UNCHANGED <<inbound, accepted, sendVars>> /\ handled' = handled
    BY <1>7 DEF MatrixSays
  <2>2. /\ Latest("matrix", c) \in Heard /\ Latest("matrix", c).id = said + 1
        /\ said' = said + 1
    BY <2>1, LatestIsHeard DEF Says
  <2>3. PICK k : k = Len(timeline) + 1
    OBVIOUS
  <2>4. /\ Len(timeline') = k /\ timeline'[k] = Latest("matrix", c)
        /\ \A i \in 1..Len(timeline) : timeline'[i] = timeline[i]
    BY <1>1, <2>1, <2>2, <2>3, AppendProperties
  <2>5. /\ k \notin DOMAIN f /\ DOMAIN g = DOMAIN f \cup {k} /\ g[k] = Once(said + 1)
        /\ \A i \in DOMAIN f : g[i] = f[i]
    BY <1>1, <1>5, <1>6, <2>1, <2>2, <2>3, <2>4
  <2>6. Gains(f, g, g[k])
    BY <2>5, LineGainsKey
  <2>7. "timeline" \in Channel \ {"commands"}
    BY DEF Channel
  <2> QED
    BY <1>2, <1>3, <1>4, <2>1, <2>2, <2>5, <2>6, <2>7, KeptLines
<1>8. CASE FirstSync
  <2>1. DOMAIN g = {}
    BY <1>1, <1>6, <1>8 DEF FirstSync
  <2>2. Shrinks(f, g)
    BY <2>1, PartOfLine
  <2>3. \A p \in Channel : Shrinks(Lines[p], Lines[p]')
    BY <1>2, <1>3, <1>4, <2>2, SameLine
  <2>4. UNCHANGED <<inbound, accepted, said, sendVars>>
    BY <1>8 DEF FirstSync, busVars, sendVars
  <2> QED
    BY <2>3, <2>4, QuietLines
<1>9. CASE FirstSyncFails \/ Sync \/ TokenMoves
  <2>1. UNCHANGED <<inbound, accepted, said, sendVars>> /\ UNCHANGED channelStages
    BY <1>9 DEF FirstSyncFails, Sync, TokenMoves, busVars, sendVars, channelStages
  <2> QED
    BY <2>1, StillLines
<1>10. CASE OnRoomMessage
  <2>1. /\ handled < batch /\ HandleMessage(timeline[handled + 1]) /\ handled' = handled + 1
        /\ UNCHANGED <<said, sendVars>> /\ timeline' = timeline
    BY <1>10 DEF OnRoomMessage
  <2>2. h \in 1..Len(timeline)
    BY <1>1, <1>5, <2>1
  <2>3. PICK m : m = timeline[h]
    OBVIOUS
  <2>4. m \in Heard /\ HandleMessage(m)
    BY <1>1, <1>5, <2>1, <2>2, <2>3
  <2>6. /\ h \in DOMAIN f /\ f[h] = Once(m.id) /\ DOMAIN g \subseteq DOMAIN f \ {h}
        /\ \A i \in DOMAIN g : g[i] = f[i]
    BY <1>1, <1>5, <1>6, <2>1, <2>2, <2>3
  <2>7. Shrinks(f, g) /\ Loses(f, g, Once(m.id))
    BY <2>6, LineLosesKey
  <2> QED
    BY <1>2, <1>3, <1>4, <2>1, <2>4, <2>7, ArrivingLines
<1>11. CASE MatrixSend
  <2>1. UNCHANGED channelStages
    BY <1>11 DEF MatrixSend, matrixVars, channelStages
  <2> QED
    BY <1>11, <2>1, AttemptLines DEF MatrixSend
<1>12. CASE CallbackRaises
  BY <1>12, BatchIsGivenUp
<1>13. CASE SyncAgain
  <2>1. handled <= handled' /\ handled' \in Nat /\ timeline' = timeline
    BY <1>13 DEF SyncAgain, MatrixTypeOK
  <2>2. PICK m \in Nat, n \in Nat : m = handled /\ n = handled' /\ m <= n
    BY <1>1, <2>1
  <2>3. \A i \in (n + 1)..Len(timeline) : i \in h..Len(timeline)
    BY <1>1, <1>5, <2>2, LaterInLine
  <2>4. g = [i \in (n + 1)..Len(timeline) |-> Once(timeline[i].id)]
    BY <1>6, <2>1, <2>2
  <2>5. DOMAIN g \subseteq DOMAIN f /\ \A i \in DOMAIN g : g[i] = f[i]
    BY <1>6, <2>3, <2>4
  <2>6. Shrinks(f, g)
    BY <2>5, PartOfLine
  <2>7. \A p \in Channel : Shrinks(Lines[p], Lines[p]')
    BY <1>2, <1>3, <1>4, <2>6, SameLine
  <2>8. UNCHANGED <<inbound, accepted, said, sendVars>>
    BY <1>13 DEF SyncAgain, busVars, sendVars
  <2> QED
    BY <2>7, <2>8, QuietLines
<1> QED
  BY <1>7, <1>8, <1>9, <1>10, <1>11, <1>12, <1>13 DEF MatrixNext

LEMMA MatrixLines ==
    ASSUME BusTypeOK, MatrixTypeOK, LineInv, MatrixNext,
           UNCHANGED <<wire, reacting, updates, forwards, commands>>
    PROVE  LineInv'
<1>1. CASE CallbackRaises
  BY <1>1, BatchIsGivenUp
<1>2. CASE ~CallbackRaises
  <2>1. again' = again
    BY <1>2 DEF MatrixNext, MatrixSays, FirstSync, FirstSyncFails, Sync, OnRoomMessage,
                TokenMoves, SyncAgain, MatrixSend, matrixVars
  <2> QED
    BY <2>1, TokenLines
<1> QED
  BY <1>1, <1>2

\* The last ids: what the platform delivers again is known.
LEMMA AgainIsCached ==
    ASSUME FeishuTypeOK, CacheInv, NEW i \in DOMAIN posts, DeliverAgain(i)
    PROVE  UNCHANGED <<posts, cache, reacting>>
<1>1. /\ posts \in Seq(Post) /\ cache \in Seq(Nat) /\ Len(cache) <= Len(posts)
      /\ Len(cache) = Len(posts) \/ Len(cache) = CacheMax
      /\ \A j \in DOMAIN cache : cache[j] = posts[Len(posts) - Len(cache) + j].heard.id
      /\ i > Len(posts) - Window /\ OnMessage(posts[i]) /\ UNCHANGED posts
  BY DEF FeishuTypeOK, CacheInv, DeliverAgain
<1>2. Len(posts) \in Nat /\ Len(cache) \in Nat /\ i \in 1..Len(posts) /\ DOMAIN cache = 1..Len(cache)
  BY <1>1
<1>3. PICK j : j = i - (Len(posts) - Len(cache))
  OBVIOUS
<1>4. j \in DOMAIN cache /\ Len(posts) - Len(cache) + j = i
  <2>1. CacheMax \in Nat /\ Window \in Nat /\ Window <= CacheMax
    BY CacheAssumption
  <2>2. CASE Len(cache) = Len(posts)
    BY <1>2, <1>3, <2>2
  <2>3. CASE Len(cache) = CacheMax
    BY <1>1, <1>2, <1>3, <2>1, <2>3
  <2> QED
    BY <1>1, <2>2, <2>3
<1>5. Cached(posts[i].heard.id)
  BY <1>1, <1>4 DEF Cached
<1> QED
  BY <1>1, <1>5 DEF OnMessage

LEMMA NewIsNotCached ==
    ASSUME BusTypeOK, FeishuTypeOK, CacheInv
    PROVE  ~Cached(said + 1)
<1>1. /\ posts \in Seq(Post) /\ cache \in Seq(Nat) /\ Len(cache) <= Len(posts)
      /\ \A j \in DOMAIN cache : cache[j] = posts[Len(posts) - Len(cache) + j].heard.id
      /\ \A i \in DOMAIN posts : posts[i].heard.id <= said
      /\ said \in Nat
  BY DEF FeishuTypeOK, CacheInv, BusTypeOK
<1>2. ASSUME NEW j \in DOMAIN cache, cache[j] = said + 1 PROVE FALSE
  <2>1. Len(posts) \in Nat /\ Len(cache) \in Nat /\ j \in 1..Len(cache)
    BY <1>1
  <2>2. Len(posts) - Len(cache) + j \in DOMAIN posts
    BY <1>1, <2>1
  <2>3. posts[Len(posts) - Len(cache) + j].heard.id = said + 1
    BY <1>1, <1>2
  <2> QED
    BY <1>1, <2>2, <2>3
<1> QED
  BY <1>2 DEF Cached

LEMMA CacheKeeps ==
    ASSUME BusTypeOK, FeishuTypeOK, CacheInv, FeishuNext
    PROVE  CacheInv'
<1>1. /\ posts \in Seq(Post) /\ cache \in Seq(Nat) /\ Len(cache) <= Len(posts)
      /\ Len(cache) = Len(posts) \/ Len(cache) = CacheMax
      /\ \A j \in DOMAIN cache : cache[j] = posts[Len(posts) - Len(cache) + j].heard.id
      /\ \A i \in DOMAIN posts : posts[i].heard.id <= said
      /\ said \in Nat /\ CacheMax \in Nat \ {0} /\ Len(cache) <= CacheMax
  BY CacheAssumption DEF FeishuTypeOK, CacheInv, BusTypeOK
<1>2. ASSUME NEW c \in Chats, NEW bot \in BOOLEAN, FeishuSays(c, bot) PROVE CacheInv'
  <2> DEFINE p == [heard |-> Latest("feishu", c), bot |-> bot]
             q == Append(cache, said + 1)
             k == Len(cache)
             l == Len(posts)
  <2>1. Says("feishu") /\ posts' = Append(posts, p) /\ OnMessage(p)
    BY <1>2 DEF FeishuSays
  <2>2. Latest("feishu", c) \in Heard /\ Latest("feishu", c).id = said + 1 /\ said' = said + 1
    BY <2>1, LatestIsHeard DEF Says
  <2>3. p \in Post /\ p.heard.id = said + 1
    BY <2>2 DEF Post
  <2> HIDE DEF p
  <2>4. cache' = Trim(q)
    BY <2>1, <2>3, NewIsNotCached DEF OnMessage
  <2>5. /\ posts' \in Seq(Post) /\ Len(posts') = l + 1 /\ posts'[l + 1] = p
        /\ \A i \in 1..l : posts'[i] = posts[i]
    BY <1>1, <2>1, <2>3, AppendProperties
  <2>6. /\ q \in Seq(Nat) /\ Len(q) = k + 1 /\ q[k + 1] = said + 1
        /\ \A i \in 1..k : q[i] = cache[i]
    <3>1. said + 1 \in Nat
      BY <1>1
    <3> QED
      BY <1>1, <3>1, AppendProperties
  <2>7. k \in Nat /\ l \in Nat /\ DOMAIN posts = 1..l /\ DOMAIN posts' = 1..(l + 1)
        /\ DOMAIN cache = 1..k /\ k <= l
    BY <1>1, <2>5
  <2> HIDE DEF q, k, l
  <2>8. \A i \in DOMAIN posts' : posts'[i].heard.id <= said'
    <3>1. SUFFICES ASSUME NEW i \in 1..(l + 1) PROVE posts'[i].heard.id <= said'
      BY <2>7
    <3>2. CASE i = l + 1
      BY <1>1, <2>2, <2>3, <2>5, <3>2
    <3>3. CASE i \in 1..l
      <4>1. posts[i] \in Post /\ posts[i].heard.id <= said
        BY <1>1, <2>7, <3>3
      <4>2. posts[i].heard.id \in Nat
        BY <4>1 DEF Post, Heard
      <4> QED
        BY <1>1, <2>2, <2>5, <3>3, <4>1, <4>2
    <3> QED
      BY <2>7, <3>2, <3>3
  <2>9. \A j \in 1..(k + 1) : q[j] = posts'[l - k + j].heard.id
    <3>1. TAKE j \in 1..(k + 1)
    <3>2. CASE j = k + 1
      BY <2>3, <2>5, <2>6, <2>7, <3>2
    <3>3. CASE j \in 1..k
      <4>1. l - k + j \in 1..l
        BY <2>7, <3>3
      <4> QED
        BY <1>1, <2>5, <2>6, <2>7, <3>3, <4>1 DEF k, l
    <3> QED
      BY <2>7, <3>2, <3>3
  <2>10. CASE k + 1 <= CacheMax
    <3>1. cache' = q /\ DOMAIN q = 1..(k + 1) /\ k = l
      <4>1. ~(Len(q) > CacheMax) /\ k # CacheMax
        BY <1>1, <2>6, <2>7, <2>10
      <4>2. k = l
        BY <1>1, <4>1 DEF k, l
      <4> QED
        BY <2>4, <2>6, <4>1, <4>2 DEF Trim
    <3>2. Len(cache') = k + 1 /\ Len(posts') - Len(cache') = l - k
      BY <2>5, <2>6, <2>7, <3>1
    <3> QED
      BY <2>5, <2>7, <2>8, <2>9, <3>1, <3>2 DEF CacheInv
  <2>11. CASE k + 1 > CacheMax
    <3>1. k = CacheMax /\ cache' = Tail(q) /\ q # <<>>
      <4>1. k <= CacheMax
        BY <1>1 DEF k
      <4>2. k = CacheMax /\ Len(q) > CacheMax
        BY <1>1, <2>6, <2>7, <2>11, <4>1
      <4>3. Len(q) # 0
        BY <2>6, <2>7
      <4> QED
        BY <2>4, <2>6, <4>2, <4>3 DEF Trim
    <3>2. /\ Len(cache') = k /\ cache' \in Seq(Nat)
          /\ \A j \in 1..k : cache'[j] = q[j + 1]
      BY <2>6, <2>7, <3>1, HeadTailProperties
    <3>3. DOMAIN cache' = 1..k /\ Len(posts') - Len(cache') = l - k + 1
      BY <2>5, <2>7, <3>2
    <3>4. ASSUME NEW j \in 1..k PROVE cache'[j] = posts'[l - k + 1 + j].heard.id
      <4>1. j + 1 \in 1..(k + 1) /\ l - k + (j + 1) = l - k + 1 + j
        BY <2>7
      <4> QED
        BY <2>9, <3>2, <4>1
    <3>5. Len(cache') <= Len(posts') /\ Len(cache') = CacheMax
      BY <2>5, <2>7, <3>1, <3>2
    <3> QED
      BY <2>8, <3>3, <3>4, <3>5 DEF CacheInv
  <2> QED
    BY <1>1, <2>7, <2>10, <2>11
<1>3. ASSUME NEW i \in DOMAIN posts, DeliverAgain(i) PROVE CacheInv'
  <2>1. UNCHANGED <<posts, cache, said>>
    BY <1>3, AgainIsCached DEF DeliverAgain, busVars
  <2> QED
    BY <2>1 DEF CacheInv
<1>4. ASSUME NEW m \in reacting, Reacted(m) PROVE CacheInv'
  BY <1>4 DEF Reacted, CacheInv
<1>5. CASE FeishuSend
  BY <1>5 DEF FeishuSend, Attempt, feishuVars, CacheInv
<1> QED
  BY <1>2, <1>3, <1>4, <1>5 DEF FeishuNext

LEMMA FeishuLines ==
    ASSUME BusTypeOK, FeishuTypeOK, CacheInv, LineInv, FeishuNext,
           UNCHANGED <<wire, timeline, handled, updates, forwards, commands, again>>
    PROVE  LineInv'
<1>1. reacting \subseteq Heard /\ said \in Nat
  BY DEF FeishuTypeOK, BusTypeOK
<1>2. \A p \in Channel \ {"reacting"} : Lines[p]' = Lines[p]
  BY LinesRest DEF Channel
<1>3. PICK f : f = Lines["reacting"]
  OBVIOUS
<1>4. PICK g : g = Lines["reacting"]'
  OBVIOUS
<1>5. f = [m \in reacting |-> Once(m.id)] /\ g = [m \in reacting' |-> Once(m.id)]
  BY <1>3, <1>4 DEF Lines, Once
<1>6. ASSUME NEW c \in Chats, NEW bot \in BOOLEAN, FeishuSays(c, bot) PROVE LineInv'
  <2> DEFINE h == Latest("feishu", c)
             p == [heard |-> h, bot |-> bot]
  <2>1. /\ Says("feishu") /\ OnMessage(p)
        /\ UNCHANGED <<inbound, accepted, sendVars>>
    BY <1>6 DEF FeishuSays
  <2>2. h \in Heard /\ h.id = said + 1 /\ said' = said + 1
    BY <2>1, LatestIsHeard DEF Says
  <2>3. p.heard.id = said + 1
    BY <2>2
  <2>4. reacting' = reacting \cup {m \in {h} : ~bot}
    BY <2>1, <2>3, NewIsNotCached DEF OnMessage
  <2> HIDE DEF h
  <2>5. CASE bot \/ h \in reacting
    <3>1. reacting' = reacting
      BY <2>4, <2>5
    <3>2. \A s \in Stages : Lines[s]' = Lines[s]
      BY <1>2, <2>1, <3>1, LinesRest DEF Stages, Questions, Way, Channel, sendVars
    <3>3. \A s \in Stages : Shrinks(Lines[s], Lines[s]')
      BY <3>2, SameLine
    <3> QED
      BY <1>1, <2>2, <3>3, LinesShrink
  <2>6. CASE ~bot /\ h \notin reacting
    <3>1. PICK k : k = h
      OBVIOUS
    <3>2. reacting' = reacting \cup {k} /\ k.id = said + 1 /\ k \notin DOMAIN f
      BY <1>5, <2>2, <2>4, <2>6, <3>1
    <3>3. DOMAIN g = DOMAIN f \cup {k} /\ g[k] = Once(said + 1) /\ \A m \in DOMAIN f : g[m] = f[m]
      BY <1>5, <3>2
    <3>4. Gains(f, g, g[k])
      BY <3>2, <3>3, LineGainsKey
    <3>5. "reacting" \in Channel \ {"commands"}
      BY DEF Channel
    <3> QED
      BY <1>2, <1>3, <1>4, <2>1, <2>2, <3>3, <3>4, <3>5, KeptLines
  <2> QED
    BY <2>5, <2>6
<1>7. ASSUME NEW i \in DOMAIN posts, DeliverAgain(i) PROVE LineInv'
  <2>1. UNCHANGED <<inbound, accepted, said, sendVars>>
    BY <1>7 DEF DeliverAgain, busVars, sendVars
  <2>2. UNCHANGED channelStages
    BY <1>7, AgainIsCached DEF channelStages
  <2> QED
    BY <2>1, <2>2, StillLines
<1>8. ASSUME NEW m \in reacting, Reacted(m) PROVE LineInv'
  <2>1. /\ reacting' = reacting \ {m} /\ HandleMessage(m) /\ UNCHANGED <<said, sendVars>>
    BY <1>8 DEF Reacted
  <2>2. PICK k : k = m
    OBVIOUS
  <2>3. k \in Heard
    BY <1>1, <2>2
  <2>4. /\ k \in DOMAIN f /\ f[k] = Once(k.id) /\ DOMAIN g \subseteq DOMAIN f \ {k}
        /\ \A j \in DOMAIN g : g[j] = f[j]
    BY <1>5, <2>1, <2>2
  <2>5. Shrinks(f, g) /\ Loses(f, g, Once(k.id))
    BY <2>4, LineLosesKey
  <2> QED
    BY <1>2, <1>3, <1>4, <2>1, <2>2, <2>3, <2>5, ArrivingLines
<1>9. CASE FeishuSend
  <2>1. UNCHANGED channelStages
    BY <1>9 DEF FeishuSend, feishuVars, channelStages
  <2> QED
    BY <1>9, <2>1, AttemptLines DEF FeishuSend
<1> QED
  BY <1>6, <1>7, <1>8, <1>9 DEF FeishuNext

LEMMA AppendNews ==
    ASSUME NEW w \in Seq(Packets), NEW k \in Packets
    PROVE  Gains(News(w), News(Append(w, k)), IF "status" \in DOMAIN k THEN 0 ELSE Once(k.heard.id))
<1> DEFINE v == Append(w, k)
           l == Len(w)
<1>1. /\ v \in Seq(Packets) /\ Len(v) = l + 1 /\ v[l + 1] = k /\ l \in Nat
      /\ \A i \in 1..l : v[i] = w[i]
  BY AppendProperties
<1>2. DOMAIN w = 1..l /\ DOMAIN v = 1..(l + 1)
  BY <1>1
<1> HIDE DEF v, l
<1>3. /\ DOMAIN News(w) = 1..l /\ DOMAIN News(v) = 1..(l + 1)
      /\ \A i \in 1..l : News(v)[i] = News(w)[i]
      /\ News(v)[l + 1] = IF "status" \in DOMAIN k THEN 0 ELSE Once(k.heard.id)
  BY <1>1, <1>2 DEF News
<1>4. Gains(News(w), News(v), News(v)[l + 1])
  BY <1>1, <1>3, AppendLine
<1> QED
  BY <1>3, <1>4 DEF v

LEMMA TailNews ==
    ASSUME NEW w \in Seq(Packets), w # <<>>
    PROVE  /\ Shrinks(News(w), News(Tail(w)))
           /\ "status" \notin DOMAIN Head(w) =>
                 Loses(News(w), News(Tail(w)), Once(Head(w).heard.id))
<1> DEFINE v == Tail(w)
           l == Len(w)
<1>1. /\ v \in Seq(Packets) /\ Len(v) = l - 1 /\ l \in Nat \ {0} /\ Head(w) = w[1]
      /\ \A i \in 1..(l - 1) : v[i] = w[i + 1]
  BY HeadTailProperties
<1>2. DOMAIN w = 1..l /\ DOMAIN v = 1..(l - 1)
  BY <1>1
<1> HIDE DEF v, l
<1>3. /\ DOMAIN News(w) = 1..l /\ DOMAIN News(v) = 1..(l - 1)
      /\ \A i \in 1..(l - 1) : News(v)[i] = News(w)[i + 1]
      /\ "status" \notin DOMAIN Head(w) => News(w)[1] = Once(Head(w).heard.id)
  BY <1>1, <1>2 DEF News
<1>4. Shrinks(News(w), News(v)) /\ Loses(News(w), News(v), News(w)[1])
  BY <1>1, <1>3, TailLine
<1> QED
  BY <1>3, <1>4 DEF v

\* A status is no message, and a link that opens or breaks empties the wire.
LEMMA WireShrinks ==
    ASSUME WhatsAppTypeOK,
           (\E s \in Statuses : Broadcast([status |-> s])) \/ wire' = <<>> \/ wire' = wire,
           again' = again
    PROVE  Shrinks(Lines["wire"], Lines["wire"]')
<1>1. wire \in Seq(Packets)
  BY DEF WhatsAppTypeOK
<1>2. Lines["wire"] = News(wire) /\ Lines["wire"]' = News(wire')
  BY DEF Lines, News, Once
<1>3. CASE wire' = wire
  BY <1>3, LinesRest, SameLine
<1>4. CASE wire' = <<>>
  <2>1. DOMAIN News(wire') = {}
    BY <1>4 DEF News
  <2> QED
    BY <1>2, <2>1, PartOfLine
<1>5. ASSUME NEW s \in Statuses, Broadcast([status |-> s])
      PROVE  Shrinks(Lines["wire"], Lines["wire"]')
  <2>1. PICK k : k = [status |-> s]
    OBVIOUS
  <2>2. k \in Packets /\ "status" \in DOMAIN k
    BY <2>1 DEF Packets
  <2>3. wire' = Append(wire, k) \/ wire' = wire
    BY <1>5, <2>1 DEF Broadcast
  <2>4. Gains(News(wire), News(Append(wire, k)), 0)
    BY <1>1, <2>2, AppendNews
  <2> QED
    BY <1>2, <1>3, <2>3, <2>4, GainsNothing
<1> QED
  BY <1>3, <1>4, <1>5

LEMMA CommandsShrink ==
    ASSUME commands' \subseteq commands,
           again' = again
    PROVE  Shrinks(Lines["commands"], Lines["commands"]')
<1>1. PICK f : f = Lines["commands"]
  OBVIOUS
<1>2. PICK g : g = Lines["commands"]'
  OBVIOUS
<1>3. f = [m \in commands |-> Once(m.of)] /\ g = [m \in commands' |-> Once(m.of)]
  BY <1>1, <1>2 DEF Lines, Once
<1>4. DOMAIN g \subseteq DOMAIN f /\ \A m \in DOMAIN g : g[m] = f[m]
  BY <1>3
<1>5. Shrinks(f, g)
  BY <1>4, PartOfLine
<1> QED
  BY <1>1, <1>2, <1>5

LEMMA WhatsAppLines ==
    ASSUME BusTypeOK, WhatsAppTypeOK, LineInv, WhatsAppNext,
           UNCHANGED <<timeline, handled, reacting, updates, forwards, again>>
    PROVE  LineInv'
<1>1. wire \in Seq(Packets) /\ commands \subseteq Outbound /\ said \in Nat
  BY DEF WhatsAppTypeOK, BusTypeOK
<1>2. \A p \in Channel \ {"wire", "commands"} : Lines[p]' = Lines[p]
  BY LinesRest DEF Channel
<1>3. ASSUME UNCHANGED <<inbound, accepted, said, sendVars>>, commands' \subseteq commands,
             (\E s \in Statuses : Broadcast([status |-> s])) \/ wire' = <<>> \/ wire' = wire
      PROVE  LineInv'
  <2>1. \A p \in Channel : Shrinks(Lines[p], Lines[p]')
    BY <1>2, <1>3, WireShrinks, CommandsShrink, SameLine
  <2> QED
    BY <1>3, <2>1, QuietLines
<1>4. CASE PhoneOpens
  <2>1. Broadcast([status |-> "connected"]) /\ "connected" \in Statuses
    BY <1>4 DEF PhoneOpens, Status, Statuses
  <2>2. UNCHANGED <<inbound, accepted, said, sendVars>> /\ commands' \subseteq commands
    BY <1>4 DEF PhoneOpens, busVars, sendVars
  <2> QED
    BY <1>3, <2>1, <2>2
<1>5. ASSUME NEW b \in BOOLEAN, PhoneCloses(b) PROVE LineInv'
  <2>1. Broadcast([status |-> "disconnected"]) /\ "disconnected" \in Statuses
    BY <1>5 DEF PhoneCloses, Status, Statuses
  <2>2. UNCHANGED <<inbound, accepted, said, sendVars>> /\ commands' \subseteq commands
    BY <1>5 DEF PhoneCloses
  <2> QED
    BY <1>3, <2>1, <2>2
<1>6. CASE TimerFires \/ LinkOpens \/ LinkBreaks \/ BridgeRestarts \/ LinkRefused
  <2>1. UNCHANGED <<inbound, accepted, said, sendVars>> /\ (wire' = <<>> \/ wire' = wire)
    BY <1>6 DEF TimerFires, LinkOpens, LinkBreaks, BridgeRestarts, LinkRefused, busVars, sendVars
  <2>2. commands' \subseteq commands
    BY <1>6 DEF TimerFires, LinkOpens, LinkBreaks, BridgeRestarts, LinkRefused
  <2> QED
    BY <1>3, <2>1, <2>2
<1>7. ASSUME NEW c \in Chats, PhoneHears(c) PROVE LineInv'
  <2> DEFINE h == Latest("whatsapp", c)
             k == [heard |-> h]
  <2>1. /\ Says("whatsapp") /\ Broadcast(k) /\ commands' = commands
        /\ UNCHANGED <<inbound, accepted, sendVars>>
    BY <1>7 DEF PhoneHears
  <2>2. h \in Heard /\ h.id = said + 1 /\ said' = said + 1
    BY <2>1, LatestIsHeard DEF Says
  <2> HIDE DEF h
  <2>3. k \in Packets /\ "status" \notin DOMAIN k /\ k.heard.id = said + 1
    BY <2>2 DEF Packets
  <2> HIDE DEF k
  <2>4. Lines["commands"]' = Lines["commands"]
    BY <2>1, LinesRest
  <2>5. CASE wire' = Append(wire, k)
    <3>1. Gains(News(wire), News(Append(wire, k)), Once(said + 1))
      BY <1>1, <2>3, AppendNews
    <3>2. Gains(Lines["wire"], Lines["wire"]', Once(said + 1))
      BY <2>5, <3>1 DEF Lines, News, Once
    <3>3. "wire" \in Channel \ {"commands"}
      BY DEF Channel
    <3> QED
      BY <1>2, <2>1, <2>2, <2>4, <3>2, <3>3, KeptLines
  <2>6. CASE wire' = wire
    <3>1. \A s \in Stages : Lines[s]' = Lines[s]
      BY <1>2, <2>1, <2>6, LinesRest DEF Stages, Questions, Way, Channel, sendVars
    <3>2. \A s \in Stages : Shrinks(Lines[s], Lines[s]')
      BY <3>1, SameLine
    <3> QED
      BY <1>1, <2>2, <3>2, LinesShrink
  <2> QED
    BY <2>1, <2>5, <2>6 DEF Broadcast
<1>8. CASE LinkReceives
  <2>1. /\ wire # <<>> /\ wire' = Tail(wire) /\ commands' = commands
        /\ UNCHANGED <<said, sendVars>>
    BY <1>8 DEF LinkReceives
  <2>2. Lines["wire"] = News(wire) /\ Lines["wire"]' = News(Tail(wire))
    BY <2>1 DEF Lines, News, Once
  <2>3. Head(wire) \in Packets
    BY <1>1, <2>1, HeadTailProperties
  <2>4. \A p \in Channel \ {"wire"} : Lines[p]' = Lines[p]
    BY <1>2, <2>1, LinesRest
  <2>5. CASE "status" \in DOMAIN Head(wire)
    <3>1. UNCHANGED <<inbound, accepted>>
      BY <1>8, <2>5 DEF LinkReceives
    <3>2. \A p \in Channel : Shrinks(Lines[p], Lines[p]')
      BY <1>1, <2>1, <2>2, <2>4, TailNews, SameLine
    <3> QED
      BY <2>1, <3>1, <3>2, QuietLines
  <2>6. CASE "status" \notin DOMAIN Head(wire)
    <3>1. PICK m : m = Head(wire).heard
      OBVIOUS
    <3>2. HandleMessage(m)
      BY <1>8, <2>6, <3>1 DEF LinkReceives
    <3>3. m \in Heard /\ m.id # 0
      <4>1. m \in Heard
        BY <2>3, <2>6, <3>1, PacketShapes
      <4> QED
        BY <4>1 DEF Heard
    <3>4. /\ Shrinks(Lines["wire"], Lines["wire"]')
          /\ Loses(Lines["wire"], Lines["wire"]', Once(m.id))
      BY <1>1, <2>1, <2>2, <2>6, <3>1, <3>3, TailNews
    <3> QED
      BY <2>1, <2>4, <3>2, <3>3, <3>4, ArrivingLines
  <2> QED
    BY <2>5, <2>6
<1>9. CASE WhatsAppSend
  <2>1. /\ sending # NoMessage /\ sending' = NoMessage
        /\ commands' = commands \cup {m \in {sending} : link = "up" /\ connected}
        /\ UNCHANGED <<inbound, outbound, delivered, accepted, said, blind, wire>>
    BY <1>9 DEF WhatsAppSend, SendEnds
  <2>2. \A p \in Stages \ {"sending", "commands"} : Lines[p]' = Lines[p]
    BY <1>2, <2>1, LinesRest DEF Stages, Questions, Way, Channel
  <2>3. \A p \in Stages \ {"commands"} : Shrinks(Lines[p], Lines[p]')
    BY <2>1, <2>2, SendingLoses, SameLine
  <2>4. CASE commands' = commands
    <3>1. \A p \in Stages : Shrinks(Lines[p], Lines[p]')
      BY <2>3, <2>4, LinesRest, SameLine
    <3> QED
      BY <1>1, <2>1, <3>1, LinesShrink
  <2>5. CASE commands' = commands \cup {sending} /\ sending \notin commands
    <3>1. PICK f : f = Lines["commands"]
      OBVIOUS
    <3>2. PICK g : g = Lines["commands"]'
      OBVIOUS
    <3>3. PICK m : m = sending
      OBVIOUS
    <3>4. f = [k \in commands |-> Once(k.of)] /\ g = [k \in commands \cup {m} |-> Once(k.of)]
      BY <2>5, <3>1, <3>2, <3>3 DEF Lines, Once
    <3>5. Loses(Lines["sending"], Lines["sending"]', Once(m.of))
      BY <2>1, <3>3, SendingLoses
    <3>6. /\ m \notin DOMAIN f /\ DOMAIN g = DOMAIN f \cup {m} /\ g[m] = Once(m.of)
          /\ \A k \in DOMAIN f : g[k] = f[k]
      BY <2>5, <3>3, <3>4
    <3>7. Gains(f, g, g[m])
      BY <3>6, LineGainsKey
    <3>8. Gets(Once(m.of), {"commands"})
      BY <2>3, <3>1, <3>2, <3>6, <3>7 DEF Gets
    <3>9. /\ {"commands"} \in Targets /\ "sending" \in Way \ {"commands"}
          /\ {"commands"} \cap Questions = {}
      BY DEF Targets, Way, Questions
    <3> QED
      BY <1>1, <2>1, <3>5, <3>8, <3>9, MessageMoves
  <2>6. \/ commands' = commands
        \/ commands' = commands \cup {sending} /\ sending \notin commands
    BY <2>1
  <2> QED
    BY <2>4, <2>5, <2>6
<1>10. ASSUME NEW m \in commands, BridgeSends(m) PROVE LineInv'
  <2>1. /\ commands' = commands \ {m} /\ (delivered' = Append(delivered, m) \/ delivered' = delivered)
        /\ UNCHANGED <<inbound, outbound, sending, accepted, said, blind, wire>>
    BY <1>10 DEF BridgeSends
  <2>2. PICK k : k = m
    OBVIOUS
  <2>3. k \in Outbound /\ k.of # 0
    BY <1>1, <2>2 DEF Outbound
  <2>4. /\ Shrinks(Lines["commands"], Lines["commands"]')
        /\ Loses(Lines["commands"], Lines["commands"]', Once(k.of))
    <3>1. PICK f : f = Lines["commands"]
      OBVIOUS
    <3>2. PICK g : g = Lines["commands"]'
      OBVIOUS
    <3>3. f = [j \in commands |-> Once(j.of)] /\ g = [j \in commands \ {k} |-> Once(j.of)]
      BY <2>1, <2>2, <3>1, <3>2 DEF Lines, Once
    <3>4. /\ k \in DOMAIN f /\ f[k] = Once(k.of) /\ DOMAIN g \subseteq DOMAIN f \ {k}
          /\ \A j \in DOMAIN g : g[j] = f[j]
      BY <2>2, <3>3
    <3>5. Shrinks(f, g) /\ Loses(f, g, Once(k.of))
      BY <3>4, LineLosesKey
    <3> QED
      BY <3>1, <3>2, <3>5
  <2>5. \A p \in Stages \ {"commands", "delivered"} : Lines[p]' = Lines[p]
    BY <1>2, <2>1, LinesRest DEF Stages, Questions, Way, Channel
  <2>6. CASE delivered' = Append(delivered, k)
    BY <2>1, <2>3, <2>4, <2>5, <2>6, Delivers
  <2>7. CASE delivered' = delivered
    <3>1. \A p \in Stages : Shrinks(Lines[p], Lines[p]')
      BY <2>1, <2>4, <2>5, <2>7, LinesRest, SameLine
    <3> QED
      BY <1>1, <2>1, <3>1, LinesShrink
  <2> QED
    BY <2>1, <2>2, <2>6, <2>7
<1> QED
  BY <1>4, <1>5, <1>6, <1>7, <1>8, <1>9, <1>10 DEF WhatsAppNext

-----------------------------------------------------------------------------
(* The order of publication                                                *)

LEMMA OrderRests ==
    ASSUME OrderInv, UNCHANGED <<outbound, sending, published, delivered, blind>>,
           commands' \subseteq commands
    PROVE  OrderInv'
BY DEF OrderInv, QueueInOrder, SendingInOrder, DeliveredInOrder, Direct

LEMMA PublishInOrder ==
    ASSUME BusTypeOK, OrderInv, NEW ch \in Names, NEW c \in Chats, NEW n \in Nat \ {0},
           Publish(ch, c, n), UNCHANGED <<sending, delivered, blind, commands>>
    PROVE  OrderInv'
<1> DEFINE m == [channel |-> ch, chat |-> c, of |-> n, no |-> published + 1]
           k == Len(outbound)
<1>1. /\ outbound \in Seq(Outbound) /\ published \in Nat /\ m \in Outbound
      /\ m.no = published + 1 /\ published' = published + 1
      /\ outbound' = Append(outbound, m)
  BY DEF BusTypeOK, Outbound, Publish
<1> HIDE DEF m
<1>2. /\ k \in Nat /\ Len(outbound') = k + 1 /\ outbound'[k + 1] = m
      /\ \A i \in 1..k : outbound'[i] = outbound[i]
      /\ outbound' \in Seq(Outbound)
  BY <1>1, AppendProperties
<1>3. DOMAIN outbound = 1..k /\ DOMAIN outbound' = 1..(k + 1)
  BY <1>1, <1>2
<1> HIDE DEF k
<1>4. \A j \in 1..k : outbound[j].no \in 1..published
  BY <1>3 DEF OrderInv, QueueInOrder
\* What is before all of the queue stays before it.
<1>5. ASSUME NEW a \in Nat, a <= published, \A j \in 1..k : a < outbound[j].no
      PROVE  \A j \in 1..(k + 1) : a < outbound'[j].no
  <2>1. TAKE j \in 1..(k + 1)
  <2>2. CASE j \in 1..k
    BY <1>2, <1>5, <2>2
  <2>3. CASE j = k + 1
    <3>1. outbound'[j].no = published + 1
      BY <1>1, <1>2, <2>3
    <3> QED
      BY <1>1, <1>5, <3>1
  <2> QED
    BY <1>2, <2>2, <2>3
<1>6. QueueInOrder'
  <2>1. ASSUME NEW j \in 1..(k + 1) PROVE outbound'[j].no \in 1..(published + 1)
    <3>1. CASE j \in 1..k
      <4>1. outbound[j].no \in 1..published /\ outbound'[j] = outbound[j]
        BY <1>2, <1>4, <3>1
      <4> QED
        BY <1>1, <4>1
    <3>2. CASE j = k + 1
      BY <1>1, <1>2, <3>2
    <3> QED
      BY <1>2, <3>1, <3>2
  <2>2. ASSUME NEW i \in 1..(k + 1), NEW j \in 1..(k + 1), i < j
        PROVE  outbound'[i].no < outbound'[j].no
    <3>1. i \in 1..k /\ outbound'[i] = outbound[i] /\ outbound[i].no \in 1..published
      BY <1>2, <1>4, <2>2
    <3>2. CASE j = k + 1
      BY <1>1, <1>2, <3>1, <3>2
    <3>3. CASE j \in 1..k
      BY <1>2, <1>3, <2>2, <3>1, <3>3 DEF OrderInv, QueueInOrder
    <3> QED
      BY <1>2, <3>2, <3>3
  <2> QED
    BY <1>1, <1>3, <2>1, <2>2 DEF QueueInOrder
<1>7. SendingInOrder'
  <2>1. SUFFICES ASSUME sending # NoMessage
                 PROVE  /\ sending.no \in 1..(published + 1)
                        /\ \A j \in 1..(k + 1) : sending.no < outbound'[j].no
    BY <1>1, <1>3 DEF SendingInOrder
  <2>2. PICK a : a = sending.no
    OBVIOUS
  <2>3. a \in 1..published /\ \A j \in 1..k : a < outbound[j].no
    BY <1>3, <2>1, <2>2 DEF OrderInv, SendingInOrder
  <2>4. a \in 1..(published + 1) /\ a \in Nat /\ a <= published
    BY <1>1, <2>3
  <2>5. \A j \in 1..(k + 1) : a < outbound'[j].no
    BY <1>5, <2>3, <2>4
  <2> QED
    BY <2>2, <2>4, <2>5
<1>8. DeliveredInOrder'
  <2>1. ASSUME ~blind, NEW i \in DOMAIN delivered, Direct(delivered[i])
        PROVE  /\ delivered[i].no <= published + 1
               /\ \A j \in 1..(k + 1) : delivered[i].no < outbound'[j].no
    <3>1. delivered[i].no <= published /\ \A j \in 1..k : delivered[i].no < outbound[j].no
      BY <1>3, <2>1 DEF OrderInv, DeliveredInOrder
    <3>2. delivered[i].no \in Nat
      <4>1. delivered[i] \in Outbound
        BY <2>1 DEF BusTypeOK
      <4> QED
        BY <4>1 DEF Outbound
    <3>3. PICK a : a = delivered[i].no
      OBVIOUS
    <3>4. a \in Nat /\ a <= published /\ \A j \in 1..k : a < outbound[j].no
      BY <3>1, <3>2, <3>3
    <3>5. \A j \in 1..(k + 1) : a < outbound'[j].no
      BY <1>5, <3>4
    <3>6. a <= published + 1
      BY <1>1, <3>4
    <3> QED
      BY <3>3, <3>5, <3>6
  <2> QED
    BY <1>1, <1>3, <2>1 DEF OrderInv, DeliveredInOrder, Direct
<1> QED
  BY <1>6, <1>7, <1>8 DEF OrderInv

LEMMA DispatchInOrder ==
    ASSUME BusTypeOK, OrderInv, Dispatch, UNCHANGED commands
    PROVE  OrderInv'
<1> DEFINE k == Len(outbound)
<1>1. /\ outbound \in Seq(Outbound) /\ outbound # <<>> /\ outbound' = Tail(outbound)
      /\ sending = NoMessage /\ sending' \in {outbound[1], NoMessage}
      /\ UNCHANGED <<delivered, published, blind>>
  BY HeadTailProperties DEF Dispatch, BusTypeOK
<1>2. /\ k \in Nat \ {0} /\ DOMAIN outbound = 1..k /\ DOMAIN outbound' = 1..(k - 1)
      /\ \A i \in 1..(k - 1) : outbound'[i] = outbound[i + 1]
  BY <1>1, HeadTailProperties
<1> HIDE DEF k
<1>3. \A j \in 1..(k - 1) : j + 1 \in 1..k /\ 1 < j + 1 /\ outbound'[j] = outbound[j + 1]
  BY <1>2
<1>4. QueueInOrder'
  <2>1. \A j \in DOMAIN outbound' : outbound'[j].no \in 1..published'
    BY <1>1, <1>2, <1>3 DEF OrderInv, QueueInOrder
  <2>2. ASSUME NEW i \in 1..(k - 1), NEW j \in 1..(k - 1), i < j
        PROVE  outbound'[i].no < outbound'[j].no
    <3>1. i + 1 < j + 1
      BY <2>2
    <3> QED
      BY <1>2, <1>3, <3>1 DEF OrderInv, QueueInOrder
  <2> QED
    BY <1>2, <2>1, <2>2 DEF QueueInOrder
<1>5. SendingInOrder'
  <2>1. 1 \in 1..k /\ outbound[1].no \in 1..published
    BY <1>2 DEF OrderInv, QueueInOrder
  <2>2. \A j \in 1..(k - 1) : outbound[1].no < outbound'[j].no
    BY <1>2, <1>3, <2>1 DEF OrderInv, QueueInOrder
  <2> QED
    BY <1>1, <1>2, <2>1, <2>2 DEF SendingInOrder
<1>6. DeliveredInOrder'
  <2>1. ASSUME ~blind, NEW i \in DOMAIN delivered, Direct(delivered[i])
        PROVE  /\ \A j \in 1..(k - 1) : delivered[i].no < outbound'[j].no
               /\ delivered[i].no < outbound[1].no
    <3>1. \A j \in 1..k : delivered[i].no < outbound[j].no
      BY <1>2, <2>1 DEF OrderInv, DeliveredInOrder
    <3> QED
      BY <1>2, <1>3, <3>1
  <2> QED
    BY <1>1, <1>2, <2>1 DEF OrderInv, DeliveredInOrder, Direct
<1> QED
  BY <1>4, <1>5, <1>6 DEF OrderInv, Dispatch

\* The platforms get a message: the one the dispatcher sends, or one past it.
LEMMA DeliveryInOrder ==
    ASSUME BusTypeOK, OrderInv, NEW m \in Outbound,
           \/ m = sending /\ sending # NoMessage /\ sending' = NoMessage
           \/ ~Direct(m) /\ sending' = sending,
           delivered' = Append(delivered, m), UNCHANGED <<outbound, published, blind>>,
           commands' \subseteq commands
    PROVE  OrderInv'
<1> DEFINE l == Len(delivered)
<1>1. /\ delivered \in Seq(Outbound) /\ l \in Nat /\ Len(delivered') = l + 1
      /\ delivered'[l + 1] = m /\ \A i \in 1..l : delivered'[i] = delivered[i]
      /\ delivered' \in Seq(Outbound)
  BY AppendProperties DEF BusTypeOK
<1>2. DOMAIN delivered = 1..l /\ DOMAIN delivered' = 1..(l + 1)
  BY <1>1
<1> HIDE DEF l
<1>3. QueueInOrder' /\ SendingInOrder' /\ \A k \in commands' : k.channel = "whatsapp"
  BY DEF OrderInv, QueueInOrder, SendingInOrder
<1>4. DeliveredInOrder'
  <2>1. SUFFICES ASSUME ~blind, NEW i \in 1..(l + 1), Direct(delivered'[i])
                 PROVE  /\ delivered'[i].no <= published
                        /\ \A j \in DOMAIN outbound : delivered'[i].no < outbound[j].no
                        /\ sending' # NoMessage => delivered'[i].no < sending'.no
                        /\ \A j \in 1..(l + 1) :
                              i < j /\ Direct(delivered'[j]) => delivered'[i].no < delivered'[j].no
    BY <1>2 DEF DeliveredInOrder, Direct
  <2>2. CASE i = l + 1
    <3>1. m = sending /\ sending # NoMessage /\ sending' = NoMessage
      BY <1>1, <2>1, <2>2
    <3>2. sending.no \in 1..published /\ \A j \in DOMAIN outbound : sending.no < outbound[j].no
      BY <3>1 DEF OrderInv, SendingInOrder
    <3>3. published \in Nat
      BY DEF BusTypeOK
    <3> QED
      BY <1>1, <2>2, <3>1, <3>2, <3>3
  <2>3. CASE i \in 1..l
    <3>1. /\ delivered'[i] = delivered[i] /\ Direct(delivered[i])
          /\ delivered[i].no <= published
          /\ \A j \in DOMAIN outbound : delivered[i].no < outbound[j].no
          /\ sending # NoMessage => delivered[i].no < sending.no
          /\ \A j \in 1..l : i < j /\ Direct(delivered[j]) => delivered[i].no < delivered[j].no
      BY <1>1, <1>2, <2>1, <2>3 DEF OrderInv, DeliveredInOrder
    <3>2. ASSUME NEW j \in 1..(l + 1), i < j, Direct(delivered'[j])
          PROVE  delivered'[i].no < delivered'[j].no
      <4>1. CASE j = l + 1
        BY <1>1, <3>1, <3>2, <4>1
      <4>2. CASE j \in 1..l
        BY <1>1, <3>1, <3>2, <4>2
      <4> QED
        BY <1>1, <4>1, <4>2
    <3> QED
      BY <3>1, <3>2
  <2> QED
    BY <1>1, <2>2, <2>3
<1> QED
  BY <1>3, <1>4 DEF OrderInv

\* A send is over without the platform's having said that it has the message.
LEMMA SendFailsInOrder ==
    ASSUME OrderInv, sending' \in {sending, NoMessage}, UNCHANGED <<outbound, published>>,
           blind' = TRUE \/ UNCHANGED <<delivered, blind>>,
           \A m \in commands' : m.channel = "whatsapp"
    PROVE  OrderInv'
BY DEF OrderInv, QueueInOrder, SendingInOrder, DeliveredInOrder, Direct

LEMMA AttemptInOrder ==
    ASSUME BusTypeOK, OrderInv, NEW ch, NEW limit, Attempt(ch, limit), UNCHANGED commands
    PROVE  OrderInv'
<1>1. sending # NoMessage /\ sending \in Outbound /\ published' = published
  BY DEF Attempt, BusTypeOK
<1>2. CASE /\ delivered' = Append(delivered, sending) /\ Done(limit)
           /\ UNCHANGED <<outbound, blind, faults>>
  BY <1>1, <1>2, DeliveryInOrder DEF Done, SendEnds
<1>3. CASE /\ Fails(ch)
           /\ \/ UNCHANGED <<delivered, blind>>
              \/ delivered' = Append(delivered, sending) /\ blind' = TRUE
           /\ IF tries + 1 < limit
              THEN tries' = tries + 1 /\ UNCHANGED <<sending, outbound>>
              ELSE Dropped(outbound, sending)
  <2>1. outbound' = outbound /\ sending' \in {sending, NoMessage}
    BY <1>3 DEF Dropped, SendEnds
  <2>2. \A m \in commands' : m.channel = "whatsapp"
    BY DEF OrderInv
  <2> QED
    BY <1>1, <1>3, <2>1, <2>2, SendFailsInOrder
<1> QED
  BY <1>2, <1>3 DEF Attempt

LEMMA ChannelsInOrder ==
    ASSUME BusTypeOK, OrderInv,
           \/ HttpNext \/ DiscordNext \/ MatrixNext \/ FeishuNext \/ TelegramNext,
           UNCHANGED commands
    PROVE  OrderInv'
<1>1. CASE DiscordSend \/ MatrixSend \/ FeishuSend \/ TelegramSend
  BY <1>1, AttemptInOrder DEF DiscordSend, MatrixSend, FeishuSend, TelegramSend
<1>2. CASE HttpSend
  <2>1. sending' = NoMessage /\ UNCHANGED <<outbound, published, delivered, blind>>
    BY <1>2 DEF HttpSend, SendEnds
  <2>2. \A m \in commands' : m.channel = "whatsapp"
    BY DEF OrderInv
  <2> QED
    BY <2>1, <2>2, SendFailsInOrder
<1>3. CASE UNCHANGED sendVars
  BY <1>3, OrderRests DEF sendVars
<1>4. HttpNext => HttpSend \/ UNCHANGED sendVars
  BY DEF HttpNext, HandleInbound, HandleInboundRaises, Respond, TimeOut, Return, busVars, sendVars
<1>5. DiscordNext => DiscordSend \/ UNCHANGED sendVars
  BY DEF DiscordNext, Connect, Hello, GatewayCloses, BeatFails, MessageCreate, busVars, sendVars
<1>6. MatrixNext => MatrixSend \/ UNCHANGED sendVars
  BY DEF MatrixNext, MatrixSays, FirstSync, FirstSyncFails, Sync, OnRoomMessage, TokenMoves,
         CallbackRaises, SyncAgain, busVars, sendVars
<1>7. FeishuNext => FeishuSend \/ UNCHANGED sendVars
  BY DEF FeishuNext, FeishuSays, DeliverAgain, Reacted, busVars, sendVars
<1>8. TelegramNext => TelegramSend \/ UNCHANGED sendVars
  BY DEF TelegramNext, TelegramSays, StartPolling, StartRaises, OnUpdate, busVars, sendVars
<1> QED
  BY <1>1, <1>2, <1>3, <1>4, <1>5, <1>6, <1>7, <1>8

LEMMA NextcloudInOrder ==
    ASSUME BusTypeOK, NextcloudTypeOK, OrderInv, NextcloudNext, UNCHANGED commands
    PROVE  OrderInv'
<1>1. ASSUME NEW c \in Chats, Webhook(c) PROVE OrderInv'
  BY <1>1, OrderRests DEF Webhook, sendVars
<1>2. CASE Forward
  <2>1. forwards \in Seq(Heard) /\ forwards # <<>>
    BY <1>2 DEF NextcloudTypeOK, Forward
  <2>2. PICK m : m = PastTheQueue(Head(forwards))
    OBVIOUS
  <2>3. m \in Outbound /\ ~Direct(m)
    <3>1. Head(forwards) \in Heard
      BY <2>1, HeadTailProperties
    <3> QED
      BY <2>2, <3>1 DEF PastTheQueue, Heard, Outbound, Direct
  <2>4. /\ UNCHANGED <<outbound, sending, published>>
        /\ \/ delivered' = Append(delivered, m) /\ blind' = blind
           \/ UNCHANGED <<delivered, blind>>
           \/ blind' = TRUE
    BY <1>2, <2>2 DEF Forward
  <2>5. \A k \in commands' : k.channel = "whatsapp"
    BY DEF OrderInv
  <2> QED
    BY <2>3, <2>4, <2>5, DeliveryInOrder, SendFailsInOrder
<1>3. CASE NextcloudSend
  BY <1>3, AttemptInOrder DEF NextcloudSend
<1> QED
  BY <1>1, <1>2, <1>3 DEF NextcloudNext

LEMMA WhatsAppInOrder ==
    ASSUME BusTypeOK, WhatsAppTypeOK, OrderInv, WhatsAppNext
    PROVE  OrderInv'
<1>1. CASE WhatsAppSend
  <2>1. /\ sending' = NoMessage /\ sending.channel = "whatsapp"
        /\ commands' \subseteq commands \cup {sending}
        /\ UNCHANGED <<outbound, published, delivered, blind>>
    BY <1>1 DEF WhatsAppSend, SendEnds
  <2>2. \A m \in commands' : m.channel = "whatsapp"
    BY <2>1 DEF OrderInv
  <2> QED
    BY <2>1, <2>2, SendFailsInOrder
<1>2. ASSUME NEW m \in commands, BridgeSends(m) PROVE OrderInv'
  <2>1. m \in Outbound /\ ~Direct(m)
    BY DEF WhatsAppTypeOK, OrderInv, Direct
  <2>2. /\ commands' \subseteq commands /\ UNCHANGED <<outbound, sending, published, blind>>
        /\ delivered' = Append(delivered, m) \/ delivered' = delivered
    BY <1>2 DEF BridgeSends
  <2> QED
    BY <2>1, <2>2, DeliveryInOrder, OrderRests
<1>3. CASE UNCHANGED sendVars /\ commands' \subseteq commands
  BY <1>3, OrderRests DEF sendVars
<1>4. PhoneOpens \/ TimerFires \/ LinkOpens \/ LinkRefused
         => UNCHANGED sendVars /\ commands' \subseteq commands
  BY DEF PhoneOpens, TimerFires, LinkOpens, LinkRefused, busVars, sendVars
<1>5. LinkBreaks \/ BridgeRestarts \/ LinkReceives
         => UNCHANGED sendVars /\ commands' \subseteq commands
  BY DEF LinkBreaks, BridgeRestarts, LinkReceives, sendVars
<1>6. (\E b \in BOOLEAN : PhoneCloses(b)) \/ (\E c \in Chats : PhoneHears(c))
         => UNCHANGED sendVars /\ commands' \subseteq commands
  BY DEF PhoneCloses, PhoneHears, sendVars
<1> QED
  BY <1>1, <1>2, <1>3, <1>4, <1>5, <1>6 DEF WhatsAppNext

-----------------------------------------------------------------------------
(* The promises about what is handed over and what is delivered            *)

SentInv == ChannelsInv /\ LineInv /\ CacheInv /\ OrderInv

LEMMA InitSent == Init => SentInv
<1>1. SUFFICES ASSUME Init PROVE LineInv /\ CacheInv /\ OrderInv
  BY InitChannels DEF SentInv
<1>2. /\ inbound = <<>> /\ outbound = <<>> /\ delivered = <<>> /\ accepted = <<>>
      /\ sending = NoMessage /\ said = 0 /\ blind = FALSE
      /\ wire = <<>> /\ commands = {} /\ timeline = <<>> /\ handled = 0
      /\ posts = <<>> /\ cache = <<>> /\ reacting = {} /\ updates = <<>> /\ forwards = <<>>
  BY <1>1 DEF Init, BusInit, WhatsAppInit, MatrixInit, FeishuInit, TelegramInit, NextcloudInit
<1>3. LineInv
  <2>1. PICK L : L = Lines
    OBVIOUS
  <2>2. \A p \in Stages : DOMAIN L[p] = {}
    BY <1>2, <2>1 DEF Lines, Ids, Ofs, News, Stages, Questions, Way
  <2>3. \A p \in Stages : Members(L[p]) = {} /\ Unique(L[p])
    BY <2>2 DEF Members, Unique
  <2> QED
    BY <2>1, <2>3 DEF LineInv, Apart, Stages
<1>4. CacheInv
  BY <1>2 DEF CacheInv
<1>5. OrderInv
  BY <1>2 DEF OrderInv, QueueInOrder, SendingInOrder, DeliveredInOrder
<1> QED
  BY <1>3, <1>4, <1>5

LEMMA NextSent == SentInv /\ [Next]_vars => SentInv'
<1> SUFFICES ASSUME SentInv, [Next]_vars PROVE SentInv'
  OBVIOUS
<1>1. ChannelsInv'
  BY NextChannels DEF SentInv
<1>2. /\ BusTypeOK /\ LineInv /\ CacheInv /\ OrderInv
      /\ WhatsAppTypeOK /\ MatrixTypeOK /\ FeishuTypeOK /\ TelegramTypeOK /\ NextcloudTypeOK
  BY DEF SentInv, ChannelsInv, TypeOK
<1>3. ASSUME UNCHANGED <<posts, cache>>, said' \in {said, said + 1} PROVE CacheInv'
  <2>1. \A i \in DOMAIN posts : posts[i].heard.id \in Nat
    <3>1. \A i \in DOMAIN posts : posts[i] \in Post
      BY <1>2 DEF FeishuTypeOK
    <3> QED
      BY <3>1 DEF Post, Heard
  <2>2. said \in Nat
    BY <1>2 DEF BusTypeOK
  <2>3. \A i \in DOMAIN posts : posts[i].heard.id <= said'
    BY <1>2, <1>3, <2>1, <2>2 DEF CacheInv
  <2> QED
    BY <1>2, <1>3, <2>3 DEF CacheInv
<1>4. said' \in {said, said + 1}
  <2>1. CASE Bus
    BY <2>1 DEF Bus, Answer, Note, Dispatch
  <2>2. CASE Http
    BY <2>2 DEF Http, HttpNext, HandleInbound, HandleInboundRaises, HttpSend, Respond, TimeOut,
                Return, Says, busVars
  <2>3. CASE Discord
    BY <2>3 DEF Discord, DiscordNext, Connect, Hello, GatewayCloses, BeatFails, MessageCreate,
                DiscordSend, Attempt, Says, busVars
  <2>4. CASE WhatsApp
    BY <2>4 DEF WhatsApp, WhatsAppNext, PhoneOpens, TimerFires, PhoneCloses, PhoneHears, LinkOpens,
                LinkBreaks, BridgeRestarts, LinkRefused, LinkReceives, WhatsAppSend, BridgeSends,
                Says, busVars
  <2>5. CASE Matrix
    BY <2>5 DEF Matrix, MatrixNext, MatrixSays, FirstSync, FirstSyncFails, Sync, OnRoomMessage,
                TokenMoves, CallbackRaises, SyncAgain, MatrixSend, Attempt, Says, busVars
  <2>6. CASE Feishu
    BY <2>6 DEF Feishu, FeishuNext, FeishuSays, DeliverAgain, Reacted, FeishuSend, Attempt, Says,
                busVars
  <2>7. CASE Telegram
    BY <2>7 DEF Telegram, TelegramNext, TelegramSays, StartPolling, StartRaises, OnUpdate,
                TelegramSend, Attempt, Says, busVars
  <2>8. CASE Nextcloud
    BY <2>8 DEF Nextcloud, NextcloudNext, Webhook, Forward, NextcloudSend, Attempt, Says, busVars
  <2>9. CASE UNCHANGED vars
    BY <2>9 DEF vars, busVars
  <2> QED
    BY <2>1, <2>2, <2>3, <2>4, <2>5, <2>6, <2>7, <2>8, <2>9 DEF Next
<1>5. CASE Bus
  <2>1. UNCHANGED channelStages /\ UNCHANGED <<posts, cache>> /\ again' = again
    BY <1>5 DEF Bus, channelStages, whatsAppVars, matrixVars, feishuVars, telegramVars,
                nextcloudVars
  <2>2. commands' = commands
    BY <2>1 DEF channelStages
  <2>3. CASE Answer
    <3>1. /\ inbound \in Seq(Heard) /\ inbound # <<>>
          /\ Publish(Head(inbound).channel, Head(inbound).chat, Head(inbound).id)
          /\ UNCHANGED <<sending, delivered, blind>>
      BY <1>2, <2>3 DEF Answer, BusTypeOK
    <3>2. Head(inbound) \in Heard
      BY <3>1, HeadTailProperties
    <3>3. /\ Head(inbound).channel \in Names /\ Head(inbound).chat \in Chats
          /\ Head(inbound).id \in Nat \ {0}
      BY <3>2 DEF Heard
    <3> QED
      BY <1>1, <1>2, <1>3, <1>4, <2>1, <2>2, <2>3, <3>1, <3>3, AnswerLines, PublishInOrder
         DEF SentInv
  <2>4. ASSUME NEW ch \in enabled \cup {Unserved}, NEW c \in Chats, Note(ch, c) PROVE SentInv'
    <3>1. ch \in Names /\ said + 1 \in Nat \ {0}
      BY <1>2 DEF BusTypeOK, Names
    <3>2. Publish(ch, c, said + 1) /\ UNCHANGED <<sending, delivered, blind>>
      BY <2>4 DEF Note
    <3> QED
      BY <1>1, <1>2, <1>3, <1>4, <2>1, <2>2, <2>4, <3>1, <3>2, NoteLines, PublishInOrder
         DEF SentInv
  <2>5. CASE Dispatch
    BY <1>1, <1>2, <1>3, <1>4, <2>1, <2>2, <2>5, DispatchLines, DispatchInOrder DEF SentInv
  <2> QED
    BY <1>5, <2>3, <2>4, <2>5 DEF Bus
<1>6. CASE Http
  <2>1. /\ HttpNext /\ UNCHANGED channelStages /\ UNCHANGED <<posts, cache, commands>>
        /\ again' = again
    BY <1>6 DEF Http, channelStages, whatsAppVars, matrixVars, feishuVars, telegramVars,
                nextcloudVars
  <2> QED
    BY <1>1, <1>2, <1>3, <1>4, <2>1, HttpLines, ChannelsInOrder DEF SentInv
<1>7. CASE Discord
  <2>1. /\ DiscordNext /\ UNCHANGED channelStages /\ UNCHANGED <<posts, cache, commands>>
        /\ again' = again
    BY <1>7 DEF Discord, channelStages, whatsAppVars, matrixVars, feishuVars, telegramVars,
                nextcloudVars
  <2> QED
    BY <1>1, <1>2, <1>3, <1>4, <2>1, DiscordLines, ChannelsInOrder DEF SentInv
<1>8. CASE WhatsApp
  <2>1. /\ WhatsAppNext /\ UNCHANGED <<timeline, handled, reacting, updates, forwards, again>>
        /\ UNCHANGED <<posts, cache>>
    BY <1>8 DEF WhatsApp, matrixVars, feishuVars, telegramVars, nextcloudVars
  <2> QED
    BY <1>1, <1>2, <1>3, <1>4, <2>1, WhatsAppLines, WhatsAppInOrder DEF SentInv
<1>9. CASE Matrix
  <2>1. /\ MatrixNext /\ UNCHANGED <<wire, reacting, updates, forwards, commands>>
        /\ UNCHANGED <<posts, cache>> /\ UNCHANGED commands
    BY <1>9 DEF Matrix, whatsAppVars, feishuVars, telegramVars, nextcloudVars
  <2> QED
    BY <1>1, <1>2, <1>3, <1>4, <2>1, MatrixLines, ChannelsInOrder DEF SentInv
<1>10. CASE Feishu
  <2>1. /\ FeishuNext /\ UNCHANGED <<wire, timeline, handled, updates, forwards, commands, again>>
        /\ UNCHANGED commands
    BY <1>10 DEF Feishu, whatsAppVars, matrixVars, telegramVars, nextcloudVars
  <2> QED
    BY <1>1, <1>2, <2>1, FeishuLines, CacheKeeps, ChannelsInOrder DEF SentInv
<1>11. CASE Telegram
  <2>1. /\ TelegramNext /\ UNCHANGED <<wire, timeline, handled, reacting, forwards, commands, again>>
        /\ UNCHANGED <<posts, cache>> /\ UNCHANGED commands
    BY <1>11 DEF Telegram, whatsAppVars, matrixVars, feishuVars, nextcloudVars
  <2> QED
    BY <1>1, <1>2, <1>3, <1>4, <2>1, TelegramLines, ChannelsInOrder DEF SentInv
<1>12. CASE Nextcloud
  <2>1. /\ NextcloudNext /\ UNCHANGED <<wire, timeline, handled, reacting, updates, commands, again>>
        /\ UNCHANGED <<posts, cache>> /\ UNCHANGED commands
    BY <1>12 DEF Nextcloud, whatsAppVars, matrixVars, feishuVars, telegramVars
  <2> QED
    BY <1>1, <1>2, <1>3, <1>4, <2>1, NextcloudLines, NextcloudInOrder DEF SentInv
<1>13. CASE UNCHANGED vars
  <2>1. /\ UNCHANGED <<inbound, accepted, said, sendVars>> /\ UNCHANGED channelStages
        /\ again' = again
        /\ UNCHANGED <<posts, cache, outbound, sending, published, delivered, blind, commands>>
    BY <1>13 DEF vars, busVars, sendVars, channelStages, whatsAppVars, matrixVars, feishuVars,
                 telegramVars, nextcloudVars
  <2>2. LineInv'
    BY <1>2, <2>1, StillLines
  <2>3. OrderInv'
    BY <1>2, <2>1, OrderRests
  <2> QED
    BY <1>1, <1>3, <1>4, <2>1, <2>2, <2>3 DEF SentInv
<1> QED
  BY <1>5, <1>6, <1>7, <1>8, <1>9, <1>10, <1>11, <1>12, <1>13 DEF Next

LEMMA SentInvariant == Spec => []SentInv
BY InitSent, NextSent, PTL DEF Spec

\* The agent is given every message of a user at most once, whatever a
\* platform delivers again (Sync, OnMessage); except for what a Matrix batch
\* had handed over when a callback raised (the except in MatrixChannel.start).
THEOREM MessagesAreHandedOverOnce == Spec => []HandedOverOnce
<1>1. SentInv => HandedOverOnce
  <2>1. SUFFICES ASSUME SentInv, NEW i \in DOMAIN accepted, NEW j \in DOMAIN accepted, i # j,
                        accepted[i].id = accepted[j].id, accepted[i].id \notin again
                 PROVE  FALSE
    BY DEF HandedOverOnce
  <2>2. PICK f : f = Ids(accepted)
    OBVIOUS
  <2>3. Unique(f)
    <3>1. Lines["accepted"] = f
      BY <2>2 DEF Lines
    <3> QED
      BY <2>1, <3>1 DEF SentInv, LineInv, Apart, Questions
  <2>4. /\ i \in DOMAIN f /\ f[i] = accepted[i].id
        /\ j \in DOMAIN f /\ f[j] = accepted[j].id
    BY <2>1, <2>2 DEF Ids, Once
  <2>5. accepted[i].id # 0
    <3>1. accepted[i] \in Heard
      BY <2>1 DEF SentInv, ChannelsInv, TypeOK, BusTypeOK
    <3> QED
      BY <3>1 DEF Heard
  <2> QED
    BY <2>1, <2>3, <2>4, <2>5 DEF Unique
<1> QED
  BY <1>1, SentInvariant, PTL

\* As long as no platform takes a message and answers with an error, no answer
\* is delivered twice, unless a Matrix batch gave the agent the question twice,
\* and those of the dispatcher come in the order in which they were published
\* (_dispatch_outbound, the send methods).
THEOREM AnswersAreSentOnceInOrder == Spec => []SentOnceInOrder
<1>1. SentInv => SentOnceInOrder
  <2>1. SUFFICES ASSUME SentInv, ~blind, NEW i \in DOMAIN delivered, NEW j \in DOMAIN delivered,
                        i < j, delivered[i].channel = delivered[j].channel
                 PROVE  /\ delivered[i].of = delivered[j].of => delivered[i].of \in again
                        /\ delivered[i].channel # "whatsapp" /\ delivered[i].no # 0
                              /\ delivered[j].no # 0 => delivered[i].no < delivered[j].no
    BY DEF SentOnceInOrder
  <2>2. ASSUME delivered[i].of = delivered[j].of, delivered[i].of \notin again
        PROVE  FALSE
    <3>1. PICK f : f = Ofs(delivered)
      OBVIOUS
    <3>2. Unique(f)
      <4>1. Lines["delivered"] = f
        BY <2>1, <3>1 DEF Lines
      <4> QED
        BY <2>1, <4>1 DEF SentInv, LineInv, Apart, Way
    <3>3. /\ i \in DOMAIN f /\ f[i] = delivered[i].of
          /\ j \in DOMAIN f /\ f[j] = delivered[j].of
      BY <2>1, <2>2, <3>1 DEF Ofs, Once
    <3>4. delivered[i].of # 0 /\ i # j
      <4>1. delivered[i] \in Outbound /\ i \in Nat /\ j \in Nat
        BY <2>1 DEF SentInv, ChannelsInv, TypeOK, BusTypeOK
      <4> QED
        BY <2>1, <4>1 DEF Outbound
    <3> QED
      BY <2>2, <3>2, <3>3, <3>4 DEF Unique
  <2>3. ASSUME delivered[i].channel # "whatsapp", delivered[i].no # 0, delivered[j].no # 0
        PROVE  delivered[i].no < delivered[j].no
    BY <2>1, <2>3 DEF SentInv, OrderInv, DeliveredInOrder, Direct
  <2> QED
    BY <2>2, <2>3
<1> QED
  BY <1>1, SentInvariant, PTL
=============================================================================
