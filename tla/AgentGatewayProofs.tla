------------------------- MODULE AgentGatewayProofs -------------------------
(***************************************************************************)
(* What AgentGateway guarantees for every set of chats and every bound on  *)
(* messages, subagents, direct turns and iterations.                       *)
(***************************************************************************)
EXTENDS AgentGateway, SequenceTheorems, TLAPS

-----------------------------------------------------------------------------
(* One step of a turn                                                      *)

\* The types, and two facts they need: the loop works on what its queue
\* holds, and a running turn has given the tools a chat.
WellTyped ==
    /\ TypeOK
    /\ \A i \in DOMAIN inbound : inbound[i].kind \in {"user", "announce"}
    /\ Active("loop") => turns["loop"].msg.kind \in {"user", "announce"}
    /\ \A r \in Runners : Active(r) => toolCtx \in Chats

\* A publication that answers nothing.
Quiet(xs) ==
    /\ xs \in Seq(Outbound)
    /\ \A k \in 1..Len(xs) : xs[k].kind \notin {"reply", "error"}

\* A publication whose last message answers m, and only that one.
AnswersLast(xs, m) ==
    /\ xs \in Seq(Outbound)
    /\ Len(xs) > 0
    /\ xs[Len(xs)].kind \in {"reply", "error"}
    /\ xs[Len(xs)].of = m
    /\ m.kind = "user" => xs[Len(xs)].to = m.chat
    /\ \A k \in 1..Len(xs)-1 : xs[k].kind \notin {"reply", "error"}

\* What a step of r's turn does, as far as the invariants need it.
Effect(r) ==
    /\ turns' \in [Runners -> Turn \cup {NoTurn}]
    /\ \A x \in Runners \ {r} :
          turns'[x] \in {turns[x], NoTurn} /\ (x = "loop" => turns'[x] = turns[x])
    /\ turns'[r] # NoTurn => turns'[r].msg = turns[r].msg
    /\ history' \in [Chats -> Seq(Message)]
    /\ \E xs : /\ outbound' = outbound \o xs
               /\ IF r = "loop" /\ turns'[r] = NoTurn
                    THEN AnswersLast(xs, turns[r].msg)
                    ELSE Quiet(xs)

\* turns, but for a cron turn that may have been cancelled.
TurnsLike(T, r) ==
    /\ T \in [Runners -> Turn \cup {NoTurn}]
    /\ T[r] = turns[r]
    /\ \A x \in Runners :
          T[x] \in {turns[x], NoTurn} /\ (x = "loop" => T[x] = turns[x])

LEMMA QuietSingle ==
    ASSUME NEW o \in Outbound, o.kind \notin {"reply", "error"}
    PROVE  Quiet(<<o>>)
  BY DEF Quiet

LEMMA QuietEmpty == Quiet(<<>>)
  BY DEF Quiet

\* Ending a turn, quiet or answering.
LEMMA PublishEffect ==
    ASSUME WellTyped, NEW r \in Runners, Active(r), NEW ok \in BOOLEAN,
           NEW STATE before, Quiet(before), Publish(r, ok, before)
    PROVE  \E xs : /\ outbound' = outbound \o xs
                   /\ IF r = "loop" THEN AnswersLast(xs, turns[r].msg)
                                    ELSE Quiet(xs)
  <1> DEFINE m == turns[r].msg
             loud == IF ok THEN [kind |-> "reply", to |-> m.chat, of |-> m]
                     ELSE [kind |-> "error", to |-> ErrorAddress(m), of |-> m]
             gift == [kind |-> "deliver", to |-> m.chat, of |-> m]
  <1>1. m \in Message /\ outbound \in Seq(Outbound) /\ before \in Seq(Outbound)
    BY DEF WellTyped, TypeOK, Active, Turn, Quiet
  <1>2. loud \in Outbound /\ loud.kind \in {"reply", "error"} /\ loud.of = m
    BY <1>1 DEF Outbound, ErrorAddress, Message
  <1>3. m.kind = "user" => loud.to = m.chat
    BY <1>1 DEF ErrorAddress, Message
  <1>4. gift \in Outbound /\ gift.kind \notin {"reply", "error"}
    BY <1>1 DEF Outbound, Message
  <1>5. ASSUME NEW x \in Outbound
        PROVE  /\ before \o <<x>> \in Seq(Outbound)
               /\ (outbound \o before) \o <<x>> = outbound \o (before \o <<x>>)
               /\ Len(before \o <<x>>) = Len(before) + 1
               /\ (before \o <<x>>)[Len(before) + 1] = x
               /\ \A k \in 1..Len(before) : (before \o <<x>>)[k] = before[k]
    <2>1. <<x>> \in Seq(Outbound) /\ Len(<<x>>) = 1 /\ <<x>>[1] = x
      OBVIOUS
    <2>2. Len(before) \in Nat
      BY <1>1, LenProperties
    <2>3. (outbound \o before) \o <<x>> = outbound \o (before \o <<x>>)
      BY <1>1, <2>1, ConcatAssociative
    <2>4. /\ before \o <<x>> \in Seq(Outbound)
          /\ Len(before \o <<x>>) = Len(before) + Len(<<x>>)
          /\ \A i \in 1 .. Len(before) + Len(<<x>>) : (before \o <<x>>)[i] =
                 IF i <= Len(before) THEN before[i] ELSE <<x>>[i - Len(before)]
      BY <1>1, <2>1, ConcatProperties
    <2> QED
      BY <2>1, <2>2, <2>3, <2>4
  <1>6. CASE r = "loop"
    <2>1. outbound' = outbound \o before \o <<loud>>
      BY <1>6 DEF Publish
    <2>2. AnswersLast(before \o <<loud>>, m)
      BY <1>1, <1>2, <1>3, <1>5 DEF AnswersLast, Quiet
    <2> QED
      BY <1>2, <1>5, <1>6, <2>1, <2>2
  <1>7. CASE r # "loop"
    <2>1. Quiet(before \o <<gift>>)
      BY <1>1, <1>4, <1>5 DEF Quiet
    <2>2. \/ outbound' = outbound \o before
          \/ outbound' = outbound \o before \o <<gift>>
      BY <1>7 DEF Publish
    <2> QED
      BY <1>4, <1>5, <1>7, <2>1, <2>2
  <1> QED
    BY <1>6, <1>7

LEMMA EndEffect ==
    ASSUME WellTyped, NEW r \in Runners, Active(r), NEW saved \in BOOLEAN,
           NEW STATE before, Quiet(before), NEW STATE T, TurnsLike(T, r),
           End(r, saved, before, T)
    PROVE  Effect(r)
  <1>1. turns[r].msg \in Message
    BY DEF WellTyped, TypeOK, Active, Turn
  <1>2. turns[r].msg.chat \in Chats
    BY <1>1 DEF Message
  <1>3. turns' = [T EXCEPT ![r] = NoTurn]
    BY DEF End
  <1>4. history' \in [Chats -> Seq(Message)]
    BY <1>1, <1>2, AppendProperties DEF End, WellTyped, TypeOK
  <1>5. Publish(r, saved, before)
    BY DEF End
  <1>6. turns' \in [Runners -> Turn \cup {NoTurn}] /\ turns'[r] = NoTurn
    BY <1>3 DEF TurnsLike
  <1>7. \A x \in Runners \ {r} : turns'[x] = T[x]
    BY <1>3 DEF TurnsLike
  <1> QED
    BY <1>4, <1>5, <1>6, <1>7, PublishEffect DEF Effect, TurnsLike

LEMMA ContinueEffect ==
    ASSUME WellTyped, NEW r \in Runners, Active(r),
           NEW STATE before, Quiet(before), NEW STATE T, TurnsLike(T, r),
           Continue(r, before, T)
    PROVE  Effect(r)
  <1>1. CASE turns[r].iter = MaxIterations
    <2>1. PICK saved \in BOOLEAN : End(r, saved, before, T)
      BY <1>1, IterationsAssumption DEF Continue
    <2> QED
      BY <2>1, EndEffect
  <1>2. CASE turns[r].iter # MaxIterations
    <2>1. turns[r].iter < MaxIterations
      BY <1>2 DEF Continue
    <2>2. /\ turns' = [T EXCEPT ![r].iter = @ + 1, ![r].at = "llm"]
          /\ outbound' = outbound \o before
          /\ UNCHANGED history
      BY <1>2 DEF Continue
    <2>3. turns[r] \in Turn /\ T[r] = turns[r]
      BY DEF WellTyped, TypeOK, Active, TurnsLike
    <2>4. /\ turns'[r] = [turns[r] EXCEPT !.iter = @ + 1, !.at = "llm"]
          /\ \A x \in Runners \ {r} : turns'[x] = T[x]
          /\ DOMAIN turns' = Runners
      BY <2>2, <2>3 DEF TurnsLike
    <2>5. turns'[r] \in Turn /\ turns'[r].msg = turns[r].msg
      <3>1. turns[r].iter + 1 \in 1..MaxIterations
        BY <2>1, <2>3, IterationsAssumption DEF Turn
      <3>2. turns'[r] = [msg |-> turns[r].msg, iter |-> turns[r].iter + 1,
                         at |-> "llm", seen |-> turns[r].seen]
        BY <2>3, <2>4 DEF Turn
      <3> QED
        BY <2>3, <3>1, <3>2 DEF Turn
    <2>6. turns' \in [Runners -> Turn \cup {NoTurn}]
      BY <2>2, <2>4, <2>5 DEF TurnsLike
    <2>7. turns'[r] # NoTurn
      BY <2>5, NoTurnAssumption
    <2>8. history' \in [Chats -> Seq(Message)]
      BY <2>2 DEF WellTyped, TypeOK
    <2> QED
      BY <2>2, <2>4, <2>5, <2>6, <2>7, <2>8 DEF Effect, TurnsLike
  <1> QED
    BY <1>1, <1>2

LEMMA TurnsLikeTurns ==
    ASSUME WellTyped, NEW r \in Runners
    PROVE  TurnsLike(turns, r)
  BY DEF WellTyped, TypeOK, TurnsLike

\* Every step of a turn has the effect above, and leaves the queue of the
\* loop, the dispatcher and the arrivals alone.
LEMMA TurnStepEffect ==
    ASSUME WellTyped, NEW r \in Runners, TurnStep(r)
    PROVE  /\ Active(r)
           /\ Effect(r)
           /\ UNCHANGED <<inbound, dispatched, toolCtx, arrived, direct>>
           /\ subagents' \subseteq Subagent /\ spawned' \in Nat
  <1>1. Active(r)
    BY DEF TurnStep, AnswerFinal, CallMessage, CallSpawn, CallCron,
           CallSlowTool, SlowToolReturns, TurnRaises, Waiting
  <1>2. turns[r] \in Turn /\ turns[r].msg \in Message /\ toolCtx \in Chats
    BY <1>1 DEF WellTyped, TypeOK, Active, Turn
  <1>3. subagents \subseteq Subagent /\ spawned \in Nat
    BY DEF WellTyped, TypeOK
  <1>4. CASE AnswerFinal(r)
    <2>1. PICK saved \in BOOLEAN : End(r, saved, <<>>, turns)
      BY <1>4 DEF AnswerFinal
    <2>2. Effect(r)
      BY <1>1, <2>1, QuietEmpty, TurnsLikeTurns, EndEffect
    <2> QED
      BY <1>1, <1>3, <1>4, <2>2 DEF AnswerFinal
  <1>5. CASE CallMessage(r)
    <2> DEFINE mine == [kind |-> "tool", to |-> toolCtx, of |-> turns[r].msg]
               named(c) == [kind |-> "explicit", to |-> c, of |-> turns[r].msg]
    <2>1. Quiet(<<mine>>) /\ \A c \in Explicit : Quiet(<<named(c)>>)
      BY <1>2, QuietSingle, ExplicitAssumption DEF Outbound
    <2>2. \/ Continue(r, <<mine>>, turns)
          \/ \E c \in Explicit : Continue(r, <<named(c)>>, turns)
      BY <1>5 DEF CallMessage
    <2>3. Effect(r)
      BY <1>1, <2>1, <2>2, TurnsLikeTurns, ContinueEffect
    <2> QED
      BY <1>1, <1>3, <1>5, <2>3 DEF CallMessage
  <1>6. CASE CallSpawn(r)
    <2>1. Effect(r)
      BY <1>1, <1>6, QuietEmpty, TurnsLikeTurns, ContinueEffect DEF CallSpawn
    <2>2. [id |-> spawned + 1, origin |-> toolCtx,
           asker |-> turns[r].msg.chat] \in Subagent
      BY <1>2, <1>3 DEF Subagent, Message
    <2> QED
      BY <1>1, <1>3, <1>6, <2>1, <2>2 DEF CallSpawn
  <1>7. CASE CallCron(r)
    <2> DEFINE cancelled == [x \in Runners |->
                                IF x = "cron" THEN NoTurn ELSE turns[x]]
    <2>1. r # "cron" => TurnsLike(cancelled, r)
      BY DEF TurnsLike, WellTyped, TypeOK
    <2>2. CASE r # "cron" /\ Continue(r, <<>>, cancelled)
      <3>1. Effect(r)
        BY <1>1, <2>1, <2>2, QuietEmpty, ContinueEffect
      <3> QED
        BY <1>1, <1>3, <1>7, <3>1 DEF CallCron
    <2>3. CASE r = "cron" /\ Continue(r, <<>>, turns)
      <3>1. Effect(r)
        BY <1>1, <2>3, QuietEmpty, TurnsLikeTurns, ContinueEffect
      <3> QED
        BY <1>1, <1>3, <1>7, <3>1 DEF CallCron
    <2>4. CASE /\ r = "cron" /\ turns' = cancelled
               /\ UNCHANGED <<outbound, history>>
      <3>1. turns' \in [Runners -> Turn \cup {NoTurn}] /\ turns'[r] = NoTurn
        BY <2>4 DEF WellTyped, TypeOK
      <3>2. \A x \in Runners \ {r} : turns'[x] = turns[x]
        BY <2>4
      <3>3. outbound' = outbound \o <<>> /\ history' \in [Chats -> Seq(Message)]
        BY <2>4, ConcatEmptySeq DEF WellTyped, TypeOK
      <3>4. Effect(r)
        BY <2>4, <3>1, <3>2, <3>3, QuietEmpty DEF Effect
      <3> QED
        BY <1>1, <1>3, <1>7, <3>4 DEF CallCron
    <2> QED
      BY <1>7, <2>2, <2>3, <2>4 DEF CallCron
  <1>8. CASE CallSlowTool(r)
    <2>1. /\ turns' = [turns EXCEPT ![r].at = "tool"]
          /\ UNCHANGED <<outbound, history>>
      BY <1>8 DEF CallSlowTool
    <2>2. turns'[r] = [turns[r] EXCEPT !.at = "tool"]
      BY <2>1 DEF WellTyped, TypeOK
    <2>3. turns'[r] = [msg |-> turns[r].msg, iter |-> turns[r].iter,
                       at |-> "tool", seen |-> turns[r].seen]
      BY <1>2, <2>2 DEF Turn
    <2>4. turns'[r] \in Turn /\ turns'[r].msg = turns[r].msg
      BY <1>2, <2>3 DEF Turn
    <2>5. turns' \in [Runners -> Turn \cup {NoTurn}] /\ turns'[r] # NoTurn
      BY <2>1, <2>4, NoTurnAssumption DEF WellTyped, TypeOK
    <2>6. \A x \in Runners \ {r} : turns'[x] = turns[x]
      BY <2>1 DEF WellTyped, TypeOK
    <2>7. outbound' = outbound \o <<>> /\ history' \in [Chats -> Seq(Message)]
      BY <2>1, ConcatEmptySeq DEF WellTyped, TypeOK
    <2>8. Effect(r)
      BY <2>4, <2>5, <2>6, <2>7, QuietEmpty DEF Effect
    <2> QED
      BY <1>1, <1>3, <1>8, <2>8 DEF CallSlowTool
  <1>9. CASE SlowToolReturns(r)
    <2>1. Effect(r)
      BY <1>1, <1>9, QuietEmpty, TurnsLikeTurns, ContinueEffect
         DEF SlowToolReturns
    <2> QED
      BY <1>1, <1>3, <1>9, <2>1 DEF SlowToolReturns
  <1>10. CASE TurnRaises(r)
    <2>1. /\ Publish(r, FALSE, <<>>)
          /\ turns' = [turns EXCEPT ![r] = NoTurn]
          /\ UNCHANGED history
      BY <1>10 DEF TurnRaises
    <2>2. turns' \in [Runners -> Turn \cup {NoTurn}] /\ turns'[r] = NoTurn
      BY <2>1 DEF WellTyped, TypeOK
    <2>3. \A x \in Runners \ {r} : turns'[x] = turns[x]
      BY <2>1 DEF WellTyped, TypeOK
    <2>4. history' \in [Chats -> Seq(Message)]
      BY <2>1 DEF WellTyped, TypeOK
    <2>5. \E xs : /\ outbound' = outbound \o xs
                  /\ IF r = "loop" THEN AnswersLast(xs, turns[r].msg)
                                   ELSE Quiet(xs)
      BY <1>1, <2>1, QuietEmpty, PublishEffect
    <2>6. Effect(r)
      BY <2>2, <2>3, <2>4, <2>5 DEF Effect
    <2> QED
      BY <1>1, <1>3, <1>10, <2>6 DEF TurnRaises
  <1> QED
    BY <1>4, <1>5, <1>6, <1>7, <1>8, <1>9, <1>10 DEF TurnStep

-----------------------------------------------------------------------------
(* Type correctness                                                        *)

LEMMA InitWellTyped == Init => WellTyped
  <1> SUFFICES ASSUME Init PROVE WellTyped
    OBVIOUS
  <1>1. \A r \in Runners : ~Active(r)
    BY DEF Init, Active
  <1>2. "loop" \in Runners
    BY DEF Runners
  <1>3. TypeOK
    BY DEF Init, TypeOK
  <1> QED
    BY <1>1, <1>2, <1>3 DEF WellTyped, Init

LEMMA BeginWellTyped ==
    ASSUME WellTyped, NEW r \in Runners, NEW STATE m, m \in Message,
           r = "loop" => m.kind \in {"user", "announce"},
           Begin(r, m)
    PROVE  /\ turns' \in [Runners -> Turn \cup {NoTurn}]
           /\ turns'[r] # NoTurn /\ turns'[r].msg = m
           /\ \A x \in Runners \ {r} : turns'[x] = turns[x]
           /\ toolCtx' \in Chats
  <1> DEFINE t == [msg |-> m, iter |-> 1, at |-> "llm",
                   seen |-> Len(history[m.chat])]
  <1>1. turns' = [turns EXCEPT ![r] = t] /\ toolCtx' = m.chat
    BY DEF Begin
  <1>2. m.chat \in Chats
    BY DEF Message
  <1>3. Len(history[m.chat]) \in Nat
    BY <1>2, LenProperties DEF WellTyped, TypeOK
  <1>4. t \in Turn
    BY <1>3, IterationsAssumption DEF Turn
  <1> HIDE DEF t
  <1>5. turns' \in [Runners -> Turn \cup {NoTurn}] /\ turns'[r] = t
    BY <1>1, <1>4 DEF WellTyped, TypeOK
  <1>6. \A x \in Runners \ {r} : turns'[x] = turns[x]
    BY <1>1 DEF WellTyped, TypeOK
  <1>7. t.msg = m
    BY DEF t
  <1> QED
    BY <1>1, <1>2, <1>4, <1>5, <1>6, <1>7, NoTurnAssumption

LEMMA NextWellTyped == WellTyped /\ [Next]_vars => WellTyped'
  <1> SUFFICES ASSUME WellTyped, [Next]_vars PROVE WellTyped'
    OBVIOUS
  <1>0. "loop" \in Runners /\ Background \subseteq Runners
    BY DEF Runners
  <1>1. ASSUME NEW c \in Served, Arrive(c) PROVE WellTyped'
    <2> DEFINE m == [kind |-> "user", chat |-> c, id |-> arrived + 1]
    <2>1. m \in Message /\ m.kind = "user"
      BY ServedAssumption DEF Message, WellTyped, TypeOK
    <2>2. inbound' = Append(inbound, m)
      BY <1>1 DEF Arrive
    <2> HIDE DEF m
    <2>3. /\ inbound' \in Seq(Message) /\ Len(inbound') = Len(inbound) + 1
          /\ \A i \in 1..Len(inbound) : inbound'[i] = inbound[i]
          /\ inbound'[Len(inbound) + 1] = m
      BY <2>1, <2>2, AppendProperties DEF WellTyped, TypeOK
    <2>4. /\ DOMAIN inbound' = 1..Len(inbound) + 1
          /\ DOMAIN inbound = 1..Len(inbound) /\ Len(inbound) \in Nat
      BY <2>3, LenProperties DEF WellTyped, TypeOK
    <2>5. \A i \in DOMAIN inbound' : inbound'[i].kind \in {"user", "announce"}
      BY <2>1, <2>3, <2>4 DEF WellTyped
    <2> QED
      BY <1>1, <2>3, <2>5 DEF Arrive, WellTyped, TypeOK, Active
  <1>2. CASE StartLoopTurn
    <2>1. /\ inbound # <<>> /\ Begin("loop", Head(inbound))
          /\ inbound' = Tail(inbound)
      BY <1>2 DEF StartLoopTurn
    <2>2. inbound \in Seq(Message)
      BY DEF WellTyped, TypeOK
    <2>3. /\ inbound' \in Seq(Message) /\ Len(inbound') = Len(inbound) - 1
          /\ \A i \in 1..Len(inbound') : inbound'[i] = inbound[i + 1]
          /\ Head(inbound) \in Message
      BY <2>1, <2>2, HeadTailProperties
    <2>4. /\ DOMAIN inbound' = 1..Len(inbound') /\ Len(inbound) \in Nat
          /\ DOMAIN inbound = 1..Len(inbound) /\ Len(inbound) > 0
      BY <2>1, <2>2, <2>3, LenProperties, EmptySeq
    <2>5. Head(inbound) = inbound[1]
      BY <2>1, <2>2
    <2>6. \A i \in DOMAIN inbound' : inbound'[i].kind \in {"user", "announce"}
      BY <2>3, <2>4 DEF WellTyped
    <2>7. Head(inbound).kind \in {"user", "announce"}
      BY <2>4, <2>5 DEF WellTyped
    <2>8. /\ turns' \in [Runners -> Turn \cup {NoTurn}]
          /\ turns'["loop"].msg = Head(inbound)
          /\ toolCtx' \in Chats
      BY <1>0, <2>1, <2>3, <2>7, BeginWellTyped
    <2> QED
      BY <1>2, <2>3, <2>6, <2>7, <2>8 DEF StartLoopTurn, WellTyped, TypeOK, Active
  <1>3. ASSUME NEW r \in Background, NEW c \in Chats, StartDirectTurn(r, c)
        PROVE  WellTyped'
    <2> DEFINE m == [kind |-> r, chat |-> c, id |-> direct + 1]
    <2>1. m \in Message /\ r # "loop" /\ r \in Runners
      BY <1>0, BackgroundAssumption DEF Message, WellTyped, TypeOK
    <2>2. Begin(r, m)
      BY <1>3 DEF StartDirectTurn
    <2> HIDE DEF m
    <2>3. /\ turns' \in [Runners -> Turn \cup {NoTurn}]
          /\ turns'["loop"] = turns["loop"]
          /\ toolCtx' \in Chats
      BY <1>0, <2>1, <2>2, BeginWellTyped
    <2>4. direct' \in Nat
      BY <1>3 DEF StartDirectTurn, WellTyped, TypeOK
    <2> QED
      BY <1>3, <2>3, <2>4 DEF StartDirectTurn, WellTyped, TypeOK, Active
  <1>4. ASSUME NEW r \in Runners, TurnStep(r) PROVE WellTyped'
    <2>1. /\ Active(r) /\ Effect(r)
          /\ UNCHANGED <<inbound, dispatched, toolCtx, arrived, direct>>
          /\ subagents' \subseteq Subagent /\ spawned' \in Nat
      BY <1>4, TurnStepEffect
    <2>2. outbound' \in Seq(Outbound)
      BY <2>1, ConcatProperties
         DEF Effect, Quiet, AnswersLast, WellTyped, TypeOK
    <2>3. Active("loop")' => Active("loop") /\ turns'["loop"].msg = turns["loop"].msg
      BY <1>0, <2>1 DEF Effect, Active
    <2>4. TypeOK'
      BY <2>1, <2>2 DEF Effect, WellTyped, TypeOK
    <2> QED
      BY <2>1, <2>3, <2>4 DEF WellTyped
  <1>5. ASSUME NEW s \in subagents, Announce(s) PROVE WellTyped'
    <2> DEFINE m == [kind |-> "announce", chat |-> s.origin, id |-> s.id]
    <2>1. m \in Message /\ m.kind = "announce"
      BY DEF Message, Subagent, WellTyped, TypeOK
    <2>2. inbound' = Append(inbound, m)
      BY <1>5 DEF Announce
    <2> HIDE DEF m
    <2>3. /\ inbound' \in Seq(Message) /\ Len(inbound') = Len(inbound) + 1
          /\ \A i \in 1..Len(inbound) : inbound'[i] = inbound[i]
          /\ inbound'[Len(inbound) + 1] = m
      BY <2>1, <2>2, AppendProperties DEF WellTyped, TypeOK
    <2>4. /\ DOMAIN inbound' = 1..Len(inbound) + 1
          /\ DOMAIN inbound = 1..Len(inbound) /\ Len(inbound) \in Nat
      BY <2>3, LenProperties DEF WellTyped, TypeOK
    <2>5. \A i \in DOMAIN inbound' : inbound'[i].kind \in {"user", "announce"}
      BY <2>1, <2>3, <2>4 DEF WellTyped
    <2> QED
      BY <1>5, <2>3, <2>5 DEF Announce, WellTyped, TypeOK, Active
  <1>6. CASE Dispatch
    <2>1. /\ outbound' \in Seq(Outbound) /\ dispatched' \in Seq(Outbound)
      BY <1>6, HeadTailProperties, AppendProperties DEF Dispatch, WellTyped, TypeOK
    <2> QED
      BY <1>6, <2>1 DEF Dispatch, WellTyped, TypeOK, Active
  <1>7. CASE UNCHANGED vars
    BY <1>7 DEF vars, WellTyped, TypeOK, Active
  <1> QED
    BY <1>1, <1>2, <1>3, <1>4, <1>5, <1>6, <1>7 DEF Next

\* Every variable keeps its type: in particular no turn exceeds the iteration
\* limit, and no subagent is spawned without a chat to report to.
THEOREM TypeCorrect == Spec => []TypeOK
  <1>1. Spec => []WellTyped
    BY InitWellTyped, NextWellTyped, PTL DEF Spec
  <1>2. WellTyped => TypeOK
    BY DEF WellTyped
  <1> QED
    BY <1>1, <1>2, PTL

-----------------------------------------------------------------------------
(* The order of answers                                                    *)

IsUser(m) == m.kind = "user"

\* The loop is in the turn of a channel's message.
ServesUser == Active("loop") /\ IsUser(turns["loop"].msg)

AnswersUser(o) == IsAnswerTo(o, "user")

\* The accepted messages pass through the queue, the loop and the outbound
\* side in one line, ordered by their number.
QueueOrdered ==
    \A i \in 1..Len(inbound) : IsUser(inbound[i]) =>
        /\ inbound[i].id \in 1..arrived
        /\ \A j \in 1..Len(inbound) : IsUser(inbound[j]) /\ i < j
              => inbound[i].id < inbound[j].id

TurnFirst ==
    ServesUser =>
        /\ turns["loop"].msg.id \in 1..arrived
        /\ \A j \in 1..Len(inbound) : IsUser(inbound[j])
              => turns["loop"].msg.id < inbound[j].id

AnswersBefore ==
    \A k \in 1..Len(Published) : AnswersUser(Published[k]) =>
        /\ Published[k].to = Published[k].of.chat
        /\ Published[k].of.id \in 1..arrived
        /\ ServesUser => Published[k].of.id < turns["loop"].msg.id
        /\ \A j \in 1..Len(inbound) : IsUser(inbound[j])
              => Published[k].of.id < inbound[j].id

AnswersOrdered ==
    \A k, l \in 1..Len(Published) :
        /\ AnswersUser(Published[k]) /\ AnswersUser(Published[l]) /\ k < l
        => Published[k].of.id < Published[l].of.id

\* Nothing falls out of the line.
NoneMissing ==
    \A n \in 1..arrived :
        \/ \E i \in 1..Len(inbound) : IsUser(inbound[i]) /\ inbound[i].id = n
        \/ ServesUser /\ turns["loop"].msg.id = n
        \/ \E k \in 1..Len(Published) :
              AnswersUser(Published[k]) /\ Published[k].of.id = n

InLine ==
    /\ WellTyped
    /\ QueueOrdered /\ TurnFirst /\ AnswersBefore /\ AnswersOrdered
    /\ NoneMissing

LEMMA PublishedType ==
    ASSUME TypeOK
    PROVE  /\ Published \in Seq(Outbound)
           /\ Len(Published) \in Nat /\ DOMAIN Published = 1..Len(Published)
           /\ Len(inbound) \in Nat /\ DOMAIN inbound = 1..Len(inbound)
  BY ConcatProperties, LenProperties DEF TypeOK, Published

\* A step of a turn adds to what was published; what it adds answers the
\* loop's message exactly when the loop's turn ends.
LEMMA PublishedEffect ==
    ASSUME WellTyped, NEW r \in Runners, TurnStep(r)
    PROVE  /\ Len(Published') \in Nat /\ Len(Published) <= Len(Published')
           /\ \A k \in 1..Len(Published) : Published'[k] = Published[k]
           /\ r = "loop" /\ turns'["loop"] = NoTurn =>
                 LET last == Published'[Len(Published')]
                     m    == turns["loop"].msg
                 IN  /\ Len(Published) < Len(Published')
                     /\ last.kind \in {"reply", "error"} /\ last.of = m
                     /\ m.kind = "user" => last.to = m.chat
                     /\ \A k \in Len(Published)+1..Len(Published')-1 :
                           ~AnswersUser(Published'[k])
           /\ ~(r = "loop" /\ turns'["loop"] = NoTurn) =>
                 \A k \in Len(Published)+1..Len(Published') :
                     ~AnswersUser(Published'[k])
  <1>1. PICK xs : /\ outbound' = outbound \o xs
                  /\ IF r = "loop" /\ turns'[r] = NoTurn
                       THEN AnswersLast(xs, turns[r].msg)
                       ELSE Quiet(xs)
    BY TurnStepEffect DEF Effect
  <1>2. dispatched' = dispatched
    BY TurnStepEffect
  <1>3. /\ xs \in Seq(Outbound) /\ outbound \in Seq(Outbound)
        /\ dispatched \in Seq(Outbound) /\ Published \in Seq(Outbound)
    BY <1>1, PublishedType DEF Quiet, AnswersLast, WellTyped, TypeOK
  <1>4. Published' = Published \o xs
    BY <1>1, <1>2, <1>3, ConcatAssociative DEF Published
  <1>5. /\ Len(Published') = Len(Published) + Len(xs)
        /\ \A i \in 1 .. Len(Published) + Len(xs) : Published'[i] =
              IF i <= Len(Published) THEN Published[i]
                                     ELSE xs[i - Len(Published)]
        /\ Len(Published) \in Nat /\ Len(xs) \in Nat
    BY <1>3, <1>4, ConcatProperties, LenProperties
  <1>6. \A k \in 1..Len(xs) : Published'[Len(Published) + k] = xs[k]
    BY <1>5
  <1>7. CASE r = "loop" /\ turns'["loop"] = NoTurn
    <2>1. AnswersLast(xs, turns["loop"].msg)
      BY <1>1, <1>7
    <2>2. Published'[Len(Published')] = xs[Len(xs)]
      BY <1>5, <1>6, <2>1 DEF AnswersLast
    <2>3. \A k \in Len(Published)+1..Len(Published')-1 :
             ~AnswersUser(Published'[k])
      <3> SUFFICES ASSUME NEW k \in Len(Published)+1..Len(Published')-1
                   PROVE  ~AnswersUser(Published'[k])
        OBVIOUS
      <3>1. k - Len(Published) \in 1..Len(xs)-1
        BY <1>5
      <3>2. Published'[k] = xs[k - Len(Published)]
        BY <1>5, <3>1
      <3> QED
        BY <2>1, <3>1, <3>2 DEF AnswersLast, AnswersUser, IsAnswerTo
    <2> QED
      BY <1>5, <1>7, <2>1, <2>2, <2>3 DEF AnswersLast
  <1>8. CASE ~(r = "loop" /\ turns'["loop"] = NoTurn)
    <2>1. Quiet(xs)
      BY <1>1, <1>8
    <2>2. \A k \in Len(Published)+1..Len(Published') :
             ~AnswersUser(Published'[k])
      <3> SUFFICES ASSUME NEW k \in Len(Published)+1..Len(Published')
                   PROVE  ~AnswersUser(Published'[k])
        OBVIOUS
      <3>1. k - Len(Published) \in 1..Len(xs)
        BY <1>5
      <3>2. Published'[k] = xs[k - Len(Published)]
        BY <1>5, <3>1
      <3> QED
        BY <2>1, <3>1, <3>2 DEF Quiet, AnswersUser, IsAnswerTo
    <2> QED
      BY <1>5, <1>8, <2>2
  <1> QED
    BY <1>7, <1>8

LEMMA InitInLine == Init => InLine
  <1> SUFFICES ASSUME Init PROVE InLine
    OBVIOUS
  <1>1. WellTyped
    BY InitWellTyped
  <1>2. inbound = <<>> /\ arrived = 0 /\ Published = <<>> /\ ~ServesUser
    BY ConcatEmptySeq, EmptySeq DEF Init, Published, ServesUser, Active, Runners
  <1>3. Len(inbound) = 0 /\ Len(Published) = 0
    BY <1>2
  <1> QED
    BY <1>1, <1>2, <1>3 DEF InLine, QueueOrdered, TurnFirst, AnswersBefore,
       AnswersOrdered, NoneMissing

\* A message enters at the end of the line, with the next number if a channel
\* accepted it.
LEMMA EnqueueInLine ==
    ASSUME InLine, NEW STATE m, m \in Message,
           inbound' = Append(inbound, m),
           IF IsUser(m) THEN m.id = arrived + 1 /\ arrived' = arrived + 1
                        ELSE arrived' = arrived,
           UNCHANGED <<outbound, dispatched, turns>>
    PROVE  /\ QueueOrdered' /\ TurnFirst' /\ AnswersBefore'
           /\ AnswersOrdered' /\ NoneMissing'
  <1>1. /\ Len(inbound) \in Nat /\ Len(inbound') = Len(inbound) + 1
        /\ \A i \in 1..Len(inbound) : inbound'[i] = inbound[i]
        /\ inbound'[Len(inbound) + 1] = m
    BY AppendProperties, LenProperties DEF InLine, WellTyped, TypeOK
  <1>2. Published' = Published /\ (ServesUser' <=> ServesUser)
    BY DEF Published, ServesUser, Active
  <1>3. arrived \in Nat /\ arrived' \in Nat /\ arrived <= arrived'
    BY DEF InLine, WellTyped, TypeOK
  <1>4. \A j \in 1..Len(inbound') : IsUser(inbound'[j]) =>
           \/ j \in 1..Len(inbound) /\ inbound'[j] = inbound[j]
           \/ j = Len(inbound) + 1 /\ inbound'[j].id = arrived + 1
    BY <1>1
  <1>5. QueueOrdered'
    BY <1>1, <1>3, <1>4 DEF InLine, QueueOrdered
  <1>6. TurnFirst'
    BY <1>1, <1>2, <1>3, <1>4 DEF InLine, TurnFirst
  <1>7. AnswersBefore'
    BY <1>1, <1>2, <1>3, <1>4 DEF InLine, AnswersBefore
  <1>8. AnswersOrdered'
    BY <1>2 DEF InLine, AnswersOrdered
  <1>9. NoneMissing'
    <2> SUFFICES ASSUME NEW n \in 1..arrived'
                 PROVE  \/ \E i \in 1..Len(inbound') :
                              IsUser(inbound'[i]) /\ inbound'[i].id = n
                        \/ ServesUser /\ turns["loop"].msg.id = n
                        \/ \E k \in 1..Len(Published) :
                              AnswersUser(Published[k]) /\ Published[k].of.id = n
      BY <1>2 DEF NoneMissing
    <2>1. CASE n \in 1..arrived
      <3>1. \/ \E i \in 1..Len(inbound) : IsUser(inbound[i]) /\ inbound[i].id = n
            \/ ServesUser /\ turns["loop"].msg.id = n
            \/ \E k \in 1..Len(Published) :
                  AnswersUser(Published[k]) /\ Published[k].of.id = n
        BY <2>1 DEF InLine, NoneMissing
      <3>2. 1..Len(inbound) \subseteq 1..Len(inbound')
        BY <1>1
      <3> QED
        BY <1>1, <3>1, <3>2
    <2>2. CASE n \notin 1..arrived
      <3>1. IsUser(m) /\ n = m.id
        BY <1>3, <2>2
      <3>2. Len(inbound) + 1 \in 1..Len(inbound')
        BY <1>1
      <3> QED
        BY <1>1, <3>1, <3>2
    <2> QED
      BY <2>1, <2>2
  <1> QED
    BY <1>5, <1>6, <1>7, <1>8, <1>9

\* The first message of the queue becomes the loop's turn.
LEMMA TakeInLine ==
    ASSUME InLine, StartLoopTurn
    PROVE  /\ QueueOrdered' /\ TurnFirst' /\ AnswersBefore'
           /\ AnswersOrdered' /\ NoneMissing'
  <1>1. /\ inbound # <<>> /\ inbound \in Seq(Message) /\ Begin("loop", Head(inbound))
        /\ inbound' = Tail(inbound) /\ UNCHANGED <<outbound, dispatched, arrived>>
    BY DEF StartLoopTurn, InLine, WellTyped, TypeOK
  <1>2. /\ Len(inbound) \in Nat /\ Len(inbound) > 0
        /\ Len(inbound') = Len(inbound) - 1
        /\ \A i \in 1..Len(inbound') : inbound'[i] = inbound[i + 1]
        /\ Head(inbound) = inbound[1] /\ Head(inbound) \in Message
    BY <1>1, HeadTailProperties, LenProperties, EmptySeq
  <1>3. "loop" \in Runners /\ Head(inbound).kind \in {"user", "announce"}
    BY <1>1, <1>2, LenProperties DEF Runners, InLine, WellTyped
  <1>4. /\ turns'["loop"] # NoTurn
        /\ turns'["loop"].msg = inbound[1]
    BY <1>1, <1>2, <1>3, BeginWellTyped DEF InLine
  <1>5. ~ServesUser
    BY <1>1 DEF Begin, ServesUser
  <1>6. /\ Published' = Published
        /\ ServesUser' <=> IsUser(inbound[1])
    BY <1>1, <1>4 DEF Published, ServesUser, Active
  <1>7. \A j \in 1..Len(inbound') :
           j + 1 \in 1..Len(inbound) /\ inbound'[j] = inbound[j + 1]
    BY <1>2
  <1>8. QueueOrdered'
    <2> SUFFICES ASSUME NEW i \in 1..Len(inbound'), IsUser(inbound'[i])
                 PROVE  /\ inbound'[i].id \in 1..arrived
                        /\ \A j \in 1..Len(inbound') : IsUser(inbound'[j]) /\ i < j
                              => inbound'[i].id < inbound'[j].id
      BY <1>1 DEF QueueOrdered
    <2>1. i + 1 \in 1..Len(inbound) /\ IsUser(inbound[i + 1])
      BY <1>7
    <2>2. \A j \in 1..Len(inbound') : i < j => i + 1 < j + 1
      BY <1>2
    <2> QED
      BY <1>7, <2>1, <2>2 DEF InLine, QueueOrdered
  <1>9. TurnFirst'
    <2> SUFFICES ASSUME IsUser(inbound[1])
                 PROVE  /\ inbound[1].id \in 1..arrived
                        /\ \A j \in 1..Len(inbound') : IsUser(inbound'[j])
                              => inbound[1].id < inbound'[j].id
      BY <1>1, <1>4, <1>6 DEF TurnFirst
    <2>1. 1 \in 1..Len(inbound)
      BY <1>2
    <2>2. \A j \in 1..Len(inbound') : 1 < j + 1
      BY <1>2
    <2> QED
      BY <1>7, <2>1, <2>2 DEF InLine, QueueOrdered
  <1>10. AnswersBefore'
    <2> SUFFICES ASSUME NEW k \in 1..Len(Published), AnswersUser(Published[k])
                 PROVE  /\ Published[k].to = Published[k].of.chat
                        /\ Published[k].of.id \in 1..arrived
                        /\ IsUser(inbound[1]) => Published[k].of.id < inbound[1].id
                        /\ \A j \in 1..Len(inbound') : IsUser(inbound'[j])
                              => Published[k].of.id < inbound'[j].id
      BY <1>1, <1>4, <1>6 DEF AnswersBefore
    <2>1. 1 \in 1..Len(inbound)
      BY <1>2
    <2> QED
      BY <1>7, <2>1 DEF InLine, AnswersBefore
  <1>11. AnswersOrdered'
    BY <1>6 DEF InLine, AnswersOrdered
  <1>12. NoneMissing'
    <2> SUFFICES ASSUME NEW n \in 1..arrived
                 PROVE  \/ \E i \in 1..Len(inbound') :
                              IsUser(inbound'[i]) /\ inbound'[i].id = n
                        \/ IsUser(inbound[1]) /\ inbound[1].id = n
                        \/ \E k \in 1..Len(Published) :
                              AnswersUser(Published[k]) /\ Published[k].of.id = n
      BY <1>1, <1>4, <1>6 DEF NoneMissing
    <2>1. CASE \E i \in 1..Len(inbound) : IsUser(inbound[i]) /\ inbound[i].id = n
      <3>1. PICK i \in 1..Len(inbound) : IsUser(inbound[i]) /\ inbound[i].id = n
        BY <2>1
      <3>2. CASE i = 1
        BY <3>1, <3>2
      <3>3. CASE i # 1
        <4>1. i - 1 \in 1..Len(inbound') /\ inbound'[i - 1] = inbound[i]
          BY <1>2, <3>3
        <4> QED
          BY <3>1, <4>1
      <3> QED
        BY <3>2, <3>3
    <2> QED
      BY <1>5, <2>1 DEF InLine, NoneMissing
  <1> QED
    BY <1>8, <1>9, <1>10, <1>11, <1>12

\* A step of the loop's turn ends it with its answer, or answers nothing.
LEMMA TurnStepInLine ==
    ASSUME InLine, NEW r \in Runners, TurnStep(r)
    PROVE  /\ QueueOrdered' /\ TurnFirst' /\ AnswersBefore'
           /\ AnswersOrdered' /\ NoneMissing'
  <1> DEFINE m == turns["loop"].msg
             ends == r = "loop" /\ turns'["loop"] = NoTurn
             n == Len(Published)
             n2 == Len(Published')
  <1>1. /\ Active(r) /\ Effect(r)
        /\ UNCHANGED <<inbound, dispatched, arrived>>
    BY TurnStepEffect DEF InLine
  <1>2. /\ n2 \in Nat /\ n <= n2
        /\ \A k \in 1..n : Published'[k] = Published[k]
        /\ ends => LET last == Published'[n2]
                   IN  /\ n < n2
                       /\ last.kind \in {"reply", "error"} /\ last.of = m
                       /\ m.kind = "user" => last.to = m.chat
                       /\ \A k \in n+1..n2-1 : ~AnswersUser(Published'[k])
        /\ ~ends => \A k \in n+1..n2 : ~AnswersUser(Published'[k])
    BY PublishedEffect DEF InLine
  <1>3. n \in Nat /\ Len(inbound) \in Nat
    BY PublishedType DEF InLine, WellTyped
  <1>4. "loop" \in Runners
    BY DEF Runners
  <1>5. ends => ~ServesUser'
    BY DEF ServesUser, Active
  <1>6. ~ends => (ServesUser' <=> ServesUser) /\ (ServesUser => turns'["loop"].msg = m)
    BY <1>1, <1>4 DEF Effect, ServesUser, Active
  \* An answer published so far, or the one that ends the turn.
  <1>7. ASSUME NEW k \in 1..n2, AnswersUser(Published'[k])
        PROVE  \/ k \in 1..n /\ Published'[k] = Published[k]
               \/ /\ ends /\ ServesUser /\ k = n2 /\ n < n2
                  /\ Published'[k].of = m /\ Published'[k].to = m.chat
    <2>1. CASE k \in 1..n
      BY <1>2, <2>1
    <2>2. CASE k \notin 1..n
      <3>1. k \in n+1..n2
        BY <1>2, <1>3, <2>2
      <3>2. ends /\ k = n2
        BY <1>2, <1>3, <1>7, <3>1
      <3>3. Published'[k].of = m /\ n < n2
        BY <1>2, <3>2
      <3>4. IsUser(m)
        BY <1>7, <3>3 DEF AnswersUser, IsAnswerTo, IsUser
      <3>5. ServesUser
        BY <1>1, <3>2, <3>4 DEF ServesUser
      <3> QED
        BY <1>2, <3>2, <3>3, <3>4, <3>5 DEF IsUser
    <2> QED
      BY <2>1, <2>2
  <1> HIDE DEF m, ends, n, n2
  <1>8. QueueOrdered'
    BY <1>1 DEF InLine, QueueOrdered
  <1>9. TurnFirst'
    BY <1>1, <1>5, <1>6 DEF InLine, TurnFirst, m
  <1>10. AnswersBefore'
    <2> SUFFICES ASSUME NEW k \in 1..n2, AnswersUser(Published'[k])
                 PROVE  /\ Published'[k].to = Published'[k].of.chat
                        /\ Published'[k].of.id \in 1..arrived
                        /\ ServesUser' =>
                              Published'[k].of.id < turns'["loop"].msg.id
                        /\ \A j \in 1..Len(inbound) : IsUser(inbound[j])
                              => Published'[k].of.id < inbound[j].id
      BY <1>1 DEF AnswersBefore, n2
    <2>1. CASE k \in 1..n /\ Published'[k] = Published[k]
      <3>1. AnswersUser(Published[k])
        BY <2>1
      <3>2. /\ Published[k].to = Published[k].of.chat
            /\ Published[k].of.id \in 1..arrived
            /\ ServesUser => Published[k].of.id < m.id
            /\ \A j \in 1..Len(inbound) : IsUser(inbound[j])
                  => Published[k].of.id < inbound[j].id
        BY <2>1, <3>1 DEF InLine, AnswersBefore, n, m
      <3> QED
        BY <1>5, <1>6, <2>1, <3>2
    <2>2. CASE /\ ends /\ ServesUser /\ Published'[k].of = m
               /\ Published'[k].to = m.chat
      BY <1>5, <2>2 DEF InLine, TurnFirst, m
    <2> QED
      BY <1>7, <2>1, <2>2
  <1>11. AnswersOrdered'
    <2> SUFFICES ASSUME NEW k \in 1..n2, NEW l \in 1..n2, k < l,
                        AnswersUser(Published'[k]), AnswersUser(Published'[l])
                 PROVE  Published'[k].of.id < Published'[l].of.id
      BY DEF AnswersOrdered, n2
    <2>1. k \in 1..n /\ Published'[k] = Published[k]
      BY <1>2, <1>7
    <2>2. CASE l \in 1..n /\ Published'[l] = Published[l]
      BY <2>1, <2>2 DEF InLine, AnswersOrdered, n
    <2>3. CASE ServesUser /\ Published'[l].of = m
      BY <2>1, <2>3 DEF InLine, AnswersBefore, n, m
    <2> QED
      BY <1>7, <2>2, <2>3
  <1>12. NoneMissing'
    <2> SUFFICES ASSUME NEW p \in 1..arrived
                 PROVE  \/ \E i \in 1..Len(inbound) :
                              IsUser(inbound[i]) /\ inbound[i].id = p
                        \/ ServesUser' /\ turns'["loop"].msg.id = p
                        \/ \E k \in 1..n2 :
                              AnswersUser(Published'[k]) /\ Published'[k].of.id = p
      BY <1>1 DEF NoneMissing, n2
    <2>1. CASE \E i \in 1..Len(inbound) : IsUser(inbound[i]) /\ inbound[i].id = p
      BY <2>1
    <2>2. CASE ServesUser /\ m.id = p
      <3>1. CASE ~ends
        BY <1>6, <2>2, <3>1
      <3>2. CASE ends
        <4>1. n2 \in 1..n2 /\ Published'[n2].of = m
          BY <1>2, <1>3, <3>2
        <4>2. AnswersUser(Published'[n2])
          BY <1>2, <2>2, <3>2 DEF AnswersUser, IsAnswerTo, ServesUser, IsUser, m
        <4> QED
          BY <2>2, <4>1, <4>2
      <3> QED
        BY <3>1, <3>2
    <2>3. CASE \E k \in 1..n : AnswersUser(Published[k]) /\ Published[k].of.id = p
      <3>1. PICK k \in 1..n : AnswersUser(Published[k]) /\ Published[k].of.id = p
        BY <2>3
      <3>2. k \in 1..n2 /\ Published'[k] = Published[k]
        BY <1>2, <1>3
      <3> QED
        BY <3>1, <3>2
    <2> QED
      BY <2>1, <2>2, <2>3 DEF InLine, NoneMissing, n, m
  <1> QED
    BY <1>8, <1>9, <1>10, <1>11, <1>12

\* What neither publishes nor touches the queue keeps the line.
LEMMA SameLine ==
    ASSUME InLine, UNCHANGED <<inbound, arrived>>, Published' = Published,
           turns'["loop"] = turns["loop"]
    PROVE  /\ QueueOrdered' /\ TurnFirst' /\ AnswersBefore'
           /\ AnswersOrdered' /\ NoneMissing'
  <1>1. ServesUser' <=> ServesUser
    BY DEF ServesUser, Active
  <1> QED
    BY <1>1 DEF InLine, QueueOrdered, TurnFirst, AnswersBefore, AnswersOrdered,
       NoneMissing

LEMMA DispatchPublishesNothing ==
    ASSUME TypeOK, Dispatch
    PROVE  Published' = Published
  <1> DEFINE h == Head(outbound)
             t == Tail(outbound)
  <1>1. /\ outbound # <<>> /\ outbound \in Seq(Outbound)
        /\ dispatched \in Seq(Outbound)
    BY DEF TypeOK, Dispatch
  <1>2. h \in Outbound /\ t \in Seq(Outbound) /\ <<h>> \in Seq(Outbound)
    BY <1>1, HeadTailProperties
  <1>3. dispatched' = dispatched \o <<h>> /\ outbound' = t
    BY <1>1, <1>2, AppendIsConcat DEF Dispatch
  <1>4. <<h>> \o t = outbound
    BY <1>1
  <1>5. (dispatched \o <<h>>) \o t = dispatched \o (<<h>> \o t)
    BY <1>1, <1>2, ConcatAssociative
  <1> QED
    BY <1>3, <1>4, <1>5 DEF Published

LEMMA NextInLine == InLine /\ [Next]_vars => InLine'
  <1> SUFFICES ASSUME InLine, [Next]_vars PROVE InLine'
    OBVIOUS
  <1>1. WellTyped'
    BY NextWellTyped DEF InLine
  <1>2. /\ QueueOrdered' /\ TurnFirst' /\ AnswersBefore'
        /\ AnswersOrdered' /\ NoneMissing'
    <2>1. ASSUME NEW c \in Served, Arrive(c)
          PROVE  /\ QueueOrdered' /\ TurnFirst' /\ AnswersBefore'
                 /\ AnswersOrdered' /\ NoneMissing'
      <3> DEFINE m == [kind |-> "user", chat |-> c, id |-> arrived + 1]
      <3>1. m \in Message /\ IsUser(m) /\ m.id = arrived + 1
        BY ServedAssumption DEF Message, IsUser, InLine, WellTyped, TypeOK
      <3>2. /\ inbound' = Append(inbound, m) /\ arrived' = arrived + 1
            /\ UNCHANGED <<outbound, dispatched, turns>>
        BY <2>1 DEF Arrive
      <3> HIDE DEF m
      <3> QED
        BY <3>1, <3>2, EnqueueInLine
    <2>2. ASSUME NEW s \in subagents, Announce(s)
          PROVE  /\ QueueOrdered' /\ TurnFirst' /\ AnswersBefore'
                 /\ AnswersOrdered' /\ NoneMissing'
      <3> DEFINE m == [kind |-> "announce", chat |-> s.origin, id |-> s.id]
      <3>1. m \in Message /\ ~IsUser(m)
        BY DEF Message, Subagent, IsUser, InLine, WellTyped, TypeOK
      <3>2. /\ inbound' = Append(inbound, m) /\ arrived' = arrived
            /\ UNCHANGED <<outbound, dispatched, turns>>
        BY <2>2 DEF Announce
      <3> HIDE DEF m
      <3> QED
        BY <3>1, <3>2, EnqueueInLine
    <2>3. ASSUME NEW r \in Background, NEW c \in Chats, StartDirectTurn(r, c)
          PROVE  /\ QueueOrdered' /\ TurnFirst' /\ AnswersBefore'
                 /\ AnswersOrdered' /\ NoneMissing'
      <3>1. r # "loop" /\ "loop" \in Runners
        BY BackgroundAssumption DEF Runners
      <3>2. turns'["loop"] = turns["loop"]
        BY <2>3, <3>1 DEF StartDirectTurn, Begin, InLine, WellTyped, TypeOK
      <3>3. UNCHANGED <<inbound, arrived, outbound, dispatched>>
        BY <2>3 DEF StartDirectTurn
      <3> QED
        BY <3>2, <3>3, SameLine DEF Published
    <2>4. CASE Dispatch
      <3>1. Published' = Published
        BY <2>4, DispatchPublishesNothing DEF InLine, WellTyped
      <3>2. UNCHANGED <<inbound, arrived, turns>>
        BY <2>4 DEF Dispatch
      <3> QED
        BY <3>1, <3>2, SameLine
    <2>5. CASE UNCHANGED vars
      BY <2>5, SameLine DEF vars, Published
    <2> QED
      BY <2>1, <2>2, <2>3, <2>4, <2>5, TakeInLine, TurnStepInLine DEF Next
  <1> QED
    BY <1>1, <1>2 DEF InLine

\* The strengthening of the properties below is an invariant: the queue, the
\* loop's turn and the answers form one line without gaps or repetitions.
THEOREM LineInvariant == Spec => []InLine
  BY InitInLine, NextInLine, PTL DEF Spec

-----------------------------------------------------------------------------
(* The properties                                                          *)

\* Answers to channel messages go to the asking chat, in the order of the
\* questions, for every number of concurrent direct turns and subagents.
THEOREM RepliesAreOrdered == Spec => []RepliesInOrder
  <1>1. InLine => RepliesInOrder
    <2> SUFFICES ASSUME InLine, NEW i \in DOMAIN Published,
                        NEW j \in DOMAIN Published,
                        AnswersUser(Published[i]), AnswersUser(Published[j]),
                        Published[i].of.chat = Published[j].of.chat
                 PROVE  /\ Published[i].to = Published[i].of.chat
                        /\ i < j => Published[i].of.id < Published[j].of.id
      BY DEF RepliesInOrder, AnswersUser
    <2>1. i \in 1..Len(Published) /\ j \in 1..Len(Published)
      BY PublishedType DEF InLine, WellTyped
    <2> QED
      BY <2>1 DEF InLine, AnswersBefore, AnswersOrdered
  <1> QED
    BY <1>1, LineInvariant, PTL

\* Every message a channel handed over is queued, in the loop's turn or
\* answered, and in exactly one of these places.
THEOREM MessagesAreAccounted == Spec => []EveryMessageAccounted
  <1>1. ASSUME InLine, NEW n \in 1..arrived
        PROVE  \E p \in Places("user", n) : Places("user", n) = {p}
    <2> DEFINE Q == {j \in DOMAIN inbound :
                       inbound[j].kind = "user" /\ inbound[j].id = n}
               L == {j \in {0} : /\ Active("loop")
                                 /\ turns["loop"].msg.kind = "user"
                                 /\ turns["loop"].msg.id = n}
               A == {j \in DOMAIN Published :
                       /\ IsAnswerTo(Published[j], "user")
                       /\ Published[j].of.id = n}
    <2>1. Places("user", n) = {<<"queued", i>> : i \in Q}
             \cup {<<"turn", i>> : i \in L} \cup {<<"answered", i>> : i \in A}
      BY DEF Places
    <2>2. /\ DOMAIN inbound = 1..Len(inbound) /\ Len(inbound) \in Nat
          /\ DOMAIN Published = 1..Len(Published) /\ Len(Published) \in Nat
      BY <1>1, PublishedType DEF InLine, WellTyped
    <2>3. \A i, j \in Q : i = j
      BY <1>1, <2>2 DEF InLine, QueueOrdered, IsUser
    <2>4. \A i, j \in A : i = j
      BY <1>1, <2>2 DEF InLine, AnswersBefore, AnswersOrdered, AnswersUser
    <2>5. Q = {} \/ L = {}
      BY <1>1, <2>2 DEF InLine, TurnFirst, ServesUser, IsUser
    <2>6. Q = {} \/ A = {}
      BY <1>1, <2>2 DEF InLine, AnswersBefore, AnswersUser, IsUser
    <2>7. L = {} \/ A = {}
      BY <1>1, <2>2 DEF InLine, AnswersBefore, AnswersUser, ServesUser, IsUser
    <2>8. Q # {} \/ L # {} \/ A # {}
      BY <1>1, <2>2 DEF InLine, NoneMissing, ServesUser, IsUser, AnswersUser
    <2> HIDE DEF Q, A
    <2>9. L \subseteq {0}
      OBVIOUS
    <2> HIDE DEF L
    <2>10. CASE Q # {}
      <3>1. PICK i \in Q : Q = {i}
        BY <2>3, <2>10
      <3>2. Places("user", n) = {<<"queued", i>>}
        BY <2>1, <2>5, <2>6, <2>10, <3>1
      <3> QED
        BY <3>2
    <2>11. CASE L # {}
      <3>1. PICK i \in L : L = {i}
        BY <2>9, <2>11
      <3>2. Places("user", n) = {<<"turn", i>>}
        BY <2>1, <2>5, <2>7, <2>11, <3>1
      <3> QED
        BY <3>2
    <2>12. CASE A # {}
      <3>1. PICK i \in A : A = {i}
        BY <2>4, <2>12
      <3>2. Places("user", n) = {<<"answered", i>>}
        BY <2>1, <2>6, <2>7, <2>12, <3>1
      <3> QED
        BY <3>2
    <2> QED
      BY <2>8, <2>10, <2>11, <2>12
  <1>2. InLine => EveryMessageAccounted
    BY <1>1 DEF EveryMessageAccounted
  <1> QED
    BY <1>2, LineInvariant, PTL

-----------------------------------------------------------------------------
(* Refinement                                                              *)

\* Which questions are asked and answered, and the same after a step.
AnsweredAre(q) ==
    \E k \in 1..Len(Published) :
        AnswersUser(Published[k]) /\ q = Question(Published[k].of)

AskedAre(q) ==
    \/ \E i \in 1..Len(inbound) :
          IsUser(inbound[i]) /\ q = Question(inbound[i])
    \/ ServesUser /\ q = Question(turns["loop"].msg)
    \/ q \in Answered

LEMMA Members ==
    ASSUME TypeOK
    PROVE  /\ \A q : q \in Answered <=> AnsweredAre(q)
           /\ \A q : q \in Asked <=> AskedAre(q)
  BY PublishedType DEF Answered, AnswersUser, AnsweredAre, Asked, AskedAre,
     IsUser, ServesUser

LEMMA MembersNext ==
    ASSUME TypeOK'
    PROVE  /\ \A q : q \in Answered' <=> AnsweredAre(q)'
           /\ \A q : q \in Asked' <=> AskedAre(q)'
  <1>1. /\ DOMAIN inbound' = 1..Len(inbound')
        /\ DOMAIN Published' = 1..Len(Published')
    BY ConcatProperties, LenProperties DEF TypeOK, Published
  <1>2. \A q : q \in Answered' <=> AnsweredAre(q)'
    BY <1>1 DEF Answered, AnswersUser, AnsweredAre
  <1>3. \A q : q \in Asked' <=> AskedAre(q)'
    BY <1>1 DEF Asked, AskedAre, IsUser, ServesUser
  <1> QED
    BY <1>2, <1>3

\* The same numbers and chats as in the line.
LEMMA AskedNumbers ==
    ASSUME InLine, NEW STATE q, q \in Asked
    PROVE  q.id \in 1..arrived /\ q.chat \in Chats
  <1>1. TypeOK
    BY DEF InLine, WellTyped
  <1>2. CASE \E i \in 1..Len(inbound) :
                 IsUser(inbound[i]) /\ q = Question(inbound[i])
    <2>1. PICK i \in 1..Len(inbound) :
                 IsUser(inbound[i]) /\ q = Question(inbound[i])
      BY <1>2
    <2>2. inbound[i] \in Message
      BY <1>1, <2>1, ElementOfSeq DEF TypeOK
    <2> QED
      BY <2>1, <2>2 DEF InLine, QueueOrdered, Question, Message
  <1>3. CASE ServesUser /\ q = Question(turns["loop"].msg)
    <2>1. turns["loop"].msg \in Message
      BY <1>1, <1>3 DEF TypeOK, ServesUser, Active, Turn, Runners
    <2> QED
      BY <1>3, <2>1 DEF InLine, TurnFirst, Question, Message
  <1>4. CASE q \in Answered
    <2>1. PICK k \in 1..Len(Published) :
                 AnswersUser(Published[k]) /\ q = Question(Published[k].of)
      BY <1>1, <1>4, Members DEF AnsweredAre
    <2>2. Published[k] \in Outbound
      BY <1>1, <2>1, PublishedType, ElementOfSeq
    <2> QED
      BY <2>1, <2>2 DEF InLine, AnswersBefore, Question, Outbound, Message
  <1> QED
    BY <1>1, <1>2, <1>3, <1>4, Members DEF AskedAre

LEMMA SamePublishedAnswered ==
    ASSUME Published' = Published PROVE Answered' = Answered
  BY DEF Answered, IsAnswerTo, Question

\* Accepting a message asks it.
LEMMA ArriveAsks ==
    ASSUME InLine, InLine', NEW c \in Served, Arrive(c)
    PROVE  Chat!Ask(c)
  <1> DEFINE m == [kind |-> "user", chat |-> c, id |-> arrived + 1]
             q == [chat |-> c, id |-> arrived + 1]
  <1>1. TypeOK /\ TypeOK'
    BY DEF InLine, WellTyped
  <1>2. /\ m \in Message /\ q = Question(m) /\ IsUser(m)
        /\ inbound' = Append(inbound, m)
        /\ UNCHANGED <<outbound, dispatched, turns>>
    BY <1>1, ServedAssumption DEF Arrive, Message, Question, IsUser, TypeOK
  <1>3. /\ Published' = Published /\ ServesUser' = ServesUser
        /\ turns' = turns /\ Answered' = Answered
    BY <1>2, SamePublishedAnswered DEF Published, ServesUser, Active
  <1>4. q \in [chat : Chats, id : Nat] /\ q.chat = c /\ q.id = arrived + 1
    BY <1>1, ServedAssumption DEF TypeOK
  <1>5. \A e \in Asked : e.id \in 1..arrived
    BY AskedNumbers
  <1>6. arrived \in Nat
    BY <1>1 DEF TypeOK
  <1> HIDE DEF m, q
  <1>7. /\ Len(inbound) \in Nat /\ Len(inbound') = Len(inbound) + 1
        /\ \A i \in 1..Len(inbound) : inbound'[i] = inbound[i]
        /\ inbound'[Len(inbound) + 1] = m
    BY <1>1, <1>2, AppendProperties, LenProperties DEF TypeOK
  <1>8. ASSUME NEW x
        PROVE  (\E i \in 1..Len(inbound') :
                   IsUser(inbound'[i]) /\ x = Question(inbound'[i]))
               <=> \/ \E i \in 1..Len(inbound) :
                         IsUser(inbound[i]) /\ x = Question(inbound[i])
                   \/ x = q
    <2>1. Len(inbound) + 1 \in 1..Len(inbound')
      BY <1>7
    <2>2. 1..Len(inbound') = 1..Len(inbound) \cup {Len(inbound) + 1}
      BY <1>7
    <2> QED
      BY <1>2, <1>7, <2>1, <2>2
  <1>9. ASSUME NEW x PROVE x \in Asked' <=> x \in Asked \/ x = q
    <2>1. x \in Asked' <=>
              \/ \E i \in 1..Len(inbound') :
                    IsUser(inbound'[i]) /\ x = Question(inbound'[i])
              \/ ServesUser' /\ x = Question(turns'["loop"].msg)
              \/ x \in Answered'
      BY <1>1, MembersNext DEF AskedAre
    <2>2. x \in Asked <=>
              \/ \E i \in 1..Len(inbound) :
                    IsUser(inbound[i]) /\ x = Question(inbound[i])
              \/ ServesUser /\ x = Question(turns["loop"].msg)
              \/ x \in Answered
      BY <1>1, Members DEF AskedAre
    <2> QED
      BY <1>3, <1>8, <2>1, <2>2
  <1>10. Asked' = Asked \cup {q}
    BY <1>9
  <1>11. q \notin Asked /\ \A e \in Asked : e.id < q.id
    BY <1>4, <1>5, <1>6
  <1>12. q \in Asked' \ Asked
    BY <1>10, <1>11
  <1> QED
    BY <1>3, <1>4, <1>10, <1>11, <1>12 DEF Chat!Ask, Chat!Question

\* Taking a message from the queue changes neither set.
LEMMA TakeStutters ==
    ASSUME InLine, InLine', StartLoopTurn
    PROVE  Asked' = Asked /\ Answered' = Answered
  <1>1. TypeOK /\ TypeOK'
    BY DEF InLine, WellTyped
  <1>2. /\ inbound # <<>> /\ inbound \in Seq(Message) /\ Begin("loop", Head(inbound))
        /\ inbound' = Tail(inbound) /\ UNCHANGED <<outbound, dispatched, arrived>>
    BY <1>1 DEF StartLoopTurn, TypeOK
  <1>3. /\ Len(inbound) \in Nat /\ Len(inbound) > 0
        /\ Len(inbound') = Len(inbound) - 1
        /\ \A i \in 1..Len(inbound') : inbound'[i] = inbound[i + 1]
        /\ Head(inbound) = inbound[1] /\ Head(inbound) \in Message
    BY <1>2, HeadTailProperties, LenProperties, EmptySeq
  <1>4. "loop" \in Runners /\ Head(inbound).kind \in {"user", "announce"}
    BY <1>2, <1>3, LenProperties DEF Runners, InLine, WellTyped
  <1>5. turns'["loop"] # NoTurn /\ turns'["loop"].msg = inbound[1]
    BY <1>2, <1>3, <1>4, BeginWellTyped DEF InLine
  <1>6. ~ServesUser /\ (ServesUser' <=> IsUser(inbound[1]))
    BY <1>2, <1>5 DEF Begin, ServesUser, Active
  <1>7. Answered' = Answered
    BY <1>2, SamePublishedAnswered DEF Published
  <1>8. ASSUME NEW x
        PROVE  (\E i \in 1..Len(inbound) :
                   IsUser(inbound[i]) /\ x = Question(inbound[i]))
               <=> \/ \E i \in 1..Len(inbound') :
                         IsUser(inbound'[i]) /\ x = Question(inbound'[i])
                   \/ IsUser(inbound[1]) /\ x = Question(inbound[1])
    <2>1. /\ \A i \in 1..Len(inbound') : i + 1 \in 1..Len(inbound)
          /\ \A i \in 1..Len(inbound) : i = 1 \/
                (i - 1 \in 1..Len(inbound') /\ inbound'[i - 1] = inbound[i])
          /\ 1 \in 1..Len(inbound)
      BY <1>3
    <2> QED
      BY <1>3, <2>1
  <1>9. ASSUME NEW x PROVE x \in Asked' <=> x \in Asked
    <2>1. x \in Asked' <=>
              \/ \E i \in 1..Len(inbound') :
                    IsUser(inbound'[i]) /\ x = Question(inbound'[i])
              \/ ServesUser' /\ x = Question(turns'["loop"].msg)
              \/ x \in Answered'
      BY <1>1, MembersNext DEF AskedAre
    <2>2. x \in Asked <=>
              \/ \E i \in 1..Len(inbound) :
                    IsUser(inbound[i]) /\ x = Question(inbound[i])
              \/ ServesUser /\ x = Question(turns["loop"].msg)
              \/ x \in Answered
      BY <1>1, Members DEF AskedAre
    <2> QED
      BY <1>5, <1>6, <1>7, <1>8, <2>1, <2>2
  <1> QED
    BY <1>7, <1>9

\* A step of a turn answers the loop's message or changes neither set.
LEMMA TurnStepAnswers ==
    ASSUME InLine, InLine', NEW r \in Runners, TurnStep(r)
    PROVE  \/ Asked' = Asked /\ Answered' = Answered
           \/ \E c \in Chats : Chat!Answer(c)
  <1> DEFINE m == turns["loop"].msg
             n == Len(Published)
             n2 == Len(Published')
             ends == r = "loop" /\ turns'["loop"] = NoTurn
             closes == ends /\ ServesUser
             q == Question(m)
  <1>1. TypeOK /\ TypeOK'
    BY DEF InLine, WellTyped
  <1>2. Active(r) /\ Effect(r) /\ inbound' = inbound /\ "loop" \in Runners
    BY TurnStepEffect DEF InLine, Runners
  <1>3. /\ n2 \in Nat /\ n <= n2 /\ n \in Nat
        /\ \A k \in 1..n : Published'[k] = Published[k]
        /\ ends => LET last == Published'[n2]
                   IN  /\ n < n2
                       /\ last.kind \in {"reply", "error"} /\ last.of = m
                       /\ \A k \in n+1..n2-1 : ~AnswersUser(Published'[k])
        /\ ~ends => \A k \in n+1..n2 : ~AnswersUser(Published'[k])
    BY <1>1, PublishedEffect, PublishedType DEF InLine
  <1>4. ends => ~ServesUser'
    BY DEF ServesUser, Active
  <1>5. ~ends => (ServesUser' <=> ServesUser) /\ (ServesUser => turns'["loop"].msg = m)
    BY <1>2 DEF Effect, ServesUser, Active
  <1>6. ASSUME NEW k \in 1..n2, AnswersUser(Published'[k])
        PROVE  \/ k \in 1..n /\ Published'[k] = Published[k]
               \/ closes /\ Published'[k].of = m
    <2>1. CASE k \in 1..n
      BY <1>3, <2>1
    <2>2. CASE k \notin 1..n
      <3>1. k \in n+1..n2
        BY <1>3, <2>2
      <3>2. ends /\ k = n2
        BY <1>3, <1>6, <3>1
      <3>3. Published'[k].of = m
        BY <1>3, <3>2
      <3>4. IsUser(m)
        BY <1>6, <3>3 DEF AnswersUser, IsAnswerTo, IsUser
      <3> QED
        BY <1>2, <3>2, <3>3, <3>4 DEF ServesUser
    <2> QED
      BY <2>1, <2>2
  <1>7. closes => n2 \in 1..n2 /\ Published'[n2].of = m /\ AnswersUser(Published'[n2])
    BY <1>3 DEF AnswersUser, IsAnswerTo, ServesUser, IsUser
  <1> HIDE DEF m, n, n2, ends
  <1>8. ASSUME NEW x PROVE x \in Answered' <=> x \in Answered \/ (closes /\ x = q)
    <2>1. x \in Answered' <=> \E k \in 1..n2 :
              AnswersUser(Published'[k]) /\ x = Question(Published'[k].of)
      BY <1>1, MembersNext DEF AnsweredAre, n2
    <2>2. x \in Answered <=> \E k \in 1..n :
              AnswersUser(Published[k]) /\ x = Question(Published[k].of)
      BY <1>1, Members DEF AnsweredAre, n
    <2>3. \A k \in 1..n : k \in 1..n2 /\ Published'[k] = Published[k]
      BY <1>3
    <2> QED
      BY <1>6, <1>7, <2>1, <2>2, <2>3
  <1>9. ASSUME NEW x PROVE x \in Asked' <=> x \in Asked
    <2>1. x \in Asked' <=>
              \/ \E i \in 1..Len(inbound) :
                    IsUser(inbound[i]) /\ x = Question(inbound[i])
              \/ ServesUser' /\ x = Question(turns'["loop"].msg)
              \/ x \in Answered'
      BY <1>1, <1>2, MembersNext DEF AskedAre
    <2>2. x \in Asked <=>
              \/ \E i \in 1..Len(inbound) :
                    IsUser(inbound[i]) /\ x = Question(inbound[i])
              \/ ServesUser /\ x = Question(m)
              \/ x \in Answered
      BY <1>1, Members DEF AskedAre, m
    <2> QED
      BY <1>4, <1>5, <1>8, <2>1, <2>2
  <1>10. Asked' = Asked
    BY <1>9
  <1>11. CASE ~closes
    BY <1>8, <1>10, <1>11
  <1>12. CASE closes
    <2>1. m \in Message /\ q.chat = m.chat /\ q.id = m.id /\ q.chat \in Chats
      BY <1>1, <1>12 DEF TypeOK, ServesUser, Active, Turn, Runners, Message,
         Question, m
    <2>2. q \in Asked
      BY <1>1, <1>12, Members DEF AskedAre, m
    <2>3. q \notin Answered
      <3> SUFFICES ASSUME NEW k \in 1..n, AnswersUser(Published[k]),
                          q = Question(Published[k].of)
                   PROVE  FALSE
        BY <1>1, Members DEF AnsweredAre, n
      <3>1. Published[k].of.id < m.id
        BY <1>12 DEF InLine, AnswersBefore, n, m
      <3>2. Published[k].of.id = m.id
        BY <2>1 DEF Question
      <3> QED
        BY <2>1, <3>1, <3>2 DEF Message
    <2>4. ASSUME NEW e \in Asked, e.id < q.id PROVE e \in Answered
      <3>1. CASE \E i \in 1..Len(inbound) :
                     IsUser(inbound[i]) /\ e = Question(inbound[i])
        <4>1. PICK i \in 1..Len(inbound) :
                     IsUser(inbound[i]) /\ e = Question(inbound[i])
          BY <3>1
        <4>2. inbound[i] \in Message
          BY <1>1, <4>1, ElementOfSeq DEF TypeOK
        <4>3. m.id < inbound[i].id /\ e.id = inbound[i].id
          BY <1>12, <4>1 DEF InLine, TurnFirst, Question, m
        <4> QED
          BY <2>1, <2>4, <4>2, <4>3 DEF Message
      <3>2. CASE e = Question(m)
        BY <2>1, <2>4, <3>2 DEF Message
      <3> QED
        BY <1>1, <3>1, <3>2, Members DEF AskedAre, m
    <2>5. Answered' = Answered \cup {q}
      BY <1>8, <1>12
    <2> HIDE DEF q
    <2> QED
      BY <1>10, <2>1, <2>2, <2>3, <2>4, <2>5 DEF Chat!Answer
  <1> QED
    BY <1>11, <1>12

LEMMA StepRefines ==
    InLine /\ InLine' /\ [Next]_vars => [Chat!Next]_Chat!vars
  <1> SUFFICES ASSUME InLine, InLine', [Next]_vars
               PROVE  [Chat!Next]_Chat!vars
    OBVIOUS
  <1>1. ASSUME NEW c \in Served, Arrive(c) PROVE Chat!Next
    BY <1>1, ArriveAsks, ServedAssumption DEF Chat!Next
  <1>2. CASE StartLoopTurn
    BY <1>2, TakeStutters DEF Chat!vars
  <1>3. ASSUME NEW r \in Runners, TurnStep(r) PROVE [Chat!Next]_Chat!vars
    BY <1>3, TurnStepAnswers DEF Chat!Next, Chat!vars
  \* The other steps touch neither what was published nor what the loop serves.
  <1>4. ASSUME Published' = Published, turns'["loop"] = turns["loop"],
               \A x : (\E i \in 1..Len(inbound') :
                          IsUser(inbound'[i]) /\ x = Question(inbound'[i]))
                      <=> (\E i \in 1..Len(inbound) :
                          IsUser(inbound[i]) /\ x = Question(inbound[i]))
        PROVE  UNCHANGED Chat!vars
    <2>1. TypeOK /\ TypeOK'
      BY DEF InLine, WellTyped
    <2>2. Answered' = Answered /\ (ServesUser' <=> ServesUser)
      BY <1>4, SamePublishedAnswered DEF ServesUser, Active
    <2>3. \A x : x \in Asked' <=> x \in Asked
      BY <1>4, <2>1, <2>2, Members, MembersNext DEF AskedAre
    <2> QED
      BY <2>2, <2>3 DEF Chat!vars
  <1>5. ASSUME NEW s \in subagents, Announce(s) PROVE UNCHANGED Chat!vars
    <2> DEFINE m == [kind |-> "announce", chat |-> s.origin, id |-> s.id]
    <2>1. m \in Message /\ ~IsUser(m)
      BY DEF Message, Subagent, IsUser, InLine, WellTyped, TypeOK
    <2>2. /\ inbound' = Append(inbound, m)
          /\ UNCHANGED <<outbound, dispatched, turns>>
      BY <1>5 DEF Announce
    <2> HIDE DEF m
    <2>3. /\ Len(inbound) \in Nat /\ Len(inbound') = Len(inbound) + 1
          /\ \A i \in 1..Len(inbound) : inbound'[i] = inbound[i]
          /\ inbound'[Len(inbound) + 1] = m
      BY <2>1, <2>2, AppendProperties, LenProperties
         DEF InLine, WellTyped, TypeOK
    <2>4. 1..Len(inbound') = 1..Len(inbound) \cup {Len(inbound) + 1}
      BY <2>3
    <2>5. \A x : (\E i \in 1..Len(inbound') :
                     IsUser(inbound'[i]) /\ x = Question(inbound'[i]))
                 <=> (\E i \in 1..Len(inbound) :
                     IsUser(inbound[i]) /\ x = Question(inbound[i]))
      BY <2>1, <2>3, <2>4
    <2> QED
      BY <1>4, <2>2, <2>5 DEF Published
  <1>6. ASSUME NEW r \in Background, NEW c \in Chats, StartDirectTurn(r, c)
        PROVE  UNCHANGED Chat!vars
    <2>1. r # "loop" /\ "loop" \in Runners
      BY BackgroundAssumption DEF Runners
    <2>2. turns'["loop"] = turns["loop"]
      BY <1>6, <2>1 DEF StartDirectTurn, Begin, InLine, WellTyped, TypeOK
    <2> QED
      BY <1>4, <1>6, <2>2 DEF StartDirectTurn, Published
  <1>7. CASE Dispatch
    <2>1. Published' = Published
      BY <1>7, DispatchPublishesNothing DEF InLine, WellTyped
    <2> QED
      BY <1>4, <1>7, <2>1 DEF Dispatch
  <1>8. CASE UNCHANGED vars
    BY <1>4, <1>8 DEF vars, Published
  <1> QED
    BY <1>1, <1>2, <1>3, <1>5, <1>6, <1>7, <1>8 DEF Next

\* The gateway, with all its queues, turns, tools and subagents, is a chat
\* service: every step asks, answers the oldest open question of a chat, or
\* is invisible to the chats.
THEOREM Refinement == Spec => RefinesChatService
  <1>1. Init => Chat!Init
    <2> SUFFICES ASSUME Init PROVE Asked = {} /\ Answered = {}
      BY DEF Chat!Init
    <2>1. inbound = <<>> /\ Published = <<>> /\ ~ServesUser
      BY ConcatEmptySeq, EmptySeq DEF Init, Published, ServesUser, Active, Runners
    <2>2. TypeOK /\ Len(inbound) = 0 /\ Len(Published) = 0
      BY <2>1, InitWellTyped DEF WellTyped
    <2>3. \A q : q \notin Answered
      BY <2>2, Members DEF AnsweredAre
    <2>4. \A q : q \notin Asked
      BY <2>1, <2>2, <2>3, Members DEF AskedAre
    <2> QED
      BY <2>3, <2>4
  <1> QED
    BY <1>1, StepRefines, LineInvariant, PTL DEF Spec, Chat!Spec, RefinesChatService
-----------------------------------------------------------------------------
(* What a turn has seen                                                    *)

\* A turn keeps what it has seen; it records nothing, or its own message when
\* it ends.
Records(r) ==
    /\ turns'[r] # NoTurn => turns'[r].seen = turns[r].seen
    /\ \/ history' = history
       \/ /\ turns'[r] = NoTurn
          /\ history' = [history EXCEPT ![turns[r].msg.chat] =
                                            Append(@, turns[r].msg)]

LEMMA ContinueRecords ==
    ASSUME WellTyped, NEW r \in Runners, Active(r),
           NEW STATE before, NEW STATE T, TurnsLike(T, r),
           Continue(r, before, T)
    PROVE  Records(r)
  <1>1. T \in [Runners -> Turn \cup {NoTurn}] /\ T[r] = turns[r] /\ turns[r] \in Turn
    BY DEF TurnsLike, WellTyped, TypeOK, Active
  <1>2. CASE \E saved \in BOOLEAN : End(r, saved, before, T)
    BY <1>1, <1>2 DEF End, Records
  <1>3. CASE /\ turns' = [T EXCEPT ![r].iter = @ + 1, ![r].at = "llm"]
             /\ UNCHANGED history
    <2>1. turns'[r] = [turns[r] EXCEPT !.iter = @ + 1, !.at = "llm"]
      BY <1>1, <1>3
    <2>2. turns'[r].seen = turns[r].seen
      BY <1>1, <2>1 DEF Turn
    <2> QED
      BY <1>3, <2>2 DEF Records
  <1> QED
    BY <1>2, <1>3 DEF Continue

LEMMA TurnStepRecords ==
    ASSUME WellTyped, NEW r \in Runners, TurnStep(r)
    PROVE  Records(r)
  <1>1. Active(r)
    BY TurnStepEffect
  <1>2. turns \in [Runners -> Turn \cup {NoTurn}] /\ turns[r] \in Turn
    BY <1>1 DEF WellTyped, TypeOK, Active
  <1>3. CASE AnswerFinal(r)
    <2>1. \E saved \in BOOLEAN : End(r, saved, <<>>, turns)
      BY <1>3 DEF AnswerFinal
    <2> QED
      BY <1>2, <2>1 DEF End, Records
  <1>4. CASE CallMessage(r)
    BY <1>1, <1>4, TurnsLikeTurns, ContinueRecords DEF CallMessage
  <1>5. CASE CallSpawn(r)
    BY <1>1, <1>5, TurnsLikeTurns, ContinueRecords DEF CallSpawn
  <1>6. CASE CallCron(r)
    <2> DEFINE cancelled == [x \in Runners |->
                                IF x = "cron" THEN NoTurn ELSE turns[x]]
    <2>1. r # "cron" => TurnsLike(cancelled, r)
      BY DEF TurnsLike, WellTyped, TypeOK
    <2>2. CASE r # "cron" /\ Continue(r, <<>>, cancelled)
      BY <1>1, <2>1, <2>2, ContinueRecords
    <2>3. CASE r = "cron" /\ Continue(r, <<>>, turns)
      BY <1>1, <2>3, TurnsLikeTurns, ContinueRecords
    <2>4. CASE r = "cron" /\ turns' = cancelled /\ UNCHANGED history
      BY <2>4 DEF Records
    <2> QED
      BY <1>6, <2>2, <2>3, <2>4 DEF CallCron
  <1>7. CASE CallSlowTool(r)
    <2>1. turns'[r] = [turns[r] EXCEPT !.at = "tool"] /\ history' = history
      BY <1>2, <1>7 DEF CallSlowTool
    <2> QED
      BY <1>2, <2>1 DEF Turn, Records
  <1>8. CASE SlowToolReturns(r)
    BY <1>1, <1>8, TurnsLikeTurns, ContinueRecords DEF SlowToolReturns
  <1>9. CASE TurnRaises(r)
    BY <1>2, <1>9 DEF TurnRaises, Records
  <1> QED
    BY <1>3, <1>4, <1>5, <1>6, <1>7, <1>8, <1>9 DEF TurnStep

IsDirect(m) == m.kind \in {"cron", "beat"}

\* The turns beside the loop's are direct ones, so that what they record is.
DirectRunners == \A r \in Background : Active(r) => IsDirect(turns[r].msg)

SeenInv == WellTyped /\ DirectRunners /\ SnapshotMissesOnlyDirectTurns

LEMMA TurnStepSeen ==
    ASSUME SeenInv, NEW r \in Runners, TurnStep(r)
    PROVE  DirectRunners' /\ SnapshotMissesOnlyDirectTurns'
  <1>1. /\ Active(r) /\ Effect(r) /\ Records(r)
        /\ "loop" \in Runners /\ Background \subseteq Runners
    BY TurnStepEffect, TurnStepRecords DEF SeenInv, Runners
  <1>2. \A x \in Runners : turns'[x] # NoTurn =>
            turns[x] # NoTurn /\ turns'[x].msg = turns[x].msg
    BY <1>1 DEF Effect, Active
  <1>3. DirectRunners'
    BY <1>1, <1>2 DEF SeenInv, DirectRunners, Active
  <1>4. turns'["loop"] # NoTurn => turns'["loop"].seen = turns["loop"].seen
    BY <1>1 DEF Effect, Records
  <1>5. SUFFICES ASSUME turns'["loop"] # NoTurn
                 PROVE  LET t == turns["loop"] IN
                        \A i \in t.seen + 1 .. Len(history'[t.msg.chat]) :
                            IsDirect(history'[t.msg.chat][i])
    BY <1>1, <1>2, <1>3, <1>4 DEF SnapshotMissesOnlyDirectTurns, Active, IsDirect
  <1> DEFINE c == turns["loop"].msg.chat
             s == turns["loop"].seen
  <1>6. /\ turns["loop"] \in Turn /\ c \in Chats /\ s \in Nat
        /\ history[c] \in Seq(Message) /\ Len(history[c]) \in Nat
        /\ \A i \in s + 1 .. Len(history[c]) : IsDirect(history[c][i])
    BY <1>1, <1>2, <1>5, LenProperties
       DEF SeenInv, WellTyped, TypeOK, Turn, Message,
           SnapshotMissesOnlyDirectTurns, Active, IsDirect
  <1>7. CASE history' = history
    BY <1>6, <1>7
  <1>8. CASE history' # history
    <2> DEFINE m == turns[r].msg
    <2>1. /\ turns'[r] = NoTurn
          /\ history' = [history EXCEPT ![m.chat] = Append(@, m)]
      BY <1>1, <1>8 DEF Records
    <2>2. r \in Background /\ m \in Message /\ IsDirect(m)
      BY <1>1, <1>5, <2>1
         DEF Runners, SeenInv, DirectRunners, WellTyped, TypeOK, Active, Turn
    <2>3. CASE m.chat # c
      BY <1>6, <2>1, <2>3 DEF SeenInv, WellTyped, TypeOK
    <2>4. CASE m.chat = c
      <3>1. history'[c] = Append(history[c], m)
        BY <1>6, <2>1, <2>4 DEF SeenInv, WellTyped, TypeOK
      <3> HIDE DEF m, c, s
      <3>2. /\ Len(history'[c]) = Len(history[c]) + 1
            /\ history'[c][Len(history[c]) + 1] = m
            /\ \A i \in 1..Len(history[c]) : history'[c][i] = history[c][i]
        BY <1>6, <2>2, <3>1, AppendProperties
      <3>3. ASSUME NEW i \in s + 1 .. Len(history'[c])
            PROVE  IsDirect(history'[c][i])
        <4>1. CASE i = Len(history[c]) + 1
          BY <2>2, <3>2, <4>1
        <4>2. CASE i # Len(history[c]) + 1
          BY <1>6, <3>2, <4>2
        <4> QED
          BY <4>1, <4>2
      <3> QED
        BY <3>3 DEF c, s
    <2> QED
      BY <2>3, <2>4
  <1> QED
    BY <1>7, <1>8

LEMMA StepSeen == SeenInv /\ [Next]_vars => SeenInv'
  <1> SUFFICES ASSUME SeenInv, [Next]_vars PROVE SeenInv'
    OBVIOUS
  <1>0. WellTyped' /\ "loop" \in Runners /\ Background \subseteq Runners
    BY NextWellTyped DEF SeenInv, Runners
  <1>1. ASSUME UNCHANGED <<turns, history>> PROVE SeenInv'
    BY <1>0, <1>1 DEF SeenInv, DirectRunners, SnapshotMissesOnlyDirectTurns, Active
  <1>2. CASE StartLoopTurn
    <2>1. inbound # <<>> /\ Begin("loop", Head(inbound)) /\ history' = history
      BY <1>2 DEF StartLoopTurn
    <2>2. turns'["loop"] = [msg |-> Head(inbound), iter |-> 1, at |-> "llm",
                            seen |-> Len(history[Head(inbound).chat])]
      BY <1>0, <2>1 DEF Begin, SeenInv, WellTyped, TypeOK
    <2>3. \A r \in Background : turns'[r] = turns[r]
      BY <1>0, <2>1, BackgroundAssumption DEF Begin, SeenInv, WellTyped, TypeOK
    <2>4. Head(inbound).chat \in Chats
      <3>1. inbound \in Seq(Message)
        BY DEF SeenInv, WellTyped, TypeOK
      <3>2. Head(inbound) \in Message
        BY <2>1, <3>1, HeadTailProperties
      <3> QED
        BY <3>2 DEF Message
    <2>5. Len(history[Head(inbound).chat]) \in Nat
      BY <2>4, LenProperties DEF SeenInv, WellTyped, TypeOK
    <2>6. SnapshotMissesOnlyDirectTurns'
      BY <2>1, <2>2, <2>5 DEF SnapshotMissesOnlyDirectTurns
    <2> QED
      BY <1>0, <2>3, <2>6 DEF SeenInv, DirectRunners, Active
  <1>3. ASSUME NEW r \in Background, NEW c \in Chats, StartDirectTurn(r, c)
        PROVE  SeenInv'
    <2> DEFINE m == [kind |-> r, chat |-> c, id |-> direct + 1]
    <2>1. r # "loop" /\ r \in Runners /\ IsDirect(m) /\ m \in Message
      BY <1>0, BackgroundAssumption DEF IsDirect, Message, SeenInv, WellTyped, TypeOK
    <2>2. Begin(r, m) /\ history' = history
      BY <1>3 DEF StartDirectTurn
    <2> HIDE DEF m
    <2>3. /\ turns'[r].msg = m
          /\ \A x \in Runners \ {r} : turns'[x] = turns[x]
      BY <2>1, <2>2, BeginWellTyped DEF SeenInv
    <2>4. DirectRunners'
      BY <1>0, <2>1, <2>3 DEF SeenInv, DirectRunners, Active
    <2>5. turns'["loop"] = turns["loop"]
      BY <1>0, <2>1, <2>3
    <2> QED
      BY <1>0, <2>2, <2>4, <2>5 DEF SeenInv, SnapshotMissesOnlyDirectTurns, Active
  <1>4. ASSUME NEW r \in Runners, TurnStep(r) PROVE SeenInv'
    BY <1>0, <1>4, TurnStepSeen DEF SeenInv
  <1>5. ASSUME NEW c \in Served, Arrive(c) PROVE SeenInv'
    BY <1>1, <1>5 DEF Arrive
  <1>6. ASSUME NEW s \in subagents, Announce(s) PROVE SeenInv'
    BY <1>1, <1>6 DEF Announce
  <1>7. CASE Dispatch
    BY <1>1, <1>7 DEF Dispatch
  <1>8. CASE UNCHANGED vars
    BY <1>1, <1>8 DEF vars
  <1> QED
    BY <1>2, <1>3, <1>4, <1>5, <1>6, <1>7, <1>8 DEF Next

\* The loop answers from a history that lacks nothing but direct turns, for
\* every number of runners, chats and iterations: sessions are shared between
\* the loop and process_direct, but the loop never races itself.
THEOREM SnapshotsAreRecent == Spec => []SnapshotMissesOnlyDirectTurns
  <1>1. Init => SeenInv
    <2> SUFFICES ASSUME Init PROVE SeenInv
      OBVIOUS
    <2>1. \A r \in Runners : ~Active(r)
      BY DEF Init, Active
    <2> QED
      BY <2>1, InitWellTyped
         DEF SeenInv, DirectRunners, SnapshotMissesOnlyDirectTurns, Runners
  <1>2. SeenInv => SnapshotMissesOnlyDirectTurns
    BY DEF SeenInv
  <1> QED
    BY <1>1, <1>2, StepSeen, PTL DEF Spec

-----------------------------------------------------------------------------
(* The chat of the tools                                                   *)

\* What the tools publish in r's turn is for their chat.
OwnTools(xs, r) ==
    /\ xs \in Seq(Outbound)
    /\ \A k \in 1..Len(xs) : xs[k].kind = "tool" =>
           xs[k].to = toolCtx /\ xs[k].of = turns[r].msg

ToolEffect(r) == \E xs : outbound' = outbound \o xs /\ OwnTools(xs, r)

LEMMA OwnToolsEmpty == ASSUME NEW r \in Runners PROVE OwnTools(<<>>, r)
  BY DEF OwnTools

LEMMA OwnToolsThen ==
    ASSUME NEW STATE before, NEW r \in Runners, OwnTools(before, r),
           NEW STATE o, o \in Outbound, o.kind # "tool"
    PROVE  OwnTools(before \o <<o>>, r)
  <1>1. /\ before \in Seq(Outbound) /\ <<o>> \in Seq(Outbound)
        /\ Len(<<o>>) = 1 /\ <<o>>[1] = o /\ Len(before) \in Nat
    BY LenProperties DEF OwnTools
  <1>2. /\ before \o <<o>> \in Seq(Outbound)
        /\ Len(before \o <<o>>) = Len(before) + Len(<<o>>)
        /\ \A i \in 1 .. Len(before) + Len(<<o>>) : (before \o <<o>>)[i] =
               IF i <= Len(before) THEN before[i] ELSE <<o>>[i - Len(before)]
    BY <1>1, ConcatProperties
  <1> QED
    BY <1>1, <1>2 DEF OwnTools

LEMMA PublishTools ==
    ASSUME WellTyped, NEW r \in Runners, Active(r), NEW ok \in BOOLEAN,
           NEW STATE before, OwnTools(before, r), Publish(r, ok, before)
    PROVE  ToolEffect(r)
  <1> DEFINE m == turns[r].msg
             loud == IF ok THEN [kind |-> "reply", to |-> m.chat, of |-> m]
                     ELSE [kind |-> "error", to |-> ErrorAddress(m), of |-> m]
             gift == [kind |-> "deliver", to |-> m.chat, of |-> m]
  <1>1. m \in Message /\ outbound \in Seq(Outbound) /\ before \in Seq(Outbound)
    BY DEF WellTyped, TypeOK, Active, Turn, OwnTools
  <1>2. loud \in Outbound /\ loud.kind # "tool" /\ gift \in Outbound /\ gift.kind # "tool"
    BY <1>1 DEF Outbound, ErrorAddress, Message
  <1>3. \/ outbound' = outbound \o before \o <<loud>>
        \/ outbound' = outbound \o before
        \/ outbound' = outbound \o before \o <<gift>>
    BY DEF Publish
  <1> HIDE DEF loud, gift
  <1>4. OwnTools(before \o <<loud>>, r) /\ OwnTools(before \o <<gift>>, r)
    BY <1>2, OwnToolsThen
  <1>5. \A x \in Outbound : (outbound \o before) \o <<x>> = outbound \o (before \o <<x>>)
    BY <1>1, ConcatAssociative
  <1> QED
    BY <1>2, <1>3, <1>4, <1>5 DEF ToolEffect

LEMMA ContinueTools ==
    ASSUME WellTyped, NEW r \in Runners, Active(r),
           NEW STATE before, OwnTools(before, r), NEW STATE T,
           Continue(r, before, T)
    PROVE  ToolEffect(r)
  <1>1. CASE outbound' = outbound \o before
    BY <1>1 DEF ToolEffect
  <1>2. CASE \E saved \in BOOLEAN : End(r, saved, before, T)
    BY <1>2, PublishTools DEF End
  <1> QED
    BY <1>1, <1>2 DEF Continue

LEMMA TurnStepTools ==
    ASSUME WellTyped, NEW r \in Runners, TurnStep(r)
    PROVE  /\ ToolEffect(r)
           /\ \A s \in subagents' \ subagents :
                  s.origin = toolCtx /\ s.asker = turns[r].msg.chat
  <1>1. Active(r) /\ OwnTools(<<>>, r)
    BY TurnStepEffect, OwnToolsEmpty
  <1>2. turns[r].msg \in Message /\ toolCtx \in Chats /\ outbound \in Seq(Outbound)
    BY <1>1 DEF WellTyped, TypeOK, Active, Turn
  <1>3. CASE AnswerFinal(r)
    BY <1>1, <1>3, PublishTools DEF AnswerFinal, End
  <1>4. CASE CallMessage(r)
    <2> DEFINE mine == [kind |-> "tool", to |-> toolCtx, of |-> turns[r].msg]
               named(c) == [kind |-> "explicit", to |-> c, of |-> turns[r].msg]
    <2>1. OwnTools(<<mine>>, r) /\ \A c \in Explicit : OwnTools(<<named(c)>>, r)
      BY <1>2, ExplicitAssumption DEF OwnTools, Outbound
    <2>2. \/ Continue(r, <<mine>>, turns)
          \/ \E c \in Explicit : Continue(r, <<named(c)>>, turns)
      BY <1>4 DEF CallMessage
    <2>3. ToolEffect(r)
      BY <1>1, <2>1, <2>2, ContinueTools
    <2> QED
      BY <1>4, <2>3 DEF CallMessage
  <1>5. CASE CallSpawn(r)
    <2>1. ToolEffect(r)
      BY <1>1, <1>5, ContinueTools DEF CallSpawn
    <2> QED
      BY <1>5, <2>1 DEF CallSpawn
  <1>6. CASE CallCron(r)
    <2>1. CASE \E T : Continue(r, <<>>, T)
      BY <1>1, <1>6, <2>1, ContinueTools DEF CallCron
    <2>2. CASE UNCHANGED outbound
      <3>1. outbound' = outbound \o <<>>
        BY <1>2, <2>2, ConcatEmptySeq
      <3> QED
        BY <1>1, <1>6, <3>1 DEF ToolEffect, CallCron
    <2> QED
      BY <1>6, <2>1, <2>2 DEF CallCron
  <1>7. CASE CallSlowTool(r)
    <2>1. outbound' = outbound \o <<>> /\ subagents' = subagents
      BY <1>2, <1>7, ConcatEmptySeq DEF CallSlowTool
    <2> QED
      BY <1>1, <2>1 DEF ToolEffect
  <1>8. CASE SlowToolReturns(r)
    BY <1>1, <1>8, ContinueTools DEF SlowToolReturns
  <1>9. CASE TurnRaises(r)
    BY <1>1, <1>9, PublishTools DEF TurnRaises
  <1> QED
    BY <1>3, <1>4, <1>5, <1>6, <1>7, <1>8, <1>9 DEF TurnStep

\* Without direct turns only the loop runs, and the tools are set to the chat
\* of its turn.
LoopAlone ==
    /\ \A r \in Background : ~Active(r)
    /\ Active("loop") => toolCtx = turns["loop"].msg.chat

ToolsInv ==
    /\ WellTyped
    /\ direct = 0 => LoopAlone /\ ToolsActForTheirChat

LEMMA Regroup ==
    \A a, b, c \in Seq(Outbound) : a \o (b \o c) = (a \o b) \o c
BY ConcatAssociative

LEMMA TurnStepToolsInv ==
    ASSUME ToolsInv, NEW r \in Runners, TurnStep(r)
    PROVE  ToolsInv'
  <1>1. /\ Active(r) /\ Effect(r) /\ WellTyped'
        /\ UNCHANGED <<dispatched, toolCtx, direct>>
        /\ "loop" \in Runners /\ Background \subseteq Runners
    BY TurnStepEffect, NextWellTyped DEF ToolsInv, Runners, Next
  <1>2. SUFFICES ASSUME direct = 0 PROVE LoopAlone' /\ ToolsActForTheirChat'
    BY <1>1 DEF ToolsInv
  <1>3. r = "loop" /\ toolCtx = turns[r].msg.chat /\ ToolsActForTheirChat
    BY <1>1, <1>2 DEF ToolsInv, LoopAlone, Runners
  <1>4. LoopAlone'
    BY <1>1, <1>2, <1>3 DEF ToolsInv, LoopAlone, Effect, Active
  <1>5. PICK xs : outbound' = outbound \o xs /\ OwnTools(xs, r)
    BY TurnStepTools DEF ToolsInv, ToolEffect
  <1>6. /\ xs \in Seq(Outbound) /\ outbound \in Seq(Outbound)
        /\ dispatched \in Seq(Outbound) /\ Published \in Seq(Outbound)
    BY <1>5, PublishedType DEF OwnTools, ToolsInv, WellTyped, TypeOK
  <1>7. Published' = Published \o xs
    <2>1. dispatched \o (outbound \o xs) = (dispatched \o outbound) \o xs
      BY <1>6, Regroup
    <2>2. Published' = dispatched \o (outbound \o xs)
      BY <1>1, <1>5 DEF Published
    <2> QED
      BY <2>1, <2>2 DEF Published
  <1>8. /\ Len(Published') = Len(Published) + Len(xs)
        /\ \A i \in 1 .. Len(Published) + Len(xs) : Published'[i] =
              IF i <= Len(Published) THEN Published[i]
                                     ELSE xs[i - Len(Published)]
        /\ Len(Published) \in Nat /\ Len(xs) \in Nat
        /\ DOMAIN Published = 1..Len(Published)
        /\ DOMAIN Published' = 1..Len(Published')
    BY <1>6, <1>7, ConcatProperties, LenProperties
  <1>9. ASSUME NEW i \in DOMAIN Published', Published'[i].kind = "tool"
        PROVE  Published'[i].to = Published'[i].of.chat
    <2>1. CASE i <= Len(Published)
      BY <1>3, <1>8, <1>9, <2>1 DEF ToolsActForTheirChat
    <2>2. CASE i > Len(Published)
      <3>1. i - Len(Published) \in 1..Len(xs) /\ Published'[i] = xs[i - Len(Published)]
        BY <1>8, <2>2
      <3> QED
        BY <1>3, <1>5, <1>9, <3>1 DEF OwnTools
    <2> QED
      BY <1>8, <2>1, <2>2
  <1>10. \A s \in subagents' : s.origin = s.asker
    BY <1>3, TurnStepTools DEF ToolsInv, ToolsActForTheirChat
  <1> QED
    BY <1>4, <1>9, <1>10 DEF ToolsActForTheirChat

LEMMA StepToolsInv == ToolsInv /\ [Next]_vars => ToolsInv'
  <1> SUFFICES ASSUME ToolsInv, [Next]_vars PROVE ToolsInv'
    OBVIOUS
  <1>0. WellTyped' /\ "loop" \in Runners /\ Background \subseteq Runners
    BY NextWellTyped DEF ToolsInv, Runners
  <1>1. ASSUME Published' = Published, subagents' \subseteq subagents,
               UNCHANGED <<turns, toolCtx, direct>>
        PROVE  ToolsInv'
    BY <1>0, <1>1 DEF ToolsInv, LoopAlone, ToolsActForTheirChat, Active
  <1>2. CASE StartLoopTurn
    <2>1. /\ inbound # <<>> /\ Begin("loop", Head(inbound))
          /\ UNCHANGED <<outbound, dispatched, subagents, direct>>
      BY <1>2 DEF StartLoopTurn
    <2>2. toolCtx' = Head(inbound).chat
      BY <2>1 DEF Begin
    <2>3. Head(inbound) \in Message /\ Head(inbound).kind \in {"user", "announce"}
      <3>1. inbound \in Seq(Message) /\ Len(inbound) \in Nat /\ DOMAIN inbound = 1..Len(inbound)
        BY LenProperties DEF ToolsInv, WellTyped, TypeOK
      <3>2. Len(inbound) > 0 /\ Head(inbound) = inbound[1]
        BY <2>1, <3>1, EmptySeq
      <3> QED
        BY <2>1, <3>1, <3>2, HeadTailProperties DEF ToolsInv, WellTyped
    <2>4. /\ turns'["loop"].msg = Head(inbound)
          /\ \A x \in Runners \ {"loop"} : turns'[x] = turns[x]
      BY <1>0, <2>1, <2>3, BeginWellTyped DEF ToolsInv
    <2>5. direct = 0 => LoopAlone'
      BY <1>0, <2>2, <2>4, BackgroundAssumption DEF ToolsInv, LoopAlone, Active
    <2> QED
      BY <1>0, <2>1, <2>5 DEF ToolsInv, ToolsActForTheirChat, Published
  <1>3. ASSUME NEW r \in Background, NEW c \in Chats, StartDirectTurn(r, c)
        PROVE  ToolsInv'
    <2>1. direct' # 0
      BY <1>3 DEF StartDirectTurn, ToolsInv, WellTyped, TypeOK
    <2> QED
      BY <1>0, <2>1 DEF ToolsInv
  <1>4. ASSUME NEW r \in Runners, TurnStep(r) PROVE ToolsInv'
    BY <1>4, TurnStepToolsInv
  <1>5. ASSUME NEW c \in Served, Arrive(c) PROVE ToolsInv'
    BY <1>1, <1>5 DEF Arrive, Published
  <1>6. ASSUME NEW s \in subagents, Announce(s) PROVE ToolsInv'
    BY <1>1, <1>6 DEF Announce, Published
  <1>7. CASE Dispatch
    <2>1. Published' = Published
      BY <1>7, DispatchPublishesNothing DEF ToolsInv, WellTyped
    <2> QED
      BY <1>1, <1>7, <2>1 DEF Dispatch
  <1>8. CASE UNCHANGED vars
    BY <1>1, <1>8 DEF vars, Published
  <1> QED
    BY <1>2, <1>3, <1>4, <1>5, <1>6, <1>7, <1>8 DEF Next

\* Until the first direct turn of the cron service or the heartbeat begins,
\* the message tool and the spawn tool act for the chat of the turn that calls
\* them, whatever the turn awaits and whoever announces meanwhile.
THEOREM ToolsActUntilDirectTurns ==
    Spec => [](direct = 0 => ToolsActForTheirChat)
  <1>1. Init => ToolsInv
    <2> SUFFICES ASSUME Init PROVE ToolsInv
      OBVIOUS
    <2>1. \A r \in Runners : ~Active(r)
      BY DEF Init, Active
    <2>2. Published = <<>> /\ subagents = {}
      BY ConcatEmptySeq, EmptySeq DEF Init, Published
    <2>3. DOMAIN Published = {}
      BY <2>2
    <2> QED
      BY <2>1, <2>2, <2>3, InitWellTyped
         DEF ToolsInv, LoopAlone, ToolsActForTheirChat, Runners
  <1>2. ToolsInv => (direct = 0 => ToolsActForTheirChat)
    BY DEF ToolsInv
  <1> QED
    BY <1>1, <1>2, StepToolsInv, PTL DEF Spec
=============================================================================
