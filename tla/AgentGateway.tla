---------------------------- MODULE AgentGateway ----------------------------
(***************************************************************************)
(* One gateway process: the message bus, the agent loop, the tools that    *)
(* share one chat context, the subagents, the direct turns of the cron and *)
(* heartbeat services, and the outbound dispatcher.                        *)
(*                                                                         *)
(* asyncio runs one task at a time and switches only at an await that      *)
(* suspends: the LLM call and the slow tools (exec, web, MCP).  Publishing *)
(* on the unbounded queues, the message, spawn and cron tools and the      *)
(* session save do not suspend, so each action below runs from one         *)
(* suspension of a turn to its next one.                                   *)
(***************************************************************************)
EXTENDS Naturals, Sequences

CONSTANTS
    Chats,              \* the conversations ("channel:chat_id")
    Served,             \* those on a channel the ChannelManager runs
    System,             \* the address of an answer on channel "system"
    NoTurn,             \* what an idle runner executes
    Background,         \* the callers of process_direct: "cron", "beat"
    DirectChat,         \* "cli:direct", where every heartbeat turn runs
    Explicit,           \* chats an LLM may name in a message tool call
    MaxIterations,      \* AgentLoop.max_iterations
    MaxArrivals,        \* bound: messages accepted from channels
    MaxSpawns,          \* bound: subagents started
    MaxDirect           \* bound: direct turns started

ASSUME ServedAssumption == Served \subseteq Chats
ASSUME SystemAssumption == System \notin Chats
ASSUME BackgroundAssumption == Background \subseteq {"cron", "beat"}
ASSUME ExplicitAssumption == Explicit \subseteq Chats
ASSUME IterationsAssumption == MaxIterations \in Nat \ {0}
ASSUME BoundsAssumption ==
    MaxArrivals \in Nat /\ MaxSpawns \in Nat /\ MaxDirect \in Nat

VARIABLES
    inbound,            \* MessageBus.inbound
    outbound,           \* MessageBus.outbound
    dispatched,         \* what the dispatcher has taken from outbound
    turns,              \* runner -> the turn it executes
    toolCtx,            \* the chat in the message, spawn and cron tools
    history,            \* chat -> its session: the turns recorded in it
    subagents,          \* the running background tasks
    arrived,            \* number of messages accepted from channels
    spawned,            \* number of subagents started
    direct              \* number of direct turns started

vars == <<inbound, outbound, dispatched, turns, toolCtx, history, subagents,
          arrived, spawned, direct>>

Runners == {"loop"} \cup Background

\* "user": from a channel; "announce": a subagent's result, with the chat its
\* chat_id field encodes; "cron", "beat": the prompt of a direct turn.
Message ==
    [kind : {"user", "announce", "cron", "beat"}, chat : Chats, id : Nat]

\* at: the await the turn is suspended in; seen: the length of the history
\* its prompt was built from.
Turn == [msg  : Message, iter : 1..MaxIterations, at : {"llm", "tool"},
         seen : Nat]

\* of: the message whose turn sent it.
Outbound ==
    [kind : {"reply", "error", "tool", "explicit", "deliver"},
     to   : Chats \cup {System}, of : Message]

\* origin: where the result is announced; asker: the chat whose turn asked.
Subagent == [id : Nat, origin : Chats, asker : Chats]

ASSUME NoTurnAssumption == NoTurn \notin Turn

TypeOK ==
    /\ inbound \in Seq(Message)
    /\ outbound \in Seq(Outbound)
    /\ dispatched \in Seq(Outbound)
    /\ turns \in [Runners -> Turn \cup {NoTurn}]
    /\ toolCtx \in Chats \cup {System}
    /\ history \in [Chats -> Seq(Message)]
    /\ subagents \subseteq Subagent
    /\ arrived \in Nat /\ spawned \in Nat /\ direct \in Nat

Init ==
    /\ inbound = <<>> /\ outbound = <<>> /\ dispatched = <<>>
    /\ turns = [r \in Runners |-> NoTurn]
    /\ toolCtx = System         \* no context yet: every turn sets it first
    /\ history = [c \in Chats |-> <<>>]
    /\ subagents = {}
    /\ arrived = 0 /\ spawned = 0 /\ direct = 0

-----------------------------------------------------------------------------
(* Turns                                                                   *)

Active(r) == turns[r] # NoTurn

\* Mutation: an announcement's turn forgets to set the tools' context.
BeginKeepingContext(r, m) ==
    /\ ~Active(r)
    /\ turns' = [turns EXCEPT ![r] =
                    [msg |-> m, iter |-> 1, at |-> "llm",
                     seen |-> Len(history[m.chat])]]
    /\ toolCtx' = IF m.kind = "announce" THEN toolCtx ELSE m.chat

\* Mutation: the session is created anew instead of taken from the cache.
BeginForgetting(r, m) ==
    /\ ~Active(r)
    /\ turns' = [turns EXCEPT ![r] =
                    [msg |-> m, iter |-> 1, at |-> "llm", seen |-> 0]]
    /\ toolCtx' = m.chat

\* _process_message and _process_system_message up to the first LLM call: the
\* tools' context becomes the message's chat and the history is read.
Begin(r, m) ==
    /\ ~Active(r)
    /\ turns' = [turns EXCEPT ![r] =
                    [msg |-> m, iter |-> 1, at |-> "llm",
                     seen |-> Len(history[m.chat])]]
    /\ toolCtx' = m.chat

\* The address of the loop's error answer: the announce's own channel.
ErrorAddress(m) == IF m.kind = "announce" THEN System ELSE m.chat

\* Mutation: the loop logs an error and does not answer it.
PublishSilently(r, ok, before) ==
    LET m == turns[r].msg
    IN  outbound' = outbound \o before \o
            (IF r = "loop" /\ ok
               THEN <<[kind |-> "reply", to |-> m.chat, of |-> m]>> ELSE <<>>)

\* What a turn publishes when it ends, after what its last step published.
\* Only the loop answers by itself; a cron job may ask for delivery.
Publish(r, ok, before) ==
    LET m    == turns[r].msg
        loud == IF ok THEN [kind |-> "reply", to |-> m.chat, of |-> m]
                      ELSE [kind |-> "error", to |-> ErrorAddress(m), of |-> m]
    IN  \/ r = "loop" /\ outbound' = outbound \o before \o <<loud>>
        \/ r # "loop" /\ outbound' = outbound \o before
        \/ /\ r = "cron" /\ ok
           /\ outbound' = outbound \o before
                  \o <<[kind |-> "deliver", to |-> m.chat, of |-> m]>>

\* The end of a turn: both messages are added to the session, the file is
\* saved, which may raise, and the answer is published.  T is turns without
\* the turns the last step cancelled.
End(r, saved, before, T) ==
    LET m == turns[r].msg
    IN  /\ history' = [history EXCEPT ![m.chat] = Append(@, m)]
        /\ Publish(r, saved, before)
        /\ turns' = [T EXCEPT ![r] = NoTurn]

\* Mutation: the limit is tested too late by one iteration.
ContinueOnceMore(r, before, T) ==
    \/ /\ turns[r].iter <= MaxIterations
       /\ turns' = [T EXCEPT ![r].iter = @ + 1, ![r].at = "llm"]
       /\ outbound' = outbound \o before
       /\ UNCHANGED history
    \/ /\ turns[r].iter > MaxIterations
       /\ \E saved \in BOOLEAN : End(r, saved, before, T)

\* Mutation: the iterations of a turn are not counted.
ContinueUncounted(r, before, T) ==
    /\ turns' = [T EXCEPT ![r].at = "llm"]
    /\ outbound' = outbound \o before
    /\ UNCHANGED history

\* A tool has returned: the next LLM call, or the end of the turn with the
\* default text when the iterations are used up.
Continue(r, before, T) ==
    \/ /\ turns[r].iter < MaxIterations
       /\ turns' = [T EXCEPT ![r].iter = @ + 1, ![r].at = "llm"]
       /\ outbound' = outbound \o before
       /\ UNCHANGED history
    \/ /\ turns[r].iter = MaxIterations
       /\ \E saved \in BOOLEAN : End(r, saved, before, T)

Waiting(r, where) == Active(r) /\ turns[r].at = where

\* The LLM answers without a tool call.
AnswerFinal(r) ==
    /\ Waiting(r, "llm")
    /\ \E saved \in BOOLEAN : End(r, saved, <<>>, turns)
    /\ UNCHANGED <<inbound, dispatched, toolCtx, subagents, arrived, spawned,
                   direct>>

\* The LLM calls the message tool, with or without naming a target.
CallMessage(r) ==
    /\ Waiting(r, "llm")
    /\ \/ Continue(r, <<[kind |-> "tool", to |-> toolCtx,
                         of |-> turns[r].msg]>>, turns)
       \/ \E c \in Explicit :
             Continue(r, <<[kind |-> "explicit", to |-> c,
                            of |-> turns[r].msg]>>, turns)
    /\ UNCHANGED <<inbound, dispatched, toolCtx, subagents, arrived, spawned,
                   direct>>

\* The LLM calls the spawn tool: the announcement will go to toolCtx.
CallSpawn(r) ==
    /\ Waiting(r, "llm")
    /\ spawned < MaxSpawns
    /\ spawned' = spawned + 1
    /\ subagents' = subagents \cup
          {[id |-> spawned + 1, origin |-> toolCtx,
            asker |-> turns[r].msg.chat]}
    /\ Continue(r, <<>>, turns)
    /\ UNCHANGED <<inbound, dispatched, toolCtx, arrived, direct>>

\* The LLM adds or removes a cron job: re-arming the timer cancels the task
\* that executes a job, which ends at its next await.  A job's own turn has
\* no await left when its iterations are used up.
CallCron(r) ==
    /\ Waiting(r, "llm")
    /\ LET cancelled == [x \in Runners |->
                            IF x = "cron" THEN NoTurn ELSE turns[x]]
       IN  \/ /\ r = "cron" /\ turns[r].iter < MaxIterations
              /\ turns' = cancelled
              /\ UNCHANGED <<outbound, history>>
           \/ /\ r = "cron" /\ turns[r].iter = MaxIterations
              /\ Continue(r, <<>>, turns)
           \/ r # "cron" /\ Continue(r, <<>>, cancelled)
    /\ UNCHANGED <<inbound, dispatched, toolCtx, subagents, arrived, spawned,
                   direct>>

\* The LLM calls a tool that suspends (exec, web_fetch, an MCP tool, ...).
CallSlowTool(r) ==
    /\ Waiting(r, "llm")
    /\ turns' = [turns EXCEPT ![r].at = "tool"]
    /\ UNCHANGED <<inbound, outbound, dispatched, toolCtx, history, subagents,
                   arrived, spawned, direct>>

\* It returns; a failing tool returns its error as text.
SlowToolReturns(r) ==
    /\ Waiting(r, "tool")
    /\ Continue(r, <<>>, turns)
    /\ UNCHANGED <<inbound, dispatched, toolCtx, subagents, arrived, spawned,
                   direct>>

\* Building the prompt or running the turn raises: nothing is recorded.
TurnRaises(r) ==
    /\ Active(r)
    /\ Publish(r, FALSE, <<>>)
    /\ turns' = [turns EXCEPT ![r] = NoTurn]
    /\ UNCHANGED <<inbound, dispatched, toolCtx, history, subagents, arrived,
                   spawned, direct>>

-----------------------------------------------------------------------------
(* The tasks                                                               *)

\* BaseChannel._handle_message: a message of an allowed sender.
Arrive(c) ==
    /\ arrived < MaxArrivals
    /\ arrived' = arrived + 1
    /\ inbound' = Append(inbound,
                     [kind |-> "user", chat |-> c, id |-> arrived + 1])
    /\ UNCHANGED <<outbound, dispatched, turns, toolCtx, history, subagents,
                   spawned, direct>>

\* Mutation: the newest message is taken first.
StartNewestFirst ==
    /\ inbound # <<>>
    /\ Begin("loop", inbound[Len(inbound)])
    /\ inbound' = SubSeq(inbound, 1, Len(inbound) - 1)
    /\ UNCHANGED <<outbound, dispatched, history, subagents, arrived, spawned,
                   direct>>

\* AgentLoop.run takes the next message and starts its turn.
StartLoopTurn ==
    /\ inbound # <<>>
    /\ Begin("loop", Head(inbound))
    /\ inbound' = Tail(inbound)
    /\ UNCHANGED <<outbound, dispatched, history, subagents, arrived, spawned,
                   direct>>

\* The cron service executes a job, in the chat the job names, or the
\* heartbeat ticks: process_direct.
StartDirectTurn(r, c) ==
    /\ direct < MaxDirect
    /\ r = "beat" => c = DirectChat
    /\ direct' = direct + 1
    /\ Begin(r, [kind |-> r, chat |-> c, id |-> direct + 1])
    /\ UNCHANGED <<inbound, outbound, dispatched, history, subagents, arrived,
                   spawned>>

\* Mutation: only a successful subagent announces its result.
AnnounceSuccessOnly(s) ==
    /\ subagents' = subagents \ {s}
    /\ \/ inbound' = Append(inbound,
                  [kind |-> "announce", chat |-> s.origin, id |-> s.id])
       \/ UNCHANGED inbound
    /\ UNCHANGED <<outbound, dispatched, turns, toolCtx, history, arrived,
                   spawned, direct>>

\* A subagent finishes, well or not, and announces its result.
Announce(s) ==
    /\ subagents' = subagents \ {s}
    /\ inbound' = Append(inbound,
                     [kind |-> "announce", chat |-> s.origin, id |-> s.id])
    /\ UNCHANGED <<outbound, dispatched, turns, toolCtx, history, arrived,
                   spawned, direct>>

\* The dispatcher hands the next message to its channel; an unknown channel
\* and a send that raises are logged, and the dispatcher goes on.
Dispatch ==
    /\ outbound # <<>>
    /\ dispatched' = Append(dispatched, Head(outbound))
    /\ outbound' = Tail(outbound)
    /\ UNCHANGED <<inbound, turns, toolCtx, history, subagents, arrived,
                   spawned, direct>>

TurnStep(r) ==
    \/ AnswerFinal(r) \/ CallMessage(r) \/ CallSpawn(r) \/ CallCron(r)
    \/ CallSlowTool(r) \/ SlowToolReturns(r) \/ TurnRaises(r)

Next ==
    \/ \E c \in Served : Arrive(c)
    \/ StartLoopTurn
    \/ \E r \in Background, c \in Chats : StartDirectTurn(r, c)
    \/ \E r \in Runners : TurnStep(r)
    \/ \E s \in subagents : Announce(s)
    \/ Dispatch

Spec == Init /\ [][Next]_vars

\* Every task gets its turn, the LLM and the tools answer (both have
\* timeouts), a send returns (on a channel whose requests have a timeout: see
\* FairSpec in Channels).
Fairness ==
    /\ WF_vars(StartLoopTurn)
    /\ WF_vars(Dispatch)
    /\ \A r \in Runners : WF_vars(TurnStep(r))
    /\ WF_vars(\E s \in subagents : Announce(s))

FairSpec == Spec /\ Fairness

-----------------------------------------------------------------------------
(* Properties                                                              *)

\* All that was ever published, in the order of publication.
Published == dispatched \o outbound

IsAnswerTo(o, kind) == o.kind \in {"reply", "error"} /\ o.of.kind = kind

\* Where the n-th message of a kind is: queued, in the loop's turn, answered.
Places(kind, n) ==
    {<<"queued", i>> : i \in {j \in DOMAIN inbound :
        inbound[j].kind = kind /\ inbound[j].id = n}}
    \cup
    {<<"turn", i>> : i \in {j \in {0} :
        /\ Active("loop")
        /\ turns["loop"].msg.kind = kind /\ turns["loop"].msg.id = n}}
    \cup
    {<<"answered", i>> : i \in {j \in DOMAIN Published :
        IsAnswerTo(Published[j], kind) /\ Published[j].of.id = n}}

\* Every accepted message is in exactly one place: it is never lost between
\* the queue, the turn and the answer, nor answered twice, whatever raises
\* in its turn (AgentLoop.run).
EveryMessageAccounted ==
    \A n \in 1..arrived : \E p \in Places("user", n) : Places("user", n) = {p}

\* The answers to the messages of a chat leave for that chat, in the order in
\* which the messages were accepted (queue, loop and dispatcher together).
RepliesInOrder ==
    \A i, j \in DOMAIN Published :
        /\ IsAnswerTo(Published[i], "user")
        /\ IsAnswerTo(Published[j], "user")
        /\ Published[i].of.chat = Published[j].of.chat
        => /\ Published[i].to = Published[i].of.chat
           /\ i < j => Published[i].of.id < Published[j].of.id

\* A turn works on the history it read at its start.  What is missing from
\* it are direct turns only: the loop never answers without having seen its
\* own earlier exchanges of the chat (_process_message, get_history).
SnapshotMissesOnlyDirectTurns ==
    Active("loop") =>
        LET t == turns["loop"] IN
        \A i \in t.seen + 1 .. Len(history[t.msg.chat]) :
            history[t.msg.chat][i].kind \in {"cron", "beat"}

\* What the message and spawn tools do for a turn without an explicit target
\* they do for the chat of that turn (set_context).
ToolsActForTheirChat ==
    /\ \A i \in DOMAIN Published :
          Published[i].kind = "tool" => Published[i].to = Published[i].of.chat
    /\ \A s \in subagents : s.origin = s.asker

\* Every accepted message is eventually answered and dispatched, also when
\* the LLM never stops calling tools (max_iterations).
EveryMessageAnswered ==
    \A n \in 1..MaxArrivals :
        arrived >= n ~> \E i \in DOMAIN dispatched :
            IsAnswerTo(dispatched[i], "user") /\ dispatched[i].of.id = n

\* Every spawned subagent eventually leads to an answer of the loop.
EverySubagentReported ==
    \A n \in 1..MaxSpawns :
        spawned >= n ~> \E i \in DOMAIN dispatched :
            IsAnswerTo(dispatched[i], "announce") /\ dispatched[i].of.id = n

-----------------------------------------------------------------------------
(* The gateway implements the chat service.                                *)

Question(m) == [chat |-> m.chat, id |-> m.id]

Answered ==
    {Question(Published[i].of) :
        i \in {j \in DOMAIN Published : IsAnswerTo(Published[j], "user")}}

\* Nothing records what was asked: it is what is queued, in the turn of the
\* loop, or answered.
Asked ==
    {Question(inbound[i]) : i \in {j \in DOMAIN inbound :
                                      inbound[j].kind = "user"}}
    \cup {Question(turns[r].msg) : r \in {x \in {"loop"} :
                                      Active(x) /\ turns[x].msg.kind = "user"}}
    \cup Answered

Chat == INSTANCE ChatService WITH asked <- Asked, answered <- Answered

\* The queues, turns and tools keep the promises of ChatService.
ImplementsChatService == Chat!FairSpec

\* Its safety part, which needs no fairness of the gateway.
RefinesChatService == Chat!Spec
=============================================================================
