# A verification project for nanobot / ixobot

TLA+ models of the agent runtime in `src/nanobot`, TLC configurations that
check them on small instances, and proofs of their main properties that TLAPS
checks for every instance. Line numbers refer to the files of this repository;
`PROJECT.json` maps every definition to the lines it translates.

## 1. The system

`nanobot gateway` (`cli/commands.py` `gateway`) is one Python process with one
asyncio event loop. It connects chat channels to an LLM agent with tools, and
starts a cron service and a heartbeat service beside it. Several gateways (one
per named agent) share one SQLite file, `shared-memory.db`, through which agents
exchange tasks, mail and discussions, and whose rows the vault services
compress into memories (Open Brain keeps its thoughts in PostgreSQL). `nanobot cron ...` runs in a process of its own and
shares only the file `cron/jobs.json` with the gateway.

```
 channels --publish_inbound--> [inbound] --> AgentLoop.run --> [outbound] --> dispatcher --> channels
                                   ^            |   tools: message, spawn, cron, exec, web, MCP
              subagents --announce-+            +--> SubagentManager.spawn
 CronService timer ----process_direct--> AgentLoop._process_message (same tools, same sessions)
 HeartbeatService tick -process_direct-->        "
 cron CLI <--jobs.json--> CronService       agents <--task_queue, message_bus, discussions--> agents
 VaultWatcher --polls--> database --observations--> VaultCompressor --> VaultReflection
```

### Inventory

| Component | State | Operations | Hard behaviour | What makes it correct |
|---|---|---|---|---|
| Message bus, agent loop, dispatcher (`bus/queue.py`, `agent/loop.py`, `channels/manager.py`) | two unbounded queues, the turn in progress | accept, take, LLM call, tool call, record, answer, dispatch | turns of the loop, of cron and of the heartbeat interleave at every await; any await may raise | every message answered once, in order, in its chat; every answered turn recorded |
| Message, spawn and cron tools (`agent/tools/`) | one (channel, chat) context shared by all turns | set_context, execute | the context is set at the start of a turn and used after an await | a tool acts for the chat of the turn that calls it |
| Subagents (`agent/subagent.py`) | running background tasks | spawn, run, announce | finish in any order; may fail | every spawned subagent is reported once |
| Sessions (`session/manager.py`) | cache, one JSONL file per key | get_or_create, add_message, save, load | crash inside a save; two keys with one file name | what was saved is read back after a restart |
| Cron service (`cron/service.py`, CLI) | in-memory jobs, `jobs.json`, timer task | tick, execute, add, remove, enable, run, start, stop | the timer cancels the task that executes a job; a second process writes the file; crashes | an armed timer covers the earliest job; a one-shot job runs once; what is stored is what is executed |
| Heartbeat: task queue (`heartbeat/service.py`) | rows of `task_queue` | fetch, claim, run, mark done or failed | several pollers, crash after a claim, failure after completion | a task runs at most once at a time and ends in a final status |
| Heartbeat: agent mail | `message_bus.read_by` | fetch unread, mark read, process | read-modify-write of a JSON column by several agents; mark before process | every recipient sees every message once |
| Heartbeat: discussions | discussions, comments, status | comment, count, propose | roles decide who proposes; status may change during the LLM call | a discussion on which enough others have commented before the librarian comes is proposed; a closed one stays closed |
| Open Brain (`heartbeat/open_brain.py`) | captured thoughts | capture, recall | never raises; external embeddings | a done task is captured at most once |
| HTTP inbound channel | pending futures by chat id | request, send, timeout | second request and late answers for the same chat; a chat id that is a number | no answer passes a request that is alone in its chat; every request ends |
| Discord, WhatsApp (+ Node bridge), Feishu, Matrix, Nextcloud Talk, Telegram channels | connection, dedup caches, sync tokens, typing tasks | receive, send, reconnect | reconnects, redeliveries, a batch handled half-way, rate limits, a failed request that was carried out | a platform message is handled once; answers leave in order and once; no send with a timeout blocks the dispatcher; the bot types only while an answer is due; a channel knows whether it is connected |
| Vault watcher | watermarks per table, file times, the last Gitea check | poll | rows updated in place or out of id order, deleted rows, queries that raise | no row behind the watermark is unobserved; what is finished is remembered |
| Vault compressor | batch of observations | collect, compress, fall back | LLM failure, odd LLM answers | no observation is lost |
| Vault reflection | memories, scores, links, alerts | promote, decay, synthesize | rollback of a shared transaction, two runs at once, deadlocks of their locks | marks and crystals agree; a memory makes one crystal of a kind |
| ixobot memory store | SQLite rows | store, promote, decay, recall | score bounds | scores stay in range |
| MCP client and bridge | sessions, tools | connect, register, call | partial connection | only tools of connected servers are registered |
| LLM provider, transcription | none | chat | raises or returns an error text | external: a nondeterministic answer |
| Context builder, skills, file memory; file, shell, web, flash and QMD tools; configuration; scripts | files | read, write, build text | none that a property tells apart | not modelled |

## 2. Plan

In this order; the most important behaviour first.

1. `ChatService` (abstract promise) and `AgentGateway` (bus, loop, tools,
   subagents, direct turns, dispatcher), with `AgentGatewayProofs`. **Done.**
2. `CronService`: the scheduler with its timer task, `jobs.json`, restarts, and
   the cron CLI as a second writer of the file; `CronServiceProofs`. **Done.**
3. `TaskPool` (abstract: a task is owned by at most one process, a result
   stays) and `TaskQueue`; `AgentMail`; `Discussions`: several heartbeat
   services on one database, with process ends and failing writes, each with
   its proofs. **Done.**
4. `VaultIntake` (watcher and compressor, from row to memory) and
   `VaultReflection` (promotion, synthesis, decay on PostgreSQL; the union-find
   of `_find_clusters` against the connected components), each with its proofs.
   **Done.**
5. `ChannelBus` (queues, access list, dispatcher), one module for each channel,
   and `Channels`, which composes them, with `ChannelsProofs`. **Done.**
6. The heartbeat's tick as a whole: its sources run one after the other, so a
   long turn of one delays the others. Open: each source has a module of its
   own, and the tables they use are disjoint.
7. A session store (save, crash, reload, file names). Open.

Every invariant that a passing run checks is stated by a theorem. What is left to
TLC is listed at the end of section 6.

## 3. Modules

| Module | Models |
|---|---|
| `ChatService` | abstract: a question is answered once, in its chat, after the earlier ones |
| `AgentGateway`, `MCAgentGateway`, `AgentGatewayProofs` | one gateway process |
| `CronService`, `MCCronService`, `CronServiceProofs` | the scheduler, `jobs.json` and the cron CLI |
| `TaskPool` | abstract: who owns a task, and what became of it |
| `TaskQueue`, `MCTaskQueue`, `TaskQueueProofs` | the table `task_queue` and the processes that poll it |
| `AgentMail`, `MCAgentMail`, `AgentMailProofs` | the table `message_bus` and its read marks |
| `Discussions`, `MCDiscussions`, `DiscussionsProofs` | the tables of the discussion protocol |
| `VaultIntake`, `MCVaultIntake`, `VaultIntakeProofs` | the vault's watcher and compressor |
| `VaultReflection`, `MCVaultReflection`, `VaultReflectionProofs` | the vault's promotion, synthesis and decay |
| `ChannelBus` | the bus and the dispatcher as a channel sees them |
| `HttpInbound`, `DiscordChannel`, `WhatsAppLink`, `MatrixChannel`, `FeishuChannel`, `TelegramChannel`, `NextcloudTalk` | one channel each |
| `Channels`, `MCChannels`, `ChannelsProofs` | the channels of a gateway, composed |

A definition marked "Mutation" in a comment is a wrong variant of the one below
it. `PROJECT.json` names, for every property of a passing run, a variant under
which the property fails.

### AgentGateway

State: the two queues, what the dispatcher has taken, the turn of each runner
(the loop, cron, the heartbeat) with its iteration and the await it is
suspended in, the tools' shared context, the sessions, the running subagents.

asyncio switches tasks only at an await that suspends, so an action runs from
one suspension of a turn to the next: `Arrive` (a channel's `_handle_message`),
`StartLoopTurn` and `StartDirectTurn` (context set, history read, prompt sent),
the LLM's answer (a final text, a tool call or an exception), the return of a
slow tool, `Announce` (a subagent's end), `Dispatch`.

Abstractions. One tool call per LLM answer: an answer with k calls behaves like
k answers under a larger `MaxIterations`, which is arbitrary in the proofs.
Tools that do not suspend are part of the action that calls them; a tool
without an effect on this state is a slow call that returns at once. A refused
sender changes nothing. A failed send has the state of a successful one, since
`_dispatch_outbound` takes the message first. The error reply to an announce
goes to channel "system", which nobody serves (`System`). A cron turn's `deliver`
flag is a choice at its end. A user and an assistant entry are one entry of the
history; the window of 50 messages is left out. The session file and a crash of
the gateway are outside the model.

### CronService

State: the clock, the file (a store, or `Torn`), the service's store, its timer,
the job in execution and the due jobs still to come, the store a cron command
has loaded. `begun` and `ended` only observe.

The store is a function from ids to status and next run, since the order of the
list only decides which due job comes first; that order is left open. A
schedule is fixed per id, a cron expression stands among the intervals.
`delete_after_run` is never set by a caller and left out. A job
suspends at least once (the LLM call), and any turn may meanwhile call the cron
tool, which cancels the timer task even when that task is executing a job. A
write that raises or is cut off leaves a torn file, which `_load_store` answers
with an empty store. The end of a gateway is always a crash: on SIGINT the
`except KeyboardInterrupt` inside the cancelled main task does not run, so
`stop()` is not reached (`cli/commands.py:306`). A cron command is two steps,
load and operate-and-save, of another process.

### TaskQueue

A process fetches pending tasks of its agent, claims them one by one, gives the
claimed ones to one turn and writes one result for all. Every SELECT and every
committed UPDATE is a step of its own, so several processes interleave between
them; they may run under the same agent name. `claimed_by` is never read and is
left out. `Rank` is the order by priority and creation time, ties left open. A
failing fetch is a skipped tick. Only the end of the turn matters: that the
prompt asks the agent to update rows itself is outside the model. The other
sources of a tick do not touch the table. (The docstring of `_claim_task` says
'in_progress' where the code writes 'claimed'; README.md names the latter.)

### AgentMail

`Fetch`, then `_mark_messages_read`, then the turn. sqlite3 begins a transaction
at the first UPDATE, not at a SELECT. So `read_by` of the first message is read
outside it (`ReadReaders`), and what others commit before the UPDATE is
overwritten; the rest of the batch is read and written under the lock
(`MarkRead`). `Inside` is the LIKE match: an agent whose name is part of
another's takes that agent's mark for its own. No two names of the fleet in
`AGENT_EXPERTISE` are like that; the module leaves the relation open, so the
proofs hold for any. `given` counts turns up to 2.

### Discussions

A check fetches open topics its agent has not commented on, then takes them one
by one: it counts the commenters and chooses a role (`Look`), waits for the
turn, and comments (`Comment`) or, as the librarian, proposes (`Propose`) and
comments. The number and the status are thus read a whole turn before they are
used. The comments are kept as the set of processes that wrote them: a process
fetches only what its agent has not commented on, so it writes one row per
topic. People and other programs open topics (`Start`) and decide (`Decide`);
they decide on proposed topics. The ends of processes and what raises have one
bound together (`MaxTroubles`).

The repository's texts say three things the code does not do. README.md:395: "A
single agent commenting twice (different discussions) can trigger synthesis"; the
count is of different agents on one discussion (`service.py:294`), so it cannot, and
`ProposalsAreDeliberated` is the opposite. The same line takes it for granted that
agents do not comment on their own discussions; nothing keeps them from it. And the
librarian's prompt says "All agents have weighed in" (`service.py:187`), but it
synthesizes after two of them (`service.py:643`): a third is passed over, since
a proposed topic is not fetched again. So no property says that every agent is
heard. README.md:62 has the librarian propose after two unique agents have commented;
`EnoughAreProposed` holds for the topics on which they have done so before the
librarian turns to it. If the librarian comes earlier it comments like the others, its
next checks leave the topic out, and nobody ever proposes it.

### VaultIntake

State: the tables, files and issues that other programs write; the watcher's
poll (the query it has come to and the rows still to be handled), its
watermarks, file times and last Gitea check; the queue; the compressor's batch.

`_poll_sqlite` runs its five queries in a fixed order, in a thread. An action is
one query or one row of its result, so that writers, the files' and Gitea's
polls and the compressor interleave with it. A query selects "shown" rows above
the watermark up to its LIMIT. The poll of `agent_heartbeat` moves its watermark
over rows it does not report, and the watcher itself writes and prunes that table
(`RegisterHeartbeat`), which frees ids at its end. The first two queries raise to
the caller, which ends the poll; the others catch (`QueryRaises`). All that the
engine knows is in memory: `Crash` forgets the watermarks, and the rows are
observed again. The compressor's answer keeps any part of a batch; without a
usable answer every observation becomes a memory (`Compress`). Storing a memory
is the router's part, which is not in this repository.

### VaultReflection

State: the rows of `vault.memories` with their marks and scores, the similar
pairs, the crystals, the overseer's alerts, and for each process the run it
executes with the open transaction: what it has inserted and marked.

One run is one transaction, committed at its end; the exception of one item rolls
back all items before it, and the run goes on (`ItemRaises`). An UPDATE waits for
the transaction that has changed its row (`Free`); two runs that wait for each
other are a deadlock, which the server ends with an exception. `Decay` is a single
UPDATE. Alerts go to SQLite at once, outside the transaction. `_find_clusters`
is translated with its path halving (`Halve`, `Find`, `Attach`); its loops are
functions of the round (`round` in `Find`, `joined` in `FindClusters`). `Spec` starts
runs at any time; `ScheduledSpec` starts them when the crons of the flows do.
Links between a crystal and its memories follow the insert and are part of it;
texts and embeddings are left out, closeness to a centroid is left open.

### Channels

`ChannelBus` has the two queues, `_handle_message` with its access list, and the
dispatcher, which waits for one send at a time. The agent is reduced to
`Answer` and `Note`. `Attempt` is one request to a platform, which may be carried
out and still fail (`blind` observes that). Each channel module adds its own
state and actions:

- `HttpInbound`: the futures by chat_id, as it stands in the JSON body: a text or
  a number (`ChatIds`). The bus knows the chat by `str(chat_id)` (`base.py:116`, `Str`),
  and `send` looks for that text (`Key`), so the future of a number is never found
  and its request times out. A request that is answered or times out removes whatever
  its chat_id has, a late answer resolves the next request, and one whose
  metadata is no object ends with an error and leaves its future behind
  (`HandleInboundRaises`).
- `DiscordChannel`: the websocket, the heartbeat task, the typing tasks; three
  attempts for a send.
- `WhatsAppLink`: the bridge's WhatsApp socket and its timer, the websocket
  between bridge and channel with what is on it, the commands the bridge
  handles concurrently.
- `MatrixChannel`: the homeserver's timeline, the token, the response at hand
  and how much of it the callbacks have seen. A callback that raises
  (`CallbackRaises`; `m.relates_to` is no object, a join fails) leaves `sync()`
  for the `except` at `matrix.py:103` with the old token, so the next sync hands the
  batch over from its beginning (`SyncAgain`); `again` observes whose messages
  came twice for that. When nothing has been added since, matrix-nio may ignore
  the response, which ends where the last one did, and the rest of the batch is lost;
  the model allows both.
- `FeishuChannel`: redeliveries of the last `Window` messages, the cache of
  ids with its trim, the reaction between cache and bus.
- `TelegramChannel`: pending updates dropped at the start, a second attempt as
  plain text. A failing start is final.
- `NextcloudTalk`: a webhook to the bus or, when OpenClaw is configured, to a
  task that answers past the queue.

`Channels` composes them on one bus; `Configurations` says which are enabled
together. What a channel does not read it leaves unchanged.

## 4. Runs

| Run | Instance | Shows |
|---|---|---|
| `gateway_loop` | 2 chats, 2 messages, 1 subagent, 2 iterations, no direct turns, fair | order, tool context, every message answered, every subagent reported, refinement of `ChatService` with its liveness |
| `gateway_direct` | 1 chat and cli:direct, 1 message, 1 subagent, 1 direct turn of cron or heartbeat, 2 iterations | no message lost or in two places; the history a turn has read misses only what direct turns added |
| `gateway_context` (violation) | as above, smaller | a direct turn redirects the tools of a chat turn |
| `cron_service` | a one-shot and two recurring jobs, 3 instants, 1 command, 2 tool calls, 1 failing write, 1 crash, fair | the timer covers the jobs, the file names them, no start is early or repeated, scheduled jobs run |
| `cron_once` (violation) | 1 tool call, nothing fails | a one-shot job is started again when its execution is aborted |
| `task_queue` | 2 processes of one agent, 1 of another, 3 tasks, limit 2, 2 crashes, 1 failing write, fair | no claimed task forgotten, refinement of `TaskPool`, tasks are taken and settled |
| `agent_mail` | 2 agents, a broadcast and 2 direct messages, limit 2, 1 crash, 1 failing mark, fair | direct mail is given once, no mark hides mail, all mail is given |
| `discussions` | librarian and 3 agents, 2 topics, 2 comments enough, 1 crash or fault, fair | proposals are deliberated, the status advances, what enough agents commented on before the librarian is proposed |
| `vault_intake` | 7 workloads of up to 2 rows, edits or issues, LIMIT 1, 1 crash, 1 fault, fair | no message is passed over, what is finished or edited is remembered |
| `vault_reflection` | 4 memories, 2 important, 3 lists of pairs, 2 processes, 3 runs, 2 hours, 1 fault | marks and crystals agree, one crystal of a kind, clusters are components |
| `vault_decay` (violation) | 1 important memory, the documented rate, 73 hours on schedule | a memory stored soon after a promotion decays before the next ones find it |
| `channels` | Discord, WhatsApp, Feishu, Telegram and Nextcloud Talk, each by itself, and HTTP beside Matrix; 2 chats, one refused, 3 messages (WhatsApp and HTTP 2), 2 failures (Discord 3, HTTP and Matrix 1 each), cache of 2, fair | waiting, typing and connected are true, answers leave in order and once, messages arrive once, nobody waits for ever except for a send without a timeout |

Why the bounds suffice to be interesting. Two chats tell replies apart, two
messages an order; two iterations let a turn suspend in a tool and go on. Three
instants let a recurring job come due twice beside a one-shot job, and one
crash and one failing write meet in the same behaviour. Two processes of one
agent race for a claim; with three tasks and limit 2 the limit cuts off a tail.
One broadcast and two processes race for `read_by`; three messages for one
reader exceed its limit. Four agents with threshold 2 give the librarian every
position among the commenters and leave one agent that is passed over; the second
topic waits in a list that was read before the turn about the first. Two rows and LIMIT 1 need two polls, and let the
later row finish first; the crash makes the engine observe rows again. Two of the
four memories are important, so that promotion and synthesis contend for rows,
in one order and in the other; three runs give an overlap and a run after it. Three
messages of one chat let a typing indicator meet the answers of an earlier and a
later one, overflow the cache of 2, and leave Discord's three attempts a message to
fail on; two HTTP requests share a chat_id or have a text and a number for it. HTTP
beside Matrix shows what a send that never ends does to another channel; three
messages and one failure let a Matrix batch be given up after part of it. The proofs
do not have these bounds.

Deadlock is not checked (`CHECK_DEADLOCK FALSE`): messages, tasks, crashes and
the clock are bounded, and a system whose work is done rests.

### Fairness

Only what the event loop and timeouts give. `AgentGateway`: the loop takes a
message that is queued, the dispatcher takes what is published (its send ends, as
on the channels named below), a turn's await ends (the LLM client and the tools have
timeouts), a subagent ends. `CronService`: time
passes, a due timer task is scheduled, a job's turn ends; nothing makes a cron
command, a call of the cron tool, a crash or a restart happen.
`EveryScheduledJobRuns` takes the calls of the cron tool to be finitely many,
for each one aborts the job in execution. `TaskQueue`, `AgentMail`,
`Discussions`: weak fairness of the next step of each running process, whose
loop sleeps, reads and awaits turns; booting is not fair, so a process that has
ended may stay down, and the liveness properties excuse agents without a running
process, and, where a comment at the property says so, ends and failures.
`VaultIntake`: the poll, each file's poll and the compressor go on, for they
sleep, query and await a call with a timeout; `ChangesAreRemembered` excuses a row
that one with a higher id has overtaken, since nothing in the code finds it again.
`Channels`: the dispatcher takes what is queued; a send of HTTP, Discord, WhatsApp,
Telegram or Nextcloud Talk ends, for it resolves a future, writes to a socket or sends
requests with a timeout. Nothing is assumed of the sends of Matrix, whose
client has the default configuration and repeats timeouts and refusals (429) without
limit (`matrix.py:64`, `:155`), and of Feishu, whose client blocks the whole event
loop until the platform answers (`feishu.py:186`): such a send may hold the dispatcher,
and everybody, for ever, and `NobodyWaitsForEver` says exactly that (`Held`). A
request of the HTTP channel is answered or times out; a forwarded message of
Nextcloud Talk is handled. Discord's `start` and the bridge's timer connect again. Two
assumptions are about platforms: WhatsApp is reachable sooner or later (`PhoneOpens`),
and Discord's gateway greets a new connection (`Hello`). Nothing makes users, the
agent or failures act.

## 5. Findings

Each is a violated run; `PROJECT.json` quotes the sentence the code departs from.

- `agent/loop.py:193`: the tools' context is shared by all turns.
- `cron/service.py:183`: arming the timer cancels a job in execution, which then
  starts again.
- `vault/reflection.py:186`: every hourly run subtracts the decay of the whole
  age, so the loss grows with the square of the age.

Other places where the models show the code in a questionable state, without a
sentence it contradicts or without a run of their own: `agent/loop.py:408`
(`process_direct` does not use its `session_key`), `cron/service.py:58` (a gateway
never reads `jobs.json` again, so a removed job goes on running),
`heartbeat/service.py:379` (read marks of a broadcast can be lost and the message
is processed twice), `heartbeat/service.py:294` and `:643` (who triggers a synthesis, and
when, differs from README.md:395 and from the prompt at `:187`; a discussion on which the
librarian commented early is never proposed: see Discussions in section 3),
`vault/watcher.py:144` (a task finished after one with a higher id may never be
observed), `channels/http_inbound.py:102` (two requests of one chat share a future),
`channels/http_inbound.py:91` (a request with a numeric chat_id never gets its answer),
`channels/matrix.py:103` (a callback that raises makes the agent answer again what the
batch had handed over), `channels/matrix.py:155` and `channels/feishu.py:186` (a send
without a timeout holds the dispatcher, or the whole process).

## 6. Proofs

Assumptions: the named ASSUMEs of the modules, which TLC evaluates on the
instances. Every theorem is about `Spec`, without fairness.

**AgentGateway.** `TypeCorrect`; `RepliesAreOrdered`; `MessagesAreAccounted`;
`Refinement` (safety part of `ChatService`). Neither order nor accounting is
inductive: the order of the answers depends on that of the queue. The invariant
`InLine` says that answers, the loop's turn and the queue form one line: the
queue is ordered (`QueueOrdered`), the turn precedes it (`TurnFirst`), the
answers precede both (`AnswersBefore`) and are ordered (`AnswersOrdered`), and
no accepted number is missing (`NoneMissing`). The refinement maps what is asked
to what is queued, in the turn or answered.

`SnapshotsAreRecent` needs with it only that every turn beside the loop's, other
than a subagent's report, is a direct one (`DirectRunners`): a turn records its
message at its end, so what is recorded during the loop's turn, and is not in its
snapshot, comes from a direct turn. `ToolsActUntilDirectTurns` states
`ToolsActForTheirChat` for as long as no direct turn has begun: until then only
the loop runs, and the tools' context is the chat of its turn (`LoopAlone`).
Afterwards the property fails, as `gateway_context` shows.

**CronService.** `StartsAreDue` from `DueInv`: ends lie in the past
(`EndsInOrder`), a scheduled job's next run respects its last end
(`ScheduleWaits`), what is due may start (`DueMayStart`), and only a running
service executes (`RunsOnlyWhenUp`). `TimerCovers` from `TimerInv`, which adds
that a job in execution is due (`RunningIsDue`): otherwise arming after an
aborted execution would miss it. `JobsSurvive` from `SavedInv`.

**TaskQueue.** `TasksStartOnce`, `ClaimsAreHeld`, `QueueImplementsPool` from one
invariant: what a process holds is claimed (`HeldIsClaimed`) and held by no other
(`HeldByOne`), hands are empty outside a tick (`HandsEmpty`), fetched tasks are the
agent's (`TodoIsOwn`), what is pending has not been started (`NotYetStarted`).
The results are written by UPDATEs without a condition on the status; that they
overwrite nothing follows from `HeldByOne`.

**AgentMail.** `MarksAreGiven` needs that the readers a process has seen before
its transaction count as given too (`SeenIsGiven`), for it writes them back.
`DirectMailOnce` from `DirectInv`: a batch is the agent's mail (`OwnMail`), what
has been given is marked (`GivenIsMarked`), a batch under way has not been given
yet (`BatchIsNew`) and is marked before its turn (`BatchIsMarked`).

**Discussions.** `DeliberatedFirst` and `StatusAdvances` from `Deliberation`: only
the librarian synthesizes (`LibrarianOnly`), what it has yet to look at is still
open and without its comment (`TodoIsFresh`), it does not look at a topic twice
(`TopicIsTaken`), and what it synthesizes is still open and has enough others
(`SynthesisIsDue`). With two librarian processes this breaks, and so would
the properties, which is why they assume one.

**VaultIntake.** `MessagesAreKept`. `PassedIsKept` is not inductive: emitting a row
moves the watermark to it, which is right only if the rows between have been
emitted. `NextInLine` says that with a fetched message every one between it and
the watermark is fetched; it holds because the query takes the first rows by id,
messages are never deleted (`MessagesShow`), and rows are emitted in their order.

**VaultReflection.** `MarksMatch` from `MarksInv`: in an open transaction the
inserted and the marked agree up to the item at hand (`Sound`), so that commit,
rollback and the end of a process keep them together; runs mark only what is
stored. `OneCrystal` from `RunsInv`: until a run begins during another there is one
(`OneRun`), what it has chosen nobody else marks (`ChosenUnmarked`), and it has a
larger number than the crystals before it (`NumbersGrow`).

`ClustersFollowSimilarity` says that `_find_clusters` finds the connected
components, for every finite set of memories and every list of pairs. Its parts:
- Induction over the rounds of a loop is by the least round that fails (`UpTo`),
  which exists because the intervals below the numbers are finite sets, and strict
  inclusion of finite sets is well-founded (`NatHasLeast`). That the functions in
  `Find` and `FindClusters` satisfy their equations follows from `Iteration`.
- The parents form a forest (`Grown`): there are a root for each member and a strict
  order of ancestors that contains every step up. Halving a path leads to an
  ancestor and changes neither (`HalveKeeps`). An ancestor has strictly fewer
  ancestors, so `Find` is at the root after as many rounds as there are members
  (`FindFinds`); the bound of the model's loop loses nothing.
- Attaching a root to another merges their classes (`AttachRoots`). After k pairs the
  classes contain both ends of each pair, and a set that the k pairs do not lead out
  of is a union of classes (`RootsOf`, `JoinForest`). For all pairs that makes a class
  the component of each of its members (`ClustersFound`).
- Pairs, choice and clusters stay as they are while the run goes on (`FoundStays`).

**Channels.** The steps are of two kinds, named in `ChannelsProofs`: those that
leave the dispatcher alone while a message may arrive (`Around`) and those of a
channel's send (`Sends`). A message on its way stays so until a send of its own
channel ends. `TypingIsPending` follows with the fact that only Discord's users start
the indicator. `WaitingIsJustified` needs `WaitInv`: an open request that is
alone with its chat_id owns the future of the chat_id (`Owned`), and the owner of a
textual one still has its question or answer on the way (`Answerable`).
`ConnectedIsTrue` needs `LinkInv`: what the bridge has told on a link, still unheard,
ends with the truth.

`MessagesAreHandedOverOnce` and `AnswersAreSentOnceInOrder` follow from `SentInv`:
- `LineInv`: users' messages are numbered, and their numbers lie in lines (`Lines`),
  one for each place where a message, or its answer, can be. On the way to the agent
  (`Questions`, ending with what it has accepted), and on the way to the delivered
  answer (`Way`), no line has a number twice and no two lines share one (`Apart`).
  Each step moves one number on to the next line, or drops it. The numbers in `again`
  are blotted out of the lines (`Once`): when a Matrix batch is given up, those it had
  handed over leave every line for good (`BatchIsGivenUp`), which is why both
  theorems except them.
- `CacheInv`: Feishu's cache has the ids of the last posts, so whatever the platform
  delivers again is still in it, and delivering again changes nothing.
- `OrderInv`: the numbers of publication grow along what the platforms have, the
  message being sent and the queue. A retry sends what has not been delivered, unless
  a platform has taken a message and answered with an error (`blind`), which the
  property excuses.

Only model-checked: all liveness (`EveryMessageAnswered`,
`EverySubagentReported`, the fairness part of `ImplementsChatService`,
`EveryScheduledJobRuns`, `TasksAreTaken`, `ClaimedIsSettled`, `MailIsGiven`,
`EnoughAreProposed`, `ChangesAreRemembered`, `NobodyWaitsForEver`), which is out of
the prover's reach, and the properties that the code does not have: those of section
5 and `ToolsActForTheirChat` beside direct turns.

## 7. Not modelled

- Sessions (`session/manager.py`): the file a session is saved to, and with it the
  restart of a gateway. `AgentGateway` has the history in memory.
- Open Brain (`heartbeat/open_brain.py`): single inserts and searches in an
  external database; failures are swallowed, results are text of a prompt. The
  ixobot memory store: nothing in the agent runtime calls it.
- Connecting to MCP servers at the start of a gateway.
- Of Matrix: editing a message, sending to a default room, creating rooms, keys.
  Of WhatsApp: logging in by QR code. Of all channels: `stop()`, since a process
  that ends loses its state either way, texts, formatting, and attachments.
- Prompt and context assembly, skills and file memory, the file, shell, web,
  flash and QMD tools, configuration, and the shell tooling, which have no state
  that a property tells apart.
- The LLM, transcription, embedding and platform services, which appear as
  nondeterministic answers where they matter.
