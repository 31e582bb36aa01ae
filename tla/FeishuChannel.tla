----------------------------- MODULE FeishuChannel -----------------------------
(***************************************************************************)
(* The Feishu channel: the platform may deliver an event again; a cache of *)
(* message ids keeps it from being handled twice.  Between the look into   *)
(* the cache and the bus a reaction is added in a thread of its own, so    *)
(* several messages may be half-way.                                       *)
(***************************************************************************)
EXTENDS ChannelBus

CONSTANTS
    CacheMax,           \* ids in the cache (1000)
    Window              \* the platform may deliver one of the last ones again

ASSUME CacheAssumption == CacheMax \in Nat \ {0} /\ Window \in Nat /\ Window <= CacheMax

VARIABLES
    posts,              \* the messages at the platform, with the bots' ones
    cache,              \* _processed_message_ids, oldest first
    reacting            \* messages whose reaction is being added

feishuVars == <<posts, cache, reacting>>

Post == [heard : Heard, bot : BOOLEAN]

FeishuTypeOK ==
    /\ posts \in Seq(Post)
    /\ cache \in Seq(Nat) /\ Len(cache) <= CacheMax
    /\ reacting \subseteq Heard

FeishuInit == posts = <<>> /\ cache = <<>> /\ reacting = {}

\* Mutation: the trim of the comment, "keep most recent 500 when exceeds 1000".
TrimToHalf(q) ==
    IF Len(q) > CacheMax THEN SubSeq(q, Len(q) - (CacheMax \div 2) + 1, Len(q)) ELSE q
Trim(q) == IF Len(q) > CacheMax THEN Tail(q) ELSE q

Cached(n) == \E i \in DOMAIN cache : cache[i] = n

\* _on_message up to the reaction.
OnMessage(p) ==
    IF Cached(p.heard.id) THEN UNCHANGED <<cache, reacting>>
    ELSE /\ cache' = Trim(Append(cache, p.heard.id))
         /\ reacting' = reacting \cup {m \in {p.heard} : ~p.bot}

FeishuSays(c, bot) ==
    LET p == [heard |-> Latest("feishu", c), bot |-> bot] IN
    /\ Says("feishu")
    /\ posts' = Append(posts, p)
    /\ OnMessage(p)
    /\ UNCHANGED <<inbound, accepted, sendVars, faults>>

DeliverAgain(i) ==
    /\ i \in DOMAIN posts /\ i > Len(posts) - Window
    /\ OnMessage(posts[i])
    /\ UNCHANGED <<busVars, posts>>

\* The rest of _on_message.
Reacted(m) ==
    /\ m \in reacting
    /\ reacting' = reacting \ {m}
    /\ HandleMessage(m)
    /\ UNCHANGED <<said, faults, sendVars, posts, cache>>

\* The client blocks the event loop until the platform answers; no timeout is
\* configured.
FeishuSend == Attempt("feishu", 1) /\ UNCHANGED feishuVars

FeishuNext ==
    \/ \E c \in Chats, bot \in BOOLEAN : FeishuSays(c, bot)
    \/ \E i \in DOMAIN posts : DeliverAgain(i)
    \/ \E m \in reacting : Reacted(m)
    \/ FeishuSend
=============================================================================
