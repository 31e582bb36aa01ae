----------------------------- MODULE MatrixChannel -----------------------------
(***************************************************************************)
(* The Matrix channel: a sync asks the homeserver for everything after a   *)
(* token and handles it before the token moves; an exception of a callback *)
(* ends it half-way, and the same is asked for again.  The first sync      *)
(* skips what is old; if it fails, the channel never receives anything.    *)
(***************************************************************************)
EXTENDS ChannelBus

VARIABLES
    timeline,           \* the messages of the rooms, at the homeserver
    token,              \* _sync_token: how many of them have been synced
    handled,            \* how many of them the callbacks have seen
    batch,              \* next_batch of the response at hand, or the token
    syncing,            \* the stage of start()
    again               \* ids of messages that were handed over from a batch
                        \* which was then given up (observation)

matrixVars == <<timeline, token, handled, batch, syncing, again>>

MatrixTypeOK ==
    /\ timeline \in Seq(Heard)
    /\ token \in Nat /\ handled \in Nat /\ batch \in Nat
    /\ token <= handled /\ handled <= batch /\ batch <= Len(timeline)
    /\ syncing \in {"first", "on", "raised", "never"}
    /\ syncing = "raised" => handled = token
    /\ again \subseteq Nat

MatrixInit ==
    /\ timeline = <<>> /\ token = 0 /\ handled = 0 /\ batch = 0
    /\ syncing = "first" /\ again = {}

\* A message in a room.
MatrixSays(c) ==
    /\ Says("matrix")
    /\ timeline' = Append(timeline, Latest("matrix", c))
    /\ UNCHANGED <<inbound, accepted, sendVars, faults, token, handled, batch, syncing, again>>

\* The first sync is without callbacks.
FirstSync ==
    /\ syncing = "first"
    /\ token' = Len(timeline) /\ handled' = Len(timeline) /\ batch' = Len(timeline)
    /\ syncing' = "on"
    /\ UNCHANGED <<busVars, timeline, again>>

FirstSyncFails ==
    /\ syncing = "first"
    /\ Fails("matrix")
    /\ syncing' = "never"
    /\ UNCHANGED <<inbound, accepted, said, sendVars, timeline, token, handled, batch,
                   again>>

\* The response to a sync; a failed request changes nothing.
Sync ==
    /\ syncing = "on"
    /\ batch = token
    /\ batch' = Len(timeline)
    /\ batch' # token
    /\ UNCHANGED <<busVars, timeline, token, handled, syncing, again>>

\* _on_room_message, _process_message for the next event; between two of them
\* _on_invite may wait for the homeserver.
OnRoomMessage ==
    /\ syncing = "on"
    /\ handled < batch
    /\ HandleMessage(timeline[handled + 1])
    /\ handled' = handled + 1
    /\ UNCHANGED <<said, faults, sendVars, timeline, token, batch, syncing, again>>

\* The token moves when the callbacks have seen all.
TokenMoves ==
    /\ handled = batch
    /\ token # batch
    /\ token' = batch
    /\ UNCHANGED <<busVars, timeline, handled, batch, syncing, again>>

\* A callback raises: m.relates_to is no object, a join fails.  The exception
\* leaves sync() for the except of the loop; the token has not moved.
CallbackRaises ==
    /\ syncing = "on"
    /\ token # batch
    /\ Fails("matrix")
    /\ handled' = token
    /\ again' = again \cup {timeline[i].id : i \in (token + 1)..handled}
    /\ syncing' = "raised"
    /\ UNCHANGED <<inbound, accepted, said, sendVars, timeline, token, batch>>

\* The next sync asks from the old token.  matrix-nio ignores a response that
\* ends where the last one did: what was left of that batch is never seen.
SyncAgain ==
    /\ syncing = "raised"
    /\ syncing' = "on"
    /\ batch' = Len(timeline)
    /\ \/ handled' = token
       \/ batch = Len(timeline) /\ handled' = batch
    /\ UNCHANGED <<busVars, timeline, token, again>>

\* A send's request may be tried again for as long as the homeserver times out
\* or asks to wait.
MatrixSend == Attempt("matrix", 1) /\ UNCHANGED matrixVars

MatrixNext ==
    \/ \E c \in Chats : MatrixSays(c)
    \/ FirstSync \/ FirstSyncFails \/ Sync \/ OnRoomMessage \/ TokenMoves
    \/ CallbackRaises \/ SyncAgain
    \/ MatrixSend
=============================================================================
