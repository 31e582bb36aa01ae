------------------------------ MODULE AgentMail ------------------------------
(***************************************************************************)
(* The message_bus table of shared-memory.db: mail between agents, which   *)
(* each heartbeat tick reads and marks in the JSON column read_by.         *)
(*                                                                         *)
(* sqlite3 opens a transaction at the first UPDATE, not at a SELECT: the   *)
(* readers of the first message of a batch are read before the transaction *)
(* begins, and other processes may write in between; those of the others   *)
(* are read inside it, where the database is locked for other writers.     *)
(***************************************************************************)
EXTENDS Naturals, FiniteSets

CONSTANTS
    Agents,
    Workers,            \* gateway processes with a heartbeat service
    AgentOf,            \* process -> agent_name
    Messages,           \* the rows other programs may insert
    To,                 \* message -> the agents it is for ('*': all of them)
    Age,                \* message -> its place by created_at
    Limit,              \* MAX_MESSAGES_PER_TICK
    NoMessage,
    Inside,             \* the pairs <<a, b>> in which b's name contains a's
    MaxCrashes,         \* bound: ends of a process
    MaxFaults           \* bound: transactions that raise

ASSUME LimitAssumption == Limit \in Nat \ {0}
ASSUME AgeAssumption == Age \in [Messages -> Nat]
ASSUME ToAssumption == To \in [Messages -> SUBSET Agents]
ASSUME AgentOfAssumption == AgentOf \in [Workers -> Agents]
ASSUME InsideAssumption == \A a \in Agents : <<a, a>> \in Inside
ASSUME NoMessageAssumption == NoMessage \notin Messages
ASSUME BoundsAssumption == MaxCrashes \in Nat /\ MaxFaults \in Nat

VARIABLES
    sent,               \* the rows of message_bus
    readBy,             \* message -> the agents in read_by
    phase,              \* process -> where its check of the mail is
    batch,              \* process -> the messages it has fetched
    head,               \* process -> the first of them, whose readers it has read
    seen,               \* process -> read_by of the head, as it was read
    given,              \* agent -> message -> the turns it was given to, 2 for more
    crashes, faults

worker == <<phase, batch, head, seen>>
vars == <<sent, readBy, worker, given, crashes, faults>>

Phases == {"down", "idle", "fetched", "marking", "marked", "turn"}

TypeOK ==
    /\ sent \subseteq Messages
    /\ readBy \in [Messages -> SUBSET Agents]
    /\ phase \in [Workers -> Phases]
    /\ batch \in [Workers -> SUBSET Messages]
    /\ \A w \in Workers : Cardinality(batch[w]) <= Limit
    /\ head \in [Workers -> Messages \cup {NoMessage}]
    /\ seen \in [Workers -> SUBSET Agents]
    /\ given \in [Agents -> [Messages -> 0..2]]
    /\ crashes \in Nat
    /\ faults \in Nat

-----------------------------------------------------------------------------
(* The table                                                               *)

\* Mutation: read by anyone.
LooksReadByAnyone(a, m) == readBy[m] # {}
\* read_by LIKE %agent%: any name in the list that contains the agent's.
LooksRead(a, m) == \E b \in readBy[m] : <<a, b>> \in Inside

\* Mutation: every message that is for the agent, read or not.
Addressed(a) == {m \in sent : a \in To[m]}
Unread(a) == {m \in sent : a \in To[m] /\ ~LooksRead(a, m)}

\* Mutation: no LIMIT.
OldestUnlimited(S, T) == S = T
\* ORDER BY created_at LIMIT ?.
Oldest(S, T) ==
    /\ S \subseteq T
    /\ S = T \/ Cardinality(S) = Limit
    /\ Cardinality(S) <= Limit
    /\ \A m \in S, n \in T \ S : Age[m] <= Age[n]

\* Mutation: UPDATE without WHERE id = ?.
MarkAll(w) ==
    [m \in Messages |-> IF m \in sent THEN readBy[m] \cup {AgentOf[w]} ELSE readBy[m]]
\* The transaction of _mark_messages_read.
Mark(w) ==
    [m \in Messages |->
        IF m \notin batch[w] THEN readBy[m]
        ELSE (IF m = head[w] THEN seen[w] ELSE readBy[m]) \cup {AgentOf[w]}]

-----------------------------------------------------------------------------
(* The programs that send mail                                             *)

Send(m) ==
    /\ m \notin sent
    /\ sent' = sent \cup {m}
    /\ UNCHANGED <<readBy, worker, given, crashes, faults>>

-----------------------------------------------------------------------------
(* _check_messages                                                         *)

Enter(w, p) == phase' = [phase EXCEPT ![w] = p]

Boot(w) ==
    /\ phase[w] = "down"
    /\ Enter(w, "idle")
    /\ UNCHANGED <<sent, readBy, batch, head, seen, given, crashes, faults>>

\* A read that fails, or finds nothing, changes nothing.
Fetch(w) ==
    /\ phase[w] = "idle"
    /\ \E S \in SUBSET Unread(AgentOf[w]) :
          /\ S # {}
          /\ Oldest(S, Unread(AgentOf[w]))
          /\ batch' = [batch EXCEPT ![w] = S]
    /\ Enter(w, "fetched")
    /\ UNCHANGED <<sent, readBy, head, seen, given, crashes, faults>>

\* The SELECT before the transaction.
ReadReaders(w) ==
    /\ phase[w] = "fetched"
    /\ \E m \in batch[w] :
          /\ \A n \in batch[w] : Age[m] <= Age[n]
          /\ head' = [head EXCEPT ![w] = m]
          /\ seen' = [seen EXCEPT ![w] = readBy[m]]
    /\ Enter(w, "marking")
    /\ UNCHANGED <<sent, readBy, batch, given, crashes, faults>>

MarkRead(w) ==
    /\ phase[w] = "marking"
    /\ readBy' = Mark(w)
    /\ Enter(w, "marked")
    /\ UNCHANGED <<sent, batch, head, seen, given, crashes, faults>>

\* The database is locked: nothing is marked, and a warning is logged.
MarkRaises(w) ==
    /\ phase[w] \in {"fetched", "marking"}
    /\ faults < MaxFaults
    /\ faults' = faults + 1
    /\ Enter(w, "marked")
    /\ UNCHANGED <<sent, readBy, batch, head, seen, given, crashes>>

\* on_heartbeat is called with the whole batch, marked or not.
Give(w) ==
    LET a == AgentOf[w]
    IN  /\ phase[w] = "marked"
        /\ given' = [given EXCEPT ![a] =
                [m \in Messages |-> IF m \in batch[w] /\ given[a][m] < 2
                                    THEN given[a][m] + 1 ELSE given[a][m]]]
        /\ Enter(w, "turn")
        /\ UNCHANGED <<sent, readBy, batch, head, seen, crashes, faults>>

\* The check's local variables are gone.
Forget(w) ==
    /\ batch' = [batch EXCEPT ![w] = {}]
    /\ head' = [head EXCEPT ![w] = NoMessage]
    /\ seen' = [seen EXCEPT ![w] = {}]

\* on_heartbeat returns or raises: both end the check.
TurnEnds(w) ==
    /\ phase[w] = "turn"
    /\ Enter(w, "idle")
    /\ Forget(w)
    /\ UNCHANGED <<sent, readBy, given, crashes, faults>>

Crash(w) ==
    /\ phase[w] # "down"
    /\ crashes < MaxCrashes
    /\ crashes' = crashes + 1
    /\ Enter(w, "down")
    /\ Forget(w)
    /\ UNCHANGED <<sent, readBy, given, faults>>

-----------------------------------------------------------------------------
Init ==
    /\ sent = {}
    /\ readBy = [m \in Messages |-> {}]
    /\ phase = [w \in Workers |-> "down"]
    /\ batch = [w \in Workers |-> {}]
    /\ head = [w \in Workers |-> NoMessage]
    /\ seen = [w \in Workers |-> {}]
    /\ given = [a \in Agents |-> [m \in Messages |-> 0]]
    /\ crashes = 0
    /\ faults = 0

\* The next action of process w itself.
Step(w) ==
    \/ Fetch(w) \/ ReadReaders(w) \/ MarkRead(w) \/ MarkRaises(w)
    \/ Give(w) \/ TurnEnds(w)

Next ==
    \/ \E m \in Messages : Send(m)
    \/ \E w \in Workers : Boot(w) \/ Step(w) \/ Crash(w)

Spec == Init /\ [][Next]_vars

\* A running loop goes on: its sleep, reads and turns end.
FairSpec == Spec /\ \A w \in Workers : WF_vars(Step(w))
-----------------------------------------------------------------------------
(* Properties                                                              *)

\* The only reader of m is a, and a runs as one process.
Direct(a, m) ==
    /\ To[m] = {a}
    /\ \A v, w \in Workers : AgentOf[v] = a /\ AgentOf[w] = a => v = w

\* Mail for one agent is given to it once, although its process may end
\* anywhere between the fetch, the mark and the turn, as long as the marks are
\* written.
DirectMailIsGivenOnce ==
    faults = 0 =>
        \A a \in Agents, m \in Messages : Direct(a, m) => given[a][m] <= 1

\* The agent has been given the message or is about to be.
Reached(a, m) ==
    \/ given[a][m] > 0
    \/ \E w \in Workers : AgentOf[w] = a /\ phase[w] = "marked" /\ m \in batch[w]

\* Unless a process ends, a message is marked only for an agent that has been
\* given it or is about to be: no mark hides a message from its reader.
MarkedIsGiven ==
    crashes = 0 =>
        \A m \in Messages : \A a \in readBy[m] : Reached(a, m)

Running(a) == \E w \in Workers : AgentOf[w] = a /\ phase[w] # "down"
Hidden(a) == \E b \in Agents \ {a} : <<a, b>> \in Inside

\* A message reaches each of its readers, lost marks and failing writes or not,
\* unless a process ends or the reader's name is part of another's.
MailIsGiven ==
    \A a \in Agents, m \in Messages :
        m \in sent /\ a \in To[m] /\ Running(a) ~>
            given[a][m] > 0 \/ crashes > 0 \/ Hidden(a)
=============================================================================
