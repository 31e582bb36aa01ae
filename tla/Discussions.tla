----------------------------- MODULE Discussions -----------------------------
(***************************************************************************)
(* The tables discussions and discussion_comments of shared-memory.db, and *)
(* the heartbeat checks in which agents comment and the librarian          *)
(* proposes.  What a check has read (the open discussions, the number of   *)
(* commenters) is used after the agent's turn, an await during which other *)
(* processes and people write.                                             *)
(***************************************************************************)
EXTENDS Naturals, FiniteSets

CONSTANTS
    Agents,
    Librarian,          \* the agent that synthesizes
    Workers,            \* gateway processes with a heartbeat service
    AgentOf,            \* process -> agent_name
    Topics,             \* the rows of discussions that may be inserted
    Age,                \* topic -> its place by created_at
    NoTopic,
    Enough,             \* MIN_COMMENTS_FOR_PROPOSAL
    Limit,              \* discussions a check fetches
    MaxTroubles         \* bound: ends of a process, turns and transactions
                        \* that raise

ASSUME AgentsAssumption == IsFiniteSet(Agents) /\ Librarian \in Agents
ASSUME AgentOfAssumption == AgentOf \in [Workers -> Agents]
ASSUME AgeAssumption == Age \in [Topics -> Nat]
ASSUME NoTopicAssumption == NoTopic \notin Topics
ASSUME NumbersAssumption == Enough \in Nat /\ Limit \in Nat \ {0}
ASSUME BoundsAssumption == MaxTroubles \in Nat

VARIABLES
    status,             \* topic -> its status column, or "absent"
    comments,           \* topic -> the processes that wrote its comment rows
    phase,              \* process -> where its check of the discussions is
    todo,               \* process -> fetched topics it has yet to look at
    topic,              \* process -> the topic its turn is about
    crashes, faults

worker == <<phase, todo, topic>>
vars == <<status, comments, worker, crashes, faults>>

Open == {"open", "discussing"}
Verdicts == {"approved", "rejected"}
Statuses == {"absent", "proposed"} \cup Open \cup Verdicts
Phases == {"down", "idle", "looping", "reviewing", "synthesizing", "proposing"}

TypeOK ==
    /\ status \in [Topics -> Statuses]
    /\ comments \in [Topics -> SUBSET Workers]
    /\ phase \in [Workers -> Phases]
    /\ todo \in [Workers -> SUBSET Topics]
    /\ topic \in [Workers -> Topics \cup {NoTopic}]
    /\ \A w \in Workers : phase[w] = "looping" => todo[w] # {}
    /\ \A w \in Workers :
          topic[w] = NoTopic <=> phase[w] \in {"down", "idle", "looping"}
    /\ crashes \in Nat
    /\ faults \in Nat

-----------------------------------------------------------------------------
(* The tables                                                              *)

Commenters(d) == {AgentOf[w] : w \in comments[d]}

\* Mutations: whatever the status; commented on or not.
AnyUncommented(a) == {d \in Topics : status[d] # "absent" /\ a \notin Commenters(d)}
AllOpen(a) == {d \in Topics : status[d] \in Open}
Uncommented(a) == {d \in Topics : status[d] \in Open /\ a \notin Commenters(d)}

\* ORDER BY created_at LIMIT ?.
Oldest(S, T) ==
    /\ S \subseteq T
    /\ S = T \/ Cardinality(S) = Limit
    /\ Cardinality(S) <= Limit
    /\ \A d \in S, e \in T \ S : Age[d] <= Age[e]

\* _count_unique_commenters.
Count(d) == Cardinality(Commenters(d))

\* The transaction of _add_discussion_comment.  A process fetches only what its
\* agent has not commented on, so it never adds a second row to a topic.
Insert(w, d) ==
    /\ comments' = [comments EXCEPT ![d] = @ \cup {w}]
    /\ status' = [status EXCEPT ![d] = IF @ = "open" THEN "discussing" ELSE @]

\* Something raises: a warning or an error is logged and the check goes on.
Trouble == crashes + faults < MaxTroubles
Raises == Trouble /\ faults' = faults + 1

-----------------------------------------------------------------------------
(* Those who open discussions and decide about proposals                   *)

Start(d) ==
    /\ status[d] = "absent"
    /\ status' = [status EXCEPT ![d] = "open"]
    /\ UNCHANGED <<comments, worker, crashes, faults>>

Decide(d, verdict) ==
    /\ status[d] = "proposed"
    /\ status' = [status EXCEPT ![d] = verdict]
    /\ UNCHANGED <<comments, worker, crashes, faults>>

-----------------------------------------------------------------------------
(* _check_discussions                                                      *)

Enter(w, p) == phase' = [phase EXCEPT ![w] = p]

Boot(w) ==
    /\ phase[w] = "down"
    /\ Enter(w, "idle")
    /\ UNCHANGED <<status, comments, todo, topic, crashes, faults>>

\* A read that fails, or finds nothing, changes nothing.
Fetch(w) ==
    /\ phase[w] = "idle"
    /\ \E S \in SUBSET Uncommented(AgentOf[w]) :
          /\ S # {}
          /\ Oldest(S, Uncommented(AgentOf[w]))
          /\ todo' = [todo EXCEPT ![w] = S]
    /\ Enter(w, "looping")
    /\ UNCHANGED <<status, comments, topic, crashes, faults>>

\* The role is chosen by the number of commenters, before the turn.
Look(w) ==
    /\ phase[w] = "looping"
    /\ \E d \in todo[w] :
          /\ \A e \in todo[w] : Age[d] <= Age[e]
          /\ todo' = [todo EXCEPT ![w] = @ \ {d}]
          /\ topic' = [topic EXCEPT ![w] = d]
          /\ \/ /\ Enter(w, IF Count(d) >= Enough /\ AgentOf[w] = Librarian
                            THEN "synthesizing" ELSE "reviewing")
                /\ UNCHANGED faults
             \/ Raises /\ Enter(w, "reviewing")      \* counted as 0
    /\ UNCHANGED <<status, comments, crashes>>

\* Mutation: on to another topic, left or not.
LoopOn(w) ==
    /\ Enter(w, "looping")
    /\ topic' = [topic EXCEPT ![w] = NoTopic]
    /\ UNCHANGED todo
NextTopic(w) ==
    /\ Enter(w, IF todo[w] = {} THEN "idle" ELSE "looping")
    /\ topic' = [topic EXCEPT ![w] = NoTopic]
    /\ UNCHANGED todo

\* The turn of a reviewer, or the proposal of a synthesizer, is followed by
\* the comment.
Comment(w) ==
    /\ phase[w] \in {"reviewing", "proposing"}
    /\ Insert(w, topic[w])
    /\ NextTopic(w)
    /\ UNCHANGED <<crashes, faults>>
CommentRaises(w) ==
    /\ phase[w] \in {"reviewing", "proposing"}
    /\ Raises
    /\ NextTopic(w)
    /\ UNCHANGED <<status, comments, crashes>>

\* Mutation: the UPDATE is not committed.
ProposeUncommitted(w) ==
    /\ phase[w] = "synthesizing"
    /\ Enter(w, "proposing")
    /\ UNCHANGED <<status, comments, todo, topic, crashes, faults>>
\* The turn of a synthesizer is followed by _set_discussion_proposal, whatever
\* the status has become.
Propose(w) ==
    /\ phase[w] = "synthesizing"
    /\ status' = [status EXCEPT ![topic[w]] = "proposed"]
    /\ Enter(w, "proposing")
    /\ UNCHANGED <<comments, todo, topic, crashes, faults>>
\* The UPDATE raises inside: the comment still follows.
ProposeRaises(w) ==
    /\ phase[w] = "synthesizing"
    /\ Raises
    /\ Enter(w, "proposing")
    /\ UNCHANGED <<status, comments, todo, topic, crashes>>

\* The turn of a synthesizer raises.
SynthesisRaises(w) ==
    /\ phase[w] = "synthesizing"
    /\ Raises
    /\ NextTopic(w)
    /\ UNCHANGED <<status, comments, crashes>>

Crash(w) ==
    /\ phase[w] # "down"
    /\ Trouble
    /\ crashes' = crashes + 1
    /\ Enter(w, "down")
    /\ todo' = [todo EXCEPT ![w] = {}]
    /\ topic' = [topic EXCEPT ![w] = NoTopic]
    /\ UNCHANGED <<status, comments, faults>>

-----------------------------------------------------------------------------
Init ==
    /\ status = [d \in Topics |-> "absent"]
    /\ comments = [d \in Topics |-> {}]
    /\ phase = [w \in Workers |-> "down"]
    /\ todo = [w \in Workers |-> {}]
    /\ topic = [w \in Workers |-> NoTopic]
    /\ crashes = 0
    /\ faults = 0

\* The next action of process w itself.
Step(w) ==
    \/ Fetch(w) \/ Look(w) \/ Comment(w) \/ CommentRaises(w)
    \/ Propose(w) \/ ProposeRaises(w) \/ SynthesisRaises(w)

Next ==
    \/ \E d \in Topics : Start(d)
    \/ \E d \in Topics, verdict \in Verdicts : Decide(d, verdict)
    \/ \E w \in Workers : Boot(w) \/ Step(w) \/ Crash(w)

Spec == Init /\ [][Next]_vars

\* A running loop goes on: its sleep, reads and turns end.
FairSpec == Spec /\ \A w \in Workers : WF_vars(Step(w))
-----------------------------------------------------------------------------
(* Properties                                                              *)

OneLibrarian ==
    \A v, w \in Workers : AgentOf[v] = Librarian /\ AgentOf[w] = Librarian => v = w

\* While one process is the librarian, only topics on which enough different
\* agents besides it have commented are ever proposed, although it counts
\* before its turn and its own comments count too.  README.md:395 says that one
\* agent that comments twice, on different discussions, can trigger the
\* synthesis: it cannot, COUNT(DISTINCT agent_name) is for one discussion
\* (_count_unique_commenters).
ProposalsAreDeliberated ==
    OneLibrarian =>
        \A d \in Topics : status[d] \in {"proposed"} \cup Verdicts =>
            Cardinality(Commenters(d) \ {Librarian}) >= Enough

Place(s) ==
    IF s = "absent" THEN 0 ELSE IF s = "open" THEN 1
    ELSE IF s = "discussing" THEN 2 ELSE IF s = "proposed" THEN 3 ELSE 4

\* No step takes a topic back: README.md's open, discussing, proposed, approved
\* or rejected.  In particular a verdict stands, although the proposal is
\* written without a look at the status (one librarian process).
Advances ==
    OneLibrarian =>
        \A d \in Topics : \/ status'[d] = status[d]
                          \/ Place(status[d]) < Place(status'[d])
StatusOnlyAdvances == [][Advances]_vars

Running(a) == \E w \in Workers : AgentOf[w] = a /\ phase[w] # "down"
Untroubled == crashes = 0 /\ faults = 0

\* Enough agents have commented before the librarian turned to the topic.
Ripe(d) ==
    /\ status[d] \in Open /\ Count(d) >= Enough /\ Librarian \notin Commenters(d)
    /\ Running(Librarian)
    /\ \A w \in Workers : AgentOf[w] = Librarian => topic[w] # d

\* As long as nothing raises or ends, a topic on which enough agents have
\* commented before the running librarian turns to it leaves the discussion
\* for a proposal.  More is not true: README.md:62 has the librarian synthesize
\* whenever enough agents have commented, but a topic it commented on earlier
\* it does not fetch again, and nobody else proposes it
\* (_fetch_open_discussions, _check_discussions).
EnoughAreProposed ==
    \A d \in Topics : Ripe(d) ~> status[d] \notin Open \/ ~Untroubled

=============================================================================
