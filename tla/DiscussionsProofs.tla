-------------------------- MODULE DiscussionsProofs --------------------------
(***************************************************************************)
(* Proofs about Discussions for every set of agents, processes and topics  *)
(* and every number of comments.  The strengthening (DeliberationInv) says *)
(* what a librarian's check may rely on although it read it long ago: what *)
(* it has yet to look at is still open and without its comment, and the    *)
(* topic it synthesizes is still open and has enough other commenters.     *)
(***************************************************************************)
EXTENDS Discussions, FiniteSetTheorems, TLAPS

-----------------------------------------------------------------------------
(* Types                                                                   *)

LEMMA InitTypeOK == Init => TypeOK
BY BoundsAssumption DEF Init, TypeOK, Phases, Statuses

LEMMA FetchTypes ==
    ASSUME TypeOK, NEW w \in Workers, Fetch(w)
    PROVE  TypeOK'
<1>1. PICK S \in SUBSET Uncommented(AgentOf[w]) :
          S # {} /\ todo' = [todo EXCEPT ![w] = S]
  BY DEF Fetch
<1>2. S \in SUBSET Topics
  BY <1>1 DEF Uncommented
<1> QED
  BY <1>1, <1>2 DEF Fetch, Enter, TypeOK, Phases

\* Look, for the topic it picks.
LooksAt(w, d) ==
    /\ todo' = [todo EXCEPT ![w] = todo[w] \ {d}]
    /\ topic' = [topic EXCEPT ![w] = d]
    /\ \/ Enter(w, "reviewing")
       \/ Enter(w, "synthesizing") /\ Count(d) >= Enough /\ AgentOf[w] = Librarian
    /\ faults' = faults \/ faults' = faults + 1
    /\ UNCHANGED <<status, comments, crashes>>

LEMMA LookLooks ==
    ASSUME NEW w \in Workers, Look(w)
    PROVE  \E d \in todo[w] : LooksAt(w, d)
BY DEF Look, Raises, LooksAt, Enter

LEMMA LookTypes ==
    ASSUME TypeOK, NEW w \in Workers, Look(w)
    PROVE  TypeOK'
<1>1. PICK d \in todo[w] : LooksAt(w, d)
  BY LookLooks
<1>2. d \in Topics /\ d # NoTopic
  BY <1>1, NoTopicAssumption DEF TypeOK
<1>3. faults' \in Nat
  BY <1>1 DEF LooksAt, TypeOK
<1> QED
  BY <1>1, <1>2, <1>3 DEF LooksAt, Enter, TypeOK, Phases

LEMMA NextTopicTypes ==
    ASSUME TypeOK, NEW w \in Workers, NextTopic(w),
           status' \in [Topics -> Statuses],
           comments' \in [Topics -> SUBSET Workers],
           crashes' \in Nat, faults' \in Nat
    PROVE  TypeOK'
BY DEF NextTopic, Enter, TypeOK, Phases

LEMMA NextTypeOK == TypeOK /\ [Next]_vars => TypeOK'
<1> SUFFICES ASSUME TypeOK, [Next]_vars PROVE TypeOK'
  OBVIOUS
<1>1. CASE \E d \in Topics : Start(d)
  BY <1>1 DEF Start, worker, TypeOK, Statuses, Open
<1>2. CASE \E d \in Topics, verdict \in Verdicts : Decide(d, verdict)
  BY <1>2 DEF Decide, worker, TypeOK, Statuses
<1>3. CASE \E w \in Workers : Boot(w)
  BY <1>3 DEF Boot, Enter, TypeOK, Phases
<1>4. CASE \E w \in Workers : Fetch(w)
  BY <1>4, FetchTypes
<1>5. CASE \E w \in Workers : Look(w)
  BY <1>5, LookTypes
<1>6. CASE \E w \in Workers : Comment(w)
  <2>1. PICK w \in Workers : Comment(w)
    BY <1>6
  <2>2. /\ status' \in [Topics -> Statuses]
        /\ comments' \in [Topics -> SUBSET Workers]
    BY <2>1 DEF Comment, Insert, TypeOK, Statuses, Open
  <2>3. NextTopic(w) /\ crashes' \in Nat /\ faults' \in Nat
    BY <2>1 DEF Comment, TypeOK
  <2> QED
    BY <2>2, <2>3, NextTopicTypes
<1>7. CASE \E w \in Workers : CommentRaises(w)
  BY <1>7, NextTopicTypes DEF CommentRaises, Raises, TypeOK
<1>8. CASE \E w \in Workers : Propose(w)
  BY <1>8 DEF Propose, Enter, TypeOK, Phases, Statuses
<1>9. CASE \E w \in Workers : ProposeRaises(w)
  BY <1>9 DEF ProposeRaises, Raises, Enter, TypeOK, Phases
<1>10. CASE \E w \in Workers : SynthesisRaises(w)
  BY <1>10, NextTopicTypes DEF SynthesisRaises, Raises, TypeOK
<1>11. CASE \E w \in Workers : Crash(w)
  BY <1>11 DEF Crash, Enter, TypeOK, Phases
<1>12. CASE UNCHANGED vars
  BY <1>12 DEF vars, worker, TypeOK
<1> QED
  BY <1>1, <1>2, <1>3, <1>4, <1>5, <1>6, <1>7, <1>8, <1>9, <1>10, <1>11, <1>12
  DEF Next, Step

\* Every variable keeps its type, and each process's local variables fit the
\* place its check has come to.
THEOREM TypeCorrect == Spec => []TypeOK
<1> QED BY InitTypeOK, NextTypeOK, PTL DEF Spec

-----------------------------------------------------------------------------
(* What a librarian's check relies on                                      *)

Ready(d) == Cardinality(Commenters(d) \ {Librarian}) >= Enough

\* d is still as a librarian's check has read it.
Fresh(d) == status[d] \in Open /\ Librarian \notin Commenters(d)

LibrarianOnly ==
    \A w \in Workers : phase[w] = "synthesizing" => AgentOf[w] = Librarian
TodoIsFresh ==
    \A w \in Workers : AgentOf[w] = Librarian => \A d \in todo[w] : Fresh(d)
TopicIsTaken == \A w \in Workers : topic[w] \notin todo[w]
SynthesisIsDue ==
    \A w \in Workers, d \in Topics :
        phase[w] = "synthesizing" /\ topic[w] = d => Ready(d) /\ status[d] \in Open
ProposedIsReady ==
    \A d \in Topics : status[d] \in {"proposed"} \cup Verdicts => Ready(d)

Deliberation ==
    /\ LibrarianOnly
    /\ TodoIsFresh
    /\ TopicIsTaken
    /\ SynthesisIsDue
    /\ ProposedIsReady

DeliberationInv == TypeOK /\ (OneLibrarian => Deliberation)

-----------------------------------------------------------------------------
(* What steps do to the tables                                             *)

\* A set of commenters is finite, and stays enough when it grows.
LEMMA EnoughGrows ==
    ASSUME NEW C, NEW D, C \subseteq D, D \subseteq Agents,
           Cardinality(C \ {Librarian}) >= Enough
    PROVE  Cardinality(D \ {Librarian}) >= Enough
<1>1. IsFiniteSet(D \ {Librarian})
  BY AgentsAssumption, FS_Subset
<1>2. C \ {Librarian} \in SUBSET (D \ {Librarian})
  OBVIOUS
<1>3. Cardinality(C \ {Librarian}) <= Cardinality(D \ {Librarian})
  BY <1>1, <1>2, FS_Subset
<1>4. IsFiniteSet(C \ {Librarian})
  BY <1>1, <1>2, FS_Subset
<1>5. Cardinality(C \ {Librarian}) \in Nat /\ Cardinality(D \ {Librarian}) \in Nat
  BY <1>1, <1>4, FS_CardinalityType
<1> QED
  BY <1>3, <1>5, NumbersAssumption

\* No step deletes a comment.
LEMMA CommentsStay ==
    ASSUME TypeOK, [Next]_vars, NEW d \in Topics
    PROVE  comments[d] \subseteq comments'[d]
BY DEF Next, Step, Start, Decide, Boot, Fetch, Look, Comment, CommentRaises,
       Propose, ProposeRaises, SynthesisRaises, Crash, Insert, vars, TypeOK

LEMMA ReadyStays ==
    ASSUME TypeOK, [Next]_vars, NEW d \in Topics, Ready(d)
    PROVE  Ready(d)'
<1>1. comments[d] \subseteq comments'[d]
  BY CommentsStay
<1>2. comments'[d] \subseteq Workers
  BY NextTypeOK DEF TypeOK
<1>3. Commenters(d) \subseteq Commenters(d)'
  BY <1>1 DEF Commenters
<1>4. Commenters(d)' \subseteq Agents
  BY <1>2, AgentOfAssumption DEF Commenters
<1>5. Cardinality(Commenters(d) \ {Librarian}) >= Enough
  BY DEF Ready
<1>6. Cardinality(Commenters(d)' \ {Librarian}) >= Enough
  BY <1>3, <1>4, <1>5, EnoughGrows
<1> QED
  BY <1>6 DEF Ready

\* A step that leaves the tables alone leaves a topic fresh, ...
LEMMA FreshStays ==
    ASSUME NEW d \in Topics, Fresh(d), status'[d] \in Open,
           comments'[d] = comments[d]
    PROVE  Fresh(d)'
BY DEF Fresh, Commenters

\* ... and so does another agent's comment.
LEMMA FreshStaysInsert ==
    ASSUME TypeOK, NEW d \in Topics, NEW w \in Workers, NEW e \in Topics,
           Fresh(d), Insert(w, e), e # d \/ AgentOf[w] # Librarian
    PROVE  Fresh(d)'
<1>1. status'[d] \in Open
  BY DEF Insert, Fresh, Open, TypeOK
<1>2. CASE e # d
  <2>1. comments'[d] = comments[d]
    BY <1>2 DEF Insert, TypeOK
  <2> QED
    BY <1>1, <2>1, FreshStays
<1>3. CASE e = d
  <2>1. comments'[d] = comments[d] \cup {w}
    BY <1>3 DEF Insert, TypeOK
  <2> QED
    BY <1>1, <1>3, <2>1 DEF Fresh, Commenters
<1> QED
  BY <1>2, <1>3

-----------------------------------------------------------------------------
(* The invariant                                                           *)

Concluded == {"proposed"} \cup Verdicts

\* The steps that only end something or decide: no topic is fetched, looked at,
\* commented on or proposed.
Calm ==
    /\ \A w \in Workers :
          phase'[w] = "synthesizing" =>
              phase[w] = "synthesizing" /\ topic'[w] = topic[w]
    /\ \A w \in Workers : todo'[w] \subseteq todo[w]
    /\ \A w \in Workers : topic'[w] = topic[w] \/ topic'[w] = NoTopic
    /\ \A d \in Topics : status[d] \in Open => status'[d] \in Open
    /\ \A d \in Topics : status'[d] \in Concluded => status[d] \in Concluded
    /\ comments' = comments

LEMMA CalmDeliberation ==
    ASSUME TypeOK, TypeOK', [Next]_vars, Deliberation, Calm
    PROVE  Deliberation'
<1>1. LibrarianOnly'
  BY DEF Calm, Deliberation, LibrarianOnly
<1>2. TodoIsFresh'
  <2> SUFFICES ASSUME NEW w \in Workers, AgentOf[w] = Librarian, NEW d \in todo'[w]
               PROVE  Fresh(d)'
    BY DEF TodoIsFresh
  <2>1. d \in todo[w] /\ d \in Topics
    BY DEF Calm, TypeOK
  <2>2. Fresh(d)
    BY <2>1 DEF Deliberation, TodoIsFresh
  <2>3. status'[d] \in Open /\ comments'[d] = comments[d]
    BY <2>1, <2>2 DEF Calm, Fresh
  <2> QED
    BY <2>1, <2>2, <2>3, FreshStays
<1>3. TopicIsTaken'
  BY NoTopicAssumption DEF Calm, Deliberation, TopicIsTaken, TypeOK
<1>4. SynthesisIsDue'
  <2> SUFFICES ASSUME NEW w \in Workers, NEW d \in Topics,
                      phase'[w] = "synthesizing", topic'[w] = d
               PROVE  Ready(d)' /\ status'[d] \in Open
    BY DEF SynthesisIsDue
  <2>1. phase[w] = "synthesizing" /\ topic[w] = d
    BY DEF Calm
  <2>2. Ready(d) /\ status[d] \in Open
    BY <2>1 DEF Deliberation, SynthesisIsDue
  <2> QED
    BY <2>2, ReadyStays DEF Calm
<1>5. ProposedIsReady'
  <2> SUFFICES ASSUME NEW d \in Topics, status'[d] \in Concluded
               PROVE  Ready(d)'
    BY DEF ProposedIsReady, Concluded
  <2>1. Ready(d)
    BY DEF Calm, Deliberation, ProposedIsReady, Concluded
  <2> QED
    BY <2>1, ReadyStays
<1> QED
  BY <1>1, <1>2, <1>3, <1>4, <1>5 DEF Deliberation

\* Only what is open and lacks the librarian's comment is fetched by it.
LEMMA FetchDeliberation ==
    ASSUME TypeOK, NEW w \in Workers, Fetch(w), Deliberation
    PROVE  Deliberation'
<1>1. PICK S \in SUBSET Uncommented(AgentOf[w]) : todo' = [todo EXCEPT ![w] = S]
  BY DEF Fetch
<1>2. UNCHANGED <<status, comments, topic>> /\ phase' = [phase EXCEPT ![w] = "looping"]
  BY DEF Fetch, Enter
<1>3. \A d \in S : AgentOf[w] = Librarian => Fresh(d)
  BY <1>1 DEF Uncommented, Fresh
<1>4. \A d : Fresh(d) => Fresh(d)'
  BY <1>2 DEF Fresh, Commenters
<1>5. \A d : Ready(d) => Ready(d)'
  BY <1>2 DEF Ready, Commenters
<1>6. LibrarianOnly'
  BY <1>2 DEF Deliberation, LibrarianOnly, TypeOK
<1>7. TodoIsFresh'
  <2> SUFFICES ASSUME NEW v \in Workers, AgentOf[v] = Librarian, NEW d \in todo'[v]
               PROVE  Fresh(d)'
    BY DEF TodoIsFresh
  <2>1. Fresh(d)
    BY <1>1, <1>3 DEF Deliberation, TodoIsFresh, TypeOK
  <2> QED
    BY <2>1, <1>4
<1>8. TopicIsTaken'
  <2>1. topic[w] = NoTopic /\ phase[w] = "idle"
    BY DEF Fetch, TypeOK
  <2>2. topic[w] \notin S
    BY <2>1, NoTopicAssumption DEF Uncommented
  <2> QED
    BY <1>1, <1>2, <2>2 DEF Deliberation, TopicIsTaken, TypeOK
<1>9. SynthesisIsDue'
  <2> SUFFICES ASSUME NEW v \in Workers, NEW d \in Topics,
                      phase'[v] = "synthesizing", topic'[v] = d
               PROVE  Ready(d)' /\ status'[d] \in Open
    BY DEF SynthesisIsDue
  <2>1. phase[v] = "synthesizing" /\ topic[v] = d
    BY <1>2 DEF TypeOK
  <2> QED
    BY <2>1, <1>2, <1>5 DEF Deliberation, SynthesisIsDue
<1>10. ProposedIsReady'
  <2> SUFFICES ASSUME NEW d \in Topics, status'[d] \in Concluded
               PROVE  Ready(d)'
    BY DEF ProposedIsReady, Concluded
  <2> QED
    BY <1>2, <1>5 DEF Deliberation, ProposedIsReady, Concluded
<1> QED
  BY <1>6, <1>7, <1>8, <1>9, <1>10 DEF Deliberation

\* The librarian counts others only: it has not commented on what it looks at.
LEMMA LookDeliberation ==
    ASSUME TypeOK, NEW w \in Workers, Look(w), Deliberation
    PROVE  Deliberation'
<1>1. PICK e \in todo[w] : LooksAt(w, e)
  BY LookLooks
<1>2. UNCHANGED <<status, comments>>
  BY <1>1 DEF LooksAt
<1>3. \A d : Fresh(d) => Fresh(d)'
  BY <1>2 DEF Fresh, Commenters
<1>4. \A d : Ready(d) => Ready(d)'
  BY <1>2 DEF Ready, Commenters
<1>5. phase'[w] = "synthesizing" =>
          AgentOf[w] = Librarian /\ Ready(e) /\ status[e] \in Open
  <2> SUFFICES ASSUME phase'[w] = "synthesizing"
               PROVE  AgentOf[w] = Librarian /\ Ready(e) /\ status[e] \in Open
    OBVIOUS
  <2>1. Count(e) >= Enough /\ AgentOf[w] = Librarian
    BY <1>1 DEF LooksAt, Enter, TypeOK
  <2>2. Fresh(e)
    BY <2>1 DEF Deliberation, TodoIsFresh
  <2>3. Commenters(e) \ {Librarian} = Commenters(e)
    BY <2>2 DEF Fresh
  <2> QED
    BY <2>1, <2>2, <2>3 DEF Ready, Count, Fresh
<1>6. \A v \in Workers \ {w} :
          phase'[v] = phase[v] /\ topic'[v] = topic[v] /\ todo'[v] = todo[v]
  BY <1>1 DEF LooksAt, Enter, TypeOK
<1>7. topic'[w] = e /\ todo'[w] = todo[w] \ {e}
  BY <1>1 DEF LooksAt, TypeOK
<1>8. LibrarianOnly'
  BY <1>5, <1>6 DEF Deliberation, LibrarianOnly
<1>9. TodoIsFresh'
  BY <1>3, <1>6, <1>7 DEF Deliberation, TodoIsFresh
<1>10. TopicIsTaken'
  BY <1>6, <1>7 DEF Deliberation, TopicIsTaken
<1>11. SynthesisIsDue'
  <2> SUFFICES ASSUME NEW v \in Workers, NEW d \in Topics,
                      phase'[v] = "synthesizing", topic'[v] = d
               PROVE  Ready(d)' /\ status'[d] \in Open
    BY DEF SynthesisIsDue
  <2>1. Ready(d) /\ status[d] \in Open
    BY <1>5, <1>6, <1>7 DEF Deliberation, SynthesisIsDue
  <2> QED
    BY <2>1, <1>2, <1>4
<1>12. ProposedIsReady'
  <2> SUFFICES ASSUME NEW d \in Topics, status'[d] \in Concluded
               PROVE  Ready(d)'
    BY DEF ProposedIsReady, Concluded
  <2> QED
    BY <1>2, <1>4 DEF Deliberation, ProposedIsReady, Concluded
<1> QED
  BY <1>8, <1>9, <1>10, <1>11, <1>12 DEF Deliberation

\* The one librarian comments on the topic it has taken; others do not disturb
\* what it has read.
LEMMA CommentDeliberation ==
    ASSUME TypeOK, NEW w \in Workers, Comment(w), OneLibrarian, Deliberation
    PROVE  Deliberation'
<1>1. PICK e \in Topics : e = topic[w]
  BY DEF Comment, TypeOK
<1>2. Insert(w, e) /\ NextTopic(w)
  BY <1>1 DEF Comment
<1>3. phase'[w] # "synthesizing" /\ topic'[w] = NoTopic
  BY <1>2 DEF NextTopic, Enter, TypeOK
<1>4. \A v \in Workers \ {w} : phase'[v] = phase[v] /\ topic'[v] = topic[v]
  BY <1>2 DEF NextTopic, Enter, TypeOK
<1>5. todo' = todo
  BY <1>2 DEF NextTopic
<1>6. \A d \in Topics : status[d] \in Open => status'[d] \in Open
  BY <1>2 DEF Insert, Open, TypeOK
<1>7. \A d \in Topics : status'[d] \in Concluded => status[d] \in Concluded
  BY <1>2 DEF Insert, Concluded, Verdicts, TypeOK
<1>8. [Next]_vars
  BY DEF Next, Step
<1>9. LibrarianOnly'
  BY <1>3, <1>4 DEF Deliberation, LibrarianOnly
<1>10. TodoIsFresh'
  <2> SUFFICES ASSUME NEW v \in Workers, AgentOf[v] = Librarian, NEW d \in todo'[v]
               PROVE  Fresh(d)'
    BY DEF TodoIsFresh
  <2>1. d \in Topics /\ Fresh(d)
    BY <1>5 DEF Deliberation, TodoIsFresh, TypeOK
  <2>2. e # d \/ AgentOf[w] # Librarian
    BY <1>1, <1>5 DEF Deliberation, TopicIsTaken, OneLibrarian
  <2> QED
    BY <1>2, <2>1, <2>2, FreshStaysInsert
<1>11. TopicIsTaken'
  BY <1>3, <1>4, <1>5, NoTopicAssumption DEF Deliberation, TopicIsTaken, TypeOK
<1>12. SynthesisIsDue'
  <2> SUFFICES ASSUME NEW v \in Workers, NEW d \in Topics,
                      phase'[v] = "synthesizing", topic'[v] = d
               PROVE  Ready(d)' /\ status'[d] \in Open
    BY DEF SynthesisIsDue
  <2>1. Ready(d) /\ status[d] \in Open
    BY <1>3, <1>4 DEF Deliberation, SynthesisIsDue
  <2> QED
    BY <2>1, <1>6, <1>8, ReadyStays
<1>13. ProposedIsReady'
  <2> SUFFICES ASSUME NEW d \in Topics, status'[d] \in Concluded
               PROVE  Ready(d)'
    BY DEF ProposedIsReady, Concluded
  <2>1. Ready(d)
    BY <1>7 DEF Deliberation, ProposedIsReady, Concluded
  <2> QED
    BY <2>1, <1>8, ReadyStays
<1> QED
  BY <1>9, <1>10, <1>11, <1>12, <1>13 DEF Deliberation

\* Only the one librarian proposes, and only the topic it has taken.
LEMMA ProposeDeliberation ==
    ASSUME TypeOK, NEW w \in Workers, Propose(w), OneLibrarian, Deliberation
    PROVE  Deliberation'
<1>1. PICK e \in Topics : e = topic[w]
  BY DEF Propose, TypeOK
<1>2. status' = [status EXCEPT ![e] = "proposed"] /\ UNCHANGED <<comments, todo, topic>>
  BY <1>1 DEF Propose
<1>3. Ready(e) /\ AgentOf[w] = Librarian
  BY <1>1 DEF Propose, Deliberation, LibrarianOnly, SynthesisIsDue
<1>4. \A v \in Workers : v # w => AgentOf[v] # Librarian
  BY <1>3 DEF OneLibrarian
<1>5. \A v \in Workers : phase'[v] # "synthesizing"
  BY <1>4 DEF Propose, Enter, Deliberation, LibrarianOnly, TypeOK
<1>6. \A d : Ready(d) => Ready(d)'
  BY <1>2 DEF Ready, Commenters
<1>7. TodoIsFresh'
  <2> SUFFICES ASSUME NEW v \in Workers, AgentOf[v] = Librarian, NEW d \in todo'[v]
               PROVE  Fresh(d)'
    BY DEF TodoIsFresh
  <2>1. d \in Topics /\ Fresh(d)
    BY <1>2 DEF Deliberation, TodoIsFresh, TypeOK
  <2>2. d # e
    BY <1>1, <1>2, <1>4 DEF Deliberation, TopicIsTaken
  <2>3. status'[d] \in Open /\ comments'[d] = comments[d]
    BY <1>2, <2>1, <2>2 DEF Fresh, TypeOK
  <2> QED
    BY <2>1, <2>3, FreshStays
<1>8. TopicIsTaken'
  BY <1>2 DEF Deliberation, TopicIsTaken
<1>9. ProposedIsReady'
  <2> SUFFICES ASSUME NEW d \in Topics, status'[d] \in Concluded
               PROVE  Ready(d)'
    BY DEF ProposedIsReady, Concluded
  <2>1. Ready(d)
    BY <1>2, <1>3 DEF Deliberation, ProposedIsReady, Concluded, TypeOK
  <2> QED
    BY <2>1, <1>6
<1> QED
  BY <1>5, <1>7, <1>8, <1>9 DEF Deliberation, LibrarianOnly, SynthesisIsDue

LEMMA NextDeliberation ==
    ASSUME TypeOK, [Next]_vars, OneLibrarian, Deliberation
    PROVE  Deliberation'
<1>1. TypeOK'
  BY NextTypeOK
<1>2. ASSUME Calm PROVE Deliberation'
  BY <1>1, <1>2, CalmDeliberation
<1>3. CASE \E d \in Topics : Start(d)
  BY <1>2, <1>3 DEF Start, Calm, Concluded, Open, Verdicts, worker, TypeOK
<1>4. CASE \E d \in Topics, verdict \in Verdicts : Decide(d, verdict)
  BY <1>2, <1>4 DEF Decide, Calm, Concluded, Open, worker, TypeOK
<1>5. CASE \E w \in Workers : Boot(w)
  BY <1>2, <1>5 DEF Boot, Calm, Enter, TypeOK
<1>6. CASE \E w \in Workers : Fetch(w)
  BY <1>6, FetchDeliberation
<1>7. CASE \E w \in Workers : Look(w)
  BY <1>7, LookDeliberation
<1>8. CASE \E w \in Workers : Comment(w)
  BY <1>8, CommentDeliberation
<1>9. CASE \E w \in Workers : CommentRaises(w)
  BY <1>2, <1>9 DEF CommentRaises, NextTopic, Calm, Enter, TypeOK
<1>10. CASE \E w \in Workers : Propose(w)
  BY <1>10, ProposeDeliberation
<1>11. CASE \E w \in Workers : ProposeRaises(w)
  BY <1>2, <1>11 DEF ProposeRaises, Calm, Enter, TypeOK
<1>12. CASE \E w \in Workers : SynthesisRaises(w)
  BY <1>2, <1>12 DEF SynthesisRaises, NextTopic, Calm, Enter, TypeOK
<1>13. CASE \E w \in Workers : Crash(w)
  BY <1>2, <1>13 DEF Crash, Calm, Enter, TypeOK
<1>14. CASE UNCHANGED vars
  BY <1>2, <1>14 DEF vars, worker, Calm
<1> QED
  BY <1>3, <1>4, <1>5, <1>6, <1>7, <1>8, <1>9, <1>10, <1>11, <1>12, <1>13, <1>14
  DEF Next, Step

LEMMA InitDeliberationInv == Init => DeliberationInv
<1> SUFFICES ASSUME Init PROVE DeliberationInv
  OBVIOUS
<1>1. TypeOK
  BY InitTypeOK
<1>2. Deliberation
  BY DEF Init, Deliberation, LibrarianOnly, TodoIsFresh, TopicIsTaken,
         SynthesisIsDue, ProposedIsReady, Verdicts
<1> QED
  BY <1>1, <1>2 DEF DeliberationInv

LEMMA NextDeliberationInv == DeliberationInv /\ [Next]_vars => DeliberationInv'
BY NextTypeOK, NextDeliberation DEF DeliberationInv, OneLibrarian

\* Whatever the number of agents and the threshold, a single librarian proposes
\* only what enough other agents have commented on.
THEOREM DeliberatedFirst == Spec => []ProposalsAreDeliberated
<1>1. DeliberationInv => ProposalsAreDeliberated
  BY DEF DeliberationInv, Deliberation, ProposedIsReady, Ready, ProposalsAreDeliberated
<1> QED
  BY <1>1, InitDeliberationInv, NextDeliberationInv, PTL DEF Spec

-----------------------------------------------------------------------------
(* The status only advances                                                *)

LEMMA NextAdvances ==
    ASSUME DeliberationInv, [Next]_vars
    PROVE  Advances
<1> SUFFICES ASSUME OneLibrarian, NEW d \in Topics, status'[d] # status[d]
             PROVE  Place(status[d]) < Place(status'[d])
  BY DEF Advances
<1>1. TypeOK /\ Deliberation
  BY DEF DeliberationInv
<1>2. CASE \E e \in Topics : Start(e)
  BY <1>1, <1>2 DEF Start, Place, TypeOK
<1>3. CASE \E e \in Topics, verdict \in Verdicts : Decide(e, verdict)
  BY <1>1, <1>3 DEF Decide, Place, Verdicts, TypeOK
<1>4. CASE \E w \in Workers : Comment(w)
  BY <1>1, <1>4 DEF Comment, Insert, Place, TypeOK
<1>5. CASE \E w \in Workers : Propose(w)
  <2>1. PICK w \in Workers : Propose(w)
    BY <1>5
  <2>2. topic[w] = d /\ status'[d] = "proposed"
    BY <1>1, <2>1 DEF Propose, TypeOK
  <2>3. status[d] \in Open
    BY <1>1, <2>1, <2>2 DEF Propose, Deliberation, SynthesisIsDue
  <2> QED
    BY <2>2, <2>3 DEF Place, Open
<1>6. CASE UNCHANGED status
  BY <1>6
<1> QED
  BY <1>2, <1>3, <1>4, <1>5, <1>6
  DEF Next, Step, Boot, Fetch, Look, CommentRaises, ProposeRaises,
      SynthesisRaises, Crash, vars

\* A single librarian never takes a topic back: no proposal overwrites a verdict.
THEOREM StatusAdvances == Spec => StatusOnlyAdvances
<1>1. DeliberationInv /\ [Next]_vars => [Advances]_vars
  BY NextAdvances
<1> QED
  BY <1>1, InitDeliberationInv, NextDeliberationInv, PTL DEF Spec, StatusOnlyAdvances
=============================================================================
