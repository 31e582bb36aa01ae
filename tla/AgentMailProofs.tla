--------------------------- MODULE AgentMailProofs ---------------------------
(***************************************************************************)
(* Proofs about AgentMail for every set of agents, processes and messages. *)
(* Two strengthenings: what is marked is given (GivenInv: the readers a    *)
(* process has seen before its transaction count as marked), and direct    *)
(* mail is given once (DirectInv: what has been given is marked, and a     *)
(* batch under way has not been given yet).                                *)
(***************************************************************************)
EXTENDS AgentMail, FiniteSetTheorems, TLAPS

-----------------------------------------------------------------------------
(* Types                                                                   *)

LEMMA EmptyBatch == Cardinality({}) <= Limit
BY FS_EmptySet, LimitAssumption

LEMMA InitTypeOK == Init => TypeOK
BY EmptyBatch, BoundsAssumption DEF Init, TypeOK, Phases

LEMMA FetchTypes ==
    ASSUME TypeOK, NEW w \in Workers, Fetch(w)
    PROVE  TypeOK'
<1>1. PICK S \in SUBSET Unread(AgentOf[w]) :
          Oldest(S, Unread(AgentOf[w])) /\ batch' = [batch EXCEPT ![w] = S]
  BY DEF Fetch
<1>2. S \in SUBSET Messages /\ Cardinality(S) <= Limit
  BY <1>1 DEF Unread, Oldest, TypeOK
<1> QED
  BY <1>1, <1>2 DEF Fetch, Enter, TypeOK, Phases

LEMMA ReadReadersTypes ==
    ASSUME TypeOK, NEW w \in Workers, ReadReaders(w)
    PROVE  TypeOK'
<1>1. PICK m \in batch[w] :
          head' = [head EXCEPT ![w] = m] /\ seen' = [seen EXCEPT ![w] = readBy[m]]
  BY DEF ReadReaders
<1>2. m \in Messages /\ readBy[m] \in SUBSET Agents
  BY <1>1 DEF TypeOK
<1> QED
  BY <1>1, <1>2 DEF ReadReaders, Enter, TypeOK, Phases

LEMMA MarkReadTypes ==
    ASSUME TypeOK, NEW w \in Workers, MarkRead(w)
    PROVE  TypeOK'
<1>1. readBy' \in [Messages -> SUBSET Agents]
  <2>1. seen[w] \in SUBSET Agents /\ AgentOf[w] \in Agents
    BY AgentOfAssumption DEF TypeOK
  <2> QED
    BY <2>1 DEF MarkRead, Mark, TypeOK
<1> QED
  BY <1>1 DEF MarkRead, Enter, TypeOK, Phases

LEMMA GiveTypes ==
    ASSUME TypeOK, NEW w \in Workers, Give(w)
    PROVE  TypeOK'
<1>1. given' \in [Agents -> [Messages -> 0..2]]
  BY AgentOfAssumption DEF Give, TypeOK
<1> QED
  BY <1>1 DEF Give, Enter, TypeOK, Phases

LEMMA ForgetTypes ==
    ASSUME TypeOK, NEW w \in Workers, Forget(w)
    PROVE  /\ batch' \in [Workers -> SUBSET Messages]
           /\ \A v \in Workers : Cardinality(batch'[v]) <= Limit
           /\ head' \in [Workers -> Messages \cup {NoMessage}]
           /\ seen' \in [Workers -> SUBSET Agents]
BY EmptyBatch DEF Forget, TypeOK

LEMMA NextTypeOK == TypeOK /\ [Next]_vars => TypeOK'
<1> SUFFICES ASSUME TypeOK, [Next]_vars PROVE TypeOK'
  OBVIOUS
<1>1. CASE \E m \in Messages : Send(m)
  BY <1>1 DEF Send, worker, TypeOK
<1>2. CASE \E w \in Workers : Boot(w)
  BY <1>2 DEF Boot, Enter, TypeOK, Phases
<1>3. CASE \E w \in Workers : Fetch(w)
  BY <1>3, FetchTypes
<1>4. CASE \E w \in Workers : ReadReaders(w)
  BY <1>4, ReadReadersTypes
<1>5. CASE \E w \in Workers : MarkRead(w)
  BY <1>5, MarkReadTypes
<1>6. CASE \E w \in Workers : MarkRaises(w)
  BY <1>6, BoundsAssumption DEF MarkRaises, Enter, TypeOK, Phases
<1>7. CASE \E w \in Workers : Give(w)
  BY <1>7, GiveTypes
<1>8. CASE \E w \in Workers : TurnEnds(w)
  BY <1>8, ForgetTypes DEF TurnEnds, Enter, TypeOK, Phases
<1>9. CASE \E w \in Workers : Crash(w)
  BY <1>9, ForgetTypes, BoundsAssumption DEF Crash, Enter, TypeOK, Phases
<1>10. CASE UNCHANGED vars
  BY <1>10 DEF vars, worker, TypeOK
<1> QED
  BY <1>1, <1>2, <1>3, <1>4, <1>5, <1>6, <1>7, <1>8, <1>9, <1>10 DEF Next, Step

\* Every variable keeps its type; no batch is longer than the limit of a tick.
THEOREM TypeCorrect == Spec => []TypeOK
<1> QED BY InitTypeOK, NextTypeOK, PTL DEF Spec

-----------------------------------------------------------------------------
(* What is marked is given                                                 *)

\* The readers seen before the transaction have been given the message too.
SeenIsGiven ==
    crashes = 0 =>
        \A w \in Workers : phase[w] = "marking" =>
            head[w] \in Messages /\ \A a \in seen[w] : Reached(a, head[w])

GivenInv == TypeOK /\ MarkedIsGiven /\ SeenIsGiven

\* No step of a running process takes a message back.
LEMMA ReachedStays ==
    ASSUME TypeOK, [Next]_vars, crashes' = 0,
           NEW a \in Agents, NEW m \in Messages, Reached(a, m)
    PROVE  Reached(a, m)'
<1>1. CASE \E n \in Messages : Send(n)
  BY <1>1 DEF Send, worker, Reached
<1>2. CASE \E w \in Workers : Boot(w)
  BY <1>2 DEF Boot, Enter, Reached, TypeOK
<1>3. CASE \E w \in Workers : Fetch(w)
  BY <1>3 DEF Fetch, Enter, Reached, TypeOK
<1>4. CASE \E w \in Workers : ReadReaders(w)
  BY <1>4 DEF ReadReaders, Enter, Reached, TypeOK
<1>5. CASE \E w \in Workers : MarkRead(w)
  BY <1>5 DEF MarkRead, Enter, Reached, TypeOK
<1>6. CASE \E w \in Workers : MarkRaises(w)
  BY <1>6 DEF MarkRaises, Enter, Reached, TypeOK
<1>7. CASE \E w \in Workers : Give(w)
  <2>1. PICK w \in Workers : Give(w)
    BY <1>7
  <2>2. given[a][m] > 0 => given'[a][m] > 0
    BY <2>1, AgentOfAssumption DEF Give, TypeOK
  <2>3. AgentOf[w] = a /\ m \in batch[w] => given'[a][m] > 0
    BY <2>1, AgentOfAssumption DEF Give, TypeOK
  <2>4. \A v \in Workers \ {w} : phase'[v] = phase[v] /\ batch'[v] = batch[v]
    BY <2>1 DEF Give, Enter, TypeOK
  <2> QED
    BY <2>2, <2>3, <2>4 DEF Reached
<1>8. CASE \E w \in Workers : TurnEnds(w)
  BY <1>8 DEF TurnEnds, Forget, Enter, Reached, TypeOK
<1>9. CASE \E w \in Workers : Crash(w)
  BY <1>9 DEF Crash, TypeOK
<1>10. CASE UNCHANGED vars
  BY <1>10 DEF vars, worker, Reached
<1> QED
  BY <1>1, <1>2, <1>3, <1>4, <1>5, <1>6, <1>7, <1>8, <1>9, <1>10 DEF Next, Step

LEMMA InitGivenInv == Init => GivenInv
<1> SUFFICES ASSUME Init PROVE GivenInv
  OBVIOUS
<1>1. TypeOK
  BY InitTypeOK
<1>2. MarkedIsGiven /\ SeenIsGiven
  BY DEF Init, MarkedIsGiven, SeenIsGiven
<1> QED
  BY <1>1, <1>2 DEF GivenInv

\* Which steps write the marks, and which read them.
LEMMA ReadBySteps ==
    ASSUME TypeOK, [Next]_vars
    PROVE  \/ readBy' = readBy
           \/ \E w \in Workers : MarkRead(w)
BY DEF Next, Step, Send, Boot, Fetch, ReadReaders, MarkRaises, Give, TurnEnds,
       Crash, vars

LEMMA SeenSteps ==
    ASSUME TypeOK, [Next]_vars, NEW w \in Workers, phase'[w] = "marking"
    PROVE  \/ phase[w] = "marking" /\ head'[w] = head[w] /\ seen'[w] = seen[w]
           \/ ReadReaders(w)
<1>1. CASE \E m \in Messages : Send(m)
  BY <1>1 DEF Send, worker
<1>2. CASE \E v \in Workers : Boot(v)
  BY <1>2 DEF Boot, Enter, TypeOK
<1>3. CASE \E v \in Workers : Fetch(v)
  BY <1>3 DEF Fetch, Enter, TypeOK
<1>4. CASE \E v \in Workers : ReadReaders(v)
  BY <1>4 DEF ReadReaders, Enter, TypeOK
<1>5. CASE \E v \in Workers : MarkRead(v)
  BY <1>5 DEF MarkRead, Enter, TypeOK
<1>6. CASE \E v \in Workers : MarkRaises(v)
  BY <1>6 DEF MarkRaises, Enter, TypeOK
<1>7. CASE \E v \in Workers : Give(v)
  BY <1>7 DEF Give, Enter, TypeOK
<1>8. CASE \E v \in Workers : TurnEnds(v)
  BY <1>8 DEF TurnEnds, Forget, Enter, TypeOK
<1>9. CASE \E v \in Workers : Crash(v)
  BY <1>9 DEF Crash, Forget, Enter, TypeOK
<1>10. CASE UNCHANGED vars
  BY <1>10 DEF vars, worker
<1> QED
  BY <1>1, <1>2, <1>3, <1>4, <1>5, <1>6, <1>7, <1>8, <1>9, <1>10 DEF Next, Step

LEMMA CrashesGrow == TypeOK /\ [Next]_vars /\ crashes' = 0 => crashes = 0
<1> SUFFICES ASSUME TypeOK, [Next]_vars, crashes' = 0 PROVE crashes = 0
  OBVIOUS
<1>1. crashes' = crashes \/ crashes' = crashes + 1
  BY DEF Next, Step, Send, Boot, Fetch, ReadReaders, MarkRead, MarkRaises, Give,
         TurnEnds, Crash, vars
<1> QED
  BY <1>1 DEF TypeOK

LEMMA NextGivenInv == GivenInv /\ [Next]_vars => GivenInv'
<1> SUFFICES ASSUME GivenInv, [Next]_vars PROVE GivenInv'
  OBVIOUS
<1>1. TypeOK /\ TypeOK'
  BY NextTypeOK DEF GivenInv
<1>2. SUFFICES ASSUME crashes' = 0
               PROVE  /\ \A m \in Messages : \A a \in readBy'[m] : Reached(a, m)'
                      /\ \A w \in Workers : phase'[w] = "marking" =>
                            head'[w] \in Messages
                            /\ \A a \in seen'[w] : Reached(a, head[w])'
  BY <1>1 DEF GivenInv, MarkedIsGiven, SeenIsGiven, Reached
<1>3. crashes = 0
  BY <1>1, <1>2, CrashesGrow
<1>4. \A m \in Messages : \A a \in readBy[m] : Reached(a, m) /\ a \in Agents
  BY <1>1, <1>3 DEF GivenInv, MarkedIsGiven, TypeOK
<1>5. \A a \in Agents, m \in Messages : Reached(a, m) => Reached(a, m)'
  BY <1>1, <1>2, ReachedStays
<1>6. ASSUME NEW m \in Messages, NEW a \in readBy'[m] PROVE Reached(a, m)'
  <2>1. CASE readBy' = readBy
    BY <1>4, <1>5, <1>6, <2>1
  <2>2. CASE \E w \in Workers : MarkRead(w)
    <3>1. PICK w \in Workers : MarkRead(w)
      BY <2>2
    <3>2. CASE m \in batch[w] /\ a = AgentOf[w]
      BY <1>1, <3>1, <3>2 DEF MarkRead, Enter, Reached, TypeOK
    <3>3. CASE a \in readBy[m]
      BY <1>4, <1>5, <3>3
    <3>4. CASE m = head[w] /\ a \in seen[w]
      <4>1. phase[w] = "marking"
        BY <3>1 DEF MarkRead
      <4>2. Reached(a, m) /\ a \in Agents
        BY <1>1, <1>3, <3>4, <4>1 DEF GivenInv, SeenIsGiven, TypeOK
      <4> QED
        BY <1>5, <4>2
    <3> QED
      BY <1>6, <3>1, <3>2, <3>3, <3>4 DEF MarkRead, Mark
  <2> QED
    BY <1>1, <2>1, <2>2, ReadBySteps
<1>7. ASSUME NEW w \in Workers, phase'[w] = "marking"
      PROVE  head'[w] \in Messages /\ \A a \in seen'[w] : Reached(a, head[w])'
  <2>1. CASE phase[w] = "marking" /\ head'[w] = head[w] /\ seen'[w] = seen[w]
    <3>1. head[w] \in Messages /\ \A a \in seen[w] : Reached(a, head[w]) /\ a \in Agents
      BY <1>1, <1>3, <2>1 DEF GivenInv, SeenIsGiven, TypeOK
    <3>2. \A a \in seen[w] : \A m \in Messages : m = head[w] => Reached(a, m)'
      BY <1>5, <3>1
    <3> QED
      BY <2>1, <3>1, <3>2 DEF Reached
  <2>2. CASE ReadReaders(w)
    <3>1. PICK m \in batch[w] : head'[w] = m /\ seen'[w] = readBy[m]
      BY <1>1, <2>2 DEF ReadReaders, TypeOK
    <3>2. m \in Messages
      BY <1>1, <3>1 DEF TypeOK
    <3>3. \A a \in readBy[m] : Reached(a, m)'
      BY <1>4, <1>5, <3>2
    <3> QED
      BY <3>1, <3>2, <3>3 DEF Reached
  <2> QED
    BY <1>1, <1>7, <2>1, <2>2, SeenSteps
<1> QED
  BY <1>6, <1>7

\* As long as no process ends, every mark in the table is that of an agent that
\* has been given the message or is about to be, lost marks notwithstanding.
THEOREM MarksAreGiven == Spec => []MarkedIsGiven
<1>1. GivenInv => MarkedIsGiven
  BY DEF GivenInv
<1> QED BY <1>1, InitGivenInv, NextGivenInv, PTL DEF Spec

-----------------------------------------------------------------------------
(* Direct mail is given once                                               *)

\* A batch holds mail of its agent; a process between two checks has none.
OwnMail ==
    \A w \in Workers :
        /\ \A m \in batch[w] : AgentOf[w] \in To[m]
        /\ phase[w] \in {"down", "idle"} => batch[w] = {}

\* What has been given directly is marked.
GivenIsMarked ==
    \A a \in Agents, m \in Messages :
        Direct(a, m) /\ given[a][m] > 0 => a \in readBy[m]

\* A batch under way is new to its agent.
BatchIsNew ==
    \A w \in Workers : \A m \in batch[w] :
        Direct(AgentOf[w], m) /\ phase[w] # "turn" => given[AgentOf[w]][m] = 0

\* After the transaction the batch is marked.
BatchIsMarked ==
    \A w \in Workers : \A m \in batch[w] :
        Direct(AgentOf[w], m) /\ phase[w] \in {"marked", "turn"} =>
            AgentOf[w] \in readBy[m]

DirectInv ==
    /\ TypeOK
    /\ OwnMail
    /\ faults = 0 => GivenIsMarked /\ BatchIsNew /\ BatchIsMarked
    /\ DirectMailIsGivenOnce

LEMMA InitDirectInv == Init => DirectInv
<1> SUFFICES ASSUME Init PROVE DirectInv
  OBVIOUS
<1>1. TypeOK
  BY InitTypeOK
<1>2. OwnMail /\ GivenIsMarked /\ BatchIsNew /\ BatchIsMarked
  BY DEF Init, OwnMail, GivenIsMarked, BatchIsNew, BatchIsMarked
<1>3. DirectMailIsGivenOnce
  BY DEF Init, DirectMailIsGivenOnce
<1> QED
  BY <1>1, <1>2, <1>3 DEF DirectInv

LEMMA FetchDirect ==
    ASSUME DirectInv, TypeOK', NEW w \in Workers, Fetch(w)
    PROVE  DirectInv'
<1>1. PICK S \in SUBSET Unread(AgentOf[w]) : batch' = [batch EXCEPT ![w] = S]
  BY DEF Fetch
<1>2. /\ batch'[w] = S /\ phase'[w] = "fetched"
      /\ \A v \in Workers \ {w} : batch'[v] = batch[v] /\ phase'[v] = phase[v]
      /\ readBy' = readBy /\ given' = given /\ faults' = faults
  BY <1>1 DEF Fetch, Enter, DirectInv, TypeOK
<1>3. \A m \in S : m \in Messages /\ AgentOf[w] \in To[m] /\ AgentOf[w] \notin readBy[m]
  BY AgentOfAssumption, InsideAssumption DEF Unread, LooksRead, DirectInv, TypeOK
<1>4. OwnMail'
  BY <1>2, <1>3 DEF DirectInv, OwnMail
<1>5. DirectMailIsGivenOnce'
  BY <1>2 DEF DirectInv, DirectMailIsGivenOnce
<1>6. ASSUME faults' = 0 PROVE (GivenIsMarked /\ BatchIsNew /\ BatchIsMarked)'
  <2>1. GivenIsMarked /\ BatchIsNew /\ BatchIsMarked
    BY <1>2, <1>6 DEF DirectInv
  <2>2. GivenIsMarked' /\ BatchIsMarked'
    BY <1>2, <2>1 DEF GivenIsMarked, BatchIsMarked
  <2>3. \A m \in S : Direct(AgentOf[w], m) => given[AgentOf[w]][m] = 0
    <3>1. AgentOf[w] \in Agents
      BY AgentOfAssumption
    <3>2. \A m \in Messages : given[AgentOf[w]][m] \in 0..2
      BY <3>1 DEF DirectInv, TypeOK
    <3>3. \A m \in S : Direct(AgentOf[w], m) => ~(given[AgentOf[w]][m] > 0)
      BY <1>3, <2>1, <3>1 DEF GivenIsMarked
    <3> QED
      BY <1>3, <3>2, <3>3
  <2>4. BatchIsNew'
    BY <1>2, <2>1, <2>3 DEF BatchIsNew
  <2> QED
    BY <2>2, <2>4
<1> QED
  BY <1>4, <1>5, <1>6 DEF DirectInv

LEMMA MarkReadDirect ==
    ASSUME DirectInv, TypeOK', NEW w \in Workers, MarkRead(w)
    PROVE  DirectInv'
<1>1. /\ phase[w] = "marking" /\ phase'[w] = "marked" /\ batch' = batch
      /\ \A v \in Workers \ {w} : phase'[v] = phase[v]
      /\ given' = given /\ faults' = faults
  BY DEF MarkRead, Enter, DirectInv, TypeOK
<1>2. \A m \in batch[w] : m \in Messages /\ AgentOf[w] \in readBy'[m]
  BY DEF MarkRead, Mark, DirectInv, TypeOK
<1>3. \A m \in Messages \ batch[w] : readBy'[m] = readBy[m]
  BY DEF MarkRead, Mark
<1>4. OwnMail' /\ DirectMailIsGivenOnce'
  BY <1>1 DEF DirectInv, OwnMail, DirectMailIsGivenOnce
<1>5. ASSUME faults' = 0 PROVE (GivenIsMarked /\ BatchIsNew /\ BatchIsMarked)'
  <2>1. GivenIsMarked /\ BatchIsNew /\ BatchIsMarked
    BY <1>1, <1>5 DEF DirectInv
  <2>2. ASSUME NEW a \in Agents, NEW m \in Messages, Direct(a, m), a \in readBy[m]
        PROVE  a \in readBy'[m]
    <3>1. CASE m \in batch[w]
      <4>1. AgentOf[w] \in To[m]
        BY <3>1 DEF DirectInv, OwnMail
      <4>2. To[m] = {a}
        BY <2>2 DEF Direct
      <4> QED
        BY <1>2, <3>1, <4>1, <4>2
    <3>2. CASE m \notin batch[w]
      BY <1>3, <2>2, <3>2
    <3> QED
      BY <3>1, <3>2
  <2>3. GivenIsMarked'
    BY <1>1, <2>1, <2>2 DEF GivenIsMarked
  <2>4. BatchIsNew'
    BY <1>1, <2>1 DEF BatchIsNew
  <2>5. BatchIsMarked'
    <3> SUFFICES ASSUME NEW v \in Workers, NEW m \in batch'[v],
                        Direct(AgentOf[v], m), phase'[v] \in {"marked", "turn"}
                 PROVE  AgentOf[v] \in readBy'[m]
      BY DEF BatchIsMarked
    <3>1. m \in Messages /\ AgentOf[v] \in Agents
      BY <1>1, AgentOfAssumption DEF DirectInv, TypeOK
    <3>2. CASE v = w
      BY <1>1, <1>2, <3>2
    <3>3. CASE v # w
      BY <1>1, <2>1, <2>2, <3>1, <3>3 DEF BatchIsMarked
    <3> QED
      BY <3>2, <3>3
  <2> QED
    BY <2>3, <2>4, <2>5
<1> QED
  BY <1>4, <1>5 DEF DirectInv

LEMMA GiveDirect ==
    ASSUME DirectInv, TypeOK', NEW w \in Workers, Give(w)
    PROVE  DirectInv'
<1>1. /\ phase[w] = "marked" /\ phase'[w] = "turn" /\ batch' = batch
      /\ \A v \in Workers \ {w} : phase'[v] = phase[v]
      /\ readBy' = readBy /\ faults' = faults
  BY DEF Give, Enter, DirectInv, TypeOK
<1>2. \A a \in Agents, m \in Messages :
          given'[a][m] = IF a = AgentOf[w] /\ m \in batch[w] /\ given[a][m] < 2
                         THEN given[a][m] + 1 ELSE given[a][m]
  BY AgentOfAssumption DEF Give, DirectInv, TypeOK
<1>3. \A a \in Agents, m \in Messages : given[a][m] \in 0..2
  BY DEF DirectInv, TypeOK
<1>4. OwnMail'
  BY <1>1 DEF DirectInv, OwnMail
<1>5. \A v \in Workers : AgentOf[v] \in Agents /\ batch[v] \subseteq Messages
  BY AgentOfAssumption DEF DirectInv, TypeOK
<1>6. SUFFICES ASSUME faults' = 0
               PROVE  (GivenIsMarked /\ BatchIsNew /\ BatchIsMarked /\ DirectMailIsGivenOnce)'
  BY <1>4 DEF DirectInv, DirectMailIsGivenOnce
<1>7. GivenIsMarked /\ BatchIsNew /\ BatchIsMarked /\ DirectMailIsGivenOnce /\ faults = 0
  BY <1>1, <1>6 DEF DirectInv
<1>8. GivenIsMarked'
  <2> SUFFICES ASSUME NEW a \in Agents, NEW m \in Messages, Direct(a, m), given'[a][m] > 0
               PROVE  a \in readBy[m]
    BY <1>1 DEF GivenIsMarked
  <2>1. CASE a = AgentOf[w] /\ m \in batch[w]
    BY <1>1, <1>7, <2>1 DEF BatchIsMarked
  <2>2. CASE ~(a = AgentOf[w] /\ m \in batch[w])
    BY <1>2, <1>7, <2>2 DEF GivenIsMarked
  <2> QED
    BY <2>1, <2>2
<1>9. BatchIsNew'
  <2> SUFFICES ASSUME NEW v \in Workers, NEW m \in batch[v], Direct(AgentOf[v], m),
                      phase'[v] # "turn"
               PROVE  given'[AgentOf[v]][m] = 0
    BY <1>1 DEF BatchIsNew
  <2>1. v # w /\ AgentOf[v] # AgentOf[w]
    BY <1>1 DEF Direct
  <2>2. given'[AgentOf[v]][m] = given[AgentOf[v]][m]
    BY <1>2, <1>5, <2>1
  <2> QED
    BY <1>1, <1>7, <2>1, <2>2 DEF BatchIsNew
<1>10. BatchIsMarked'
  BY <1>1, <1>7 DEF BatchIsMarked
<1>11. DirectMailIsGivenOnce'
  <2> SUFFICES ASSUME NEW a \in Agents, NEW m \in Messages, Direct(a, m)
               PROVE  given'[a][m] <= 1
    BY DEF DirectMailIsGivenOnce
  <2>1. CASE a = AgentOf[w] /\ m \in batch[w]
    <3>1. given[a][m] = 0
      BY <1>1, <1>7, <2>1 DEF BatchIsNew
    <3> QED
      BY <1>2, <3>1
  <2>2. CASE ~(a = AgentOf[w] /\ m \in batch[w])
    BY <1>2, <1>7, <2>2 DEF DirectMailIsGivenOnce
  <2> QED
    BY <2>1, <2>2
<1> QED
  BY <1>8, <1>9, <1>10, <1>11

\* The check's end and the process's end leave the table and the counts alone.
LEMMA ForgetDirect ==
    ASSUME DirectInv, TypeOK', NEW w \in Workers, Forget(w),
           phase'[w] \in {"down", "idle"},
           \A v \in Workers \ {w} : phase'[v] = phase[v],
           readBy' = readBy, given' = given, faults' = faults
    PROVE  DirectInv'
<1>1. batch'[w] = {} /\ \A v \in Workers \ {w} : batch'[v] = batch[v]
  BY DEF Forget, DirectInv, TypeOK
<1>2. OwnMail' /\ DirectMailIsGivenOnce'
  BY <1>1 DEF DirectInv, OwnMail, DirectMailIsGivenOnce
<1>3. ASSUME faults' = 0 PROVE (GivenIsMarked /\ BatchIsNew /\ BatchIsMarked)'
  BY <1>1, <1>3 DEF DirectInv, GivenIsMarked, BatchIsNew, BatchIsMarked
<1> QED
  BY <1>2, <1>3 DEF DirectInv

LEMMA MarkRaisesDirect ==
    ASSUME DirectInv, TypeOK', NEW w \in Workers, MarkRaises(w)
    PROVE  DirectInv'
<1>1. phase[w] \notin {"down", "idle"} /\ faults' = faults + 1 /\ faults \in Nat
  BY DEF MarkRaises, DirectInv, TypeOK
<1>2. OwnMail'
  BY <1>1 DEF MarkRaises, Enter, DirectInv, OwnMail, TypeOK
<1> QED
  BY <1>1, <1>2 DEF DirectInv, DirectMailIsGivenOnce

LEMMA NextDirectInv == DirectInv /\ [Next]_vars => DirectInv'
<1> SUFFICES ASSUME DirectInv, [Next]_vars PROVE DirectInv'
  OBVIOUS
<1>1. TypeOK /\ TypeOK'
  BY NextTypeOK DEF DirectInv
<1>2. CASE \E m \in Messages : Send(m)
  BY <1>1, <1>2 DEF Send, worker, DirectInv, OwnMail, GivenIsMarked, BatchIsNew,
     BatchIsMarked, DirectMailIsGivenOnce
<1>3. CASE \E w \in Workers : Boot(w)
  <2>1. PICK w \in Workers : Boot(w)
    BY <1>3
  <2>2. /\ phase[w] = "down" /\ phase'[w] = "idle"
        /\ \A v \in Workers \ {w} : phase'[v] = phase[v]
        /\ UNCHANGED <<readBy, batch, given, faults>>
    BY <1>1, <2>1 DEF Boot, Enter, TypeOK
  <2>3. OwnMail' /\ DirectMailIsGivenOnce'
    BY <2>2 DEF DirectInv, OwnMail, DirectMailIsGivenOnce
  <2>4. ASSUME faults' = 0 PROVE (GivenIsMarked /\ BatchIsNew /\ BatchIsMarked)'
    BY <2>2, <2>4 DEF DirectInv, OwnMail, GivenIsMarked, BatchIsNew, BatchIsMarked
  <2> QED
    BY <1>1, <2>3, <2>4 DEF DirectInv
<1>4. CASE \E w \in Workers : Fetch(w)
  BY <1>1, <1>4, FetchDirect
<1>5. CASE \E w \in Workers : ReadReaders(w)
  <2>1. PICK w \in Workers : ReadReaders(w)
    BY <1>5
  <2>2. /\ phase[w] = "fetched" /\ phase'[w] = "marking"
        /\ \A v \in Workers \ {w} : phase'[v] = phase[v]
        /\ UNCHANGED <<readBy, batch, given, faults>>
    BY <1>1, <2>1 DEF ReadReaders, Enter, TypeOK
  <2>3. OwnMail' /\ DirectMailIsGivenOnce'
    BY <2>2 DEF DirectInv, OwnMail, DirectMailIsGivenOnce
  <2>4. ASSUME faults' = 0 PROVE (GivenIsMarked /\ BatchIsNew /\ BatchIsMarked)'
    BY <2>2, <2>4 DEF DirectInv, GivenIsMarked, BatchIsNew, BatchIsMarked
  <2> QED
    BY <1>1, <2>3, <2>4 DEF DirectInv
<1>6. CASE \E w \in Workers : MarkRead(w)
  BY <1>1, <1>6, MarkReadDirect
<1>7. CASE \E w \in Workers : MarkRaises(w)
  BY <1>1, <1>7, MarkRaisesDirect
<1>8. CASE \E w \in Workers : Give(w)
  BY <1>1, <1>8, GiveDirect
<1>9. CASE \E w \in Workers : TurnEnds(w)
  BY <1>1, <1>9, ForgetDirect DEF TurnEnds, Enter, TypeOK
<1>10. CASE \E w \in Workers : Crash(w)
  BY <1>1, <1>10, ForgetDirect DEF Crash, Enter, TypeOK
<1>11. CASE UNCHANGED vars
  BY <1>1, <1>11 DEF vars, worker, DirectInv, OwnMail, GivenIsMarked, BatchIsNew,
     BatchIsMarked, DirectMailIsGivenOnce
<1> QED
  BY <1>2, <1>3, <1>4, <1>5, <1>6, <1>7, <1>8, <1>9, <1>10, <1>11 DEF Next, Step

\* A message with one reader, whose agent is one process, is given to it at most
\* once while the marks can be written, wherever the process is cut off.
THEOREM DirectMailOnce == Spec => []DirectMailIsGivenOnce
<1>1. DirectInv => DirectMailIsGivenOnce
  BY DEF DirectInv
<1> QED BY <1>1, InitDirectInv, NextDirectInv, PTL DEF Spec
=============================================================================
