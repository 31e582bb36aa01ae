--------------------------- MODULE TaskQueueProofs ---------------------------
(***************************************************************************)
(* Proofs about TaskQueue for every set of tasks and processes, every      *)
(* priority order, limit and bound.  The inductive invariant says that the *)
(* lists of the processes are disjoint sets of claimed rows, and that what *)
(* has not yet been given to a turn has never been given to one.           *)
(***************************************************************************)
EXTENDS TaskQueue, TLAPS

\* What a process holds is claimed in the table.
HeldIsClaimed == \A w \in Workers : \A t \in mine[w] : row[t] = "claimed"

\* No two processes hold the same task.
HeldByOne ==
    \A v, w \in Workers : \A t \in Tasks : t \in mine[v] /\ t \in mine[w] => v = w

\* A process between two ticks holds nothing.
HandsEmpty == \A w \in Workers : phase[w] \in {"down", "idle"} => mine[w] = {}

\* A process claims tasks of its own agent only.
TodoIsOwn == \A w \in Workers : \A t \in todo[w] : Target[t] = AgentOf[w]

\* What is pending, or claimed for a turn to come, has not been started.
NotYetStarted ==
    /\ \A t \in Tasks : row[t] \in {"absent", "pending"} => starts[t] = 0
    /\ \A w \in Workers : \A t \in mine[w] : phase[w] = "claiming" => starts[t] = 0

QueueInv ==
    /\ TypeOK
    /\ HeldIsClaimed
    /\ HeldByOne
    /\ HandsEmpty
    /\ TodoIsOwn
    /\ NotYetStarted
    /\ StartedOnce
    /\ ClaimedIsHeld

-----------------------------------------------------------------------------
(* Types                                                                   *)

LEMMA InitTypeOK == Init => TypeOK
BY BoundsAssumption DEF Init, TypeOK, Statuses, Results

LEMMA AfterClaimTypes ==
    ASSUME TypeOK, NEW w \in Workers, NEW rest \in SUBSET Tasks,
           NEW held \in SUBSET Tasks, AfterClaim(w, rest, held)
    PROVE  /\ phase' \in [Workers -> {"down", "idle", "claiming", "turn"}]
           /\ todo' \in [Workers -> SUBSET Tasks]
           /\ mine' \in [Workers -> SUBSET Tasks]
           /\ starts' \in [Tasks -> Nat]
BY DEF AfterClaim, TypeOK

LEMMA ClaimNextTypes ==
    ASSUME TypeOK, NEW w \in Workers, ClaimNext(w)
    PROVE  TypeOK'
<1>1. PICK t \in todo[w] : Claim(w, t) \/ ClaimLost(w, t) \/ ClaimRaises(w, t)
  BY DEF ClaimNext
<1>2. t \in Tasks /\ todo[w] \in SUBSET Tasks /\ mine[w] \in SUBSET Tasks
  BY <1>1 DEF TypeOK
<1>3. crashes' \in Nat
  BY DEF ClaimNext, TypeOK
<1>4. row' \in [Tasks -> Statuses] /\ faults' \in Nat
  BY <1>1, <1>2 DEF Claim, ClaimLost, ClaimRaises, UpdateRaises, ClaimedStatus,
     Statuses, TypeOK
<1>5. \E held \in SUBSET Tasks : AfterClaim(w, todo[w] \ {t}, held)
  BY <1>1, <1>2 DEF Claim, ClaimLost, ClaimRaises
<1>6. todo[w] \ {t} \in SUBSET Tasks
  BY <1>2
<1> QED
  BY <1>3, <1>4, <1>5, <1>6, AfterClaimTypes DEF TypeOK

LEMMA TurnEndsTypes ==
    ASSUME TypeOK, NEW w \in Workers, NEW result \in Results, TurnEnds(w, result)
    PROVE  TypeOK'
<1>1. row' \in [Tasks -> Statuses] /\ faults' \in Nat
  BY DEF TurnEnds, Record, RecordRaises, UpdateRaises, Marked, Statuses, Results, TypeOK
<1> QED
  BY <1>1 DEF TurnEnds, TypeOK

LEMMA NextTypeOK == TypeOK /\ [Next]_vars => TypeOK'
<1> SUFFICES ASSUME TypeOK, [Next]_vars PROVE TypeOK'
  OBVIOUS
<1>1. CASE \E t \in Tasks : Post(t)
  BY <1>1 DEF Post, worker, TypeOK, Statuses
<1>2. CASE \E w \in Workers : Boot(w)
  BY <1>2 DEF Boot, TypeOK
<1>3. CASE \E w \in Workers : Fetch(w)
  <2>1. PICK w \in Workers : Fetch(w)
    BY <1>3
  <2>2. PICK S \in SUBSET Pending(w) : todo' = [todo EXCEPT ![w] = S]
    BY <2>1 DEF Fetch
  <2>3. S \in SUBSET Tasks
    BY <2>2 DEF Pending
  <2> QED
    BY <2>1, <2>2, <2>3 DEF Fetch, TypeOK
<1>4. CASE \E w \in Workers : ClaimNext(w)
  BY <1>4, ClaimNextTypes
<1>5. CASE \E w \in Workers, result \in Results : TurnEnds(w, result)
  BY <1>5, TurnEndsTypes
<1>6. CASE \E w \in Workers : Crash(w)
  BY <1>6, BoundsAssumption DEF Crash, TypeOK
<1>7. CASE UNCHANGED vars
  BY <1>7 DEF vars, worker, TypeOK
<1> QED
  BY <1>1, <1>2, <1>3, <1>4, <1>5, <1>6, <1>7 DEF Next, Step

\* Every variable keeps its type: in particular the status column holds no
\* other value than README.md's states.
THEOREM TypeCorrect == Spec => []TypeOK
<1> QED BY InitTypeOK, NextTypeOK, PTL DEF Spec

-----------------------------------------------------------------------------
(* The invariant                                                           *)

LEMMA InitInv == Init => QueueInv
<1> SUFFICES ASSUME Init PROVE QueueInv
  OBVIOUS
<1>1. TypeOK
  BY InitTypeOK
<1>2. HeldIsClaimed /\ HeldByOne /\ HandsEmpty /\ TodoIsOwn
  BY DEF Init, HeldIsClaimed, HeldByOne, HandsEmpty, TodoIsOwn
<1>3. NotYetStarted /\ StartedOnce /\ ClaimedIsHeld
  BY DEF Init, NotYetStarted, StartedOnce, ClaimedIsHeld
<1> QED
  BY <1>1, <1>2, <1>3 DEF QueueInv

\* What a round of the claim loop does to the process and to the counts.
LEMMA AfterClaimState ==
    ASSUME TypeOK, NEW w \in Workers, NEW rest \in SUBSET Tasks,
           NEW held \in SUBSET Tasks, AfterClaim(w, rest, held)
    PROVE  /\ todo'[w] = rest /\ mine'[w] = held
           /\ phase'[w] = IF rest # {} THEN "claiming"
                          ELSE IF held # {} THEN "turn" ELSE "idle"
           /\ \A v \in Workers \ {w} : /\ todo'[v] = todo[v]
                                       /\ mine'[v] = mine[v]
                                       /\ phase'[v] = phase[v]
           /\ \A t \in Tasks : starts'[t] = IF phase'[w] = "turn" /\ t \in held
                                           THEN starts[t] + 1 ELSE starts[t]
BY DEF AfterClaim, TypeOK

\* A round that finds its row pending.
LEMMA ClaimKeepsInv ==
    ASSUME QueueInv, NEW w \in Workers, NEW t \in todo[w], phase[w] = "claiming",
           Claim(w, t), crashes' = crashes, TypeOK'
    PROVE  QueueInv'
<1>1. t \in Tasks /\ todo[w] \in SUBSET Tasks /\ mine[w] \in SUBSET Tasks /\ TypeOK
  BY DEF QueueInv, TypeOK
<1>2. row[t] = "pending" /\ row' = [row EXCEPT ![t] = "claimed"] /\ faults' = faults
  BY DEF Claim, Updatable, ClaimedStatus
<1>3. row'[t] = "claimed" /\ \A u \in Tasks \ {t} : row'[u] = row[u]
  BY <1>1, <1>2 DEF TypeOK
<1> DEFINE held == mine[w] \cup {t}
           rest == todo[w] \ {t}
<1>4. AfterClaim(w, rest, held) /\ held \in SUBSET Tasks /\ rest \in SUBSET Tasks
  BY <1>1 DEF Claim
<1> HIDE DEF held, rest
<1>5. /\ todo'[w] = rest /\ mine'[w] = held
      /\ phase'[w] = IF rest # {} THEN "claiming" ELSE IF held # {} THEN "turn" ELSE "idle"
      /\ \A v \in Workers \ {w} : /\ todo'[v] = todo[v]
                                  /\ mine'[v] = mine[v]
                                  /\ phase'[v] = phase[v]
      /\ \A u \in Tasks : starts'[u] = IF phase'[w] = "turn" /\ u \in held
                                      THEN starts[u] + 1 ELSE starts[u]
  BY <1>1, <1>4, AfterClaimState
<1>6. \A v \in Workers : t \notin mine[v]
  BY <1>2 DEF QueueInv, HeldIsClaimed
<1>7. \A u \in held : starts[u] = 0
  BY <1>1, <1>2 DEF QueueInv, NotYetStarted, held
<1>8. HeldIsClaimed'
  BY <1>1, <1>3, <1>5 DEF QueueInv, HeldIsClaimed, TypeOK, held
<1>9. HeldByOne'
  BY <1>1, <1>5, <1>6 DEF QueueInv, HeldByOne, held
<1>10. HandsEmpty' /\ TodoIsOwn'
  BY <1>5 DEF QueueInv, HandsEmpty, TodoIsOwn, rest
<1>11. NotYetStarted'
  <2>1. ASSUME NEW u \in Tasks, row'[u] \in {"absent", "pending"} PROVE starts'[u] = 0
    <3>1. u # t /\ row[u] \in {"absent", "pending"}
      BY <1>3, <2>1
    <3>2. u \notin held /\ starts[u] = 0
      BY <3>1 DEF QueueInv, HeldIsClaimed, NotYetStarted, held
    <3> QED
      BY <1>5, <3>2
  <2>2. ASSUME NEW v \in Workers, NEW u \in mine'[v], phase'[v] = "claiming"
        PROVE  starts'[u] = 0
    <3>1. CASE v = w
      BY <1>4, <1>5, <1>7, <2>2, <3>1
    <3>2. CASE v # w
      <4>1. u \in mine[v] /\ phase[v] = "claiming" /\ u \in Tasks
        BY <1>1, <1>5, <2>2, <3>2 DEF TypeOK
      <4>2. u \notin held
        BY <1>6, <3>2, <4>1 DEF QueueInv, HeldByOne, held
      <4> QED
        BY <1>5, <4>1, <4>2 DEF QueueInv, NotYetStarted
    <3> QED
      BY <3>1, <3>2
  <2> QED
    BY <2>1, <2>2 DEF NotYetStarted
<1>12. StartedOnce'
  BY <1>1, <1>5, <1>7 DEF QueueInv, StartedOnce, TypeOK
<1>13. ClaimedIsHeld'
  BY <1>1, <1>2, <1>3, <1>5 DEF QueueInv, ClaimedIsHeld, Held, held
<1> QED
  BY <1>8, <1>9, <1>10, <1>11, <1>12, <1>13 DEF QueueInv

\* A round that claims nothing: the row was taken, or the UPDATE raised.
LEMMA PassKeepsInv ==
    ASSUME QueueInv, NEW w \in Workers, NEW t \in todo[w], phase[w] = "claiming",
           AfterClaim(w, todo[w] \ {t}, mine[w]), row' = row,
           faults' = faults \/ faults' = faults + 1, crashes' = crashes, TypeOK'
    PROVE  QueueInv'
<1>1. todo[w] \in SUBSET Tasks /\ mine[w] \in SUBSET Tasks /\ TypeOK
  BY DEF QueueInv, TypeOK
<1> DEFINE held == mine[w]
           rest == todo[w] \ {t}
<1>2. AfterClaim(w, rest, held) /\ held \in SUBSET Tasks /\ rest \in SUBSET Tasks
  BY <1>1
<1> HIDE DEF held, rest
<1>3. /\ todo'[w] = rest /\ mine'[w] = held
      /\ phase'[w] = IF rest # {} THEN "claiming" ELSE IF held # {} THEN "turn" ELSE "idle"
      /\ \A v \in Workers \ {w} : /\ todo'[v] = todo[v]
                                  /\ mine'[v] = mine[v]
                                  /\ phase'[v] = phase[v]
      /\ \A u \in Tasks : starts'[u] = IF phase'[w] = "turn" /\ u \in held
                                      THEN starts[u] + 1 ELSE starts[u]
  BY <1>1, <1>2, AfterClaimState
<1>4. \A v \in Workers : mine'[v] = mine[v]
  BY <1>3 DEF held
<1>5. \A u \in held : starts[u] = 0
  BY <1>1 DEF QueueInv, NotYetStarted, held
<1>6. HeldIsClaimed' /\ HeldByOne'
  BY <1>4 DEF QueueInv, HeldIsClaimed, HeldByOne
<1>7. HandsEmpty' /\ TodoIsOwn'
  BY <1>3 DEF QueueInv, HandsEmpty, TodoIsOwn, rest
<1>8. NotYetStarted'
  <2>1. ASSUME NEW u \in Tasks, row'[u] \in {"absent", "pending"} PROVE starts'[u] = 0
    <3>1. u \notin held /\ starts[u] = 0
      BY <2>1 DEF QueueInv, HeldIsClaimed, NotYetStarted, held
    <3> QED
      BY <1>3, <3>1
  <2>2. ASSUME NEW v \in Workers, NEW u \in mine'[v], phase'[v] = "claiming"
        PROVE  starts'[u] = 0
    <3>1. u \in mine[v] /\ u \in Tasks
      BY <1>1, <1>4, <2>2 DEF TypeOK
    <3>2. CASE v = w
      BY <1>3, <1>5, <2>2, <3>1, <3>2 DEF held
    <3>3. CASE v # w
      <4>1. phase[v] = "claiming" /\ u \notin held
        BY <1>3, <2>2, <3>1, <3>3 DEF QueueInv, HeldByOne, held
      <4> QED
        BY <1>3, <3>1, <4>1 DEF QueueInv, NotYetStarted
    <3> QED
      BY <3>2, <3>3
  <2> QED
    BY <2>1, <2>2 DEF NotYetStarted
<1>9. StartedOnce'
  BY <1>1, <1>3, <1>5 DEF QueueInv, StartedOnce, TypeOK
<1>10. ClaimedIsHeld'
  BY <1>1, <1>4 DEF QueueInv, ClaimedIsHeld, Held, TypeOK
<1> QED
  BY <1>6, <1>7, <1>8, <1>9, <1>10 DEF QueueInv

LEMMA ClaimNextKeepsInv ==
    ASSUME QueueInv, NEW w \in Workers, ClaimNext(w)
    PROVE  QueueInv'
<1>1. TypeOK'
  BY ClaimNextTypes DEF QueueInv
<1>2. phase[w] = "claiming" /\ crashes' = crashes
  BY DEF ClaimNext
<1>3. PICK t \in todo[w] : Claim(w, t) \/ ClaimLost(w, t) \/ ClaimRaises(w, t)
  BY DEF ClaimNext
<1>4. CASE Claim(w, t)
  BY <1>1, <1>2, <1>4, ClaimKeepsInv
<1>5. CASE ClaimLost(w, t)
  BY <1>1, <1>2, <1>5, PassKeepsInv DEF ClaimLost
<1>6. CASE ClaimRaises(w, t)
  BY <1>1, <1>2, <1>6, PassKeepsInv DEF ClaimRaises, UpdateRaises
<1> QED
  BY <1>3, <1>4, <1>5, <1>6

LEMMA TurnEndsKeepsInv ==
    ASSUME QueueInv, NEW w \in Workers, NEW result \in Results, TurnEnds(w, result)
    PROVE  QueueInv'
<1>1. TypeOK' /\ TypeOK
  BY TurnEndsTypes DEF QueueInv
<1>2. /\ phase'[w] = "idle" /\ mine'[w] = {} /\ todo' = todo
      /\ \A v \in Workers \ {w} : mine'[v] = mine[v] /\ phase'[v] = phase[v]
      /\ starts' = starts /\ crashes' = crashes
  BY <1>1 DEF TurnEnds, TypeOK
<1>3. /\ \A u \in Tasks \ mine[w] : row'[u] = row[u]
      /\ \/ faults' = faults /\ \A u \in mine[w] : row'[u] = result
         \/ faults' = faults + 1 /\ row' = row
  BY <1>1 DEF TurnEnds, Record, RecordRaises, UpdateRaises, Marked, TypeOK
<1>4. \A v \in Workers \ {w} : \A u \in mine[v] : u \in Tasks \ mine[w]
  BY <1>1 DEF QueueInv, HeldByOne, TypeOK
<1>5. HeldIsClaimed'
  BY <1>2, <1>3, <1>4 DEF QueueInv, HeldIsClaimed
<1>6. HeldByOne'
  BY <1>2 DEF QueueInv, HeldByOne
<1>7. HandsEmpty' /\ TodoIsOwn'
  BY <1>2 DEF QueueInv, HandsEmpty, TodoIsOwn
<1>8. NotYetStarted'
  <2>1. ASSUME NEW u \in Tasks, row'[u] \in {"absent", "pending"} PROVE starts'[u] = 0
    <3>1. row[u] \in {"absent", "pending"}
      BY <1>3, <2>1 DEF Results
    <3> QED
      BY <1>2, <3>1 DEF QueueInv, NotYetStarted
  <2>2. ASSUME NEW v \in Workers, NEW u \in mine'[v], phase'[v] = "claiming"
        PROVE  starts'[u] = 0
    BY <1>2, <2>2 DEF QueueInv, NotYetStarted
  <2> QED
    BY <2>1, <2>2 DEF NotYetStarted
<1>9. StartedOnce'
  BY <1>2 DEF QueueInv, StartedOnce
<1>10. ClaimedIsHeld'
  <2> SUFFICES ASSUME crashes' = 0, faults' = 0, NEW u \in Tasks, row'[u] = "claimed"
               PROVE  \E v \in Workers : u \in mine'[v]
    BY DEF ClaimedIsHeld, Held
  <2>1. crashes = 0 /\ faults = 0 /\ \A t \in mine[w] : row'[t] # "claimed"
    BY <1>1, <1>2, <1>3 DEF TypeOK, Results
  <2>2. row[u] = "claimed" /\ u \notin mine[w]
    BY <1>3, <2>1
  <2>3. PICK v \in Workers : u \in mine[v]
    BY <2>1, <2>2 DEF QueueInv, ClaimedIsHeld, Held
  <2> QED
    BY <1>2, <2>2, <2>3
<1> QED
  BY <1>1, <1>5, <1>6, <1>7, <1>8, <1>9, <1>10 DEF QueueInv

LEMMA PostKeepsInv ==
    ASSUME QueueInv, NEW t \in Tasks, Post(t), TypeOK'
    PROVE  QueueInv'
<1>1. /\ row[t] = "absent" /\ row'[t] = "pending"
      /\ \A u \in Tasks \ {t} : row'[u] = row[u]
      /\ UNCHANGED <<worker, starts, crashes, faults>>
  BY DEF Post, QueueInv, TypeOK
<1>2. UNCHANGED <<phase, todo, mine>>
  BY <1>1 DEF worker
<1>3. HeldIsClaimed'
  BY <1>1, <1>2 DEF QueueInv, HeldIsClaimed, TypeOK
<1>4. HeldByOne' /\ HandsEmpty' /\ TodoIsOwn' /\ StartedOnce'
  BY <1>1, <1>2 DEF QueueInv, HeldByOne, HandsEmpty, TodoIsOwn, StartedOnce
<1>5. NotYetStarted'
  BY <1>1, <1>2 DEF QueueInv, NotYetStarted
<1>6. ClaimedIsHeld'
  BY <1>1, <1>2 DEF QueueInv, ClaimedIsHeld, Held
<1> QED
  BY <1>3, <1>4, <1>5, <1>6 DEF QueueInv

LEMMA FetchKeepsInv ==
    ASSUME QueueInv, NEW w \in Workers, Fetch(w), TypeOK'
    PROVE  QueueInv'
<1>1. PICK S \in SUBSET Pending(w) : todo' = [todo EXCEPT ![w] = S]
  BY DEF Fetch
<1>2. /\ phase[w] = "idle" /\ phase'[w] = "claiming" /\ todo'[w] = S
      /\ \A v \in Workers \ {w} : todo'[v] = todo[v] /\ phase'[v] = phase[v]
      /\ UNCHANGED <<row, mine, starts, crashes, faults>>
  BY <1>1 DEF Fetch, QueueInv, TypeOK
<1>3. HeldIsClaimed' /\ HeldByOne' /\ StartedOnce' /\ ClaimedIsHeld'
  BY <1>2 DEF QueueInv, HeldIsClaimed, HeldByOne, StartedOnce, ClaimedIsHeld, Held
<1>4. HandsEmpty' /\ NotYetStarted'
  BY <1>2 DEF QueueInv, HandsEmpty, NotYetStarted
<1>5. TodoIsOwn'
  BY <1>1, <1>2 DEF QueueInv, TodoIsOwn, Pending
<1> QED
  BY <1>3, <1>4, <1>5 DEF QueueInv

LEMMA BootKeepsInv ==
    ASSUME QueueInv, NEW w \in Workers, Boot(w), TypeOK'
    PROVE  QueueInv'
<1>1. /\ phase[w] = "down" /\ phase'[w] = "idle"
      /\ \A v \in Workers \ {w} : phase'[v] = phase[v]
      /\ UNCHANGED <<row, todo, mine, starts, crashes, faults>>
  BY DEF Boot, QueueInv, TypeOK
<1>2. HeldIsClaimed' /\ HeldByOne' /\ StartedOnce' /\ ClaimedIsHeld' /\ TodoIsOwn'
  BY <1>1 DEF QueueInv, HeldIsClaimed, HeldByOne, StartedOnce, ClaimedIsHeld, Held,
     TodoIsOwn
<1>3. HandsEmpty' /\ NotYetStarted'
  BY <1>1 DEF QueueInv, HandsEmpty, NotYetStarted
<1> QED
  BY <1>2, <1>3 DEF QueueInv

LEMMA CrashKeepsInv ==
    ASSUME QueueInv, NEW w \in Workers, Crash(w), TypeOK'
    PROVE  QueueInv'
<1>1. /\ phase'[w] = "down" /\ mine'[w] = {} /\ todo'[w] = {}
      /\ \A v \in Workers \ {w} : /\ phase'[v] = phase[v]
                                  /\ mine'[v] = mine[v] /\ todo'[v] = todo[v]
      /\ UNCHANGED <<row, starts, faults>>
      /\ crashes' = crashes + 1 /\ crashes \in Nat
  BY DEF Crash, QueueInv, TypeOK
<1>2. HeldIsClaimed' /\ HeldByOne' /\ StartedOnce' /\ HandsEmpty' /\ TodoIsOwn'
  BY <1>1 DEF QueueInv, HeldIsClaimed, HeldByOne, StartedOnce, HandsEmpty, TodoIsOwn
<1>3. NotYetStarted'
  BY <1>1 DEF QueueInv, NotYetStarted
<1>4. ClaimedIsHeld'
  BY <1>1 DEF ClaimedIsHeld
<1> QED
  BY <1>2, <1>3, <1>4 DEF QueueInv

LEMMA NextInv == QueueInv /\ [Next]_vars => QueueInv'
<1> SUFFICES ASSUME QueueInv, [Next]_vars PROVE QueueInv'
  OBVIOUS
<1>1. TypeOK'
  BY NextTypeOK DEF QueueInv
<1>2. CASE \E t \in Tasks : Post(t)
  BY <1>1, <1>2, PostKeepsInv
<1>3. CASE \E w \in Workers : Boot(w)
  BY <1>1, <1>3, BootKeepsInv
<1>4. CASE \E w \in Workers : Fetch(w)
  BY <1>1, <1>4, FetchKeepsInv
<1>5. CASE \E w \in Workers : ClaimNext(w)
  BY <1>5, ClaimNextKeepsInv
<1>6. CASE \E w \in Workers, result \in Results : TurnEnds(w, result)
  BY <1>6, TurnEndsKeepsInv
<1>7. CASE \E w \in Workers : Crash(w)
  BY <1>1, <1>7, CrashKeepsInv
<1>8. CASE UNCHANGED vars
  BY <1>1, <1>8 DEF vars, worker, QueueInv, HeldIsClaimed, HeldByOne, HandsEmpty,
     TodoIsOwn, NotYetStarted, StartedOnce, ClaimedIsHeld, Held
<1> QED
  BY <1>2, <1>3, <1>4, <1>5, <1>6, <1>7, <1>8 DEF Next, Step

LEMMA QueueInvariant == Spec => []QueueInv
<1> QED BY InitInv, NextInv, PTL DEF Spec

\* No task is ever given to a second turn, for any number of processes of one
\* agent, of their ends and starts, and of failing writes.
THEOREM TasksStartOnce == Spec => []StartedOnce
<1>1. QueueInv => StartedOnce
  BY DEF QueueInv
<1> QED BY <1>1, QueueInvariant, PTL

\* While no process has ended and no write has failed, every claimed row is in
\* the list of a process whose tick will write its result.
THEOREM ClaimsAreHeld == Spec => []ClaimedIsHeld
<1>1. QueueInv => ClaimedIsHeld
  BY DEF QueueInv
<1> QED BY <1>1, QueueInvariant, PTL

-----------------------------------------------------------------------------
(* The queue implements the task pool                                      *)

Disjoint(lists) ==
    \A v, w \in Workers : \A t \in Tasks : t \in lists[v] /\ t \in lists[w] => v = w

AlikeBut(l, k, w) == \A v \in Workers \ {w} : k[v] = l[v]

\* When the lists are disjoint, the holder of a task is the process whose list
\* it is in.
LEMMA HolderFacts ==
    ASSUME NEW lists, Disjoint(lists)
    PROVE  \A t \in Tasks :
              /\ \A w \in Workers : HolderOf(lists)[t] = w <=> t \in lists[w]
              /\ (\A w \in Workers : t \notin lists[w]) => HolderOf(lists)[t] = NoOne
<1> SUFFICES ASSUME NEW t \in Tasks
             PROVE  /\ \A w \in Workers : HolderOf(lists)[t] = w <=> t \in lists[w]
                    /\ (\A w \in Workers : t \notin lists[w]) => HolderOf(lists)[t] = NoOne
  OBVIOUS
<1>1. CASE \E v \in Workers : t \in lists[v]
  <2>1. PICK v \in Workers : t \in lists[v]
    BY <1>1
  <2>2. HolderOf(lists)[t] = v
    BY <2>1 DEF HolderOf, Disjoint
  <2> QED
    BY <2>1, <2>2 DEF Disjoint
<1>2. CASE ~\E v \in Workers : t \in lists[v]
  BY <1>2, NoOneAssumption DEF HolderOf
<1> QED
  BY <1>1, <1>2

\* The holders when process w alone changes its list.
LEMMA HolderChange ==
    ASSUME NEW l, NEW k, NEW w \in Workers,
           Disjoint(l), Disjoint(k), AlikeBut(l, k, w)
    PROVE  \A t \in Tasks :
              HolderOf(k)[t] = IF t \in k[w] THEN w
                               ELSE IF t \in l[w] THEN NoOne ELSE HolderOf(l)[t]
<1> SUFFICES ASSUME NEW t \in Tasks
             PROVE  HolderOf(k)[t] = IF t \in k[w] THEN w
                                     ELSE IF t \in l[w] THEN NoOne ELSE HolderOf(l)[t]
  OBVIOUS
<1>1. /\ \A v \in Workers : HolderOf(l)[t] = v <=> t \in l[v]
      /\ (\A v \in Workers : t \notin l[v]) => HolderOf(l)[t] = NoOne
  BY HolderFacts
<1>2. /\ \A v \in Workers : HolderOf(k)[t] = v <=> t \in k[v]
      /\ (\A v \in Workers : t \notin k[v]) => HolderOf(k)[t] = NoOne
  BY HolderFacts
<1>3. CASE t \in k[w]
  BY <1>2, <1>3
<1>4. CASE t \notin k[w] /\ t \in l[w]
  BY <1>2, <1>4 DEF Disjoint, AlikeBut
<1>5. CASE t \notin k[w] /\ t \notin l[w]
  BY <1>1, <1>2, <1>5 DEF AlikeBut
<1> QED
  BY <1>3, <1>4, <1>5

LEMMA InitPool == Init => Pool!Init
<1> SUFFICES ASSUME Init PROVE Pool!Init
  OBVIOUS
<1>1. \A t \in Tasks : row[t] = "absent" /\ \A w \in Workers : t \notin mine[w]
  BY DEF Init
<1> QED
  BY <1>1 DEF Pool!Init, stageBar, ownerBar, HolderOf

\* A step that changes neither the table nor a list changes nothing here.
LEMMA PoolStutters ==
    ASSUME row' = row, mine' = mine
    PROVE  UNCHANGED <<stageBar, ownerBar>>
BY DEF stageBar, ownerBar, HolderOf, Held

LEMMA PostIsPost ==
    ASSUME QueueInv, NEW t \in Tasks, Post(t)
    PROVE  Pool!Post(t)
<1>1. row[t] = "absent" /\ row' = [row EXCEPT ![t] = "pending"] /\ mine' = mine
  BY DEF Post, worker
<1>2. \A u \in Tasks : Held(u)' = Held(u)
  BY <1>1 DEF Held
<1>3. ownerBar' = ownerBar
  BY <1>1 DEF ownerBar, HolderOf
<1>4. stageBar[t] = "absent"
  BY <1>1 DEF stageBar
<1>5. stageBar' = [stageBar EXCEPT ![t] = "waiting"]
  BY <1>1, <1>2 DEF stageBar, QueueInv, TypeOK
<1> QED
  BY <1>3, <1>4, <1>5 DEF Pool!Post

\* A successful claim takes the task, for a process of its agent.
LEMMA ClaimIsTake ==
    ASSUME QueueInv, QueueInv', NEW w \in Workers, NEW t \in todo[w], Claim(w, t)
    PROVE  Pool!Take(w, t)
<1>1. TypeOK /\ TypeOK' /\ t \in Tasks /\ Target[t] = AgentOf[w]
  BY DEF QueueInv, TypeOK, TodoIsOwn
<1>2. row[t] = "pending" /\ row' = [row EXCEPT ![t] = "claimed"]
  BY DEF Claim, Updatable, ClaimedStatus
<1>3. mine' = [mine EXCEPT ![w] = mine[w] \cup {t}]
  BY DEF Claim, AfterClaim
<1>4. ~Held(t) /\ Held(t)' /\ \A u \in Tasks \ {t} : Held(u)' = Held(u)
  BY <1>1, <1>2, <1>3 DEF Held, QueueInv, HeldIsClaimed, TypeOK
<1>5. stageBar[t] = "waiting"
  BY <1>1, <1>2 DEF stageBar
<1>6. stageBar' = [stageBar EXCEPT ![t] = "owned"]
  BY <1>1, <1>2, <1>4 DEF stageBar, TypeOK
<1>7. ownerBar' = [ownerBar EXCEPT ![t] = w]
  <2>1. \A u \in Tasks : HolderOf(mine')[u] = IF u \in mine'[w] THEN w
                          ELSE IF u \in mine[w] THEN NoOne ELSE HolderOf(mine)[u]
    <3>1. Disjoint(mine) /\ Disjoint(mine')
      BY DEF QueueInv, HeldByOne, Disjoint
    <3>2. AlikeBut(mine, mine', w)
      BY <1>1, <1>3 DEF TypeOK, AlikeBut
    <3> QED
      BY <3>1, <3>2, HolderChange
  <2>2. \A u \in Tasks : HolderOf(mine)[u] = w <=> u \in mine[w]
    BY HolderFacts DEF QueueInv, HeldByOne, Disjoint
  <2>3. \A u \in Tasks : HolderOf(mine')[u] = IF u = t THEN w ELSE HolderOf(mine)[u]
    BY <1>1, <1>3, <2>1, <2>2 DEF TypeOK
  <2> QED
    BY <1>1, <2>3 DEF ownerBar, HolderOf
<1> QED
  BY <1>1, <1>5, <1>6, <1>7 DEF Pool!Take

\* Everything process w holds leaves its hands: Pool!Release.
LEMMA HandsAreReleased ==
    ASSUME QueueInv, QueueInv', NEW w \in Workers, NEW s,
           mine' = [mine EXCEPT ![w] = {}],
           stageBar' = [t \in Tasks |-> IF t \in mine[w] THEN s ELSE stageBar[t]]
    PROVE  Pool!Release(w, s)
<1>1. \A t \in Tasks : HolderOf(mine)[t] = w <=> t \in mine[w]
  BY HolderFacts DEF QueueInv, HeldByOne, Disjoint
<1>2. \A t \in Tasks : HolderOf(mine')[t] = IF t \in mine'[w] THEN w
                        ELSE IF t \in mine[w] THEN NoOne ELSE HolderOf(mine)[t]
  <2>1. Disjoint(mine) /\ Disjoint(mine')
    BY DEF QueueInv, HeldByOne, Disjoint
  <2>2. AlikeBut(mine, mine', w)
    BY DEF QueueInv, TypeOK, AlikeBut
  <2> QED
    BY ONLY <2>1, <2>2, w \in Workers, HolderChange
<1>3. stageBar' = [t \in Tasks |-> IF ownerBar[t] = w THEN s ELSE stageBar[t]]
  BY <1>1 DEF ownerBar
<1>4. \A t \in Tasks : HolderOf(mine')[t] =
          IF HolderOf(mine)[t] = w THEN NoOne ELSE HolderOf(mine)[t]
  BY <1>1, <1>2 DEF QueueInv, TypeOK
<1>5. ownerBar' = [t \in Tasks |-> IF ownerBar[t] = w THEN NoOne ELSE ownerBar[t]]
  BY <1>4 DEF ownerBar, HolderOf
<1> QED
  BY <1>3, <1>5 DEF Pool!Release

\* A process that lets go of its list without writing loses its tasks.
LEMMA ListIsAbandoned ==
    ASSUME QueueInv, QueueInv', NEW w \in Workers,
           mine' = [mine EXCEPT ![w] = {}], row' = row
    PROVE  Pool!Abandon(w)
<1>1. \A t \in mine[w] : row[t] = "claimed" /\ t \in Tasks
  BY DEF QueueInv, HeldIsClaimed, TypeOK
<1>2. \A t \in Tasks : Held(t)' <=> Held(t) /\ t \notin mine[w]
  BY DEF Held, QueueInv, HeldByOne, TypeOK
<1>3. stageBar' = [t \in Tasks |-> IF t \in mine[w] THEN "lost" ELSE stageBar[t]]
  BY <1>1, <1>2 DEF stageBar
<1> QED
  BY <1>3, HandsAreReleased DEF Pool!Abandon

\* The end of a turn settles its tasks, or loses them when the write fails.
LEMMA TurnEndsIsRelease ==
    ASSUME QueueInv, QueueInv', NEW w \in Workers, NEW result \in Results,
           TurnEnds(w, result)
    PROVE  Pool!Settle(w, result) \/ Pool!Abandon(w)
<1>1. mine' = [mine EXCEPT ![w] = {}] /\ (Record(w, result) \/ RecordRaises)
  BY DEF TurnEnds
<1>2. CASE RecordRaises
  BY <1>1, <1>2, ListIsAbandoned DEF RecordRaises
<1>3. CASE Record(w, result)
  <2>1. \A t \in mine[w] : row[t] = "claimed" /\ t \in Tasks
    BY DEF QueueInv, HeldIsClaimed, TypeOK
  <2>2. row' = [t \in Tasks |-> IF t \in mine[w] THEN result ELSE row[t]]
    BY <1>3 DEF Record, Marked
  <2>3. \A t \in Tasks : t \notin mine[w] => (Held(t)' <=> Held(t))
    BY <1>1 DEF Held, QueueInv, TypeOK
  <2>4. stageBar' = [t \in Tasks |-> IF t \in mine[w] THEN result ELSE stageBar[t]]
    BY <2>1, <2>2, <2>3 DEF stageBar, Results
  <2> QED
    BY <1>1, <2>4, HandsAreReleased DEF Pool!Settle
<1> QED
  BY <1>1, <1>2, <1>3

LEMMA StepImplementsPool ==
    QueueInv /\ QueueInv' /\ [Next]_vars => [Pool!Next]_(Pool!vars)
<1> SUFFICES ASSUME QueueInv, QueueInv', [Next]_vars
             PROVE  Pool!Next \/ UNCHANGED <<stageBar, ownerBar>>
  BY DEF Pool!vars
<1>1. CASE \E t \in Tasks : Post(t)
  BY <1>1, PostIsPost DEF Pool!Next
<1>2. CASE \E w \in Workers : Boot(w) \/ Fetch(w)
  BY <1>2, PoolStutters DEF Boot, Fetch
<1>3. CASE \E w \in Workers : ClaimNext(w)
  <2>1. PICK w \in Workers : ClaimNext(w)
    BY <1>3
  <2>2. PICK t \in todo[w] : Claim(w, t) \/ ClaimLost(w, t) \/ ClaimRaises(w, t)
    BY <2>1 DEF ClaimNext
  <2>3. CASE Claim(w, t)
    <3>1. t \in Tasks
      BY DEF QueueInv, TypeOK
    <3> QED
      BY <2>3, <3>1, ClaimIsTake DEF Pool!Next
  <2>4. CASE ClaimLost(w, t) \/ ClaimRaises(w, t)
    <3>1. row' = row /\ mine' = [mine EXCEPT ![w] = mine[w]]
      BY <2>4 DEF ClaimLost, ClaimRaises, AfterClaim
    <3>2. mine' = mine
      BY <3>1 DEF QueueInv, TypeOK
    <3> QED
      BY <3>1, <3>2, PoolStutters
  <2> QED
    BY <2>2, <2>3, <2>4
<1>4. CASE \E w \in Workers, result \in Results : TurnEnds(w, result)
  BY <1>4, TurnEndsIsRelease DEF Pool!Next, Results, Pool!Results
<1>5. CASE \E w \in Workers : Crash(w)
  BY <1>5, ListIsAbandoned DEF Crash, Pool!Next
<1>6. CASE UNCHANGED vars
  BY <1>6, PoolStutters DEF vars, worker
<1> QED
  BY <1>1, <1>2, <1>3, <1>4, <1>5, <1>6 DEF Next, Step

\* The table and the processes that poll it implement the task pool: a task is
\* taken once, by a process of its agent, and a written result stays, although
\* the UPDATEs that write it have no condition on the status.
THEOREM QueueImplementsPool == Spec => ImplementsPool
<1> QED
  BY InitPool, InitInv, QueueInvariant, StepImplementsPool, PTL
     DEF Spec, ImplementsPool, Pool!Spec
=============================================================================
