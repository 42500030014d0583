----------------------- MODULE TokenizerPool_proofs -----------------------
(***************************************************************************)
(* Every safety invariant of TokenizerPool, for any number of threads and  *)
(* workers, any pool size and any request limit.                           *)
(***************************************************************************)
EXTENDS TokenizerPool, FiniteSetTheorems, TLAPS

\* q is p after some of the blocked threads were notified.
Roused(p, q) ==
  /\ q \in [Threads -> States]
  /\ \A t \in Threads : q[t] = p[t] \/ (p[t] \in Blocked /\ q[t] \in Notified)

\* A worker in use, or about to be used, has requests left, and one without a
\* live child has answered none.
Fresh ==
  /\ \A w \in Workers : ~Alive(w) => requests[w] = 0
  /\ \A w \in idle : requests[w] < MaxRequests
  /\ \A t \in Threads : pc[t] = "using" => requests[held[t]] < MaxRequests

\* NoLostCapacity, worker by worker.
Slots ==
  ~shutdown => \A w \in Workers : w \in all <=> w \in idle \/ \E t \in Threads : held[t] = w

\* The inductive invariant: who holds what, what counts, and what is used up.
Inv == TypeOK /\ Exclusive /\ Slots /\ Fresh

USE DEF States, Entering, Blocked, Notified, Holding, Overdue

\* notify_all wakes blocked threads, all of them, and moves no other.
LEMMA NotifyAllRouses ==
  ASSUME NEW p \in [Threads -> States]
  PROVE  /\ Roused(p, NotifyAll(p))
         /\ \A t \in Threads : NotifyAll(p)[t] \notin Blocked
  BY DEF Roused, NotifyAll, Woken

\* notify wakes one blocked thread when there is one, and moves no other.
LEMMA NotifyOneRouses ==
  ASSUME NEW p \in [Threads -> States], NEW q \in NotifyOne(p)
  PROVE  Roused(p, q)
<1>1. CASE {t \in Threads : p[t] \in Blocked} = {}
  BY <1>1 DEF Roused, NotifyOne
<1>2. CASE {t \in Threads : p[t] \in Blocked} # {}
  <2>1. PICK t \in Threads : p[t] \in Blocked /\ q = [p EXCEPT ![t] = Woken(@)]
    BY <1>2 DEF NotifyOne
  <2> QED BY <2>1 DEF Roused, Woken
<1> QED BY <1>1, <1>2

\* Retiring dead idle workers may wake blocked threads and moves no other.
LEMMA RetireRouses ==
  ASSUME NEW p \in [Threads -> States], NEW D, Retire(D, p)
  PROVE  Roused(p, pc')
  BY NotifyAllRouses DEF Retire, Roused

\* What _acquire retires is one dead idle worker or nothing, and the worker it
\* makes is counted, queued and held nowhere.
LEMMA MissesAreDead ==
  ASSUME NEW D \in Misses
  PROVE  D \subseteq idle /\ \A d \in D : ~Alive(d)
  BY DEF Misses

LEMMA NewbornIsFree ==
  ASSUME Inv, ~shutdown, NEW D \in Misses, NEW w \in Newborn(D)
  PROVE  /\ w \in Workers /\ ~Alive(w)
         /\ w \notin all \ D /\ w \notin idle \ D
         /\ \A t \in Threads : held[t] # w
<1> USE DEF Inv
<1>1. D \subseteq idle /\ D \subseteq Workers /\ \A d \in D : ~Alive(d)
  BY MissesAreDead DEF TypeOK
<1>2. w \in Unborn \cup D
  BY DEF Newborn
<1>3. CASE w \in D
  BY <1>1, <1>3 DEF Exclusive
<1>4. CASE w \in Unborn
  BY <1>4 DEF Unborn, Alive, Slots
<1> QED BY <1>2, <1>3, <1>4

LEMMA SlotsAreCapacity == TypeOK /\ Exclusive /\ Slots => NoLostCapacity
<1> SUFFICES ASSUME TypeOK, Exclusive, Slots, ~shutdown
             PROVE  all = idle \cup {held[t] : t \in In(Holding)}
  BY DEF NoLostCapacity
<1>1. ASSUME NEW w \in Workers
      PROVE  w \in all <=> w \in idle \cup {held[t] : t \in In(Holding)}
  <2>1. (\E t \in Threads : held[t] = w) <=> \E t \in In(Holding) : held[t] = w
    BY PoolAssumption DEF TypeOK, Exclusive, In
  <2> QED BY <2>1 DEF Slots
<1>2. \A t \in In(Holding) : held[t] \in Workers
  BY DEF TypeOK, Exclusive, In
<1> QED BY <1>1, <1>2 DEF TypeOK

LEMMA InitInv == Init => Inv
<1> SUFFICES ASSUME Init PROVE Inv
  OBVIOUS
<1> USE PoolAssumption DEF Init
<1>1. pc \in [Threads -> States] /\ held \in [Threads -> Workers \cup {NoWorker}]
  OBVIOUS
<1>2. proc \in [Workers -> {"none", "alive", "dead"}]
  OBVIOUS
<1>3. requests \in [Workers -> 0..MaxRequests]
  OBVIOUS
<1>4. TypeOK
  BY <1>1, <1>2, <1>3 DEF TypeOK
<1>5. Exclusive /\ Slots /\ Fresh
  BY DEF Exclusive, Slots, Fresh
<1> QED BY <1>4, <1>5 DEF Inv

\* A thread leaves _acquire without a worker, and what it met dead is forgotten.
LEMMA LeaveEmpty ==
  ASSUME Inv, NEW t \in Threads, Looking(t), NEW D \in Misses, all' = all \ D,
         NEW x \in {"idle", "waiting"}, Retire(D, [pc EXCEPT ![t] = x]),
         UNCHANGED <<held, requests, shutdown, killing>>,
         proc' \in [Workers -> {"none", "alive", "dead"}],
         \A w \in Workers : Alive(w) => proc'[w] = "alive",
         leaked' \in SUBSET Workers
  PROVE  Inv'
<1> USE PoolAssumption
<1>1. [pc EXCEPT ![t] = x] \in [Threads -> States]
  BY DEF Inv, TypeOK
<1>2. Roused([pc EXCEPT ![t] = x], pc')
  BY <1>1, RetireRouses
<1>3. pc[t] \in Entering /\ D \subseteq idle /\ idle' = idle \ D
  BY MissesAreDead DEF Looking, Retire
<1>4. TypeOK'
  <2>1. pc' \in [Threads -> States]
    BY <1>2 DEF Roused
  <2> QED BY <1>3, <2>1 DEF Inv, TypeOK
<1>5. Exclusive'
  BY <1>2, <1>3 DEF Inv, TypeOK, Exclusive, Roused
<1>6. Slots'
  BY <1>3 DEF Inv, TypeOK, Exclusive, Slots
<1>7. Fresh'
  <2>1. \A u \in Threads : pc'[u] = "using" => pc[u] = "using"
    BY <1>2, <1>3 DEF Roused
  <2> QED BY <1>3, <2>1 DEF Inv, TypeOK, Fresh, Alive
<1> QED BY <1>4, <1>5, <1>6, <1>7 DEF Inv

LEMMA StepInv == Inv /\ [Next]_vars => Inv'
<1> SUFFICES ASSUME Inv, [Next]_vars PROVE Inv'
  OBVIOUS
<1> USE PoolAssumption
<1>1. ASSUME NEW t \in Threads, Call(t) PROVE Inv'
  BY <1>1 DEF Inv, Call, TypeOK, Exclusive, Slots, Fresh, In, Alive
<1>2. ASSUME NEW t \in Threads, TakeIdle(t) PROVE Inv'
  <2>1. PICK w \in idle : Alive(w) /\ idle' = idle \ {w} /\ held' = [held EXCEPT ![t] = w]
    BY <1>2 DEF TakeIdle
  <2>2. /\ pc[t] \in Entering /\ pc' = [pc EXCEPT ![t] = "using"] /\ w \in Workers
        /\ UNCHANGED <<all, proc, requests, shutdown, killing, leaked>>
    BY <1>2, <2>1 DEF TakeIdle, Looking, Inv, TypeOK
  <2>3. TypeOK'
    BY <2>1, <2>2 DEF Inv, TypeOK
  <2>4. Exclusive'
    BY <2>1, <2>2 DEF Inv, TypeOK, Exclusive
  <2>5. Slots'
    BY <2>1, <2>2 DEF Inv, TypeOK, Exclusive, Slots
  <2>6. Fresh'
    BY <2>1, <2>2 DEF Inv, TypeOK, Exclusive, Fresh, Alive
  <2> QED BY <2>3, <2>4, <2>5, <2>6 DEF Inv
<1>3. ASSUME NEW t \in Threads, Spawn(t) PROVE Inv'
  <2>1. PICK D \in Misses : \E w \in Newborn(D) :
          /\ held' = [held EXCEPT ![t] = w]
          /\ all' = (all \ D) \cup {w}
          /\ proc' = [Stopped(D) EXCEPT ![w] = "alive"]
          /\ Retire(D, [pc EXCEPT ![t] = "using"])
    BY <1>3 DEF Spawn
  <2>2. PICK w \in Newborn(D) :
          /\ held' = [held EXCEPT ![t] = w]
          /\ all' = (all \ D) \cup {w}
          /\ proc' = [Stopped(D) EXCEPT ![w] = "alive"]
          /\ Retire(D, [pc EXCEPT ![t] = "using"])
    BY <2>1
  <2>3. /\ pc[t] \in Entering /\ ~shutdown
        /\ UNCHANGED <<requests, shutdown, killing, leaked>>
    BY <1>3 DEF Spawn, Looking
  <2>4. /\ w \in Workers /\ ~Alive(w) /\ w \notin all \ D /\ w \notin idle \ D
        /\ \A u \in Threads : held[u] # w
    BY <2>3, NewbornIsFree
  <2>5. D \subseteq idle /\ idle' = idle \ D
    BY <2>2, MissesAreDead DEF Retire
  <2>6. Roused([pc EXCEPT ![t] = "using"], pc')
    <3>1. [pc EXCEPT ![t] = "using"] \in [Threads -> States]
      BY DEF Inv, TypeOK
    <3> QED BY <2>2, <3>1, RetireRouses
  <2>7. TypeOK'
    <3>1. pc' \in [Threads -> States]
      BY <2>6 DEF Roused
    <3>2. proc' \in [Workers -> {"none", "alive", "dead"}]
      BY <2>2, <2>4 DEF Stopped, Inv, TypeOK
    <3>3. held' \in [Threads -> Workers \cup {NoWorker}]
      BY <2>2, <2>4 DEF Inv, TypeOK
    <3> QED BY <2>2, <2>3, <2>4, <2>5, <3>1, <3>2, <3>3 DEF Inv, TypeOK
  <2>8. Exclusive'
    BY <2>2, <2>3, <2>4, <2>5, <2>6 DEF Inv, TypeOK, Exclusive, Roused
  <2>9. Slots'
    BY <2>2, <2>3, <2>4, <2>5 DEF Inv, TypeOK, Exclusive, Slots
  <2>10. Fresh'
    <3>1. requests[w] = 0
      BY <2>4 DEF Inv, Fresh
    <3>2. \A v \in Workers : Alive(v) => proc'[v] = "alive"
      BY <2>2, <2>4, MissesAreDead DEF Stopped, Alive
    <3>3. \A v \in Workers : ~(proc'[v] = "alive") => requests'[v] = 0
      BY <2>3, <3>2 DEF Inv, Fresh
    <3>4. \A v \in idle' : requests'[v] < MaxRequests
      BY <2>3, <2>5 DEF Inv, Fresh
    <3>5. \A u \in Threads : pc'[u] = "using" => requests'[held'[u]] < MaxRequests
      BY <2>2, <2>3, <2>6, <3>1 DEF Inv, TypeOK, Fresh, Roused
    <3> QED BY <3>3, <3>4, <3>5 DEF Fresh, Alive
  <2> QED BY <2>7, <2>8, <2>9, <2>10 DEF Inv
<1>4. ASSUME NEW t \in Threads, SpawnFails(t) PROVE Inv'
  <2>1. PICK D \in Misses : /\ all' = all \ D
                           /\ proc' = Stopped(D)
                           /\ Retire(D, [pc EXCEPT ![t] = "idle"])
    BY <1>4 DEF SpawnFails
  <2>2. proc' \in [Workers -> {"none", "alive", "dead"}]
    BY <2>1 DEF Stopped, Inv, TypeOK
  <2>3. \A w \in Workers : Alive(w) => proc'[w] = "alive"
    BY <2>1, MissesAreDead DEF Stopped, Alive
  <2>4. /\ Looking(t) /\ leaked' \in SUBSET Workers
        /\ UNCHANGED <<held, requests, shutdown, killing>>
    BY <1>4 DEF SpawnFails, Inv, TypeOK
  <2> QED BY <2>1, <2>2, <2>3, <2>4, LeaveEmpty
<1>5. ASSUME NEW t \in Threads, Wait(t) \/ TimeOut(t) PROVE Inv'
  <2>1. PICK x \in {"idle", "waiting"} : pc' = [pc EXCEPT ![t] = x]
    BY <1>5 DEF Wait, TimeOut
  <2>2. {} \in Misses /\ Looking(t) /\ UNCHANGED <<held, idle, all, proc, requests, shutdown, killing, leaked>>
    BY <1>5 DEF Wait, TimeOut, Misses
  <2>3. Retire({}, [pc EXCEPT ![t] = x])
    BY <2>1, <2>2 DEF Retire
  <2> QED BY <2>2, <2>3, LeaveEmpty DEF Inv, TypeOK, Alive
<1>6. ASSUME NEW t \in Threads, SpawnLeaks(t) PROVE Inv'
  <2>1. PICK D \in Misses : \E w \in Newborn(D) :
          /\ all' = all \ D
          /\ proc' = [Stopped(D) EXCEPT ![w] = "alive"]
          /\ leaked' = leaked \cup {w}
          /\ Retire(D, [pc EXCEPT ![t] = "idle"])
    BY <1>6 DEF SpawnLeaks
  <2>2. PICK w \in Newborn(D) :
          /\ all' = all \ D
          /\ proc' = [Stopped(D) EXCEPT ![w] = "alive"]
          /\ leaked' = leaked \cup {w}
          /\ Retire(D, [pc EXCEPT ![t] = "idle"])
    BY <2>1
  <2>3. Looking(t) /\ ~shutdown /\ UNCHANGED <<held, requests, shutdown, killing>>
    BY <1>6 DEF SpawnLeaks, Looking
  <2>4. w \in Workers
    BY <2>3, NewbornIsFree
  <2>5. proc' \in [Workers -> {"none", "alive", "dead"}] /\ leaked' \in SUBSET Workers
    BY <2>2, <2>4 DEF Stopped, Inv, TypeOK
  <2>6. \A v \in Workers : Alive(v) => proc'[v] = "alive"
    BY <2>2, <2>4, MissesAreDead DEF Stopped, Alive
  <2> QED BY <2>2, <2>3, <2>5, <2>6, LeaveEmpty
<1>7. ASSUME NEW t \in Threads, Refuse(t) PROVE Inv'
  BY <1>7 DEF Inv, Refuse, TypeOK, Exclusive, Slots, Fresh, In, Alive
<1>8. ASSUME NEW t \in Threads, Expire(t) PROVE Inv'
  BY <1>8 DEF Inv, Expire, TypeOK, Exclusive, Slots, Fresh, In, Alive
<1>9. ASSUME NEW t \in Threads, Respond(t) PROVE Inv'
  BY <1>9 DEF Inv, Respond, TypeOK, Exclusive, Slots, Fresh, In, Alive
<1>10. ASSUME NEW t \in Threads, Fail(t) PROVE Inv'
  BY <1>10 DEF Inv, Fail, TypeOK, Exclusive, Slots, Fresh, In, Alive
<1>11. ASSUME NEW t \in Threads, PutBack(t) PROVE Inv'
  <2>1. /\ pc[t] = "release" /\ ~shutdown /\ requests[held[t]] < MaxRequests
        /\ idle' = idle \cup {held[t]}
        /\ held' = [held EXCEPT ![t] = NoWorker]
        /\ UNCHANGED <<all, proc, requests, shutdown, killing, leaked>>
    BY <1>11 DEF PutBack
  <2>2. [pc EXCEPT ![t] = "idle"] \in [Threads -> States]
    BY DEF Inv, TypeOK
  <2>3. Roused([pc EXCEPT ![t] = "idle"], pc')
    BY <1>11, <2>2, NotifyOneRouses DEF PutBack
  <2>4. held[t] \in Workers
    BY <2>1 DEF Inv, TypeOK, Exclusive
  <2>5. TypeOK'
    <3>1. pc' \in [Threads -> States]
      BY <2>3 DEF Roused
    <3>2. held' \in [Threads -> Workers \cup {NoWorker}]
      BY <2>1 DEF Inv, TypeOK
    <3>3. requests' \in [Workers -> 0..MaxRequests]
      BY <2>1 DEF Inv, TypeOK
    <3> QED BY <2>1, <2>4, <3>1, <3>2, <3>3 DEF Inv, TypeOK
  <2>6. Exclusive'
    BY <2>1, <2>3, <2>4 DEF Inv, TypeOK, Exclusive, Roused
  <2>7. Slots'
    BY <2>1, <2>4 DEF Inv, TypeOK, Exclusive, Slots
  <2>8. Fresh'
    BY <2>1, <2>3, <2>4 DEF Inv, TypeOK, Fresh, Roused, Alive
  <2> QED BY <2>5, <2>6, <2>7, <2>8 DEF Inv
<1>12. ASSUME NEW t \in Threads, GiveUp(t) PROVE Inv'
  BY <1>12 DEF Inv, GiveUp, TypeOK, Exclusive, Slots, Fresh, In, Alive
<1>13. ASSUME NEW t \in Threads, Stop(t) PROVE Inv'
  BY <1>13 DEF Inv, Stop, TypeOK, Exclusive, Slots, Fresh, In, Alive
<1>14. ASSUME NEW t \in Threads, Forget(t) PROVE Inv'
  <2>1. /\ pc[t] = "forget"
        /\ all' = all \ {held[t]}
        /\ held' = [held EXCEPT ![t] = NoWorker]
        /\ UNCHANGED <<idle, proc, requests, shutdown, killing, leaked>>
    BY <1>14 DEF Forget
  <2>2. [pc EXCEPT ![t] = "idle"] \in [Threads -> States]
    BY DEF Inv, TypeOK
  <2>3. Roused([pc EXCEPT ![t] = "idle"], pc')
    BY <1>14, <2>2, NotifyAllRouses DEF Forget
  <2>4. held[t] \in Workers \ idle
    BY <2>1 DEF Inv, TypeOK, Exclusive
  <2>5. TypeOK'
    <3>1. pc' \in [Threads -> States]
      BY <2>3 DEF Roused
    <3>2. held' \in [Threads -> Workers \cup {NoWorker}]
      BY <2>1 DEF Inv, TypeOK
    <3>3. requests' \in [Workers -> 0..MaxRequests]
      BY <2>1, <2>4 DEF Inv, TypeOK
    <3> QED BY <2>1, <2>4, <3>1, <3>2, <3>3 DEF Inv, TypeOK
  <2>6. Exclusive'
    BY <2>1, <2>3, <2>4 DEF Inv, TypeOK, Exclusive, Roused
  <2>7. Slots'
    BY <2>1, <2>4 DEF Inv, TypeOK, Exclusive, Slots
  <2>8. Fresh'
    BY <2>1, <2>3, <2>4 DEF Inv, TypeOK, Exclusive, Fresh, Roused, Alive
  <2> QED BY <2>5, <2>6, <2>7, <2>8 DEF Inv
<1>15. ASSUME NEW w \in Workers, Kill(w) PROVE Inv'
  BY <1>15 DEF Inv, Kill, TypeOK, Exclusive, Slots, Fresh, In, Alive
<1>16. ASSUME NEW w \in Workers, Die(w) PROVE Inv'
  BY <1>16 DEF Inv, Die, TypeOK, Exclusive, Slots, Fresh, In, Alive
<1>17. CASE TerminateAll
  <2>1. Roused(pc, pc')
    BY <1>17, NotifyAllRouses DEF TerminateAll, Inv, TypeOK
  <2> QED
    BY <1>17, <2>1 DEF TerminateAll, Roused, Inv, TypeOK, Exclusive, Slots, Fresh, Alive
<1>18. CASE ResetAfterFork
  <2>1. /\ pc' = [t \in Threads |-> "idle"] /\ held' = [t \in Threads |-> NoWorker]
        /\ idle' = {} /\ all' = {} /\ killing' = {} /\ leaked' = {} /\ shutdown' = FALSE
        /\ proc' = [w \in Workers |-> "none"] /\ requests' = [w \in Workers |-> 0]
    BY <1>18 DEF ResetAfterFork
  <2>2. TypeOK'
    <3>1. pc' \in [Threads -> States] /\ held' \in [Threads -> Workers \cup {NoWorker}]
      BY <2>1
    <3>2. proc' \in [Workers -> {"none", "alive", "dead"}]
      BY <2>1
    <3>3. requests' \in [Workers -> 0..MaxRequests]
      BY <2>1
    <3> QED BY <2>1, <3>1, <3>2, <3>3 DEF TypeOK
  <2>3. Exclusive' BY <2>1 DEF Exclusive
  <2>4. Slots' BY <2>1 DEF Slots
  <2>5. Fresh' BY <2>1 DEF Fresh
  <2> QED BY <2>2, <2>3, <2>4, <2>5 DEF Inv
<1>19. CASE UNCHANGED vars
  BY <1>19 DEF Inv, vars, TypeOK, Exclusive, Slots, Fresh, In, Alive
<1> QED
  BY <1>1, <1>2, <1>3, <1>4, <1>5, <1>6, <1>7, <1>8, <1>9, <1>10, <1>11, <1>12,
     <1>13, <1>14, <1>15, <1>16, <1>17, <1>18, <1>19
     DEF Next, Enter, Start, Talk, Return

LEMMA AlwaysInv == Spec => []Inv
  BY InitInv, StepInv, PTL DEF Spec

-----------------------------------------------------------------------------
(* The children: every live one is known, and there are never too many.    *)

Known ==
  /\ \A t \in Threads : pc[t] = "forget" => ~Alive(held[t])
  /\ ~shutdown => \A w \in Workers : Alive(w) => w \in all \cup leaked
  /\ NoOrphan

LEMMA InitKnown == Init => Known
  BY DEF Init, Known, NoOrphan, Alive

LEMMA StepKnown == Inv /\ Known /\ [Next]_vars => Known'
<1> SUFFICES ASSUME Inv, Known, [Next]_vars PROVE Known'
  OBVIOUS
<1> USE PoolAssumption DEF Known, NoOrphan, Alive, Inv, TypeOK
<1>1. ASSUME NEW t \in Threads, Call(t) PROVE Known'
  BY <1>1 DEF Call
<1>2. ASSUME NEW t \in Threads, TakeIdle(t) PROVE Known'
  <2>1. PICK w \in idle : held' = [held EXCEPT ![t] = w]
    BY <1>2 DEF TakeIdle
  <2>2. /\ ~shutdown /\ pc' = [pc EXCEPT ![t] = "using"]
        /\ UNCHANGED <<all, proc, shutdown, killing, leaked>>
    BY <1>2 DEF TakeIdle, Looking
  <2> QED BY <2>1, <2>2
<1>3. ASSUME NEW t \in Threads, ~shutdown, UNCHANGED <<shutdown, killing>>, NEW D,
             NEW x \in {"idle", "using"}, Retire(D, [pc EXCEPT ![t] = x]),
             \A v \in Workers : proc'[v] = "alive" => v \in all' \cup leaked',
             \A u \in Threads \ {t} :
               /\ held'[u] = held[u]
               /\ held[u] \in Workers /\ proc'[held[u]] = "alive" => Alive(held[u])
      PROVE  Known'
  <2>1. Roused([pc EXCEPT ![t] = x], pc')
    BY <1>3, RetireRouses
  <2>2. \A u \in Threads : pc'[u] = "forget" => pc[u] = "forget" /\ u # t
    BY <2>1 DEF Roused
  <2>3. \A u \in Threads : pc[u] = "forget" => held[u] \in Workers
    BY DEF Exclusive
  <2> QED BY <1>3, <2>2, <2>3
<1>4. ASSUME NEW t \in Threads, Start(t) PROVE Known'
  <2>1. ~shutdown /\ UNCHANGED <<shutdown, killing>>
    BY <1>4 DEF Start, Spawn, SpawnFails, SpawnLeaks, Looking
  <2>2. CASE SpawnFails(t)
    <3>1. PICK D \in Misses : /\ all' = all \ D
                             /\ proc' = Stopped(D)
                             /\ Retire(D, [pc EXCEPT ![t] = "idle"])
      BY <2>2 DEF SpawnFails
    <3>2. UNCHANGED <<held, leaked>>
      BY <2>2 DEF SpawnFails
    <3>3. \A v \in Workers : proc'[v] = "alive" => Alive(v) /\ v \notin D
      BY <3>1 DEF Stopped
    <3>4. \A v \in Workers : proc'[v] = "alive" => v \in all' \cup leaked'
      BY <2>1, <3>1, <3>2, <3>3
    <3>5. \A u \in Threads \ {t} :
            /\ held'[u] = held[u]
            /\ held[u] \in Workers /\ proc'[held[u]] = "alive" => Alive(held[u])
      BY <3>2, <3>3
    <3> QED BY <1>3, <2>1, <3>1, <3>4, <3>5
  <2>3. CASE Spawn(t)
    <3>1. PICK D \in Misses : \E w \in Newborn(D) :
            /\ held' = [held EXCEPT ![t] = w]
            /\ all' = (all \ D) \cup {w}
            /\ proc' = [Stopped(D) EXCEPT ![w] = "alive"]
            /\ Retire(D, [pc EXCEPT ![t] = "using"])
      BY <2>3 DEF Spawn
    <3>2. PICK w \in Newborn(D) :
            /\ held' = [held EXCEPT ![t] = w]
            /\ all' = (all \ D) \cup {w}
            /\ proc' = [Stopped(D) EXCEPT ![w] = "alive"]
            /\ Retire(D, [pc EXCEPT ![t] = "using"])
      BY <3>1
    <3>3. w \in Workers /\ \A u \in Threads : held[u] # w
      BY <2>1, NewbornIsFree
    <3>4. /\ leaked' = leaked
          /\ \A v \in Workers \ {w} : proc'[v] = "alive" => Alive(v) /\ v \notin D
      BY <2>3, <3>2, <3>3 DEF Spawn, Stopped
    <3>5. \A v \in Workers : proc'[v] = "alive" => v \in all' \cup leaked'
      BY <2>1, <3>2, <3>4
    <3>6. \A u \in Threads \ {t} :
            /\ held'[u] = held[u]
            /\ held[u] \in Workers /\ proc'[held[u]] = "alive" => Alive(held[u])
      BY <3>2, <3>3, <3>4
    <3> QED BY <1>3, <2>1, <3>2, <3>5, <3>6
  <2>4. CASE SpawnLeaks(t)
    <3>1. PICK D \in Misses : \E w \in Newborn(D) :
            /\ all' = all \ D
            /\ proc' = [Stopped(D) EXCEPT ![w] = "alive"]
            /\ leaked' = leaked \cup {w}
            /\ Retire(D, [pc EXCEPT ![t] = "idle"])
      BY <2>4 DEF SpawnLeaks
    <3>2. PICK w \in Newborn(D) :
            /\ all' = all \ D
            /\ proc' = [Stopped(D) EXCEPT ![w] = "alive"]
            /\ leaked' = leaked \cup {w}
            /\ Retire(D, [pc EXCEPT ![t] = "idle"])
      BY <3>1
    <3>3. w \in Workers /\ \A u \in Threads : held[u] # w
      BY <2>1, NewbornIsFree
    <3>4. /\ held' = held
          /\ \A v \in Workers \ {w} : proc'[v] = "alive" => Alive(v) /\ v \notin D
      BY <2>4, <3>2, <3>3 DEF SpawnLeaks, Stopped
    <3>5. \A v \in Workers : proc'[v] = "alive" => v \in all' \cup leaked'
      BY <2>1, <3>2, <3>4
    <3>6. \A u \in Threads \ {t} :
            /\ held'[u] = held[u]
            /\ held[u] \in Workers /\ proc'[held[u]] = "alive" => Alive(held[u])
      BY <3>2, <3>3, <3>4
    <3> QED BY <1>3, <2>1, <3>2, <3>5, <3>6
  <2> QED BY <1>4, <2>2, <2>3, <2>4 DEF Start
<1>5. ASSUME NEW t \in Threads, Refuse(t) \/ Expire(t) \/ Respond(t) \/ Fail(t) \/ GiveUp(t)
      PROVE  Known'
  BY <1>5 DEF Refuse, Expire, Respond, Fail, GiveUp
<1>6. ASSUME NEW t \in Threads, PutBack(t) PROVE Known'
  <2>1. Roused([pc EXCEPT ![t] = "idle"], pc')
    BY <1>6, NotifyOneRouses DEF PutBack
  <2>2. \A u \in Threads : pc'[u] = "forget" => pc[u] = "forget" /\ u # t
    BY <2>1 DEF Roused
  <2> QED BY <1>6, <2>2 DEF PutBack
<1>7. ASSUME NEW t \in Threads, Stop(t) PROVE Known'
  BY <1>7 DEF Stop, Exclusive
<1>8. ASSUME NEW t \in Threads, Forget(t) PROVE Known'
  <2>1. Roused([pc EXCEPT ![t] = "idle"], pc')
    BY <1>8, NotifyAllRouses DEF Forget
  <2>2. \A u \in Threads : pc'[u] = "forget" => pc[u] = "forget" /\ u # t
    BY <2>1 DEF Roused
  <2> QED BY <1>8, <2>2 DEF Forget
<1>9. ASSUME NEW w \in Workers, Kill(w) \/ Die(w) PROVE Known'
  BY <1>9 DEF Kill, Die, Exclusive
<1>10. CASE TerminateAll
  <2>1. Roused(pc, pc')
    BY <1>10, NotifyAllRouses DEF TerminateAll
  <2> QED BY <1>10, <2>1 DEF TerminateAll, Roused
<1>11. CASE ResetAfterFork
  BY <1>11 DEF ResetAfterFork
<1>12. CASE UNCHANGED vars
  BY <1>12 DEF vars
<1>13. ASSUME NEW t \in Threads, Wait(t) \/ TimeOut(t) PROVE Known'
  BY <1>13 DEF Wait, TimeOut
<1> QED
  BY <1>1, <1>2, <1>4, <1>5, <1>6, <1>7, <1>8, <1>9, <1>10, <1>11, <1>12, <1>13
     DEF Next, Enter, Talk, Return

\* Only Spawn makes a child that is not leaked, and it finds all others listed.
LEMMA StepBounded == Inv /\ Known /\ BoundedChildren /\ [Next]_vars => BoundedChildren'
<1> SUFFICES ASSUME Inv, Known, BoundedChildren, [Next]_vars PROVE BoundedChildren'
  OBVIOUS
<1> USE PoolAssumption DEF Inv, TypeOK
<1> DEFINE Children == {w \in Workers : Alive(w)} \ leaked
<1>1. IsFiniteSet(Children) /\ Cardinality(Children) \in Nat
  BY FS_Subset, FS_CardinalityType
<1>2. ASSUME Children' \subseteq Children PROVE BoundedChildren'
  <2>1. Cardinality(Children') <= Cardinality(Children) /\ Cardinality(Children') \in Nat
    BY <1>1, <1>2, FS_Subset, FS_CardinalityType
  <2> QED BY <1>1, <2>1 DEF BoundedChildren
<1>3. ASSUME NEW t \in Threads, Spawn(t) PROVE BoundedChildren'
  <2>1. ~shutdown /\ leaked' = leaked
    BY <1>3 DEF Spawn, Looking
  <2>2. PICK D \in Misses : /\ Cardinality(all \ D) < PoolSize
                           /\ \E w \in Newborn(D) : proc' = [Stopped(D) EXCEPT ![w] = "alive"]
    BY <1>3 DEF Spawn
  <2>3. PICK w \in Newborn(D) : proc' = [Stopped(D) EXCEPT ![w] = "alive"]
    BY <2>2
  <2> DEFINE kept == all \ D
  <2>4. Children' \subseteq kept \cup {w}
    <3>1. \A v \in Workers \ {w} : proc'[v] = "alive" => Alive(v) /\ v \notin D
      BY <2>3 DEF Stopped, Alive
    <3> QED BY <2>1, <3>1 DEF Known, Alive
  <2>5. IsFiniteSet(kept) /\ Cardinality(kept) \in Nat
    BY FS_Subset, FS_CardinalityType
  <2>6. /\ IsFiniteSet(kept \cup {w})
        /\ Cardinality(kept \cup {w}) \in Nat
        /\ Cardinality(kept \cup {w}) <= Cardinality(kept) + 1
    <3> HIDE DEF kept
    <3>1. IsFiniteSet(kept \cup {w})
      BY <2>5, FS_AddElement
    <3>2. Cardinality(kept \cup {w}) =
            IF w \in kept THEN Cardinality(kept) ELSE Cardinality(kept) + 1
      BY <2>5, FS_AddElement, Zenon
    <3> QED BY <2>5, <3>1, <3>2
  <2>7. Cardinality(Children') <= Cardinality(kept \cup {w})
    BY <2>4, <2>6, FS_Subset
  <2>8. Cardinality(Children') \in Nat
    BY <2>4, <2>6, FS_Subset, FS_CardinalityType
  <2> QED BY <2>2, <2>5, <2>6, <2>7, <2>8 DEF BoundedChildren
<1>4. ASSUME NEW t \in Threads, SpawnFails(t) PROVE Children' \subseteq Children
  BY <1>4 DEF SpawnFails, Stopped, Alive
<1>5. ASSUME NEW t \in Threads, SpawnLeaks(t) PROVE Children' \subseteq Children
  <2>1. ~shutdown
    BY <1>5 DEF SpawnLeaks, Looking
  <2>2. PICK D \in Misses : \E w \in Newborn(D) : /\ proc' = [Stopped(D) EXCEPT ![w] = "alive"]
                                                 /\ leaked' = leaked \cup {w}
    BY <1>5 DEF SpawnLeaks
  <2>3. PICK w \in Newborn(D) : /\ proc' = [Stopped(D) EXCEPT ![w] = "alive"]
                                /\ leaked' = leaked \cup {w}
    BY <2>2
  <2>4. \A v \in Workers \ {w} : proc'[v] = "alive" => Alive(v)
    BY <2>3 DEF Stopped, Alive
  <2> QED BY <2>3, <2>4 DEF Alive
<1>6. ASSUME NEW t \in Threads, Stop(t) PROVE Children' \subseteq Children
  BY <1>6 DEF Stop, Alive
<1>7. ASSUME NEW w \in Workers, Kill(w) \/ Die(w) PROVE Children' \subseteq Children
  BY <1>7 DEF Kill, Die, Alive
<1>8. CASE ResetAfterFork
  BY <1>2, <1>8 DEF ResetAfterFork, Alive
<1>9. CASE UNCHANGED <<proc, leaked>>
  BY <1>2, <1>9 DEF Alive
<1>10. ASSUME NEW t \in Threads,
              \/ Call(t) \/ Refuse(t) \/ Expire(t) \/ Respond(t) \/ Fail(t)
              \/ PutBack(t) \/ GiveUp(t) \/ Forget(t)
              \/ TakeIdle(t) \/ Wait(t) \/ TimeOut(t)
       PROVE  UNCHANGED <<proc, leaked>>
  BY <1>10 DEF TakeIdle, Wait, TimeOut, Call, Refuse, Expire, Respond, Fail, PutBack, GiveUp, Forget
<1>11. TerminateAll \/ UNCHANGED vars => UNCHANGED <<proc, leaked>>
  BY DEF TerminateAll, vars
<1> QED
  BY <1>2, <1>3, <1>4, <1>5, <1>6, <1>7, <1>8, <1>9, <1>10, <1>11
     DEF Next, Enter, Start, Talk, Return

LEMMA InitBounded == Init => BoundedChildren
<1> SUFFICES ASSUME Init PROVE BoundedChildren
  OBVIOUS
<1>1. {w \in Workers : Alive(w)} \ leaked = {}
  BY DEF Init, Alive
<1> QED BY <1>1, FS_EmptySet, PoolAssumption DEF BoundedChildren

-----------------------------------------------------------------------------
(* The waiters: nobody is asleep while there is something to wake up for.  *)

Waiters ==
  /\ NoStrandedWaiter
  /\ shutdown => In(Blocked) = {}

LEMMA InitWaiters == Init => Waiters
  BY DEF Init, Waiters, NoStrandedWaiter, In

\* Nobody is blocked afterwards.
LEMMA AllAwake ==
  ASSUME \A t \in Threads : pc'[t] \notin Blocked
  PROVE  Waiters'
  BY DEF Waiters, NoStrandedWaiter, In

\* The pool stands, nobody falls asleep and no notified thread is lost.
LEMMA PoolStands ==
  ASSUME TypeOK, Waiters, UNCHANGED <<idle, all, shutdown>>,
         \A t \in Threads : pc'[t] \in Blocked => pc[t] \in Blocked,
         ~shutdown => \A t \in Threads : pc[t] \in Notified => pc'[t] \in Notified
  PROVE  Waiters'
<1> USE PoolAssumption DEF TypeOK
<1>1. In(Blocked)' \subseteq In(Blocked)
  BY DEF In
<1>2. CASE shutdown
  BY <1>1, <1>2 DEF Waiters, NoStrandedWaiter
<1>3. CASE ~shutdown
  <2>1. In(Notified) \subseteq In(Notified)'
    BY <1>3 DEF In
  <2>2. IsFiniteSet(In(Notified)') /\ IsFiniteSet(idle)
    BY FS_Subset DEF In
  <2>3. /\ Cardinality(In(Notified)) <= Cardinality(In(Notified)')
        /\ Cardinality(In(Notified)) \in Nat /\ Cardinality(In(Notified)') \in Nat
        /\ Cardinality(idle) \in Nat
    BY <2>1, <2>2, FS_Subset, FS_CardinalityType
  <2> QED BY <1>1, <1>3, <2>3 DEF Waiters, NoStrandedWaiter
<1> QED BY <1>2, <1>3

LEMMA StepWaiters == Inv /\ Waiters /\ [Next]_vars => Waiters'
<1> SUFFICES ASSUME Inv, Waiters, [Next]_vars PROVE Waiters'
  OBVIOUS
<1> USE PoolAssumption DEF Inv, TypeOK
<1>1. TypeOK
  OBVIOUS
<1>2. ASSUME NEW t \in Threads,
             \/ Call(t) \/ Expire(t) \/ Respond(t) \/ Fail(t) \/ GiveUp(t) \/ Stop(t)
      PROVE  Waiters'
  BY <1>1, <1>2, PoolStands DEF Call, Expire, Respond, Fail, GiveUp, Stop
<1>3. ASSUME NEW t \in Threads, Refuse(t) PROVE Waiters'
  BY <1>1, <1>3, PoolStands DEF Refuse
<1>4. ASSUME NEW w \in Workers, Kill(w) \/ Die(w) PROVE Waiters'
  BY <1>1, <1>4, PoolStands DEF Kill, Die
<1>5. CASE UNCHANGED vars
  BY <1>1, <1>5, PoolStands DEF vars
<1>6. CASE ResetAfterFork
  BY <1>6, AllAwake DEF ResetAfterFork
<1>7. CASE TerminateAll
  BY <1>7, AllAwake, NotifyAllRouses DEF TerminateAll
<1>8. ASSUME NEW t \in Threads, Forget(t) PROVE Waiters'
  BY <1>8, AllAwake, NotifyAllRouses DEF Forget
<1>9. ASSUME NEW D, D # {}, NEW p \in [Threads -> States], Retire(D, p) PROVE Waiters'
  BY <1>9, AllAwake, NotifyAllRouses DEF Retire
<1>10. ASSUME NEW t \in Threads, TakeIdle(t) PROVE Waiters'
  <2>1. PICK w \in idle : idle' = idle \ {w}
    BY <1>10 DEF TakeIdle
  <2>2. pc' = [pc EXCEPT ![t] = "using"] /\ UNCHANGED <<all, shutdown>>
    BY <1>10 DEF TakeIdle
  <2>3. In(Blocked)' \subseteq In(Blocked) /\ In(Notified)' = In(Notified) \ {t}
    BY <2>2 DEF In
  <2>4. IsFiniteSet(In(Notified)) /\ IsFiniteSet(idle)
    BY FS_Subset DEF In
  <2>5. /\ Cardinality(In(Notified)) \in Nat /\ Cardinality(In(Notified)') \in Nat
        /\ Cardinality(In(Notified)') >= Cardinality(In(Notified)) - 1
    <3>1. Cardinality(In(Notified)') = IF t \in In(Notified) THEN Cardinality(In(Notified)) - 1
                                       ELSE Cardinality(In(Notified))
      BY <2>3, <2>4, FS_RemoveElement, Zenon
    <3>2. Cardinality(In(Notified)) \in Nat
      BY <2>4, FS_CardinalityType
    <3>3. Cardinality(In(Notified)') \in Nat
      BY <2>3, <2>4, FS_Subset, FS_CardinalityType
    <3> QED BY <3>1, <3>2, <3>3
  <2>6. Cardinality(idle') = Cardinality(idle) - 1 /\ Cardinality(idle) \in Nat
    BY <2>1, <2>4, FS_RemoveElement, FS_CardinalityType
  <2> QED BY <2>2, <2>3, <2>5, <2>6 DEF Waiters, NoStrandedWaiter
<1>11. ASSUME NEW t \in Threads, Start(t) PROVE Waiters'
  <2>1. PICK x \in {"idle", "using"}, D \in Misses :
          Cardinality(all \ D) < PoolSize /\ Retire(D, [pc EXCEPT ![t] = x])
    BY <1>11 DEF Start, Spawn, SpawnFails, SpawnLeaks
  <2>2. [pc EXCEPT ![t] = x] \in [Threads -> States]
    OBVIOUS
  <2>3. CASE D # {}
    BY <1>9, <2>1, <2>2, <2>3
  <2>4. CASE D = {}
    <3>1. Cardinality(all) < PoolSize /\ pc' = [pc EXCEPT ![t] = x]
      <4>1. all \ D = all
        BY <2>4
      <4> QED BY <2>1, <2>4, <4>1 DEF Retire
    <3>2. Cardinality(all) \in Nat
      BY FS_Subset, FS_CardinalityType
    <3>3. In(Blocked) = {}
      BY <3>1, <3>2 DEF Waiters, NoStrandedWaiter
    <3> QED BY <3>1, <3>3, AllAwake DEF In
  <2> QED BY <2>3, <2>4
<1>12. ASSUME NEW t \in Threads, Wait(t) \/ TimeOut(t) PROVE Waiters'
  <2>1. Cardinality(all') >= PoolSize /\ idle' = {} /\ ~shutdown'
    BY <1>12 DEF Wait, TimeOut, Looking
  <2>2. IsFiniteSet(In(Notified)')
    BY FS_Subset DEF In
  <2>3. Cardinality(idle') = 0 /\ Cardinality(In(Notified)') \in Nat
    BY <2>1, <2>2, FS_EmptySet, FS_CardinalityType
  <2> QED BY <2>1, <2>3 DEF Waiters, NoStrandedWaiter
<1>13. ASSUME NEW t \in Threads, PutBack(t) PROVE Waiters'
  <2> DEFINE p == [pc EXCEPT ![t] = "idle"]
  <2>1. /\ pc[t] = "release" /\ pc' \in NotifyOne(p)
        /\ idle' = idle \cup {held[t]} /\ UNCHANGED <<all, shutdown>> /\ ~shutdown
    BY <1>13 DEF PutBack
  <2>2. held[t] \notin idle
    BY DEF Exclusive
  <2>3. CASE \A u \in Threads : p[u] \notin Blocked
    <3>1. pc' = p
      BY <2>1, <2>3 DEF NotifyOne
    <3> QED BY <2>3, <3>1, AllAwake
  <2>4. CASE \E u \in Threads : p[u] \in Blocked
    <3>1. PICK u \in Threads : p[u] \in Blocked /\ pc' = [p EXCEPT ![u] = Woken(@)]
      BY <2>1, <2>4 DEF NotifyOne
    <3>2. In(Notified)' = In(Notified) \cup {u} /\ u \notin In(Notified) /\ u \in In(Blocked)
      BY <2>1, <3>1 DEF In, Woken
    <3>3. IsFiniteSet(In(Notified)) /\ IsFiniteSet(idle)
      BY FS_Subset DEF In
    <3>4. Cardinality(In(Notified)') = Cardinality(In(Notified)) + 1
      BY <3>2, <3>3, FS_AddElement
    <3>5. Cardinality(idle') = Cardinality(idle) + 1
      BY <2>1, <2>2, <3>3, FS_AddElement
    <3>6. Cardinality(In(Notified)) \in Nat /\ Cardinality(idle) \in Nat
      BY <3>3, FS_CardinalityType
    <3> QED BY <2>1, <3>2, <3>4, <3>5, <3>6 DEF Waiters, NoStrandedWaiter
  <2> QED BY <2>3, <2>4
<1> QED
  BY <1>2, <1>3, <1>4, <1>5, <1>6, <1>7, <1>8, <1>10, <1>11, <1>12, <1>13
     DEF Next, Enter, Talk, Return

-----------------------------------------------------------------------------
\* In every reachable state the pool's variables have their types; that a
\* worker's count never passes MAX_REQUESTS_PER_WORKER is the part that needs
\* the rest of Inv (_release and the reuse of idle workers).
THEOREM TypeCorrect == Spec => []TypeOK
  BY AlwaysInv, PTL DEF Inv

\* A child answers one caller at a time (_acquire, _release, _forget).
THEOREM ExclusiveHolds == Spec => []Exclusive
  BY AlwaysInv, PTL DEF Inv

\* No slot of the pool leaks, whichever way requests fail (_send, _forget).
THEOREM CapacityKept == Spec => []NoLostCapacity
<1>1. Inv => NoLostCapacity
  BY SlotsAreCapacity DEF Inv
<1> QED BY <1>1, AlwaysInv, PTL

\* Every live child is known to someone who stops it (_terminate_all), but for
\* those whose start() raised after they were made.
THEOREM NoOrphans == Spec => []NoOrphan
<1>1. Known => NoOrphan
  BY DEF Known
<1> QED BY <1>1, AlwaysInv, InitKnown, StepKnown, PTL DEF Spec

\* There are never more than WORKER_POOL_SIZE live children (_acquire), those
\* lost by a start() that raised not counted.
THEOREM ChildrenBounded == Spec => []BoundedChildren
<1> QED BY AlwaysInv, InitKnown, StepKnown, InitBounded, StepBounded, PTL DEF Spec

\* No wake-up is lost (_lock.notify in _release, notify_all in _forget).
THEOREM NobodyStranded == Spec => []NoStrandedWaiter
<1>1. Waiters => NoStrandedWaiter
  BY DEF Waiters
<1> QED BY <1>1, AlwaysInv, InitWaiters, StepWaiters, PTL DEF Spec
=============================================================================
