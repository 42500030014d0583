--------------------------- MODULE TokenizerPool ---------------------------
(***************************************************************************)
(* The pool of sandboxed tokenizer children, src/trustsight/sandbox/       *)
(* client.py: _acquire, _release, _forget, _terminate_all,                 *)
(* reset_after_fork and the part of _send that drives them.                *)
(*                                                                         *)
(* Every critical section of the condition variable _lock is one action.   *)
(* A child process may die between any two of them.  A thread blocked in   *)
(* _lock.wait is "waiting" until it is notified ("woken") or its deadline  *)
(* passes ("expired").  One whose wait has timed out stays in the          *)
(* condition's list of waiters until it holds the lock again, so a notify  *)
(* can still be spent on it.  The order of the two queues (idle workers,   *)
(* waiters) is abstracted: any member may be the next.  A stop() is taken  *)
(* to kill.                                                                *)
(***************************************************************************)
EXTENDS Naturals, FiniteSets

CONSTANTS
  Threads,       \* analysis threads that may call the tokenizer
  Workers,       \* identities of _Worker objects, reused once stopped
  Watched,       \* the threads whose requests EveryRequestEnds follows
  NoWorker,      \* what a thread holds when it holds no worker
  PoolSize,      \* WORKER_POOL_SIZE
  MaxRequests,   \* MAX_REQUESTS_PER_WORKER
  MaxLeaks       \* bound on the children alive at once that a failed start() lost

ASSUME PoolAssumption ==
  /\ IsFiniteSet(Threads)
  /\ IsFiniteSet(Workers)
  /\ Watched \subseteq Threads
  /\ NoWorker \notin Workers
  /\ PoolSize \in Nat \ {0}
  /\ MaxRequests \in Nat \ {0}
  /\ MaxLeaks \in Nat

VARIABLES
  pc,        \* pc[t]: what thread t is doing
  held,      \* held[t]: the worker t took out of the pool, or NoWorker
  idle,      \* _pool, the queue of idle workers
  all,       \* _all, the workers that count against PoolSize
  proc,      \* proc[w]: "none" (stopped or unborn), "alive" or "dead"
  requests,  \* requests[w]: what w's live child has answered (not read after it)
  shutdown,  \* _shutdown
  killing,   \* workers _terminate_all has listed and not yet stopped
  leaked     \* live children whose start() raised after they were made

vars == <<pc, held, idle, all, proc, requests, shutdown, killing, leaked>>

-----------------------------------------------------------------------------
Blocked  == {"waiting", "expired"}           \* listed by the condition
Notified == {"woken", "late"}                \* no longer listed, runnable
Overdue  == {"expired", "late"}              \* the deadline has passed
Entering == {"acquire", "expired"} \cup Notified  \* about to run _acquire's loop
Holding  == {"using", "release", "stop", "forget"}

In(states) == {t \in Threads : pc[t] \in states}

Alive(w) == proc[w] = "alive"

Unborn == {w \in Workers \ (all \cup killing) :
             proc[w] = "none" /\ \A t \in Threads : held[t] # w}

\* A new _Worker, made when those in D are stopped.  A name is only a name: one
\* of the free ones stands for all.
Newborn(D) ==
  LET free == Unborn \cup D
  IN  IF free = {} THEN {} ELSE {CHOOSE w \in free : TRUE}

Woken(state) == IF state = "expired" THEN "late" ELSE "woken"

\* _lock.notify_all(): every listed waiter becomes runnable.
NotifyAll(p) == [t \in Threads |-> IF p[t] \in Blocked THEN Woken(p[t]) ELSE p[t]]

\* _lock.notify(): one listed waiter, if there is any, becomes runnable.
NotifyOne(p) ==
  LET listed == {t \in Threads : p[t] \in Blocked}
  IN  IF listed = {} THEN {p} ELSE {[p EXCEPT ![t] = Woken(@)] : t \in listed}

Looking(t) == pc[t] \in Entering /\ ~shutdown

\* What _pool.get_nowait() leaves _acquire without a live worker: nothing when
\* the queue is empty, or one worker that died while it was idle.
Misses == IF idle = {} THEN {{}} ELSE {{d} : d \in {w \in idle : ~Alive(w)}}

\* The worker in D is stopped and forgotten, which wakes every waiter; the
\* other idle workers stay where they are.
Stopped(D) == [w \in Workers |-> IF w \in D THEN "none" ELSE proc[w]]

Retire(D, p) ==
  /\ idle' = idle \ D
  /\ pc' = IF D = {} THEN p ELSE NotifyAll(p)

Init ==
  /\ pc = [t \in Threads |-> "idle"]
  /\ held = [t \in Threads |-> NoWorker]
  /\ idle = {}
  /\ all = {}
  /\ proc = [w \in Workers |-> "none"]
  /\ requests = [w \in Workers |-> 0]
  /\ shutdown = FALSE
  /\ killing = {}
  /\ leaked = {}

-----------------------------------------------------------------------------
(* Plausible bugs, each checked to break a property when it stands in for  *)
(* the action its comment names.                                           *)

\* _release without the request limit.
PutBackUnlimited(t) ==
  /\ pc[t] = "release"
  /\ ~shutdown
  /\ Alive(held[t])
  /\ idle' = idle \cup {held[t]}
  /\ held' = [held EXCEPT ![t] = NoWorker]
  /\ pc' \in NotifyOne([pc EXCEPT ![t] = "idle"])
  /\ UNCHANGED <<all, proc, requests, shutdown, killing, leaked>>

\* _release that puts the worker back for a request that failed, too.
FailKeeps(t) ==
  /\ pc[t] = "using"
  /\ pc' = [pc EXCEPT ![t] = "idle"]
  /\ idle' = idle \cup {held[t]}
  /\ UNCHANGED <<held, all, proc, requests, shutdown, killing, leaked>>

\* The failure path stops the worker and does not forget it.
StopOnly(t) ==
  /\ pc[t] = "stop"
  /\ proc' = [proc EXCEPT ![held[t]] = "none"]
  /\ held' = [held EXCEPT ![t] = NoWorker]
  /\ requests' = [requests EXCEPT ![held[t]] = 0]
  /\ pc' = [pc EXCEPT ![t] = "idle"]
  /\ UNCHANGED <<idle, all, shutdown, killing, leaked>>

\* The slot is given away before the child is stopped.
GiveUpEarly(t) ==
  /\ pc[t] = "release"
  /\ all' = all \ {held[t]}
  /\ pc' = NotifyAll([pc EXCEPT ![t] = "stop"])
  /\ UNCHANGED <<held, idle, proc, requests, shutdown, killing, leaked>>

\* _terminate_all clears the list before it copies it.
TerminateNone ==
  /\ ~shutdown
  /\ shutdown' = TRUE
  /\ killing' = {}
  /\ all' = {}
  /\ pc' = NotifyAll(pc)
  /\ UNCHANGED <<held, idle, proc, requests, leaked>>

\* The deadline is looked at before the queue.
TimeOutFirst(t) ==
  /\ pc[t] \in Overdue
  /\ ~shutdown
  /\ pc' = [pc EXCEPT ![t] = "idle"]
  /\ UNCHANGED <<held, idle, all, proc, requests, shutdown, killing, leaked>>

\* A thread whose wait timed out waits again, for as long as it takes.
TimeOutRetries(t) ==
  /\ Looking(t)
  /\ idle = {}
  /\ Cardinality(all) >= PoolSize
  /\ pc' = [pc EXCEPT ![t] = "waiting"]
  /\ UNCHANGED <<held, idle, all, proc, requests, shutdown, killing, leaked>>

-----------------------------------------------------------------------------
\* A cache miss in request(): the deadline is set and the pool is entered.
Call(t) ==
  /\ pc[t] = "idle"
  /\ pc' = [pc EXCEPT ![t] = "acquire"]
  /\ UNCHANGED <<held, idle, all, proc, requests, shutdown, killing, leaked>>

\* The worker _acquire takes from the queue is alive: it is handed out.
TakeIdle(t) ==
  /\ Looking(t)
  /\ \E w \in idle :
       /\ Alive(w)
       /\ idle' = idle \ {w}
       /\ held' = [held EXCEPT ![t] = w]
  /\ pc' = [pc EXCEPT ![t] = "using"]
  /\ UNCHANGED <<all, proc, requests, shutdown, killing, leaked>>

\* It took none, or a dead one whose slot it freed; a slot is free and a child
\* starts in it, whatever else is idle.
Spawn(t) ==
  /\ Looking(t)
  /\ \E D \in Misses : \E w \in Newborn(D) :
       /\ Cardinality(all \ D) < PoolSize
       /\ held' = [held EXCEPT ![t] = w]
       /\ all' = (all \ D) \cup {w}
       /\ proc' = [Stopped(D) EXCEPT ![w] = "alive"]
       /\ Retire(D, [pc EXCEPT ![t] = "using"])
  /\ UNCHANGED <<requests, shutdown, killing, leaked>>

\* A slot is free and spawn_isolated fails (OSError): refuse.
SpawnFails(t) ==
  /\ Looking(t)
  /\ \E D \in Misses :
       /\ Cardinality(all \ D) < PoolSize
       /\ all' = all \ D
       /\ proc' = Stopped(D)
       /\ Retire(D, [pc EXCEPT ![t] = "idle"])
  /\ UNCHANGED <<held, requests, shutdown, killing, leaked>>

\* A slot is free and the child is made, but the thread that drains its stderr
\* cannot be started: the RuntimeError is not an OSError and leaves _acquire
\* before the worker is listed.  The child lives on until the collector closes
\* its stdin (Die).
SpawnLeaks(t) ==
  /\ Looking(t)
  /\ Cardinality(leaked) < MaxLeaks
  /\ \E D \in Misses : \E w \in Newborn(D) :
       /\ Cardinality(all \ D) < PoolSize
       /\ all' = all \ D
       /\ proc' = [Stopped(D) EXCEPT ![w] = "alive"]
       /\ leaked' = leaked \cup {w}
       /\ Retire(D, [pc EXCEPT ![t] = "idle"])
  /\ UNCHANGED <<held, requests, shutdown, killing>>

\* The queue is empty and every slot taken (retiring a dead worker would have
\* freed one): wait for capacity ...
Wait(t) ==
  /\ Looking(t)
  /\ idle = {}
  /\ Cardinality(all) >= PoolSize
  /\ pc[t] \notin Overdue
  /\ pc' = [pc EXCEPT ![t] = "waiting"]
  /\ UNCHANGED <<held, idle, all, proc, requests, shutdown, killing, leaked>>

\* ... or, when the deadline has passed, refuse.
TimeOut(t) ==
  /\ Looking(t)
  /\ idle = {}
  /\ Cardinality(all) >= PoolSize
  /\ pc' = [pc EXCEPT ![t] = "idle"]
  /\ UNCHANGED <<held, idle, all, proc, requests, shutdown, killing, leaked>>

\* The pool is shutting down: refuse.
Refuse(t) ==
  /\ pc[t] \in Entering
  /\ shutdown
  /\ pc' = [pc EXCEPT ![t] = "idle"]
  /\ UNCHANGED <<held, idle, all, proc, requests, shutdown, killing, leaked>>

\* The timeout of _lock.wait runs out before a notify arrives.
Expire(t) ==
  /\ pc[t] = "waiting"
  /\ pc' = [pc EXCEPT ![t] = "expired"]
  /\ UNCHANGED <<held, idle, all, proc, requests, shutdown, killing, leaked>>

-----------------------------------------------------------------------------
\* _send: the child answers in time.
Respond(t) ==
  /\ pc[t] = "using"
  /\ Alive(held[t])
  /\ requests' = [requests EXCEPT ![held[t]] = @ + 1]
  /\ pc' = [pc EXCEPT ![t] = "release"]
  /\ UNCHANGED <<held, idle, all, proc, shutdown, killing, leaked>>

\* _send: the child died, timed out or answered nonsense.
Fail(t) ==
  /\ pc[t] = "using"
  /\ pc' = [pc EXCEPT ![t] = "stop"]
  /\ UNCHANGED <<held, idle, all, proc, requests, shutdown, killing, leaked>>

\* _release puts a worker that is still fit back and wakes one waiter.
PutBack(t) ==
  /\ pc[t] = "release"
  /\ ~shutdown
  /\ Alive(held[t])
  /\ requests[held[t]] < MaxRequests
  /\ idle' = idle \cup {held[t]}
  /\ held' = [held EXCEPT ![t] = NoWorker]
  /\ pc' \in NotifyOne([pc EXCEPT ![t] = "idle"])
  /\ UNCHANGED <<all, proc, requests, shutdown, killing, leaked>>

\* _release retires it instead: unfit, shutting down, or its CPU is spent
\* (which the model does not measure, so it may always be).
GiveUp(t) ==
  /\ pc[t] = "release"
  /\ pc' = [pc EXCEPT ![t] = "stop"]
  /\ UNCHANGED <<held, idle, all, proc, requests, shutdown, killing, leaked>>

\* worker.stop(), outside the lock.
Stop(t) ==
  /\ pc[t] = "stop"
  /\ proc' = [proc EXCEPT ![held[t]] = "none"]
  /\ requests' = [requests EXCEPT ![held[t]] = 0]
  /\ pc' = [pc EXCEPT ![t] = "forget"]
  /\ UNCHANGED <<held, idle, all, shutdown, killing, leaked>>

\* _forget(worker): the slot is free again, everyone waiting is told.
Forget(t) ==
  /\ pc[t] = "forget"
  /\ all' = all \ {held[t]}
  /\ held' = [held EXCEPT ![t] = NoWorker]
  /\ pc' = NotifyAll([pc EXCEPT ![t] = "idle"])
  /\ UNCHANGED <<idle, proc, requests, shutdown, killing, leaked>>

-----------------------------------------------------------------------------
\* _terminate_all, at exit: the critical section, then one stop per worker.
TerminateAll ==
  /\ ~shutdown
  /\ shutdown' = TRUE
  /\ killing' = all
  /\ all' = {}
  /\ pc' = NotifyAll(pc)
  /\ UNCHANGED <<held, idle, proc, requests, leaked>>

Kill(w) ==
  /\ w \in killing
  /\ proc' = [proc EXCEPT ![w] = "none"]
  /\ requests' = [requests EXCEPT ![w] = 0]
  /\ killing' = killing \ {w}
  /\ UNCHANGED <<pc, held, idle, all, shutdown, leaked>>

\* reset_after_fork, in the child: none of the parent's other threads exist
\* here and its processes are not this process's to stop.
ResetAfterFork ==
  /\ idle' = {}
  /\ all' = {}
  /\ shutdown' = FALSE
  /\ killing' = {}
  /\ leaked' = {}
  /\ pc' = [t \in Threads |-> "idle"]
  /\ held' = [t \in Threads |-> NoWorker]
  /\ proc' = [w \in Workers |-> "none"]
  /\ requests' = [w \in Workers |-> 0]

\* A child process exits on its own: a crash, a limit, the OOM killer, or its
\* stdin closed; a lost one is then gone altogether.
Die(w) ==
  /\ Alive(w)
  /\ proc' = [proc EXCEPT ![w] = IF w \in leaked THEN "none" ELSE "dead"]
  /\ requests' = [requests EXCEPT ![w] = 0]
  /\ leaked' = leaked \ {w}
  /\ UNCHANGED <<pc, held, idle, all, shutdown, killing>>

-----------------------------------------------------------------------------
Start(t) == Spawn(t) \/ SpawnFails(t) \/ SpawnLeaks(t)
Enter(t) == TakeIdle(t) \/ Start(t) \/ Wait(t) \/ TimeOut(t) \/ Refuse(t)
Talk(t) == Respond(t) \/ Fail(t)
Return(t) == PutBack(t) \/ GiveUp(t) \/ Stop(t) \/ Forget(t)

Next ==
  \/ \E t \in Threads : Call(t) \/ Enter(t) \/ Expire(t) \/ Talk(t) \/ Return(t)
  \/ \E w \in Workers : Kill(w) \/ Die(w)
  \/ TerminateAll
  \/ ResetAfterFork

Spec == Init /\ [][Next]_vars

\* A watched thread that can run gets the lock, and its request to the child
\* ends at the deadline (weak fairness).  _acquire's deadline is set once, so a
\* thread that is woken and outrun again and again still runs into it (strong
\* fairness of Expire).  Nothing is assumed of the other threads.
Fairness ==
  \A t \in Watched :
    WF_vars(Enter(t) \/ Talk(t) \/ Return(t)) /\ SF_vars(Expire(t))

FairSpec == Spec /\ Fairness

-----------------------------------------------------------------------------
States == {"idle"} \cup Entering \cup Blocked \cup Holding

TypeOK ==
  /\ pc \in [Threads -> States]
  /\ held \in [Threads -> Workers \cup {NoWorker}]
  /\ idle \in SUBSET Workers
  /\ all \in SUBSET Workers
  /\ proc \in [Workers -> {"none", "alive", "dead"}]
  /\ requests \in [Workers -> 0..MaxRequests]
  /\ shutdown \in BOOLEAN
  /\ killing \in SUBSET Workers
  /\ leaked \in SUBSET Workers

\* A child answers one caller at a time: no two threads hold the same worker,
\* none holds one that is also queued for the next caller, and a thread holds
\* one exactly between _acquire and the end of _release or _forget.  A frame
\* of one package's answer read by another package's analysis would be the
\* result of the opposite.
Exclusive ==
  /\ \A t \in Threads : held[t] # NoWorker <=> pc[t] \in Holding
  /\ \A t \in Threads : held[t] \notin idle
  /\ \A t, u \in Threads : held[t] = held[u] => t = u \/ held[t] = NoWorker

\* No slot leaks: until shutdown, what counts against PoolSize is idle or in
\* the hands of a thread, whichever way requests fail and children die.
NoLostCapacity ==
  ~shutdown => all = idle \cup {held[t] : t \in In(Holding)}

\* The pool never runs more than PoolSize children at once: a slot is given
\* away after its child is stopped, on each of the paths that free one.  Only
\* a start() that fails after it made the child adds one that is not counted.
BoundedChildren == Cardinality({w \in Workers : Alive(w)} \ leaked) <= PoolSize

\* Every live child is known to someone who will stop it, also while the
\* process is exiting: none outlives the program.  Deaths, failed requests,
\* retirements and exit never lose one; a start() that fails half-way does.
NoOrphan ==
  \A w \in Workers :
    Alive(w) => w \in all \cup killing \cup leaked \/ \E t \in Threads : held[t] = w

\* No wake-up is lost: while a thread is blocked every slot is taken, and
\* every idle worker, alive or dead, is matched by a thread already notified to
\* fetch it, also when newcomers take, or replace, a worker before it does.  The
\* queue is looked at before the deadline, so a notify spent on a waiter that
\* has just timed out is used, not dropped.
NoStrandedWaiter ==
  In(Blocked) # {} =>
    /\ Cardinality(all) >= PoolSize
    /\ Cardinality(idle) <= Cardinality(In(Notified))

\* Every tokenizer request ends, answered or refused, however saturated the
\* pool is and whatever its children and the other threads do, were they all
\* to hold their workers for ever: a review never hangs on the sandbox.
EveryRequestEnds == \A t \in Watched : pc[t] # "idle" ~> pc[t] = "idle"

=============================================================================
