---------------------------- MODULE WorkerRuntime ----------------------------
(***************************************************************************)
(* The worker process (workers/jobs/tasks.py): Celery's threads hand their  *)
(* jobs to one asyncio loop in a thread of its own, which is started by the *)
(* first call and stopped by the worker's shutdown.  The jobs share one     *)
(* container of clients, built on the loop by the first of them.            *)
(*                                                                          *)
(* An action is what a thread does under _state_lock, or what a coroutine   *)
(* does between two awaits.                                                 *)
(***************************************************************************)
EXTENDS Naturals, FiniteSets

CONSTANTS
    Callers,       \* Celery's threads
    Stoppers,      \* threads in which shutdown_worker is called
    None,
    MaxThreads     \* bound: loop threads created

ASSUME RuntimeAssumption ==
    /\ MaxThreads \in Nat
    /\ None \notin Nat
    /\ IsFiniteSet(Callers)
    /\ None \notin Callers
    /\ None \notin Nat \X Callers

Threads == 1..MaxThreads

VARIABLES
    thread,      \* _thread: the loop's thread, by its number
    loop,        \* _loop, _stop_event: the thread that has published them
    failed,      \* _startup_error is set
    active,      \* _active_calls
    stopping,    \* _stopping
    life,        \* of each thread; "absent" before it is created
    ready,       \* threads whose _ready event is set
    signalled,   \* threads whose stop_event is set
    call,        \* each caller: where it is, and the thread it waits for or runs on
    stop,        \* each stopper: where it is, and the thread it captured
    container,   \* _container
    builder,     \* the coroutine that holds _container_lock
    open         \* containers built and not shut down

fields == <<thread, loop, failed, active, stopping>>
threads == <<life, ready, signalled>>
clients == <<container, builder, open>>
vars == <<fields, threads, call, stop, clients>>

-----------------------------------------------------------------------------
Lives == {"absent", "starting", "serving", "failing", "leaving", "dead"}
Alive(t) == life[t] \notin {"absent", "dead"}

Containers == Threads \X Callers     \* by the loop and the call that built them

OnLoop == {"queued", "building", "using", "done"}
Accepted == {c \in Callers : call[c].at \in {"accepted"} \cup OnLoop}

CallStates ==
    [at : {"idle", "waiting", "started", "accepted"} \cup OnLoop, on : Threads \cup {None}]
StopStates ==
    [at : {"idle", "draining", "stopping", "disposing", "joining", "following"},
     on : Threads \cup {None}, loop : Threads \cup {None}, old : Containers \cup {None}]

TypeOK ==
    /\ thread \in Threads \cup {None} /\ loop \in Threads \cup {None}
    /\ failed \in BOOLEAN /\ stopping \in BOOLEAN
    /\ active \in Nat
    /\ life \in [Threads -> Lives]
    /\ ready \subseteq Threads /\ signalled \subseteq Threads
    /\ call \in [Callers -> CallStates]
    /\ stop \in [Stoppers -> StopStates]
    /\ container \in Containers \cup {None}
    /\ builder \in Callers \cup {None}
    /\ open \subseteq Containers

Away == [at |-> "idle", on |-> None]
NotStopping == [at |-> "idle", on |-> None, loop |-> None, old |-> None]

Init ==
    /\ thread = None /\ loop = None /\ failed = FALSE /\ active = 0 /\ stopping = FALSE
    /\ life = [t \in Threads |-> "absent"]
    /\ ready = {} /\ signalled = {}
    /\ call = [c \in Callers |-> Away]
    /\ stop = [s \in Stoppers |-> NotStopping]
    /\ container = None /\ builder = None /\ open = {}

Goes(c, at) == call' = [call EXCEPT ![c].at = at]
Leaves(c) == call' = [call EXCEPT ![c] = Away]

-----------------------------------------------------------------------------
(* start(): there is a loop; or a thread has yet to publish one, and is     *)
(* waited for; or there is none, and one is created under the lock.  A call *)
(* that arrives while the runtime is stopping is refused and changes        *)
(* nothing.                                                                 *)
FindLoop(c) ==
    /\ call[c].at = "idle" /\ ~stopping
    /\ thread # None /\ loop # None
    /\ Alive(thread)
    /\ Goes(c, "started")
    /\ UNCHANGED <<fields, threads, stop, clients>>

FindThread(c) ==
    /\ call[c].at = "idle" /\ ~stopping
    /\ thread # None /\ loop = None
    /\ Alive(thread)
    /\ call' = [call EXCEPT ![c] = [at |-> "waiting", on |-> thread]]
    /\ UNCHANGED <<fields, threads, stop, clients>>

StartThread(c) ==
    /\ call[c].at = "idle" /\ ~stopping
    /\ thread # None => ~Alive(thread)
    /\ \E t \in Threads :
        /\ life[t] = "absent" /\ \A u \in Threads : u < t => life[u] # "absent"
        /\ thread' = t
        /\ life' = [life EXCEPT ![t] = "starting"]
        /\ call' = [call EXCEPT ![c] = [at |-> "waiting", on |-> t]]
    /\ loop' = None /\ failed' = FALSE
    /\ UNCHANGED <<active, stopping, ready, signalled, stop, clients>>

(* The event of the thread waited for is set.  What is there now decides:   *)
(* another call may have created another thread meanwhile. *)
Wake(c) ==
    /\ call[c].at = "waiting" /\ call[c].on \in ready
    /\ IF ~failed /\ thread # None /\ loop # None /\ Alive(thread)
       THEN Goes(c, "started")
       ELSE Leaves(c)
    /\ UNCHANGED <<fields, threads, stop, clients>>

(* run(): the call is counted, or refused. *)
Accept(c) ==
    /\ call[c].at = "started"
    /\ IF ~stopping /\ loop # None /\ life[loop] = "serving"
       THEN call' = [call EXCEPT ![c] = [at |-> "accepted", on |-> loop]] /\ active' = active + 1
       ELSE Leaves(c) /\ active' = active
    /\ UNCHANGED <<thread, loop, failed, stopping, threads, stop, clients>>

-----------------------------------------------------------------------------
(* The job's coroutine on the loop: _get_container_async.  A coroutine that *)
(* finds the container, or the lock free, goes on without an await.         *)
BuildTwice(c) ==                                                  \* mutant
    /\ \/ call[c].at = "accepted" /\ container = None
       \/ call[c].at = "queued"
    /\ builder = None
    /\ builder' = c /\ Goes(c, "building")
    /\ UNCHANGED <<fields, threads, stop, container, open>>
StartBuilding(c) ==
    /\ call[c].at \in {"accepted", "queued"}
    /\ container = None /\ builder = None
    /\ builder' = c /\ Goes(c, "building")
    /\ UNCHANGED <<fields, threads, stop, container, open>>

AwaitLock(c) ==
    /\ call[c].at = "accepted"
    /\ container = None /\ builder # None
    /\ Goes(c, "queued")
    /\ UNCHANGED <<fields, threads, stop, clients>>

FindContainer(c) ==
    /\ \/ call[c].at = "accepted"
       \/ call[c].at = "queued" /\ builder = None
    /\ container # None
    /\ Goes(c, "using")
    /\ UNCHANGED <<fields, threads, stop, clients>>

(* build_worker_container ends; it raises when a secret is not to be had. *)
Built(c) ==
    /\ call[c].at = "building"
    /\ container' = <<call[c].on, c>> /\ open' = open \cup {<<call[c].on, c>>}
    /\ builder' = None /\ Goes(c, "using")
    /\ UNCHANGED <<fields, threads, stop>>

BuildFails(c) ==
    /\ call[c].at = "building"
    /\ builder' = None /\ Goes(c, "done")
    /\ UNCHANGED <<fields, threads, stop, container, open>>

(* The job returns, or raises into Celery's retry: either way its thread    *)
(* goes on from future.result(). *)
JobEnds(c) ==
    /\ call[c].at = "using"
    /\ Goes(c, "done")
    /\ UNCHANGED <<fields, threads, stop, clients>>

Return(c) ==
    /\ call[c].at = "done"
    /\ active' = active - 1 /\ Leaves(c)
    /\ UNCHANGED <<thread, loop, failed, stopping, threads, stop, clients>>

-----------------------------------------------------------------------------
(* The loop's thread: _serve publishes the loop, then sets the event, and   *)
(* the loop runs until it is told to stop.  It may fail to start.           *)
Publish(t) ==
    /\ life[t] = "starting"
    /\ loop' = t
    /\ life' = [life EXCEPT ![t] = "serving"]
    /\ UNCHANGED <<thread, failed, active, stopping, ready, signalled, call, stop, clients>>

StartFails(t) ==
    /\ life[t] = "starting"
    /\ failed' = TRUE
    /\ life' = [life EXCEPT ![t] = "failing"]
    /\ UNCHANGED <<thread, loop, active, stopping, ready, signalled, call, stop, clients>>

SetReadyWhenServing(t) ==                                         \* mutant
    /\ life[t] = "serving" /\ t \notin ready
    /\ ready' = ready \cup {t}
    /\ UNCHANGED <<fields, life, signalled, call, stop, clients>>
SetReady(t) ==
    /\ life[t] \in {"serving", "failing"} /\ t \notin ready
    /\ ready' = ready \cup {t}
    /\ UNCHANGED <<fields, life, signalled, call, stop, clients>>

LoopEnds(t) ==
    /\ \/ life[t] = "serving" /\ t \in signalled
       \/ life[t] = "failing"
    /\ t \in ready
    /\ life' = [life EXCEPT ![t] = "leaving"]
    /\ UNCHANGED <<fields, ready, signalled, call, stop, clients>>

ThreadEnds(t) ==
    /\ life[t] = "leaving"
    /\ life' = [life EXCEPT ![t] = "dead"]
    /\ UNCHANGED <<fields, ready, signalled, call, stop, clients>>

-----------------------------------------------------------------------------
(* stop(): the first one waits until nobody is counted and captures the     *)
(* loop as it then is; another joins the thread and returns.                *)
Captures(s, t) ==
    stop' = [stop EXCEPT ![s] = [NotStopping EXCEPT !.at = "stopping", !.on = t, !.loop = loop]]

StopWithoutDraining(s) ==                                         \* mutant
    /\ stop[s].at = "idle" /\ thread # None /\ ~stopping
    /\ stopping' = TRUE
    /\ Captures(s, thread)
    /\ UNCHANGED <<thread, loop, failed, active, threads, call, clients>>
Stop(s) ==
    /\ stop[s].at = "idle" /\ thread # None /\ ~stopping
    /\ stopping' = TRUE
    /\ IF active = 0 THEN Captures(s, thread)
       ELSE stop' = [stop EXCEPT ![s] = [NotStopping EXCEPT !.at = "draining", !.on = thread]]
    /\ UNCHANGED <<thread, loop, failed, active, threads, call, clients>>

Drained(s) ==
    /\ stop[s].at = "draining" /\ active = 0
    /\ Captures(s, stop[s].on)
    /\ UNCHANGED <<fields, threads, call, clients>>

Follow(s) ==
    /\ stop[s].at = "idle" /\ thread # None /\ stopping
    /\ stop' = [stop EXCEPT ![s] = [NotStopping EXCEPT !.at = "following", !.on = thread]]
    /\ UNCHANGED <<fields, threads, call, clients>>

Running(t) == t # None /\ life[t] = "serving"

(* _shutdown_container_async, on the loop: the reference first. *)
Dispose(s) ==
    /\ stop[s].at = "stopping" /\ Running(stop[s].loop)
    /\ container' = None
    /\ stop' = [stop EXCEPT ![s].at = "disposing", ![s].old = container]
    /\ UNCHANGED <<fields, threads, call, builder, open>>

(* The clients are closed, their lock forgotten; the loop is told to stop. *)
Disposed(s) ==
    /\ stop[s].at = "disposing"
    /\ open' = open \ {stop[s].old} /\ builder' = None
    /\ signalled' = signalled \cup {stop[s].loop}
    /\ stop' = [stop EXCEPT ![s].at = "joining"]
    /\ UNCHANGED <<fields, life, ready, call, container>>

(* No loop was published when this looked: nobody is told to stop. *)
NothingToStop(s) ==
    /\ stop[s].at = "stopping" /\ ~Running(stop[s].loop)
    /\ stop' = [stop EXCEPT ![s].at = "joining"]
    /\ UNCHANGED <<fields, threads, call, clients>>

Join(s) ==
    /\ stop[s].at = "joining" /\ life[stop[s].on] = "dead"
    /\ thread' = None /\ loop' = None /\ failed' = FALSE /\ active' = 0 /\ stopping' = FALSE
    /\ stop' = [stop EXCEPT ![s] = NotStopping]
    /\ UNCHANGED <<threads, call, clients>>

JoinOther(s) ==
    /\ stop[s].at = "following" /\ life[stop[s].on] = "dead"
    /\ stop' = [stop EXCEPT ![s] = NotStopping]
    /\ UNCHANGED <<fields, threads, call, clients>>

-----------------------------------------------------------------------------
Arrives(c) == FindLoop(c) \/ FindThread(c) \/ StartThread(c)
Coroutine(c) ==
    \/ StartBuilding(c) \/ AwaitLock(c) \/ FindContainer(c)
    \/ Built(c) \/ BuildFails(c) \/ JobEnds(c)
Serves(t) == Publish(t) \/ StartFails(t) \/ SetReady(t) \/ LoopEnds(t) \/ ThreadEnds(t)
Stopping(s) == Drained(s) \/ Dispose(s) \/ Disposed(s) \/ NothingToStop(s) \/ Join(s) \/ JoinOther(s)

Next ==
    \/ \E c \in Callers : Arrives(c) \/ Wake(c) \/ Accept(c) \/ Coroutine(c) \/ Return(c)
    \/ \E t \in Threads : Serves(t)
    \/ \E s \in Stoppers : Stop(s) \/ Follow(s) \/ Stopping(s)

(* Threads are scheduled, jobs and builds end; nobody has to call.          *)
Fairness ==
    /\ \A c \in Callers : WF_vars(Wake(c) \/ Accept(c) \/ Return(c)) /\ SF_vars(Coroutine(c))
    /\ \A t \in Threads : WF_vars(Serves(t))
    /\ \A s \in Stoppers : WF_vars(Stopping(s))

Spec == Init /\ [][Next]_vars /\ Fairness

-----------------------------------------------------------------------------
(* A call that was accepted runs to its end: while it is counted its loop is *)
(* the one there is, serves, and has not been told to stop, whenever the     *)
(* shutdown comes.  (stop, "drain work".)                                    *)
RunsToTheEnd ==
    \A c \in Accepted : /\ call[c].on = loop
                        /\ life[loop] = "serving"
                        /\ loop \notin signalled

(* There is one container, however many jobs arrive at once: a job works     *)
(* with one that is open and was built on its own loop, and the runtime that *)
(* stopped leaves none open and no thread behind.  (_get_container_async,    *)
(* _shutdown_container_async.)                                               *)
SharedContainer ==
    /\ Cardinality(open) <= 1
    /\ \A c \in Callers : call[c].at = "using" =>
          container \in open /\ container[1] = call[c].on
    /\ thread = None => open = {} /\ \A t \in Threads : ~Alive(t)

(* Every call returns and every shutdown ends, but for one that looked for   *)
(* the loop before the new thread had published it: it tells nobody to stop  *)
(* and waits for a thread that serves for ever.  (start, run, stop.)         *)
Blind == \E s \in Stoppers : stop[s].at = "joining" /\ stop[s].loop = None /\ Alive(stop[s].on)

EveryoneReturns ==
    /\ \A c \in Callers : call[c].at # "idle" ~> call[c].at = "idle"
    /\ \A s \in Stoppers : stop[s].at # "idle" ~> (stop[s].at = "idle" \/ Blind)

=============================================================================
