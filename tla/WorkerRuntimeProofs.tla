------------------------- MODULE WorkerRuntimeProofs -------------------------
(***************************************************************************)
(* An accepted call runs to its end and the jobs share one container, for   *)
(* any number of task threads and of shutdowns: the inductive invariants of *)
(* WorkerRuntime and their proofs.                                          *)
(***************************************************************************)
EXTENDS WorkerRuntime, FiniteSetTheorems, TLAPS

Owners == {s \in Stoppers : stop[s].at \in {"draining", "stopping", "disposing", "joining"}}
Past == {s \in Stoppers : stop[s].at \in {"stopping", "disposing", "joining"}}

(* One shutdown at a time owns the stopping, of the thread there is; once it *)
(* has drained nobody is accepted.                                          *)
OneStop ==
    /\ \A s, u \in Owners : s = u
    /\ Owners # {} => stopping
    /\ \A s \in Owners : stop[s].on = thread /\ thread \in Threads
    /\ Past # {} => Accepted = {}
    /\ \A s \in Stoppers : stop[s].at = "disposing" =>
          /\ stop[s].loop \in Threads
          /\ life[stop[s].loop] \notin {"absent", "starting"}

(* One loop at a time: the thread there is is the only one alive, the loop  *)
(* published is its, and it has not been told to stop unless a shutdown is  *)
(* under way.                                                               *)
OneThread ==
    /\ \A t \in Threads : Alive(t) => t = thread
    /\ loop # None => loop = thread
    /\ \A t \in signalled : life[t] \notin {"absent", "starting"}
    /\ loop # None /\ ~stopping => loop \notin signalled

Counted == active = Cardinality(Accepted)

IsTyped == \A c \in Accepted : call[c].on \in Threads

IInv == TypeOK /\ OneStop /\ OneThread /\ Counted /\ IsTyped /\ RunsToTheEnd

(* The one who builds holds the lock; the container belongs to the loop     *)
(* there is, and is the only one open until a shutdown takes it, which then *)
(* holds it alone.                                                          *)
Held(kept) == IF kept = None THEN {} ELSE {kept}

OneContainer ==
    /\ \A c \in Callers : call[c].at = "building" <=> c = builder
    /\ builder # None => container = None
    /\ \A c \in Callers : call[c].at = "using" => container # None
    /\ container # None => /\ container[1] = loop /\ loop \in Threads
                          /\ life[loop] = "serving" /\ loop \notin signalled
    /\ \A s \in Stoppers :
          /\ stop[s].at = "stopping" /\ container # None => stop[s].loop = loop
          /\ stop[s].at \in {"disposing", "joining"} => container = None
          /\ stop[s].at = "disposing" => open = Held(stop[s].old)
    /\ (\A s \in Stoppers : stop[s].at # "disposing") => open = Held(container)

-----------------------------------------------------------------------------
LEMMA AcceptedIsFinite == IsFiniteSet(Accepted)
  BY RuntimeAssumption, FS_Subset, Accepted \subseteq Callers DEF Accepted

LEMMA InitIInv == Init => IInv
<1> SUFFICES ASSUME Init PROVE IInv
  OBVIOUS
<1>1. Accepted = {}
  BY DEF Init, Accepted, Away, OnLoop
<1>2. Counted
  BY <1>1, FS_EmptySet DEF Counted, Init
<1>3. TypeOK
  BY DEF Init, TypeOK, Away, NotStopping, Lives, OnLoop, CallStates, StopStates
<1>4. OneStop
  BY <1>1 DEF Init, OneStop, Owners, Past, NotStopping
<1>5. OneThread
  BY DEF Init, OneThread, Alive
<1> QED
  BY <1>1, <1>2, <1>3, <1>4, <1>5 DEF IInv, IsTyped, RunsToTheEnd

-----------------------------------------------------------------------------
(* A call is counted as it is accepted and as it returns, and at no other   *)
(* step.                                                                    *)
LEMMA Moves ==
  ASSUME TypeOK, NEW c \in Callers, NEW at,
         Goes(c, at), (call[c].at \in {"accepted"} \cup OnLoop) <=> (at \in {"accepted"} \cup OnLoop)
  PROVE  Accepted' = Accepted
  BY DEF TypeOK, Goes, Accepted, CallStates

LEMMA AcceptedStays ==
  ASSUME TypeOK, NEW c \in Callers, Arrives(c) \/ Wake(c) \/ Coroutine(c)
  PROVE  Accepted' = Accepted
<1>1. CASE FindLoop(c)
  BY <1>1, Moves DEF FindLoop, OnLoop
<1>2. CASE FindThread(c) \/ StartThread(c) \/ Wake(c)
  BY <1>2 DEF FindThread, StartThread, Wake, Accepted, OnLoop, TypeOK, CallStates, Goes, Leaves, Away
<1>3. CASE Coroutine(c)
  BY <1>3, Moves DEF Coroutine, StartBuilding, AwaitLock, FindContainer, Built, BuildFails,
                     JobEnds, OnLoop
<1> QED
  BY <1>1, <1>2, <1>3 DEF Arrives

LEMMA AcceptCounts ==
  ASSUME IInv, NEW c \in Callers, Accept(c)
  PROVE  \/ Accepted' = Accepted /\ active' = active
         \/ /\ ~stopping /\ loop # None /\ life[loop] = "serving"
            /\ Accepted' = Accepted \cup {c} /\ c \notin Accepted
            /\ active' = active + 1
            /\ call'[c].on = loop
            /\ \A d \in Callers \ {c} : call'[d] = call[d]
<1> USE DEF IInv, TypeOK, CallStates
<1>1. c \notin Accepted
  BY DEF Accept, Accepted, OnLoop
<1>2. CASE ~stopping /\ loop # None /\ life[loop] = "serving"
  <2>1. call' = [call EXCEPT ![c] = [at |-> "accepted", on |-> loop]] /\ active' = active + 1
    BY <1>2 DEF Accept
  <2>2. Accepted' = Accepted \cup {c}
    BY <2>1 DEF Accepted, OnLoop
  <2> QED
    BY <1>1, <1>2, <2>1, <2>2
<1>3. CASE ~(~stopping /\ loop # None /\ life[loop] = "serving")
  <2>1. call' = [call EXCEPT ![c] = Away] /\ active' = active
    BY <1>3 DEF Accept, Leaves
  <2>2. Accepted' = Accepted
    BY <2>1, <1>1 DEF Accepted, OnLoop, Away
  <2> QED
    BY <2>1, <2>2
<1> QED
  BY <1>2, <1>3

LEMMA ReturnCounts ==
  ASSUME IInv, NEW c \in Callers, Return(c)
  PROVE  /\ c \in Accepted /\ Accepted' = Accepted \ {c}
         /\ active' = active - 1
         /\ \A d \in Callers \ {c} : call'[d] = call[d]
  BY DEF IInv, TypeOK, CallStates, Return, Leaves, Away, Accepted, OnLoop

(* Whatever a thread of the loop or a shutdown does, no call changes.       *)
LEMMA OthersKeepCalls ==
  ASSUME (\E t \in Threads : Serves(t)) \/ (\E s \in Stoppers : Stop(s) \/ Follow(s) \/ Stopping(s))
  PROVE  call' = call /\ Accepted' = Accepted
  BY DEF Serves, Publish, StartFails, SetReady, LoopEnds, ThreadEnds, Stop, Follow, Stopping,
         Drained, Dispose, Disposed, NothingToStop, Join, JoinOther, Accepted

-----------------------------------------------------------------------------
LEMMA CountedStep ==
  ASSUME IInv, Next
  PROVE  Counted'
<1> USE AcceptedIsFinite DEF Counted
<1>0. Counted
  BY DEF IInv
<1>1. ASSUME NEW c \in Callers, Arrives(c) \/ Wake(c) \/ Coroutine(c) PROVE Counted'
  <2>1. active' = active
    BY <1>1 DEF Arrives, FindLoop, FindThread, StartThread, Wake, Coroutine, StartBuilding, AwaitLock,
                FindContainer, Built, BuildFails, JobEnds, fields
  <2> QED
    BY <1>0, <1>1, <2>1, AcceptedStays DEF IInv
<1>2. ASSUME NEW c \in Callers, Accept(c) PROVE Counted'
  BY <1>0, <1>2, AcceptCounts, FS_AddElement
<1>3. ASSUME NEW c \in Callers, Return(c) PROVE Counted'
  <2>1. c \in Accepted /\ Accepted' = Accepted \ {c} /\ active' = active - 1
    BY <1>3, ReturnCounts
  <2>2. Cardinality(Accepted \ {c}) = Cardinality(Accepted) - 1
    BY <2>1, FS_RemoveElement
  <2> QED
    BY <1>0, <2>1, <2>2
<1>4. ASSUME NEW t \in Threads, Serves(t) PROVE Counted'
  <2>1. active' = active
    BY <1>4 DEF Serves, Publish, StartFails, SetReady, LoopEnds, ThreadEnds, fields
  <2> QED
    BY <1>0, <1>4, <2>1, OthersKeepCalls
<1>5. ASSUME NEW s \in Stoppers, Stop(s) \/ Follow(s) \/ Stopping(s) PROVE Counted'
  <2>1. Accepted' = Accepted
    BY <1>5, OthersKeepCalls
  <2>2. CASE Join(s)
    <3>1. Accepted = {}
      BY <2>2 DEF IInv, OneStop, Past, Join
    <3>2. active' = 0
      BY <2>2 DEF Join
    <3> QED
      BY <3>1, <3>2, <2>1, FS_EmptySet
  <2>3. CASE ~Join(s)
    BY <1>0, <1>5, <2>1, <2>3 DEF Stop, Follow, Stopping, Drained, Dispose, Disposed, NothingToStop,
                             JoinOther, fields
  <2> QED
    BY <2>2, <2>3
<1> QED
  BY <1>1, <1>2, <1>3, <1>4, <1>5 DEF Next

LEMMA TypeStep ==
  ASSUME IInv, Next
  PROVE  TypeOK'
<1> USE DEF TypeOK
<1>0. TypeOK
  BY DEF IInv
<1>a. ASSUME NEW c \in Callers, NEW at \in {"idle", "waiting", "started", "accepted"} \cup OnLoop,
              Goes(c, at)
      PROVE  call' \in [Callers -> CallStates]
  BY <1>0, <1>a DEF Goes, CallStates
<1>b. ASSUME NEW c \in Callers, Leaves(c) PROVE call' \in [Callers -> CallStates]
  BY <1>0, <1>b DEF Leaves, Away, CallStates
<1>c. ASSUME NEW s \in Stoppers, NEW t \in Threads \cup {None}, Captures(s, t)
      PROVE  stop' \in [Stoppers -> StopStates]
  BY <1>0, <1>c DEF Captures, NotStopping, StopStates
<1>d. NotStopping \in StopStates
  BY DEF NotStopping, StopStates
<1>1. ASSUME NEW c \in Callers, Arrives(c) PROVE TypeOK'
  <2>1. CASE FindLoop(c)
    BY <1>0, <1>a, <2>1 DEF FindLoop, fields, threads, clients
  <2>2. CASE FindThread(c)
    BY <1>0, <2>2 DEF FindThread, CallStates, fields, threads, clients
  <2>3. CASE StartThread(c)
    <3>1. PICK t \in Threads : /\ thread' = t
                               /\ life' = [life EXCEPT ![t] = "starting"]
                               /\ call' = [call EXCEPT ![c] = [at |-> "waiting", on |-> t]]
      BY <2>3 DEF StartThread
    <3>2. [at |-> "waiting", on |-> t] \in CallStates
      BY DEF CallStates
    <3>3. call' \in [Callers -> CallStates]
      BY <1>0, <3>1, <3>2
    <3>4. life' \in [Threads -> Lives]
      BY <1>0, <3>1 DEF Lives
    <3> QED
      BY <1>0, <2>3, <3>1, <3>3, <3>4 DEF StartThread, clients
  <2> QED
    BY <1>1, <2>1, <2>2, <2>3 DEF Arrives
<1>2. ASSUME NEW c \in Callers, Wake(c) \/ Accept(c) PROVE TypeOK'
  <2>1. CASE Wake(c)
    BY <1>0, <1>a, <1>b, <2>1 DEF Wake, fields, threads, clients
  <2>2. CASE Accept(c)
    BY <1>0, <1>b, <2>2 DEF Accept, CallStates, threads, clients
  <2> QED
    BY <1>2, <2>1, <2>2
<1>3. ASSUME NEW c \in Callers, Coroutine(c) PROVE TypeOK'
  <2>1. CASE StartBuilding(c) \/ AwaitLock(c) \/ FindContainer(c) \/ BuildFails(c) \/ JobEnds(c)
    BY <1>0, <1>a, <2>1 DEF StartBuilding, AwaitLock, FindContainer, BuildFails, JobEnds, OnLoop,
                      fields, threads, clients
  <2>2. CASE Built(c)
    <3>1. call[c].on \in Threads
      BY <1>0, <2>2 DEF Built, IInv, IsTyped, Accepted, OnLoop
    <3> QED
      BY <1>0, <1>a, <2>2, <3>1 DEF Built, OnLoop, fields, threads, Containers
  <2> QED
    BY <1>3, <2>1, <2>2 DEF Coroutine
<1>4. ASSUME NEW c \in Callers, Return(c) PROVE TypeOK'
  <2>1. active - 1 \in Nat
    <3>1. c \in Accepted
      BY <1>4, ReturnCounts
    <3>2. active # 0 /\ active \in Nat
      BY <1>0, <3>1, AcceptedIsFinite, FS_EmptySet DEF IInv, Counted
    <3> QED
      BY <3>2
  <2> QED
    BY <1>0, <1>b, <1>4, <2>1 DEF Return, threads, clients
<1>5. ASSUME NEW t \in Threads, Serves(t) PROVE TypeOK'
  BY <1>0, <1>5 DEF Serves, Publish, StartFails, SetReady, LoopEnds, ThreadEnds, Lives, fields,
                    threads, clients
<1>6. ASSUME NEW s \in Stoppers, Stop(s) \/ Follow(s) PROVE TypeOK'
  <2>1. ASSUME NEW at \in {"draining", "following"},
               stop' = [stop EXCEPT ![s] = [NotStopping EXCEPT !.at = at, !.on = thread]]
        PROVE  stop' \in [Stoppers -> StopStates]
    BY <1>0, <2>1 DEF NotStopping, StopStates
  <2>2. CASE Stop(s)
    BY <1>0, <1>c, <2>1, <2>2 DEF Stop, threads, clients
  <2>3. CASE Follow(s)
    BY <1>0, <2>1, <2>3 DEF Follow, fields, threads, clients
  <2> QED
    BY <1>6, <2>2, <2>3
<1>7. ASSUME NEW s \in Stoppers, Stopping(s) PROVE TypeOK'
  <2>1. CASE Drained(s)
    <3>1. stop[s].on \in Threads \cup {None}
      BY <1>0 DEF StopStates
    <3> QED
      BY <1>0, <1>c, <2>1, <3>1 DEF Drained, fields, threads, clients
  <2>2. CASE Dispose(s)
    <3>2. [stop[s] EXCEPT !.at = "disposing", !.old = container] \in StopStates
      BY <1>0 DEF StopStates
    <3>3. stop' = [stop EXCEPT ![s] = [stop[s] EXCEPT !.at = "disposing", !.old = container]]
      BY <1>0, <2>2 DEF Dispose
    <3>1. stop' \in [Stoppers -> StopStates]
      BY <1>0, <3>2, <3>3
    <3> QED
      BY <1>0, <2>2, <3>1 DEF Dispose, fields, threads
  <2>3. CASE NothingToStop(s)
    <3>1. stop' \in [Stoppers -> StopStates]
      BY <1>0, <2>3 DEF NothingToStop, StopStates
    <3> QED
      BY <1>0, <2>3, <3>1 DEF NothingToStop, fields, threads, clients
  <2>4. CASE Disposed(s)
    <3>1. stop[s].loop \in Threads
      BY <2>4 DEF Disposed, IInv, OneStop
    <3>2. stop' \in [Stoppers -> StopStates]
      BY <1>0, <2>4 DEF Disposed, StopStates
    <3> QED
      BY <1>0, <2>4, <3>1, <3>2 DEF Disposed, fields
  <2>5. CASE Join(s)
    BY <1>0, <1>d, <2>5 DEF Join, threads, clients
  <2>6. CASE JoinOther(s)
    BY <1>0, <1>d, <2>6 DEF JoinOther, fields, threads, clients
  <2> QED
    BY <1>7, <2>1, <2>2, <2>3, <2>4, <2>5, <2>6 DEF Stopping
<1> QED
  BY <1>1, <1>2, <1>3, <1>4, <1>5, <1>6, <1>7 DEF Next

-----------------------------------------------------------------------------
(* A thread is created only where none is alive, and then nobody is         *)
(* accepted.                                                                *)
LEMMA NobodyWithoutLoop ==
  ASSUME IInv, thread \in Threads => ~Alive(thread)
  PROVE  Accepted = {}
<1> SUFFICES ASSUME NEW c \in Accepted PROVE FALSE
  OBVIOUS
<1>1. loop \in Threads /\ life[loop] = "serving"
  BY DEF IInv, IsTyped, RunsToTheEnd
<1>2. loop = thread
  BY <1>1, RuntimeAssumption DEF IInv, OneThread, TypeOK, Threads
<1> QED
  BY <1>1, <1>2 DEF Alive

LEMMA OneThreadStep ==
  ASSUME IInv, Next
  PROVE  OneThread'
<1> USE RuntimeAssumption DEF OneThread, Alive, TypeOK, Threads, Lives
<1>0. TypeOK /\ OneThread /\ OneStop
  BY DEF IInv
<1>1. ASSUME NEW c \in Callers, FindLoop(c) \/ FindThread(c) \/ Wake(c) \/ Accept(c) \/ Return(c)
      PROVE OneThread'
  BY <1>0, <1>1 DEF FindLoop, FindThread, Wake, Accept, Return, fields, threads
<1>2. ASSUME NEW c \in Callers, StartThread(c) PROVE OneThread'
  BY <1>0, <1>2 DEF StartThread
<1>3. ASSUME NEW c \in Callers, Coroutine(c) PROVE OneThread'
  BY <1>0, <1>3 DEF Coroutine, StartBuilding, AwaitLock, FindContainer, Built, BuildFails, JobEnds,
                    fields, threads
<1>4. ASSUME NEW t \in Threads, Serves(t) PROVE OneThread'
  <2>1. CASE Publish(t)
    BY <1>0, <2>1 DEF Publish
  <2>2. CASE StartFails(t) \/ SetReady(t)
    BY <1>0, <2>2 DEF StartFails, SetReady, fields
  <2>3. CASE LoopEnds(t) \/ ThreadEnds(t)
    BY <1>0, <2>3 DEF LoopEnds, ThreadEnds, fields
  <2> QED
    BY <1>4, <2>1, <2>2, <2>3 DEF Serves
<1>5. ASSUME NEW s \in Stoppers, Stop(s) \/ Follow(s) PROVE OneThread'
  BY <1>0, <1>5 DEF Stop, Follow, fields, threads
<1>6. ASSUME NEW s \in Stoppers, Stopping(s) PROVE OneThread'
  <2>1. CASE Drained(s) \/ Dispose(s) \/ NothingToStop(s) \/ JoinOther(s)
    BY <1>0, <2>1 DEF Drained, Dispose, NothingToStop, JoinOther, fields, threads
  <2>2. CASE Disposed(s)
    <3>1. stopping
      BY <1>0, <2>2 DEF Disposed, OneStop, Owners
    <3>2. stop[s].loop \in Threads /\ life[stop[s].loop] \notin {"absent", "starting"}
      BY <1>0, <2>2 DEF Disposed, OneStop
    <3> QED
      BY <1>0, <2>2, <3>1, <3>2 DEF Disposed, fields
  <2>3. CASE Join(s)
    <3>1. stop[s].on = thread /\ thread \in Threads /\ life[thread] = "dead"
      BY <1>0, <2>3 DEF Join, OneStop, Owners
    <3> QED
      BY <1>0, <2>3, <3>1 DEF Join, threads
  <2> QED
    BY <1>6, <2>1, <2>2, <2>3 DEF Stopping
<1> QED
  BY <1>1, <1>2, <1>3, <1>4, <1>5, <1>6 DEF Next, Arrives

LEMMA OneStopStep ==
  ASSUME IInv, Next
  PROVE  OneStop'
<1> USE DEF OneStop, Owners, Past
<1>0. TypeOK /\ OneStop /\ OneThread
  BY DEF IInv
<1>1. ASSUME NEW c \in Callers, FindLoop(c) \/ FindThread(c) \/ Wake(c) \/ Coroutine(c)
      PROVE  OneStop'
  <2>1. Accepted' = Accepted
    BY <1>0, <1>1, AcceptedStays DEF Arrives
  <2>2. UNCHANGED <<stop, stopping, thread, life>>
    BY <1>1 DEF FindLoop, FindThread, Wake, Coroutine, StartBuilding, AwaitLock, FindContainer,
                Built, BuildFails, JobEnds, fields, threads
  <2> QED
    BY <1>0, <2>1, <2>2
<1>2. ASSUME NEW c \in Callers, StartThread(c) PROVE OneStop'
  <2>1. Owners = {} /\ Accepted' = Accepted
    BY <1>0, <1>2, AcceptedStays DEF StartThread, Arrives
  <2>2. stop' = stop
    BY <1>2 DEF StartThread
  <2> QED
    BY <1>0, <2>1, <2>2
<1>3. ASSUME NEW c \in Callers, Accept(c) PROVE OneStop'
  <2>1. UNCHANGED <<stop, stopping, thread, life>>
    BY <1>3 DEF Accept, threads
  <2>2. Past # {} => stopping
    BY <1>0
  <2> QED
    BY <1>0, <1>3, <2>1, <2>2, AcceptCounts
<1>4. ASSUME NEW c \in Callers, Return(c) PROVE OneStop'
  <2>1. UNCHANGED <<stop, stopping, thread, life>>
    BY <1>4 DEF Return, threads
  <2> QED
    BY <1>0, <1>4, <2>1, ReturnCounts
<1>5. ASSUME NEW t \in Threads, Serves(t) PROVE OneStop'
  <2>1. UNCHANGED <<stop, stopping, thread>> /\ Accepted' = Accepted
    BY <1>5, OthersKeepCalls DEF Serves, Publish, StartFails, SetReady, LoopEnds, ThreadEnds, fields
  <2>2. \A u \in Threads : life[u] \notin {"absent", "starting"} => life'[u] \notin {"absent", "starting"}
    BY <1>0, <1>5 DEF Serves, Publish, StartFails, SetReady, LoopEnds, ThreadEnds, TypeOK
  <2> QED
    BY <1>0, <2>1, <2>2
<1>6. ASSUME NEW s \in Stoppers, Stop(s) PROVE OneStop'
  <2>1. Owners = {} /\ thread \in Threads
    BY <1>0, <1>6 DEF Stop, TypeOK
  <2>2. Accepted' = Accepted
    BY <1>6, OthersKeepCalls
  <2>3. active = 0 => Accepted = {}
    BY AcceptedIsFinite, FS_EmptySet DEF IInv, Counted
  <2>4. PICK new :
           /\ stop' = [stop EXCEPT ![s] = new] /\ new.on = thread
           /\ new.at \in {"draining", "stopping"}
           /\ new.at = "stopping" => active = 0
    <3>1. CASE active = 0
      <4> DEFINE ends == [NotStopping EXCEPT !.at = "stopping", !.on = thread, !.loop = loop]
      <4>1. stop' = [stop EXCEPT ![s] = ends]
        BY <1>6, <3>1 DEF Stop, Captures
      <4>2. ends.at = "stopping" /\ ends.on = thread
        BY DEF NotStopping
      <4> HIDE DEF ends
      <4> QED
        BY <3>1, <4>1, <4>2
    <3>2. CASE active # 0
      <4> DEFINE waits == [NotStopping EXCEPT !.at = "draining", !.on = thread]
      <4>1. stop' = [stop EXCEPT ![s] = waits]
        BY <1>6, <3>2 DEF Stop
      <4>2. waits.at = "draining" /\ waits.on = thread
        BY DEF NotStopping
      <4> HIDE DEF waits
      <4> QED
        BY <4>1, <4>2
    <3> QED
      BY <3>1, <3>2
  <2>5. /\ stop' = [stop EXCEPT ![s] = stop'[s]] /\ stop'[s].on = thread
        /\ stop'[s].at \in {"draining", "stopping"}
        /\ stop'[s].at = "stopping" => active = 0
    <3>1. stop'[s] = new
      BY <1>0, <2>4 DEF TypeOK
    <3> QED
      BY <2>4, <3>1
  <2>6. stopping' /\ UNCHANGED <<thread, life>>
    BY <1>6 DEF Stop, threads
  <2> QED
    BY <1>0, <2>1, <2>2, <2>3, <2>5, <2>6 DEF TypeOK
<1>7. ASSUME NEW s \in Stoppers, Follow(s) \/ JoinOther(s) PROVE OneStop'
  <2>1. Accepted' = Accepted
    BY <1>7, OthersKeepCalls DEF Stopping
  <2>2. /\ UNCHANGED <<stopping, thread, life>>
        /\ s \notin Owners
        /\ stop' = [stop EXCEPT ![s] = stop'[s]] /\ stop'[s].at \in {"idle", "following"}
    <3>1. CASE Follow(s)
      BY <1>0, <3>1 DEF Follow, NotStopping, TypeOK, fields, threads
    <3>2. CASE JoinOther(s)
      BY <1>0, <3>2 DEF JoinOther, NotStopping, TypeOK, fields, threads
    <3> QED
      BY <1>7, <3>1, <3>2
  <2> QED
    BY <1>0, <2>1, <2>2 DEF TypeOK
<1>8. ASSUME NEW s \in Stoppers, Drained(s) \/ Dispose(s) \/ NothingToStop(s) \/ Disposed(s)
      PROVE  OneStop'
  <2>1. Accepted' = Accepted
    BY <1>8, OthersKeepCalls DEF Stopping
  <2>2. UNCHANGED <<stopping, thread, life>>
    BY <1>8 DEF Drained, Dispose, NothingToStop, Disposed, fields, threads
  <2>3. s \in Owners /\ Accepted = {}
    <3>1. CASE Drained(s)
      BY <3>1, AcceptedIsFinite, FS_EmptySet DEF Drained, IInv, Counted
    <3>2. CASE ~Drained(s)
      BY <1>0, <1>8, <3>2 DEF Dispose, NothingToStop, Disposed
    <3> QED
      BY <3>1, <3>2
  <2>4. /\ stop' = [stop EXCEPT ![s] = stop'[s]] /\ stop'[s].on = stop[s].on
        /\ stop'[s].at \in {"stopping", "disposing", "joining"}
        /\ stop'[s].at = "disposing" => Running(stop[s].loop) /\ stop'[s].loop = stop[s].loop
    <3>1. CASE Drained(s)
      BY <1>0, <3>1 DEF Drained, Captures, NotStopping, TypeOK
    <3>2. CASE Dispose(s)
      BY <1>0, <3>2 DEF Dispose, TypeOK, StopStates
    <3>3. CASE NothingToStop(s) \/ Disposed(s)
      BY <1>0, <3>3 DEF NothingToStop, Disposed, TypeOK, StopStates
    <3> QED
      BY <1>8, <3>1, <3>2, <3>3
  <2>5. stop[s].loop \in Threads \cup {None}
    BY <1>0 DEF TypeOK, StopStates
  <2> QED
    BY <1>0, <2>1, <2>2, <2>3, <2>4, <2>5 DEF TypeOK, Running
<1>9. ASSUME NEW s \in Stoppers, Join(s) PROVE OneStop'
  <2>1. stop' = [stop EXCEPT ![s] = NotStopping] /\ Owners' = {}
    BY <1>0, <1>9 DEF Join, NotStopping, TypeOK
  <2> QED
    BY <1>0, <1>9, <2>1 DEF Join, NotStopping, TypeOK, threads
<1> QED
  BY <1>1, <1>2, <1>3, <1>4, <1>5, <1>6, <1>7, <1>8, <1>9 DEF Next, Arrives, Stopping

-----------------------------------------------------------------------------
(* The accepted calls keep their loop: no step but their own touches them,  *)
(* the loop is replaced only where none is alive, and it is told to stop    *)
(* only when none is accepted.                                              *)
LEMMA RunsStep ==
  ASSUME IInv, Next
  PROVE  IsTyped' /\ RunsToTheEnd'
<1> USE DEF IsTyped, RunsToTheEnd
<1>0. TypeOK /\ OneStop /\ OneThread /\ IsTyped /\ RunsToTheEnd
  BY DEF IInv
<1>1. ASSUME NEW c \in Callers, FindLoop(c) \/ FindThread(c) \/ Wake(c) \/ Coroutine(c)
      PROVE  IsTyped' /\ RunsToTheEnd'
  <2>1. Accepted' = Accepted /\ UNCHANGED <<loop, life, signalled>>
    BY <1>0, <1>1, AcceptedStays
       DEF Arrives, FindLoop, FindThread, Wake, Coroutine, StartBuilding, AwaitLock, FindContainer,
           Built, BuildFails, JobEnds, fields, threads
  <2>2. \A d \in Accepted : call'[d].on = call[d].on
    BY <1>0, <1>1 DEF FindLoop, FindThread, Wake, Coroutine, StartBuilding, AwaitLock, FindContainer,
           Built, BuildFails, JobEnds, Goes, Leaves, Accepted, OnLoop, TypeOK, CallStates
  <2> QED
    BY <1>0, <2>1, <2>2
<1>2. ASSUME NEW c \in Callers, StartThread(c) PROVE IsTyped' /\ RunsToTheEnd'
  <2>1. Accepted = {}
    BY <1>2, NobodyWithoutLoop, RuntimeAssumption DEF StartThread, Threads
  <2> QED
    BY <1>0, <1>2, <2>1, AcceptedStays DEF Arrives
<1>3. ASSUME NEW c \in Callers, Accept(c) PROVE IsTyped' /\ RunsToTheEnd'
  <2>1. UNCHANGED <<loop, life, signalled>>
    BY <1>3 DEF Accept, threads
  <2>2. CASE Accepted' = Accepted
    <3>1. \A d \in Accepted : d # c
      BY <1>3 DEF Accept, Accepted, OnLoop
    <3>2. \A d \in Accepted : call'[d] = call[d]
      BY <1>0, <1>3, <3>1 DEF Accept, Leaves, Accepted, TypeOK
    <3> QED
      BY <1>0, <2>1, <2>2, <3>2
  <2>3. CASE Accepted' # Accepted
    <3>1. /\ ~stopping /\ loop # None /\ life[loop] = "serving"
          /\ Accepted' = Accepted \cup {c} /\ c \notin Accepted
          /\ call'[c].on = loop
          /\ \A d \in Callers \ {c} : call'[d] = call[d]
      BY <1>3, <2>3, AcceptCounts
    <3>2. loop \in Threads /\ loop \notin signalled
      BY <1>0, <3>1 DEF TypeOK, OneThread
    <3>3. \A d \in Accepted : d \in Callers \ {c}
      BY <3>1 DEF Accepted
    <3> QED
      BY <1>0, <2>1, <3>1, <3>2, <3>3
  <2> QED
    BY <2>2, <2>3
<1>4. ASSUME NEW c \in Callers, Return(c) PROVE IsTyped' /\ RunsToTheEnd'
  <2>1. UNCHANGED <<loop, life, signalled>>
    BY <1>4 DEF Return, threads
  <2>2. Accepted' = Accepted \ {c} /\ \A d \in Callers \ {c} : call'[d] = call[d]
    BY <1>4, ReturnCounts
  <2>3. Accepted \subseteq Callers
    BY DEF Accepted
  <2> QED
    BY <1>0, <2>1, <2>2, <2>3
<1>5. ASSUME NEW t \in Threads, Serves(t) PROVE IsTyped' /\ RunsToTheEnd'
  <2>1. call' = call /\ Accepted' = Accepted
    BY <1>5, OthersKeepCalls
  <2>2. ASSUME NEW c \in Accepted PROVE loop' = loop /\ life'[loop] = "serving" /\ signalled' = signalled
    <3>1. loop \in Threads /\ life[loop] = "serving" /\ loop \notin signalled
      BY <1>0
    <3>2. loop = thread
      BY <1>0, <3>1, RuntimeAssumption DEF OneThread, Threads
    <3>3. CASE Publish(t) \/ StartFails(t) \/ ThreadEnds(t)
      BY <1>0, <3>1, <3>2, <3>3 DEF Publish, StartFails, ThreadEnds, OneThread, Alive, TypeOK, fields
    <3>4. CASE SetReady(t) \/ LoopEnds(t)
      BY <1>0, <3>1, <3>2, <3>4 DEF SetReady, LoopEnds, TypeOK, fields
    <3> QED
      BY <1>5, <3>3, <3>4 DEF Serves
  <2> QED
    BY <1>0, <2>1, <2>2
<1>6. ASSUME NEW s \in Stoppers, Disposed(s) \/ Join(s) PROVE IsTyped' /\ RunsToTheEnd'
  <2>1. Accepted = {}
    BY <1>0, <1>6 DEF Disposed, Join, OneStop, Past
  <2>2. Accepted' = Accepted
    BY <1>6, OthersKeepCalls DEF Stopping
  <2> QED
    BY <2>1, <2>2
<1>7. ASSUME NEW s \in Stoppers,
             Stop(s) \/ Follow(s) \/ Drained(s) \/ Dispose(s) \/ NothingToStop(s) \/ JoinOther(s)
      PROVE  IsTyped' /\ RunsToTheEnd'
  <2>1. call' = call /\ Accepted' = Accepted
    BY <1>7, OthersKeepCalls DEF Stopping
  <2>2. UNCHANGED <<loop, life, signalled>>
    BY <1>7 DEF Stop, Follow, Drained, Dispose, NothingToStop, JoinOther, fields, threads
  <2> QED
    BY <1>0, <2>1, <2>2
<1> QED
  BY <1>1, <1>2, <1>3, <1>4, <1>5, <1>6, <1>7 DEF Next, Arrives, Stopping

LEMMA StutterKeepsIInv == IInv /\ UNCHANGED vars => IInv'
  BY DEF vars, fields, threads, clients, IInv, TypeOK, OneStop, Owners, Past, OneThread, Alive, Counted,
         IsTyped, RunsToTheEnd, Accepted, CallStates, StopStates, Containers, Threads, OnLoop, Lives

LEMMA Inductive == Spec => []IInv
<1>1. Init => IInv
  BY InitIInv
<1>2. IInv /\ [Next]_vars => IInv'
  <2>1. ASSUME IInv, Next PROVE IInv'
    BY <2>1, TypeStep, OneStopStep, OneThreadStep, CountedStep, RunsStep DEF IInv
  <2> QED
    BY <2>1, StutterKeepsIInv
<1> QED
  BY <1>1, <1>2, PTL DEF Spec

(* A call the runtime accepted runs to its end: its loop is not stopped     *)
(* under it, whenever a shutdown comes. *)
THEOREM AcceptedCallsRunToTheEnd == Spec => []RunsToTheEnd
<1>1. IInv => RunsToTheEnd
  BY DEF IInv
<1> QED
  BY <1>1, Inductive, PTL

(* The runtime owns one event loop: no second thread lives beside the one   *)
(* it knows. *)
THEOREM OneLoopAtATime == Spec => [](\A t, u \in Threads : Alive(t) /\ Alive(u) => t = u)
<1>1. IInv => \A t, u \in Threads : Alive(t) /\ Alive(u) => t = u
  BY DEF IInv, OneThread
<1> QED
  BY <1>1, Inductive, PTL

-----------------------------------------------------------------------------
LEMMA InitOneContainer == Init => OneContainer
  BY RuntimeAssumption DEF Init, OneContainer, Away, NotStopping, Held

(* While somebody is accepted no shutdown has got past its draining: what   *)
(* is open is the container.                                                *)
LEMMA OpenWhileAccepted ==
  ASSUME IInv, OneContainer, NEW c \in Accepted
  PROVE  /\ \A s \in Stoppers : stop[s].at \notin {"stopping", "disposing", "joining"}
         /\ open = Held(container)
  BY DEF IInv, OneStop, Past, OneContainer

LEMMA ContainerStep ==
  ASSUME IInv, OneContainer, Next
  PROVE  OneContainer'
<1> USE DEF OneContainer
<1>0. TypeOK /\ OneStop /\ OneThread /\ IsTyped /\ RunsToTheEnd /\ OneContainer
  BY DEF IInv
<1>n. None \notin Callers /\ None \notin Threads
  BY RuntimeAssumption DEF Threads
<1>t. /\ \A c \in Callers : call[c].at \in {"idle", "waiting", "started", "accepted"} \cup OnLoop
      /\ DOMAIN call = Callers /\ DOMAIN stop = Stoppers
  BY <1>0 DEF TypeOK, CallStates
(* A call that moves outside the building and the using.                    *)
<1>a. ASSUME NEW c \in Callers,
             \A d \in Callers \ {c} : call'[d] = call[d],
             call[c].at # "building", call'[c].at \notin {"building", "using"},
             UNCHANGED <<clients, stop, loop, life, signalled>>
      PROVE  OneContainer'
  <2>1. \A d \in Callers : /\ call'[d].at = "building" <=> call[d].at = "building"
                           /\ call'[d].at = "using" => call[d].at = "using"
    BY <1>a
  <2> QED
    BY <1>0, <1>a, <2>1 DEF clients
<1>1. ASSUME NEW c \in Callers, FindLoop(c) \/ FindThread(c) \/ Wake(c) PROVE OneContainer'
  <2>1. /\ \A d \in Callers \ {c} : call'[d] = call[d]
        /\ call[c].at # "building" /\ call'[c].at \notin {"building", "using"}
    BY <1>0, <1>1, <1>t DEF FindLoop, FindThread, Wake, Goes, Leaves, Away, TypeOK, CallStates
  <2>2. UNCHANGED <<clients, stop, loop, life, signalled>>
    BY <1>1 DEF FindLoop, FindThread, Wake, fields, threads
  <2> QED
    BY <1>a, <2>1, <2>2
<1>2. ASSUME NEW c \in Callers, Accept(c) \/ Return(c) PROVE OneContainer'
  <2>1. /\ \A d \in Callers \ {c} : call'[d] = call[d]
        /\ call[c].at # "building" /\ call'[c].at \notin {"building", "using"}
    BY <1>0, <1>2, <1>t DEF Accept, Return, Leaves, Away
  <2>2. UNCHANGED <<clients, stop, loop, life, signalled>>
    BY <1>2 DEF Accept, Return, threads
  <2> QED
    BY <1>a, <2>1, <2>2
<1>3. ASSUME NEW c \in Callers, StartThread(c) PROVE OneContainer'
  <2>1. container = None
    BY <1>0, <1>n, <1>3 DEF StartThread, OneThread, Alive
  <2>2. /\ \A d \in Callers \ {c} : call'[d] = call[d]
        /\ call[c].at # "building" /\ call'[c].at \notin {"building", "using"}
    BY <1>3, <1>t DEF StartThread
  <2>3. \A d \in Callers : /\ call'[d].at = "building" <=> call[d].at = "building"
                           /\ call'[d].at = "using" => call[d].at = "using"
    BY <2>2
  <2>4. UNCHANGED <<clients, stop>>
    BY <1>3 DEF StartThread
  <2> QED
    BY <1>0, <2>1, <2>3, <2>4 DEF clients
<1>4. ASSUME NEW c \in Callers, StartBuilding(c) PROVE OneContainer'
  <2>1. /\ \A d \in Callers \ {c} : call'[d] = call[d]
        /\ call'[c].at = "building" /\ container = None /\ builder = None /\ builder' = c
    BY <1>4, <1>t, <1>0 DEF StartBuilding, Goes, TypeOK, CallStates
  <2>2. UNCHANGED <<container, open, stop>>
    BY <1>4 DEF StartBuilding
  <2>3. \A d \in Callers : call'[d].at = "building" <=> d = builder'
    BY <1>0, <1>n, <2>1
  <2>4. \A d \in Callers : call'[d].at # "using"
    BY <1>0, <2>1
  <2> QED
    BY <1>0, <2>1, <2>2, <2>3, <2>4
<1>5. ASSUME NEW c \in Callers, AwaitLock(c) \/ JobEnds(c) PROVE OneContainer'
  <2>1. /\ \A d \in Callers \ {c} : call'[d] = call[d]
        /\ call[c].at # "building" /\ call'[c].at \notin {"building", "using"}
    BY <1>0, <1>5, <1>t DEF AwaitLock, JobEnds, Goes, TypeOK, CallStates
  <2>2. UNCHANGED <<clients, stop, loop, life, signalled>>
    BY <1>5 DEF AwaitLock, JobEnds, fields, threads
  <2> QED
    BY <1>a, <2>1, <2>2
<1>6. ASSUME NEW c \in Callers, FindContainer(c) PROVE OneContainer'
  <2>1. /\ \A d \in Callers \ {c} : call'[d] = call[d]
        /\ call[c].at # "building" /\ call'[c].at = "using" /\ container # None
    BY <1>0, <1>6, <1>t DEF FindContainer, Goes, TypeOK, CallStates
  <2>2. UNCHANGED <<clients, stop, loop, life, signalled>>
    BY <1>6 DEF FindContainer, fields, threads
  <2>3. \A d \in Callers : call'[d].at = "building" <=> call[d].at = "building"
    BY <2>1
  <2> QED
    BY <1>0, <2>1, <2>2, <2>3 DEF clients
<1>7. ASSUME NEW c \in Callers, Built(c) PROVE OneContainer'
  <2>1. c \in Accepted /\ c = builder
    BY <1>0, <1>7 DEF Built, Accepted, OnLoop
  <2>2. /\ container = None /\ open = {}
        /\ \A s \in Stoppers : stop[s].at \notin {"stopping", "disposing", "joining"}
    BY <1>0, <2>1, <1>n, OpenWhileAccepted DEF Held
  <2>3. call[c].on = loop /\ loop \in Threads /\ life[loop] = "serving" /\ loop \notin signalled
    BY <1>0, <2>1 DEF RunsToTheEnd, IsTyped
  <2>4. <<loop, c>> # None
    BY <2>3, RuntimeAssumption DEF Threads
  <2>5. /\ \A d \in Callers \ {c} : call'[d] = call[d]
        /\ call'[c].at = "using" /\ builder' = None
        /\ container' = <<loop, c>> /\ open' = {<<loop, c>>}
        /\ UNCHANGED <<stop, loop, life, signalled>>
    BY <1>0, <1>7, <1>t, <2>2, <2>3 DEF Built, Goes, TypeOK, CallStates, fields, threads
  <2>6. \A d \in Callers : call'[d].at # "building"
    BY <1>0, <2>1, <2>5
  <2>7. open' = Held(container') /\ container' # None
    BY <2>4, <2>5 DEF Held
  <2>8. container'[1] = loop'
    BY <2>5
  <2> HIDE DEF Held
  <2> QED
    BY <2>2, <2>3, <2>5, <2>6, <2>7, <2>8, <1>n DEF Held
<1>8. ASSUME NEW c \in Callers, BuildFails(c) PROVE OneContainer'
  <2>1. /\ \A d \in Callers \ {c} : call'[d] = call[d]
        /\ call'[c].at = "done" /\ builder' = None /\ c = builder
        /\ UNCHANGED <<container, open, stop, loop, life, signalled>>
    BY <1>0, <1>8, <1>t DEF BuildFails, Goes, TypeOK, CallStates, fields, threads
  <2>2. \A d \in Callers : /\ call'[d].at # "building"
                           /\ call'[d].at = "using" => call[d].at = "using"
    BY <1>0, <2>1
  <2> QED
    BY <1>0, <1>n, <2>1, <2>2
(* The loop the container belongs to serves until it is told to stop.       *)
<1>9. ASSUME NEW t \in Threads, Serves(t) PROVE OneContainer'
  <2>1. UNCHANGED <<call, stop, container, builder, open>>
    BY <1>9 DEF Serves, Publish, StartFails, SetReady, LoopEnds, ThreadEnds, clients
  <2>2. ASSUME container # None
        PROVE  loop' = loop /\ life'[loop] = "serving" /\ signalled' = signalled
    <3>1. loop \in Threads /\ life[loop] = "serving" /\ loop \notin signalled
      BY <1>0, <2>2
    <3>2. loop = thread
      BY <1>0, <1>n, <3>1 DEF OneThread
    <3>3. CASE Publish(t) \/ StartFails(t) \/ ThreadEnds(t)
      BY <1>0, <3>1, <3>2, <3>3 DEF Publish, StartFails, ThreadEnds, OneThread, Alive, TypeOK, fields
    <3>4. CASE SetReady(t) \/ LoopEnds(t)
      BY <1>0, <3>1, <3>2, <3>4 DEF SetReady, LoopEnds, TypeOK, fields
    <3> QED
      BY <1>9, <3>3, <3>4 DEF Serves
  <2> QED
    BY <1>0, <2>1, <2>2
(* A shutdown that moves without touching the clients.                      *)
<1>b. ASSUME NEW s \in Stoppers, NEW new,
             stop' = [stop EXCEPT ![s] = new],
             stop[s].at # "disposing", new.at # "disposing",
             new.at = "stopping" /\ container # None => new.loop = loop,
             new.at = "joining" => container = None,
             UNCHANGED <<clients, call>>,
             container # None => UNCHANGED <<loop, life, signalled>>
      PROVE  OneContainer'
  <2>1. /\ \A u \in Stoppers \ {s} : stop'[u] = stop[u]
        /\ stop'[s] = new
    BY <1>b, <1>t
  <2>2. \A u \in Stoppers : stop'[u].at = "disposing" <=> stop[u].at = "disposing"
    BY <1>b, <2>1
  <2> QED
    BY <1>0, <1>b, <2>1, <2>2 DEF clients
<1>10. ASSUME NEW s \in Stoppers, Stop(s) \/ Drained(s) PROVE OneContainer'
  <2> DEFINE ends(t) == [NotStopping EXCEPT !.at = "stopping", !.on = t, !.loop = loop]
             waits == [NotStopping EXCEPT !.at = "draining", !.on = thread]
  <2>1. \A t : ends(t).at = "stopping" /\ ends(t).loop = loop
    BY DEF NotStopping
  <2>2. waits.at = "draining"
    BY DEF NotStopping
  <2>3. \/ \E t : stop' = [stop EXCEPT ![s] = ends(t)]
        \/ stop' = [stop EXCEPT ![s] = waits]
    <3>1. CASE Stop(s)
      BY <3>1 DEF Stop, Captures
    <3>2. CASE Drained(s)
      BY <3>2 DEF Drained, Captures
    <3> QED
      BY <1>10, <3>1, <3>2
  <2>4. stop[s].at # "disposing" /\ UNCHANGED <<clients, call, loop, life, signalled>>
    BY <1>10 DEF Stop, Drained, fields, threads
  <2> HIDE DEF ends, waits
  <2>5. PICK new : /\ stop' = [stop EXCEPT ![s] = new]
                   /\ new.at \in {"stopping", "draining"}
                   /\ new.at = "stopping" => new.loop = loop
    BY <2>1, <2>2, <2>3
  <2> QED
    BY <1>b, <2>4, <2>5
<1>11. ASSUME NEW s \in Stoppers, Follow(s) \/ JoinOther(s) PROVE OneContainer'
  <2> DEFINE follows == [NotStopping EXCEPT !.at = "following", !.on = thread]
  <2>1. follows.at = "following" /\ NotStopping.at = "idle"
    BY DEF NotStopping
  <2>2. stop' = [stop EXCEPT ![s] = follows] \/ stop' = [stop EXCEPT ![s] = NotStopping]
    BY <1>11 DEF Follow, JoinOther
  <2>3. stop[s].at # "disposing" /\ UNCHANGED <<clients, call, loop, life, signalled>>
    BY <1>11 DEF Follow, JoinOther, fields, threads
  <2> HIDE DEF follows
  <2>4. PICK new : stop' = [stop EXCEPT ![s] = new] /\ new.at \in {"following", "idle"}
    BY <2>1, <2>2
  <2> QED
    BY <1>b, <2>3, <2>4
<1>12. ASSUME NEW s \in Stoppers, Dispose(s) PROVE OneContainer'
  <2>1. s \in Past /\ s \in Owners
    BY <1>12 DEF Dispose, Past, Owners
  <2>2. /\ Accepted = {}
        /\ \A u \in Stoppers \ {s} : stop[u].at \notin {"stopping", "disposing", "joining"}
    BY <1>0, <2>1 DEF OneStop, Owners
  <2>3. open = Held(container)
    BY <1>0, <1>12, <2>2 DEF Dispose
  <2>4. /\ stop'[s].at = "disposing" /\ stop'[s].old = container
        /\ \A u \in Stoppers \ {s} : stop'[u] = stop[u]
        /\ container' = None /\ UNCHANGED <<call, builder, open>>
    BY <1>0, <1>12, <1>t DEF Dispose, TypeOK, StopStates
  <2>5. \A c \in Callers : call[c].at # "using"
    BY <2>2 DEF Accepted, OnLoop
  <2> QED
    BY <1>0, <2>2, <2>3, <2>4, <2>5
<1>13. ASSUME NEW s \in Stoppers, Disposed(s) PROVE OneContainer'
  <2>1. s \in Past /\ s \in Owners
    BY <1>13 DEF Disposed, Past, Owners
  <2>2. /\ Accepted = {}
        /\ \A u \in Stoppers \ {s} : stop[u].at \notin {"stopping", "disposing", "joining"}
    BY <1>0, <2>1 DEF OneStop, Owners
  <2>3. container = None /\ open = Held(stop[s].old)
    BY <1>0, <1>13 DEF Disposed
  <2>4. /\ stop'[s].at = "joining"
        /\ \A u \in Stoppers \ {s} : stop'[u] = stop[u]
        /\ open' = open \ {stop[s].old} /\ builder' = None
        /\ UNCHANGED <<container, call>>
    BY <1>0, <1>13, <1>t DEF Disposed, TypeOK, StopStates
  <2>5. open' = {}
    BY <2>3, <2>4 DEF Held
  <2>6. \A c \in Callers : call[c].at \notin {"building", "using"}
    BY <2>2 DEF Accepted, OnLoop
  <2> QED
    BY <1>0, <1>n, <2>2, <2>3, <2>4, <2>5, <2>6 DEF Held
<1>14. ASSUME NEW s \in Stoppers, NothingToStop(s) PROVE OneContainer'
  <2>1. container = None
    BY <1>0, <1>n, <1>14 DEF NothingToStop, Running
  <2> DEFINE joins == [stop[s] EXCEPT !.at = "joining"]
  <2>2. joins.at = "joining" /\ stop' = [stop EXCEPT ![s] = joins] /\ stop[s].at = "stopping"
    BY <1>0, <1>14 DEF NothingToStop, TypeOK, StopStates
  <2>3. UNCHANGED <<clients, call, loop, life, signalled>>
    BY <1>14 DEF NothingToStop, fields, threads
  <2> HIDE DEF joins
  <2> QED
    BY <1>b, <2>1, <2>2, <2>3
<1>15. ASSUME NEW s \in Stoppers, Join(s) PROVE OneContainer'
  <2>1. container = None /\ stop[s].at = "joining"
    BY <1>0, <1>15 DEF Join
  <2>2. stop' = [stop EXCEPT ![s] = NotStopping] /\ UNCHANGED <<clients, call>>
    BY <1>15 DEF Join
  <2>3. NotStopping.at = "idle"
    BY DEF NotStopping
  <2> QED
    BY <1>b, <2>1, <2>2, <2>3
<1> QED
  BY <1>1, <1>2, <1>3, <1>4, <1>5, <1>6, <1>7, <1>8, <1>9, <1>10, <1>11, <1>12, <1>13, <1>14, <1>15
     DEF Next, Arrives, Coroutine, Stopping

LEMMA ContainerStutter == OneContainer /\ UNCHANGED vars => OneContainer'
  BY DEF OneContainer, vars, fields, threads, clients

LEMMA OneContainerAlways == Spec => []OneContainer
<1>1. IInv /\ OneContainer /\ [Next]_vars => OneContainer'
  BY ContainerStep, ContainerStutter
<1> QED
  BY InitOneContainer, Inductive, <1>1, PTL DEF Spec

(* The jobs share one container: however many arrive at once one is built,  *)
(* a job works with it while it is open and on the loop that built it, and  *)
(* a runtime that has stopped leaves none open and no thread behind.        *)
THEOREM JobsShareOneContainer == Spec => []SharedContainer
<1>1. IInv /\ OneContainer => SharedContainer
  <2> SUFFICES ASSUME IInv, OneContainer PROVE SharedContainer
    OBVIOUS
  <2>0. TypeOK /\ OneStop /\ OneThread /\ RunsToTheEnd
    BY DEF IInv
  <2>n. None \notin Threads
    BY RuntimeAssumption DEF Threads
  <2>1. \E kept : open = Held(kept)
    BY DEF OneContainer
  <2>2. Cardinality(open) <= 1
    <3>1. PICK kept : open = Held(kept)
      BY <2>1
    <3>2. open = {} \/ open = {kept}
      BY <3>1 DEF Held
    <3>3. Cardinality({}) = 0 /\ Cardinality({kept}) = 1
      BY FS_EmptySet, FS_Singleton
    <3> QED
      BY <3>2, <3>3
  <2>3. ASSUME NEW c \in Callers, call[c].at = "using"
        PROVE  container \in open /\ container[1] = call[c].on
    <3>1. c \in Accepted /\ container # None
      BY <2>3 DEF Accepted, OnLoop, OneContainer
    <3>2. open = Held(container) /\ container[1] = loop /\ call[c].on = loop
      BY <2>0, <3>1, OpenWhileAccepted DEF OneContainer, RunsToTheEnd
    <3> QED
      BY <3>1, <3>2 DEF Held
  <2>4. ASSUME thread = None PROVE open = {} /\ \A t \in Threads : ~Alive(t)
    <3>1. \A t \in Threads : ~Alive(t)
      BY <2>0, <2>4, <2>n DEF OneThread
    <3>2. \A s \in Stoppers : stop[s].at # "disposing"
      BY <2>0, <2>4, <2>n DEF OneStop, Owners
    <3>3. open = Held(container)
      BY <3>2 DEF OneContainer
    <3>4. container = None
      BY <2>0, <2>4, <2>n DEF OneContainer, OneThread
    <3> QED
      BY <3>1, <3>3, <3>4 DEF Held
  <2> QED
    BY <2>2, <2>3, <2>4 DEF SharedContainer
<1> QED
  BY <1>1, Inductive, OneContainerAlways, PTL

=============================================================================
