-------------------------- MODULE HealthRunnerProofs --------------------------
(***************************************************************************)
(* Proofs about the health runner, for any number of nodes, runs, detached *)
(* probes, handlers and workers.                                           *)
(***************************************************************************)
EXTENDS HealthRunner, FiniteSetTheorems, TLAPS

\* The steps of a start and a stop keep the invariant: the runner that is taken out
\* is the one waited for, and it is released only when it is done.
LEMMA MainStep == IInv /\ Main => IInv'
<1> SUFFICES ASSUME IInv, Main PROVE IInv'
  OBVIOUS
<1> USE RunsAndDetached DEF IInv, Owners
<1>1. ASSUME NEW enabled \in BOOLEAN, TakeRunner(enabled) PROVE IInv'
  BY <1>1 DEF TakeRunner, owned, TypeOK, MainInv, PoolInv, CutInv, TwinInv, StoppedIsQuiet,
     CutIsNotFailure, NoTwinProbe, Busy
<1>2. CASE CancelRunner
  <2>1. main.run \in Runs
    BY <1>2 DEF CancelRunner, MainInv, TypeOK
  <2>2. TypeOK' /\ MainInv' /\ StoppedIsQuiet'
    BY <1>2, <2>1 DEF CancelRunner, owned, TypeOK, MainInv, StoppedIsQuiet
  <2>3. CutInv'
    BY <1>2, <2>1 DEF CancelRunner, owned, TypeOK, CutInv
  <2>4. PoolInv' /\ TwinInv' /\ CutIsNotFailure' /\ NoTwinProbe'
    BY <1>2 DEF CancelRunner, owned, PoolInv, TwinInv, CutIsNotFailure, NoTwinProbe, Busy
  <2> QED
    BY <2>2, <2>3, <2>4
<1>3. CASE RunnerDone
  <2>1. main.run \in Runs /\ loop[main.run] = "done"
    BY <1>3 DEF RunnerDone, MainInv, TypeOK
  <2>2. \A w \in Workers : work[main.run][w].at = "off"
    BY <2>1 DEF PoolInv, Alone
  <2>3. TypeOK' /\ MainInv'
    BY <1>3, <2>1 DEF RunnerDone, owned, TypeOK, MainInv
  <2>4. StoppedIsQuiet'
    BY <1>3, <2>1, <2>2 DEF RunnerDone, owned, TypeOK, MainInv, StoppedIsQuiet
  <2>5. PoolInv' /\ CutInv' /\ TwinInv' /\ CutIsNotFailure' /\ NoTwinProbe'
    BY <1>3 DEF RunnerDone, owned, PoolInv, CutInv, TwinInv, CutIsNotFailure, NoTwinProbe, Busy
  <2> QED
    BY <2>3, <2>4, <2>5
<1>4. ASSUME NEW r \in Runs, InstallRunner(r) PROVE IInv'
  <2>1. loop' = [loop EXCEPT ![r] = "idle"] /\ loop[r] = "unborn" /\ r # NoRun
    BY <1>4 DEF InstallRunner
  <2>2. TypeOK' /\ MainInv'
    BY <1>4, <2>1 DEF InstallRunner, owned, TypeOK, MainInv, Steps
  <2>3. StoppedIsQuiet'
    BY <1>4, <2>1 DEF InstallRunner, owned, TypeOK, MainInv, StoppedIsQuiet
  <2>4. PoolInv'
    BY <1>4, <2>1 DEF InstallRunner, owned, TypeOK, PoolInv, Alone
  <2>5. CutInv' /\ TwinInv' /\ CutIsNotFailure' /\ NoTwinProbe'
    BY <1>4 DEF InstallRunner, owned, CutInv, TwinInv, CutIsNotFailure, NoTwinProbe, Busy
  <2> QED
    BY <2>2, <2>3, <2>4, <2>5
<1> QED
  BY <1>1, <1>2, <1>3, <1>4 DEF Main

\* A handler only fills a queue, or gives birth to a detached probe.
LEMMA HandlerStep == ASSUME IInv, NEW c \in Callers, Handler(c) PROVE IInv'
<1> USE RunsAndDetached DEF IInv, Owners
<1>1. ASSUME NEW ids \in SUBSET Nodes \ {{}}, EnqueueRead(c, ids) PROVE IInv'
  BY <1>1 DEF EnqueueRead, owned, TypeOK, MainInv, PoolInv, CutInv, TwinInv, StoppedIsQuiet,
     CutIsNotFailure, NoTwinProbe, Busy
<1>2. ASSUME NEW ids \in SUBSET Nodes \ {{}}, NEW d \in Detached, EnqueueDetached(c, d, ids)
      PROVE IInv'
  <2>1. IsFiniteSet(ids) /\ Cardinality(ids) \in Nat
    BY NodesAreFinite, FS_Subset, FS_CardinalityType
  <2>2. PICK s \in [1..Cardinality(ids) -> ids] : batch' = [batch EXCEPT ![d] = s]
    BY <1>2 DEF EnqueueDetached
  <2>3. s \in Seq(Nodes)
    BY <2>1, <2>2
  <2>4. TypeOK'
    BY <1>2, <2>2, <2>3 DEF EnqueueDetached, TypeOK, Steps
  <2>5. MainInv' /\ StoppedIsQuiet'
    BY <1>2 DEF EnqueueDetached, TypeOK, MainInv, StoppedIsQuiet
  <2>6. PoolInv' /\ CutInv' /\ TwinInv' /\ CutIsNotFailure' /\ NoTwinProbe'
    BY <1>2 DEF EnqueueDetached, TypeOK, PoolInv, CutInv, TwinInv, CutIsNotFailure,
       NoTwinProbe, Busy, Alone
  <2> QED
    BY <2>4, <2>5, <2>6
<1>3. ASSUME NEW n \in Nodes, EnqueueSend(c, n) PROVE IInv'
  <2>1. TypeOK'
    <3> DEFINE r == caller[c].to
    <3>1. r \in Runs /\ queue[r] \in Seq(Nodes)
      BY <1>3 DEF EnqueueSend, TypeOK
    <3>2. Append(queue[r], n) \in Seq(Nodes) /\ Len(Append(queue[r], n)) <= QueueSize
      BY <1>3, <3>1, SizesPositive DEF EnqueueSend, Room
    <3>3. queue' = [queue EXCEPT ![r] = Append(queue[r], n)]
      BY <1>3 DEF EnqueueSend
    <3> HIDE DEF r
    <3>4. queue' \in [Runs -> Seq(Nodes)] /\ \A x \in Runs : Len(queue'[x]) <= QueueSize
      BY <3>1, <3>2, <3>3 DEF TypeOK
    <3>5. /\ caller' \in [Callers -> [to : Runs \cup {NoRun}, ids : SUBSET Nodes]]
          /\ UNCHANGED <<main, runner, cancelled, loop, calls, owned>>
      BY <1>3, <3>1 DEF EnqueueSend, TypeOK
    <3> QED
      BY <3>4, <3>5 DEF owned, TypeOK
  <2>2. MainInv' /\ PoolInv' /\ CutInv' /\ TwinInv' /\ StoppedIsQuiet' /\ CutIsNotFailure'
        /\ NoTwinProbe'
    BY <1>3 DEF EnqueueSend, owned, MainInv, PoolInv, CutInv, TwinInv, StoppedIsQuiet,
       CutIsNotFailure, NoTwinProbe, Busy
  <2> QED
    BY <2>1, <2>2
<1>4. CASE EnqueueReturn(c)
  BY <1>4 DEF EnqueueReturn, owned, TypeOK, MainInv, PoolInv, CutInv, TwinInv, StoppedIsQuiet,
     CutIsNotFailure, NoTwinProbe, Busy
<1> QED
  BY <1>1, <1>2, <1>3, <1>4 DEF Handler

\* An owner outside probeNodes: the loop of a runner takes and gathers identifiers.
LEMMA LoopStep ==
  ASSUME IInv, NEW r \in Runs, LoopTake(r) \/ LoopStop(r) \/ DrainOne(r) \/ DrainEnd(r)
  PROVE  IInv'
<1> USE RunsAndDetached DEF IInv, Owners
<1>1. r \in Owners /\ queue[r] \in Seq(Nodes) /\ batch[r] \in Seq(Nodes)
  BY DEF TypeOK
<1>2. TypeOK'
  <2>1. CASE LoopTake(r) \/ DrainOne(r)
    <3>1. queue[r] # <<>> /\ queue' = [queue EXCEPT ![r] = Tail(queue[r])]
      BY <2>1 DEF LoopTake, DrainOne
    <3>2. /\ Head(queue[r]) \in Nodes
          /\ Tail(queue[r]) \in Seq(Nodes)
          /\ Len(Tail(queue[r])) <= QueueSize
      <4>1. Len(queue[r]) <= QueueSize /\ QueueSize \in Nat
        BY SizesPositive DEF TypeOK
      <4> HIDE DEF IInv, Owners
      <4> QED
        BY <1>1, <3>1, <4>1
    <3>3. queue' \in [Runs -> Seq(Nodes)] /\ \A x \in Runs : Len(queue'[x]) <= QueueSize
      BY <3>1, <3>2 DEF TypeOK
    <3>4. <<Head(queue[r])>> \in Seq(Nodes) /\ Append(batch[r], Head(queue[r])) \in Seq(Nodes)
      BY <1>1, <3>2
    <3>5. batch' \in [Owners -> Seq(Nodes)]
      BY <1>1, <2>1, <3>4 DEF LoopTake, DrainOne, TypeOK
    <3> QED
      BY <2>1, <3>3, <3>5 DEF LoopTake, DrainOne, outer, TypeOK, Steps
  <2>3. CASE LoopStop(r) \/ DrainEnd(r)
    BY <2>3 DEF LoopStop, DrainEnd, outer, owned, TypeOK, Steps
  <2> QED
    BY <2>1, <2>3
<1>3. /\ UNCHANGED <<main, runner, cancelled, todo, work, recorded>>
      /\ loop[r] \in {"idle", "drain"}
      /\ \E x \in {"idle", "drain", "find", "done"} : loop' = [loop EXCEPT ![r] = x]
  BY DEF LoopTake, LoopStop, DrainOne, DrainEnd, outer, owned, TypeOK
<1>4. MainInv' /\ PoolInv' /\ StoppedIsQuiet'
  BY <1>1, <1>3 DEF TypeOK, MainInv, PoolInv, StoppedIsQuiet, Alone
<1>5. CutInv' /\ TwinInv' /\ CutIsNotFailure' /\ NoTwinProbe'
  BY <1>3 DEF CutInv, TwinInv, CutIsNotFailure, NoTwinProbe, Busy
<1> QED
  BY <1>2, <1>4, <1>5

\* An owner in probeNodeIDsWithLog: it finds rows, sends each of them once, and leaves
\* only when its workers have ended.
LEMMA PoolStep ==
  ASSUME IInv, NEW o \in Owners,
         \/ \E rows \in SUBSET Nodes : Find(o, rows)
         \/ FindNothing(o)
         \/ \E w \in Workers, n \in Nodes : Send(o, w, n)
         \/ CloseJobs(o)
         \/ PoolDone(o)
  PROVE  IInv'
<1> USE DEF IInv
<1>0. Idle.at = "idle" /\ Off.at = "off" /\ Idle.outcome = "ok" /\ Off.outcome = "ok"
  BY DEF Idle, Off
<1>1. ASSUME NEW rows \in SUBSET Nodes, Find(o, rows) PROVE IInv'
  <2> DEFINE pool == [w \in Workers |-> IF w <= PoolSize(rows) THEN Idle ELSE Off]
             count == [n \in Nodes |-> IF n \in rows THEN Times(batch[o], n) ELSE 0]
  <2>1. /\ todo' = [todo EXCEPT ![o] = count]
        /\ work' = [work EXCEPT ![o] = pool]
        /\ loop[o] = "find" /\ loop' = [loop EXCEPT ![o] = "dispatch"]
        /\ UNCHANGED <<main, runner, cancelled, caller, calls, queue, recorded>>
    BY <1>1 DEF Find, outer
  <2>2. \A w \in Workers : pool[w] \in {Idle, Off}
    OBVIOUS
  <2>3. \A n \in Nodes : count[n] \in {0, 1}
    BY DEF Times
  <2>4. Cardinality(rows) \in Nat
    BY NodesAreFinite, FS_Subset, FS_CardinalityType
  <2>5. TypeOK'
    <3>0. count \in [Nodes -> Nat]
      BY <2>3
    <3>1. todo' \in [Owners -> [Nodes -> Nat]]
      BY <2>1, <3>0 DEF TypeOK
    <3>2. slots' \in [Owners -> Nat] /\ batch' \in [Owners -> Seq(Nodes)]
      BY <1>1, <2>4 DEF Find, Places, TypeOK
    <3>3. work' \in [Owners -> [Workers -> [at : {"off", "idle", "check", "probe", "save", "post"},
                                           node : Nodes \cup {NoNode}, outcome : Outcomes]]]
      BY <2>1, <2>2 DEF TypeOK, Idle, Off, Outcomes
    <3> QED
      BY <2>1, <3>1, <3>2, <3>3 DEF TypeOK, Steps
  <2> HIDE DEF pool, count
  <2>6. \A p \in Owners : p # o => todo'[p] = todo[p] /\ work'[p] = work[p] /\ loop'[p] = loop[p]
    BY <2>1 DEF TypeOK
  <2>7. todo'[o] = count /\ work'[o] = pool /\ loop'[o] = "dispatch"
    BY <2>1 DEF TypeOK
  <2>8. MainInv' /\ StoppedIsQuiet'
    BY <2>1, <2>6, <2>7 DEF MainInv, StoppedIsQuiet, TypeOK, Owners
  <2>9. PoolInv' /\ CutInv' /\ CutIsNotFailure'
    BY <1>0, <2>1, <2>2, <2>6, <2>7 DEF PoolInv, CutInv, CutIsNotFailure, Alone
  <2>10. TwinInv' /\ NoTwinProbe'
    BY <1>0, <2>2, <2>3, <2>6, <2>7 DEF TwinInv, NoTwinProbe, Busy
  <2> QED
    BY <2>5, <2>8, <2>9, <2>10
<1>2. CASE FindNothing(o)
  <2>1. /\ UNCHANGED <<main, runner, cancelled, todo, work, recorded>>
        /\ loop[o] = "find"
        /\ loop' = [loop EXCEPT ![o] = Return(o)]
        /\ Return(o) \in {"idle", "done"}
    BY <1>2 DEF FindNothing, outer, Return
  <2>2. TypeOK'
    BY <1>2, <2>1 DEF FindNothing, outer, TypeOK, Steps
  <2>3. MainInv' /\ PoolInv' /\ StoppedIsQuiet'
    BY <2>1 DEF MainInv, PoolInv, StoppedIsQuiet, TypeOK, Alone, Owners
  <2>4. CutInv' /\ TwinInv' /\ CutIsNotFailure' /\ NoTwinProbe'
    BY <2>1 DEF CutInv, TwinInv, CutIsNotFailure, NoTwinProbe, Busy
  <2> QED
    BY <2>2, <2>3, <2>4
<1>3. ASSUME NEW w \in Workers, NEW n \in Nodes, Send(o, w, n) PROVE IInv'
  <2> DEFINE job == [at |-> "check", node |-> n, outcome |-> "ok"]
  <2>1. /\ loop[o] = "dispatch" /\ todo[o][n] > 0 /\ work[o][w].at = "idle"
        /\ todo' = [todo EXCEPT ![o] = [todo[o] EXCEPT ![n] = todo[o][n] - 1]]
        /\ work' = [work EXCEPT ![o] = [work[o] EXCEPT ![w] = job]]
        /\ UNCHANGED <<main, runner, cancelled, caller, calls, queue, loop, batch, slots, recorded>>
    BY <1>3 DEF Send, outer
  <2>2. todo[o][n] = 1 /\ todo'[o][n] = 0
    BY <2>1 DEF TwinInv, TypeOK
  <2>3. TypeOK'
    <3>1. todo' \in [Owners -> [Nodes -> Nat]]
      BY <2>1, <2>2 DEF TypeOK
    <3>2. work' \in [Owners -> [Workers -> [at : {"off", "idle", "check", "probe", "save", "post"},
                                           node : Nodes \cup {NoNode}, outcome : Outcomes]]]
      BY <2>1 DEF TypeOK, Outcomes
    <3> QED
      BY <2>1, <3>1, <3>2 DEF TypeOK
  <2>4. /\ work'[o][w] = job
        /\ \A p \in Owners, v \in Workers : <<p, v>> # <<o, w>> => work'[p][v] = work[p][v]
        /\ \A p \in Owners, m \in Nodes : <<p, m>> # <<o, n>> => todo'[p][m] = todo[p][m]
    BY <2>1 DEF TypeOK
  <2>5. MainInv' /\ StoppedIsQuiet'
    BY <2>1, <2>4 DEF MainInv, StoppedIsQuiet, TypeOK, Owners
  <2>6. PoolInv' /\ CutInv' /\ CutIsNotFailure'
    BY <2>1, <2>4 DEF PoolInv, CutInv, CutIsNotFailure, Alone
  <2>7. job.at = "check" /\ job.node = n
    OBVIOUS
  <2> HIDE DEF job
  <2>8. TwinInv'
    BY <2>2, <2>4, <2>7 DEF TwinInv, Busy
  <2>9. \A v \in Workers : v # w /\ Busy(o, v) => work[o][v].node # n
    BY <2>2 DEF TwinInv
  <2>10. NoTwinProbe'
    BY <2>4, <2>7, <2>9 DEF NoTwinProbe, Busy
  <2> QED
    BY <2>3, <2>5, <2>6, <2>8, <2>10
<1>4. CASE CloseJobs(o)
  <2>1. /\ UNCHANGED <<main, runner, cancelled, caller, calls, queue, batch, slots, work, recorded>>
        /\ loop[o] = "dispatch" /\ loop' = [loop EXCEPT ![o] = "wait"]
        /\ todo' = [todo EXCEPT ![o] = [n \in Nodes |-> 0]]
    BY <1>4 DEF CloseJobs, outer
  <2>2. TypeOK'
    BY <2>1 DEF TypeOK, Steps
  <2>3. MainInv' /\ PoolInv' /\ StoppedIsQuiet'
    BY <2>1 DEF MainInv, PoolInv, StoppedIsQuiet, TypeOK, Alone, Owners
  <2>4. CutInv' /\ TwinInv' /\ CutIsNotFailure' /\ NoTwinProbe'
    BY <2>1 DEF CutInv, TwinInv, CutIsNotFailure, NoTwinProbe, Busy, TypeOK
  <2> QED
    BY <2>2, <2>3, <2>4
<1>5. CASE PoolDone(o)
  <2>1. /\ UNCHANGED <<main, runner, cancelled, caller, calls, queue, batch, todo, work, recorded>>
        /\ loop[o] = "wait" /\ loop' = [loop EXCEPT ![o] = Return(o)]
        /\ Return(o) \in {"idle", "done"}
        /\ slots' = [slots EXCEPT ![o] = 0]
    BY <1>5 DEF PoolDone, outer, Return
  <2>2. \A w \in Workers : work[o][w].at = "off"
    BY <1>5 DEF PoolDone, Joined
  <2>3. TypeOK'
    BY <2>1 DEF TypeOK, Steps
  <2>4. MainInv' /\ PoolInv' /\ StoppedIsQuiet'
    BY <2>1, <2>2 DEF MainInv, PoolInv, StoppedIsQuiet, TypeOK, Alone, Owners
  <2>5. CutInv' /\ TwinInv' /\ CutIsNotFailure' /\ NoTwinProbe'
    BY <2>1 DEF CutInv, TwinInv, CutIsNotFailure, NoTwinProbe, Busy
  <2> QED
    BY <2>3, <2>4, <2>5
<1> QED
  BY <1>1, <1>2, <1>3, <1>4, <1>5

\* A worker keeps the node it has in hand, and records only while its owner's context
\* is alive.
LEMMA WorkerStep == ASSUME IInv, NEW o \in Owners, NEW w \in Workers, Worker(o, w) PROVE IInv'
<1> USE DEF IInv
<1> DEFINE was == work[o][w]
<1> DEFINE Follows(now) ==
      /\ work' = [work EXCEPT ![o] = [work[o] EXCEPT ![w] = now]]
      /\ was.at # "off"
      /\ now \in [at : {"off", "idle", "check", "probe", "save", "post"},
                   node : Nodes \cup {NoNode}, outcome : Outcomes]
      /\ now.at \notin {"off", "idle"} => was.at # "idle" /\ now.node = was.node
      /\ now.outcome = "cut" => was.outcome = "cut" \/ cancelled[o]
<1>1. PICK now : Follows(now)
  <2>0. was \in [at : {"off", "idle", "check", "probe", "save", "post"},
                 node : Nodes \cup {NoNode}, outcome : Outcomes]
    BY DEF TypeOK
  <2>1. CASE Skip(o, w) \/ Save(o, w)
    <3>1. Follows([was EXCEPT !.at = "post"])
      BY <2>0, <2>1 DEF Skip, Save, Working
    <3> QED
      BY <3>1
  <2>2. CASE Begin(o, w)
    <3>1. Follows([was EXCEPT !.at = "probe"])
      BY <2>0, <2>2 DEF Begin, Working
    <3> QED
      BY <3>1
  <2>3. ASSUME NEW outcome \in Outcomes, ProbeEnd(o, w, outcome)
        PROVE  Follows([was EXCEPT !.at = "save", !.outcome = outcome])
    BY <2>0, <2>3 DEF ProbeEnd, Working
  <2>4. CASE Post(o, w)
    <3>1. Follows(Idle)
      BY <2>0, <2>4 DEF Post, Working, Idle, Off, Outcomes
    <3> QED
      BY <3>1
  <2>5. CASE WorkerEnd(o, w)
    <3>1. Follows(Off)
      BY <2>0, <2>5 DEF WorkerEnd, Working, Off, Outcomes
    <3> QED
      BY <3>1
  <2> HIDE DEF Follows
  <2> QED
    BY <2>1, <2>2, <2>3, <2>4, <2>5 DEF Worker
<1>2. UNCHANGED <<main, runner, cancelled, caller, calls, queue, loop, batch, todo>>
  BY DEF Worker, Skip, Begin, ProbeEnd, Save, Post, WorkerEnd, Working, outer
<1>3. /\ work'[o][w] = now
      /\ \A p \in Owners, v \in Workers : <<p, v>> # <<o, w>> => work'[p][v] = work[p][v]
  BY <1>1 DEF TypeOK
<1>4. slots' \in [Owners -> Nat]
  <2>1. CASE Post(o, w)
    BY <2>1 DEF Post, TypeOK
  <2>2. CASE ~Post(o, w)
    BY <2>2 DEF Worker, Skip, Begin, ProbeEnd, Save, WorkerEnd, TypeOK
  <2> QED
    BY <2>1, <2>2
<1>5. recorded' \subseteq Outcomes /\ CutIsNotFailure'
  <2>1. CASE Save(o, w)
    BY <2>1 DEF Save, MayRecord, CutInv, CutIsNotFailure, TypeOK
  <2>2. CASE ~Save(o, w)
    BY <2>2 DEF Worker, Skip, Begin, ProbeEnd, Post, WorkerEnd, CutIsNotFailure, TypeOK
  <2> QED
    BY <2>1, <2>2
<1>6. TypeOK'
  BY <1>1, <1>2, <1>4, <1>5 DEF TypeOK
<1>7. MainInv' /\ PoolInv' /\ StoppedIsQuiet'
  BY <1>1, <1>2, <1>3 DEF MainInv, PoolInv, StoppedIsQuiet, Owners
<1>8. CutInv'
  BY <1>1, <1>2, <1>3 DEF CutInv
<1>9. TwinInv' /\ NoTwinProbe'
  BY <1>1, <1>2, <1>3 DEF TwinInv, NoTwinProbe, Busy
<1> QED
  BY <1>5, <1>6, <1>7, <1>8, <1>9

\* The invariant holds initially and every step keeps it.
THEOREM Invariant == Spec => []IInv
<1>1. Init => IInv
  BY RunsAndDetached, SizesPositive DEF Init, IInv, TypeOK, MainInv, PoolInv, CutInv, TwinInv,
     StoppedIsQuiet, CutIsNotFailure, NoTwinProbe, Busy, Owners, Steps, Off, Outcomes
<1>2. IInv /\ [Next]_vars => IInv'
  <2> SUFFICES ASSUME IInv, [Next]_vars PROVE IInv'
    OBVIOUS
  <2>1. ASSUME NEW o \in Owners, Owner(o) PROVE IInv'
    BY <2>1, LoopStep, PoolStep DEF Owner
  <2>2. CASE UNCHANGED vars
    BY <2>2 DEF vars, IInv, TypeOK, MainInv, PoolInv, CutInv, TwinInv, StoppedIsQuiet,
       CutIsNotFailure, NoTwinProbe, Busy
  <2> QED
    BY <2>1, <2>2, MainStep, HandlerStep, WorkerStep DEF Next
<1> QED
  BY <1>1, <1>2, PTL DEF Spec

\* Every variable keeps its type, and the queue its capacity.
THEOREM TypeCorrect == Spec => []TypeOK
  BY Invariant, PTL DEF IInv

\* When stopHealthRunner has returned, nothing of that runner is at work.
THEOREM StopIsComplete == Spec => []StoppedIsQuiet
  BY Invariant, PTL DEF IInv

\* A probe cut off by a stop is never recorded as a failure.
THEOREM CutNeverRecorded == Spec => []CutIsNotFailure
  BY Invariant, PTL DEF IInv

\* A pool never probes one node twice at a time.
THEOREM ProbedAlone == Spec => []NoTwinProbe
  BY Invariant, PTL DEF IInv

-----------------------------------------------------------------------------
(* Nothing accepted is lost between the queue and the workers.             *)

LEMMA HandStep == ASSUME TypeOK, HandInv, [Next]_vars PROVE HandInv'
<1> USE RunsAndDetached DEF Owners
<1>1. CASE Main
  <2>1. ASSUME NEW r \in Runs, InstallRunner(r) PROVE HandInv'
    <3>1. /\ loop' = [loop EXCEPT ![r] = "idle"] /\ loop[r] = "unborn"
          /\ UNCHANGED <<batch, todo>>
      BY <2>1 DEF InstallRunner, owned
    <3> QED
      BY <3>1 DEF TypeOK, HandInv
  <2>2. CASE ~(\E r \in Runs : InstallRunner(r))
    <3>1. UNCHANGED <<loop, batch, todo>>
      BY <1>1, <2>2 DEF Main, TakeRunner, CancelRunner, RunnerDone, owned
    <3> QED
      BY <3>1 DEF HandInv
  <2> QED
    BY <2>1, <2>2
<1>2. ASSUME NEW c \in Callers, Handler(c) PROVE HandInv'
  <2>1. ASSUME NEW ids \in SUBSET Nodes \ {{}}, NEW d \in Detached, EnqueueDetached(c, d, ids)
        PROVE HandInv'
    <3>1. /\ loop[d] = "unborn" /\ loop' = [loop EXCEPT ![d] = "find"] /\ todo' = todo
          /\ \E s : batch' = [batch EXCEPT ![d] = s]
      BY <2>1 DEF EnqueueDetached
    <3> QED
      BY <3>1 DEF TypeOK, HandInv
  <2>2. ASSUME NEW ids \in SUBSET Nodes \ {{}}, EnqueueRead(c, ids) PROVE HandInv'
    BY <2>2 DEF EnqueueRead, owned, HandInv
  <2>3. ASSUME NEW n \in Nodes, EnqueueSend(c, n) PROVE HandInv'
    BY <2>3 DEF EnqueueSend, owned, HandInv
  <2>4. CASE EnqueueReturn(c)
    BY <2>4 DEF EnqueueReturn, owned, HandInv
  <2> QED
    BY <1>2, <2>1, <2>2, <2>3, <2>4 DEF Handler
<1>3. ASSUME NEW o \in Owners, Owner(o) PROVE HandInv'
  <2>1. CASE o \in Runs /\ (LoopTake(o) \/ LoopStop(o) \/ DrainOne(o) \/ DrainEnd(o))
    <3>1. CASE LoopTake(o)
      BY <2>1, <3>1 DEF LoopTake, TypeOK, HandInv
    <3>2. CASE LoopStop(o)
      BY <2>1, <3>2 DEF LoopStop, owned, TypeOK, HandInv
    <3>3. CASE DrainOne(o)
      BY <2>1, <3>3 DEF DrainOne, TypeOK, HandInv
    <3>4. CASE DrainEnd(o)
      BY <2>1, <3>4 DEF DrainEnd, owned, TypeOK, HandInv
    <3> QED
      BY <2>1, <3>1, <3>2, <3>3, <3>4
  <2>2. ASSUME NEW rows \in SUBSET Nodes, Find(o, rows) PROVE HandInv'
    <3>1. /\ loop' = [loop EXCEPT ![o] = "dispatch"]
          /\ batch' = [batch EXCEPT ![o] = <<>>]
          /\ \E count : todo' = [todo EXCEPT ![o] = count]
      BY <2>2 DEF Find
    <3> QED
      BY <3>1 DEF TypeOK, HandInv
  <2>3. CASE FindNothing(o)
    BY <2>3 DEF FindNothing, TypeOK, HandInv
  <2>4. ASSUME NEW w \in Workers, NEW n \in Nodes, Send(o, w, n) PROVE HandInv'
    <3>1. /\ loop[o] = "dispatch" /\ UNCHANGED <<loop, batch>>
          /\ \E count : todo' = [todo EXCEPT ![o] = count]
      BY <2>4 DEF Send
    <3> QED
      BY <3>1 DEF TypeOK, HandInv
  <2>5. CASE CloseJobs(o)
    BY <2>5 DEF CloseJobs, TypeOK, HandInv
  <2>6. CASE PoolDone(o)
    BY <2>6 DEF PoolDone, TypeOK, HandInv
  <2> QED
    BY <1>3, <2>1, <2>2, <2>3, <2>4, <2>5, <2>6 DEF Owner
<1>4. ASSUME NEW o \in Owners, NEW w \in Workers, Worker(o, w) PROVE HandInv'
  BY <1>4 DEF Worker, Skip, Begin, ProbeEnd, Save, Post, WorkerEnd, Working, HandInv
<1>5. CASE UNCHANGED vars
  BY <1>5 DEF vars, HandInv
<1> QED
  BY <1>1, <1>2, <1>3, <1>4, <1>5 DEF Next

\* What is sent to a queue, or taken from it, is found there or in hand.
LEMMA AppendKeeps ==
  ASSUME NEW s \in Seq(Nodes), NEW n \in Nodes
  PROVE  Items(s) \subseteq Items(Append(s, n)) /\ n \in Items(Append(s, n))
<1>1. /\ DOMAIN s = 1..Len(s) /\ Len(s) \in Nat
      /\ DOMAIN Append(s, n) = 1..(Len(s) + 1)
      /\ \A i \in 1..Len(s) : Append(s, n)[i] = s[i]
      /\ Append(s, n)[Len(s) + 1] = n
  OBVIOUS
<1> QED
  BY <1>1 DEF Items

LEMMA TailKeeps ==
  ASSUME NEW s \in Seq(Nodes), s # <<>>
  PROVE  Items(s) \subseteq {Head(s)} \cup Items(Tail(s))
<1>1. ASSUME NEW i \in 1..Len(s) PROVE s[i] \in {Head(s)} \cup Items(Tail(s))
  <2>1. CASE i = 1
    BY <2>1
  <2>2. CASE i # 1
    <3>1. i - 1 \in DOMAIN Tail(s) /\ Tail(s)[i - 1] = s[i]
      BY <2>2
    <3> QED
      BY <3>1 DEF Items
  <2> QED
    BY <2>1, <2>2
<1> QED
  BY <1>1 DEF Items

\* The identifier stays where it was.
LEMMA HeldStays ==
  ASSUME NEW o, NEW n, Held(o, n), UNCHANGED <<batch, todo, work>>,
         o \in Runs => Items(queue[o]) \subseteq Items(queue[o])'
  PROVE  Held(o, n)'
BY DEF Held, Busy

\* A step of one owner leaves the others what they hold.
LEMMA OthersHold ==
  ASSUME NEW o, NEW n, Held(o, n), o \in Runs => queue'[o] = queue[o],
         batch'[o] = batch[o], todo'[o] = todo[o], work'[o] = work[o]
  PROVE  Held(o, n)'
BY DEF Held, Busy

LEMMA OwnerHolds ==
  ASSUME IInv, HandInv, NEW o \in Owners, NEW n \in Nodes, Held(o, n), Owner(o)
  PROVE  Held(o, n)' \/ LetGo(o, n)
<1> SUFFICES ASSUME ~LetGo(o, n) PROVE Held(o, n)'
  OBVIOUS
<1> USE RunsAndDetached DEF IInv, Owners
<1>0. batch[o] \in Seq(Nodes) /\ (o \in Runs => queue[o] \in Seq(Nodes))
  BY DEF TypeOK
<1>1. ASSUME o \in Runs, LoopTake(o) PROVE Held(o, n)'
  <2>1. /\ queue[o] # <<>> /\ batch[o] = <<>>
        /\ queue'[o] = Tail(queue[o]) /\ batch'[o] = <<Head(queue[o])>>
        /\ todo' = todo /\ work' = work
    BY <1>1 DEF LoopTake, HandInv, TypeOK
  <2>3. n \in Items(queue[o]) => n = Head(queue[o]) \/ n \in Items(Tail(queue[o]))
    BY <1>0, <1>1, <2>1, TailKeeps
  <2>4. Head(queue[o]) \in Items(batch'[o]) /\ n \notin Items(batch[o])
    BY <2>1 DEF Items
  <2> QED
    BY <1>1, <2>1, <2>3, <2>4 DEF Held, Busy
<1>2. ASSUME o \in Runs, DrainOne(o) PROVE Held(o, n)'
  <2>1. /\ queue[o] # <<>> /\ queue'[o] = Tail(queue[o])
        /\ batch'[o] = Append(batch[o], Head(queue[o]))
        /\ todo' = todo /\ work' = work
    BY <1>2 DEF DrainOne, TypeOK
  <2>2. n \in Items(queue[o]) => n = Head(queue[o]) \/ n \in Items(Tail(queue[o]))
    BY <1>0, <1>2, <2>1, TailKeeps
  <2>3. Head(queue[o]) \in Nodes
    BY <1>0, <1>2, <2>1
  <2>4. Items(batch[o]) \subseteq Items(batch'[o]) /\ Head(queue[o]) \in Items(batch'[o])
    BY <1>0, <2>1, <2>3, AppendKeeps
  <2> QED
    BY <1>2, <2>1, <2>2, <2>4 DEF Held, Busy
<1>3. ASSUME o \in Runs, LoopStop(o) \/ DrainEnd(o) PROVE Held(o, n)'
  <2>1. UNCHANGED <<queue, batch, todo, work>>
    BY <1>3 DEF LoopStop, DrainEnd, owned
  <2> QED
    BY <2>1, HeldStays
<1>4. ASSUME NEW rows \in SUBSET Nodes, Find(o, rows) PROVE Held(o, n)'
  <2>1. loop[o] = "find" /\ queue' = queue
    BY <1>4 DEF Find
  <2>2. n \notin Items(batch[o]) /\ todo[o][n] = 0 /\ \A w \in Workers : ~Busy(o, w)
    BY <2>1 DEF LetGo, HandInv, PoolInv, Alone, Busy
  <2> QED
    BY <2>1, <2>2 DEF Held
<1>5. CASE FindNothing(o)
  <2>1. loop[o] = "find" /\ UNCHANGED <<queue, todo, work>>
    BY <1>5 DEF FindNothing
  <2>2. n \notin Items(batch[o])
    BY <2>1 DEF LetGo
  <2> QED
    BY <2>1, <2>2 DEF Held, Busy
<1>6. ASSUME NEW w \in Workers, NEW m \in Nodes, Send(o, w, m) PROVE Held(o, n)'
  <2> DEFINE job == [at |-> "check", node |-> m, outcome |-> "ok"]
  <2>1. /\ work[o][w].at = "idle" /\ queue' = queue /\ batch' = batch
        /\ \A k \in Nodes \ {m} : todo'[o][k] = todo[o][k]
        /\ work'[o][w] = job
        /\ \A v \in Workers \ {w} : work'[o][v] = work[o][v]
    BY <1>6 DEF Send, TypeOK
  <2>2. job.at = "check" /\ job.node = m
    OBVIOUS
  <2> HIDE DEF job
  <2>3. CASE n = m
    BY <2>1, <2>2, <2>3 DEF Held, Busy
  <2>4. CASE n # m
    <3>1. todo'[o][n] = todo[o][n]
      BY <2>1, <2>4
    <3>2. \A v \in Workers : Busy(o, v) => v # w
      BY <2>1 DEF Busy
    <3> QED
      BY <2>1, <3>1, <3>2 DEF Held, Busy
  <2> QED
    BY <2>3, <2>4
<1>7. CASE CloseJobs(o)
  <2>1. loop[o] = "dispatch" /\ UNCHANGED <<queue, batch, work>>
    BY <1>7 DEF CloseJobs
  <2>2. todo[o][n] = 0
    BY <1>7, <2>1 DEF CloseJobs, LetGo
  <2> QED
    BY <2>1, <2>2 DEF Held, Busy
<1>8. CASE PoolDone(o)
  <2>1. UNCHANGED <<queue, batch, todo, work>>
    BY <1>8 DEF PoolDone
  <2> QED
    BY <2>1, HeldStays
<1> QED
  BY <1>1, <1>2, <1>3, <1>4, <1>5, <1>6, <1>7, <1>8 DEF Owner

LEMMA WorkerHolds ==
  ASSUME IInv, NEW o \in Owners, NEW w \in Workers, NEW n \in Nodes, Held(o, n), Worker(o, w)
  PROVE  Held(o, n)' \/ LetGo(o, n)
<1> SUFFICES ASSUME ~LetGo(o, n) PROVE Held(o, n)'
  OBVIOUS
<1> USE DEF IInv
<1>1. UNCHANGED <<queue, batch, todo>>
  BY DEF Worker, Skip, Begin, ProbeEnd, Save, Post, WorkerEnd, Working
<1>2. \A v \in Workers \ {w} : work'[o][v] = work[o][v]
  <2>1. \E step : work' = [work EXCEPT ![o] = [work[o] EXCEPT ![w] = step]]
    BY DEF Worker, Skip, Begin, ProbeEnd, Save, Post, WorkerEnd, Working
  <2> QED
    BY <2>1 DEF TypeOK
<1>3. Busy(o, w) /\ work[o][w].node = n => Busy(o, w)' /\ work'[o][w].node = n
  <2> SUFFICES ASSUME Busy(o, w), work[o][w].node = n PROVE Busy(o, w)' /\ work'[o][w].node = n
    OBVIOUS
  <2>1. CASE Skip(o, w)
    BY <2>1 DEF Skip, Working, Busy, TypeOK
  <2>2. CASE Begin(o, w)
    BY <2>2 DEF Begin, Working, Busy, TypeOK
  <2>3. ASSUME NEW outcome \in Outcomes, ProbeEnd(o, w, outcome)
        PROVE Busy(o, w)' /\ work'[o][w].node = n
    BY <2>3 DEF ProbeEnd, Working, Busy, TypeOK
  <2>4. CASE Save(o, w)
    BY <2>4 DEF Save, Working, Busy, TypeOK
  <2>5. ~Post(o, w)
    BY DEF Post, Working, LetGo
  <2>6. ~WorkerEnd(o, w)
    BY DEF WorkerEnd, Working, Busy
  <2> QED
    BY <2>1, <2>2, <2>3, <2>4, <2>5, <2>6 DEF Worker
<1> QED
  BY <1>1, <1>2, <1>3 DEF Held, Busy

\* The step of one owner, or of its worker, leaves the others what they hold.
LEMMA OthersApart ==
  ASSUME TypeOK, NEW p \in Owners, Owner(p) \/ \E w \in Workers : Worker(p, w),
         NEW o \in Owners, o # p
  PROVE  /\ o \in Runs => queue'[o] = queue[o]
         /\ batch'[o] = batch[o] /\ todo'[o] = todo[o] /\ work'[o] = work[o]
<1> USE RunsAndDetached DEF Owners
<1>1. ASSUME NEW w \in Workers, Worker(p, w)
      PROVE  /\ queue' = queue /\ batch' = batch /\ todo' = todo
             /\ \E job : work' = [work EXCEPT ![p] = job]
  BY <1>1 DEF Worker, Skip, Begin, ProbeEnd, Save, Post, WorkerEnd, Working
<1>2. CASE Owner(p)
  <2>1. queue' = queue \/ (p \in Runs /\ \E s : queue' = [queue EXCEPT ![p] = s])
    <3>1. CASE p \in Runs /\ (LoopTake(p) \/ DrainOne(p))
      BY <3>1 DEF LoopTake, DrainOne
    <3>2. CASE ~(p \in Runs /\ (LoopTake(p) \/ DrainOne(p)))
      <4>1. \A rows \in SUBSET Nodes : Find(p, rows) => queue' = queue
        BY DEF Find
      <4>2. \A w \in Workers, n \in Nodes : Send(p, w, n) => queue' = queue
        BY DEF Send
      <4>3. LoopStop(p) \/ DrainEnd(p) \/ FindNothing(p) \/ CloseJobs(p) \/ PoolDone(p)
            => queue' = queue
        BY DEF LoopStop, DrainEnd, FindNothing, CloseJobs, PoolDone
      <4>4. \/ \E rows \in SUBSET Nodes : Find(p, rows)
            \/ \E w \in Workers, n \in Nodes : Send(p, w, n)
            \/ LoopStop(p) \/ DrainEnd(p) \/ FindNothing(p) \/ CloseJobs(p) \/ PoolDone(p)
        BY ONLY <1>2, <3>2, Zenon DEF Owner
      <4>5. queue' = queue
        BY <4>1, <4>2, <4>3, <4>4
      <4> QED
        BY <4>5
    <3> QED
      BY <3>1, <3>2
  <2>2. batch' = batch \/ \E s : batch' = [batch EXCEPT ![p] = s]
    BY <1>2 DEF Owner, LoopTake, LoopStop, DrainOne, DrainEnd, Find, FindNothing, Send,
       CloseJobs, PoolDone, owned
  <2>3. todo' = todo \/ \E s : todo' = [todo EXCEPT ![p] = s]
    BY <1>2 DEF Owner, LoopTake, LoopStop, DrainOne, DrainEnd, Find, FindNothing, Send,
       CloseJobs, PoolDone, owned
  <2>4. work' = work \/ \E s : work' = [work EXCEPT ![p] = s]
    BY <1>2 DEF Owner, LoopTake, LoopStop, DrainOne, DrainEnd, Find, FindNothing, Send,
       CloseJobs, PoolDone, owned
  <2> QED
    BY <2>1, <2>2, <2>3, <2>4 DEF TypeOK
<1> QED
  BY <1>1, <1>2 DEF TypeOK

\* A handler adds to a queue; the batch it gives to a detached probe is its first.
LEMMA HandlerHolds ==
  ASSUME IInv, HandInv, NEW c \in Callers, Handler(c), NEW o \in Owners, NEW n \in Nodes,
         Held(o, n)
  PROVE  Held(o, n)'
<1> USE RunsAndDetached DEF IInv, Owners
<1>1. ASSUME NEW ids \in SUBSET Nodes \ {{}}, EnqueueRead(c, ids) PROVE Held(o, n)'
  BY <1>1, HeldStays DEF EnqueueRead, owned
<1>2. CASE EnqueueReturn(c)
  BY <1>2, HeldStays DEF EnqueueReturn, owned
<1>3. ASSUME NEW m \in Nodes, EnqueueSend(c, m) PROVE Held(o, n)'
  <2> DEFINE r == caller[c].to
  <2>1. r \in Runs /\ queue[r] \in Seq(Nodes)
    BY <1>3 DEF EnqueueSend, TypeOK
  <2>2. queue' = [queue EXCEPT ![r] = Append(queue[r], m)] /\ UNCHANGED <<batch, todo, work>>
    BY <1>3 DEF EnqueueSend, owned
  <2> HIDE DEF r
  <2>3. o \in Runs => Items(queue[o]) \subseteq Items(queue'[o])
    BY <2>1, <2>2, AppendKeeps DEF TypeOK
  <2> QED
    BY <2>2, <2>3, HeldStays
<1>4. ASSUME NEW ids \in SUBSET Nodes \ {{}}, NEW d \in Detached, EnqueueDetached(c, d, ids)
      PROVE Held(o, n)'
  <2>1. /\ loop[d] = "unborn" /\ UNCHANGED <<queue, todo, work>>
        /\ \E s : batch' = [batch EXCEPT ![d] = s]
    BY <1>4 DEF EnqueueDetached
  <2>2. CASE o # d
    <3>1. batch'[o] = batch[o]
      BY <2>1, <2>2 DEF TypeOK
    <3> QED
      BY <2>1, <3>1, OthersHold
  <2>3. CASE o = d
    <3>1. batch[d] = <<>> /\ Items(batch[d]) = {}
      BY <2>1 DEF HandInv, Items
    <3> QED
      BY <2>1, <2>3, <3>1 DEF Held, Busy
  <2> QED
    BY <2>2, <2>3
<1> QED
  BY <1>1, <1>2, <1>3, <1>4 DEF Handler

\* An accepted identifier is posted by a worker, not found, or given up by a pool that
\* was told to end; no other step loses it.
THEOREM AcceptedNeverLost == Spec => NoneForgotten
<1>1. Init => HandInv
  BY DEF Init, HandInv
<1>2. IInv /\ HandInv /\ [Next]_vars => HandInv'
  BY HandStep DEF IInv
<1>3. ASSUME IInv, HandInv, [Next]_vars, NEW o \in Owners, NEW n \in Nodes,
             Held(o, n), ~Held(o, n)'
      PROVE  LetGo(o, n)
  <2>1. ~Main
    BY <1>3, HeldStays DEF Main, TakeRunner, CancelRunner, RunnerDone, InstallRunner, owned
  <2>2. ASSUME NEW c \in Callers PROVE ~Handler(c)
    BY <1>3, HandlerHolds
  <2>3. ~(UNCHANGED vars)
    BY <1>3, HeldStays DEF vars
  <2>4. ASSUME NEW p \in Owners, Owner(p) \/ \E w \in Workers : Worker(p, w) PROVE p = o
    <3> SUFFICES ASSUME o # p PROVE FALSE
      OBVIOUS
    <3>1. /\ o \in Runs => queue'[o] = queue[o]
          /\ batch'[o] = batch[o] /\ todo'[o] = todo[o] /\ work'[o] = work[o]
      BY <1>3, <2>4, OthersApart DEF IInv
    <3> QED
      BY <1>3, <3>1, OthersHold
  <2>5. Owner(o) \/ \E w \in Workers : Worker(o, w)
    BY <1>3, <2>1, <2>2, <2>3, <2>4 DEF Next
  <2> QED
    BY <1>3, <2>5, OwnerHolds, WorkerHolds
<1>4. IInv /\ HandInv /\ [Next]_vars =>
        [\A o \in Owners, n \in Nodes : Held(o, n) /\ ~Held(o, n)' => LetGo(o, n)]_vars
  BY <1>3
<1> QED
  BY <1>1, <1>2, <1>4, Invariant, PTL DEF Spec, NoneForgotten
=============================================================================
