--------------------------- MODULE ProbeLoopProofs ---------------------------
(***************************************************************************)
(* Proofs about ProbeLoop, for every number of callers, loops, nodes and   *)
(* operations.                                                             *)
(***************************************************************************)
EXTENDS ProbeLoop, TLAPS

\* LoopPresent is not inductive: a goroutine that is about to decide may have
\* read the strategy too early.  One that will see the present one is owed.
LoopOwed ==
    runtimeStarted = "yes" /\ policy = "leastLatency" /\ ~ctxDone
        => \/ probeRunning
           \/ \E p \in Procs : \/ pc[p] \in {"ensure", "snapshot"}
                               \/ pc[p] = "spawn" /\ snap[p] = "leastLatency"

\* WakeNotLost from the moment the round has taken up its nodes.
TakenUp ==
    \A l \in Loops : pc[l] \in {"probing", "sleep"} /\ ~ctxDone =>
        probeWake \/ nodes \subseteq probed \cup {arg[c] : c \in Callers}

\* Only an AddNode in progress has an argument.
ArgOfAdd == \A c \in Callers : pc[c] = "idle" => arg[c] = None

IInv == TypeOK /\ OneLoop /\ LoopOwed /\ TakenUp /\ ArgOfAdd

\* The initial states satisfy the inductive invariant.
LEMMA InitIInv == Init => IInv
  <1> SUFFICES ASSUME Init PROVE IInv
    OBVIOUS
  <1>1. TypeOK
    <2>0. ops \in 0..MaxOps
      BY MaxOpsIsNat DEF Init
    <2>1. /\ policy \in Policies /\ runtimeStarted \in {"no", "yes", "stopped"}
          /\ nodes \subseteq Nodes /\ probed \subseteq nodes
          /\ probeRunning \in BOOLEAN /\ probeWake \in BOOLEAN /\ ctxDone \in BOOLEAN
      BY DEF Init
    <2>2. snap \in [Procs -> Policies] /\ arg \in [Callers -> Nodes \cup {None}]
      BY DEF Init, Policies
    <2>3. pc \in [Procs -> Labels]
      BY DEF Init, Labels
    <2>4. /\ \A c \in Callers : pc[c] \notin LoopPc
          /\ \A l \in Loops : pc[l] \in {"idle"} \cup EnsurePc \cup LoopPc
      BY DEF Init, Procs, LoopPc
    <2> QED
      BY <2>0, <2>1, <2>2, <2>3, <2>4 DEF TypeOK
  <1>2. OneLoop
    BY DEF Init, OneLoop, InLoop, LoopPc, Procs
  <1>3. LoopOwed
    BY DEF Init, LoopOwed
  <1>4. TakenUp
    BY DEF Init, TakenUp, Procs
  <1>5. ArgOfAdd
    BY DEF Init, ArgOfAdd
  <1> QED
    BY <1>1, <1>2, <1>3, <1>4, <1>5 DEF IInv

\* Every step of the group and of the loop keeps the types.
LEMMA TypeStep == TypeOK /\ [Next]_vars => TypeOK'
  <1> SUFFICES ASSUME TypeOK, [Next]_vars PROVE TypeOK'
    OBVIOUS
  <1> USE CallersAndLoops, MaxOpsIsNat DEF Procs, Labels, EnsurePc, LoopPc, Policies
  <1>1. ASSUME NEW c \in Callers, Operation(c) PROVE TypeOK'
    <2> USE DEF TypeOK, Begin, Goto
    <2>1. ASSUME NEW n \in Nodes, AddNode(c, n) PROVE TypeOK'
      BY <2>1 DEF AddNode
    <2>2. ASSUME NEW q \in Policies, UpdatePolicy(c, q) PROVE TypeOK'
      BY <2>2 DEF UpdatePolicy
    <2>3. CASE StartProbing(c)
      BY <2>3 DEF StartProbing
    <2>4. CASE StopProbing(c)
      BY <2>4 DEF StopProbing
    <2>5. CASE CoreClose(c)
      <3>1. ops' \in 0..MaxOps /\ pc[c] = "idle" /\ pc' = [pc EXCEPT ![c] = "cancelled"]
        BY <2>5 DEF CoreClose
      <3> QED
        BY <2>5, <3>1 DEF CoreClose
    <2> QED
      BY <1>1, <2>1, <2>2, <2>3, <2>4, <2>5 DEF Operation
  <1>2. ASSUME NEW c \in Callers, CloseStops(c) \/ Wake(c) PROVE TypeOK'
    BY <1>2 DEF TypeOK, CloseStops, Wake, Goto
  <1>3. ASSUME NEW p \in Procs, Ensure(p) PROVE TypeOK'
    <2>1. CASE EnsureContext(p)
      BY <2>1 DEF TypeOK, EnsureContext, Ensured, Goto
    <2>2. CASE EnsureSnapshot(p)
      BY <2>2 DEF TypeOK, EnsureSnapshot, Goto
    <2>3. CASE Spawn(p)
      BY <2>3 DEF TypeOK, Spawn, Ensured
    <2>4. CASE NoSpawn(p)
      BY <2>4 DEF TypeOK, NoSpawn, Ensured, Goto
    <2> QED
      BY <1>3, <2>1, <2>2, <2>3, <2>4 DEF Ensure
  <1>4. ASSUME NEW l \in Loops, Loop(l) PROVE TypeOK'
    <2>1. CASE LoopSnapshot(l) \/ LoopActive(l) \/ LoopDrain(l)
      BY <2>1 DEF TypeOK, LoopSnapshot, LoopActive, LoopDrain, Goto
    <2>2. CASE LoopRound(l) \/ LoopProbed(l) \/ LoopExit(l)
      BY <2>2 DEF TypeOK, LoopRound, LoopProbed, LoopExit, Goto
    <2>3. CASE LoopWoken(l) \/ LoopTimer(l) \/ LoopCancelled(l)
      BY <2>3 DEF TypeOK, LoopWoken, LoopTimer, LoopCancelled, Goto
    <2> QED
      BY <1>4, <2>1, <2>2, <2>3 DEF Loop
  <1>5. CASE UNCHANGED vars
    BY <1>5 DEF TypeOK, vars
  <1> QED
    BY <1>1, <1>2, <1>3, <1>4, <1>5 DEF Next

\* Every step keeps the inductive invariant.
LEMMA IInvStep == IInv /\ [Next]_vars => IInv'
  <1> SUFFICES ASSUME IInv, [Next]_vars PROVE IInv'
    OBVIOUS
  <1>t. TypeOK /\ TypeOK'
    BY TypeStep DEF IInv
  <1> USE CallersAndLoops DEF Procs
  <1>1. ASSUME NEW c \in Callers, Operation(c) PROVE OneLoop' /\ LoopOwed' /\ TakenUp' /\ ArgOfAdd'
    <2> USE DEF Operation, AddNode, UpdatePolicy, StartProbing, StopProbing, CoreClose, Begin, Goto
    <2>0. \A l \in Loops : pc'[l] = pc[l]
      BY <1>1, <1>t DEF TypeOK
    <2>1. OneLoop'
      BY <1>1, <2>0 DEF IInv, OneLoop, InLoop
    <2>2. LoopOwed'
      BY <1>1, <1>t DEF IInv, LoopOwed, TypeOK, LoopPc
    <2>3. TakenUp'
      <3>1. CASE \E n \in Nodes : AddNode(c, n)
        <4>1. PICK n \in Nodes : AddNode(c, n)
          BY <3>1
        <4>2. /\ nodes' = nodes \cup {n} /\ arg' = [arg EXCEPT ![c] = n]
              /\ UNCHANGED <<probeWake, ctxDone, probed>> /\ n \notin nodes /\ pc[c] = "idle"
          BY <4>1
        <4>3. arg[c] = None
          BY <4>2 DEF IInv, ArgOfAdd
        <4>4. nodes \subseteq Nodes /\ None \notin nodes
          BY <1>t, NoneIsNoNode DEF TypeOK
        <4>5. nodes \subseteq probed \cup {arg[b] : b \in Callers}
                => nodes' \subseteq probed' \cup {arg'[b] : b \in Callers}
          BY <4>2, <4>3, <4>4, <1>t DEF TypeOK
        <4> QED
          BY <4>2, <4>5, <2>0 DEF IInv, TakenUp
      <3> QED
        BY <1>1, <2>0, <3>1 DEF IInv, TakenUp
    <2>4. ArgOfAdd'
      BY <1>1, <1>t DEF IInv, ArgOfAdd, TypeOK
    <2> QED
      BY <2>1, <2>2, <2>3, <2>4
  <1>2. ASSUME NEW c \in Callers, CloseStops(c) \/ Wake(c) PROVE OneLoop' /\ LoopOwed' /\ TakenUp' /\ ArgOfAdd'
    <2> USE DEF CloseStops, Wake, Goto
    <2>0. \A l \in Loops : pc'[l] = pc[l]
      BY <1>2, <1>t DEF TypeOK
    <2>1. OneLoop'
      BY <1>2, <2>0 DEF IInv, OneLoop, InLoop
    <2>2. LoopOwed'
      BY <1>2, <1>t DEF IInv, LoopOwed, TypeOK
    <2>3. TakenUp'
      BY <1>2, <2>0 DEF IInv, TakenUp
    <2>4. ArgOfAdd'
      BY <1>2, <1>t DEF IInv, ArgOfAdd, TypeOK
    <2> QED
      BY <2>1, <2>2, <2>3, <2>4
  <1>3. ASSUME NEW p \in Procs, Ensure(p) PROVE OneLoop' /\ LoopOwed' /\ TakenUp' /\ ArgOfAdd'
    <2> USE DEF Ensured, Goto
    <2>1. CASE EnsureContext(p) \/ EnsureSnapshot(p) \/ NoSpawn(p)
      <3> USE DEF EnsureContext, EnsureSnapshot, NoSpawn
      <3>0. \A l \in Loops : /\ InLoop(l)' <=> InLoop(l)
                             /\ pc'[l] \in {"probing", "sleep"} <=> pc[l] \in {"probing", "sleep"}
        BY <2>1, <1>t DEF TypeOK, InLoop, LoopPc
      <3>1. OneLoop'
        BY <2>1, <3>0 DEF IInv, OneLoop
      <3>2. LoopOwed'
        BY <2>1, <1>t DEF IInv, LoopOwed, TypeOK, Wanted
      <3>3. TakenUp'
        BY <2>1, <3>0 DEF IInv, TakenUp
      <3>4. ArgOfAdd'
        BY <2>1, <1>t DEF IInv, ArgOfAdd, TypeOK
      <3> QED
        BY <3>1, <3>2, <3>3, <3>4
    <2>2. CASE Spawn(p)
      <3>0. PICK k \in Loops \ {p} : pc[k] = "idle" /\ pc' = [pc EXCEPT ![p] = Ensured(p), ![k] = "top"]
        BY <2>2 DEF Spawn
      <3>1. /\ ~probeRunning /\ probeRunning' /\ pc[p] = "spawn"
            /\ UNCHANGED <<nodes, probeWake, ctxDone, probed, arg>>
        BY <2>2 DEF Spawn
      <3>2. \A l \in Loops : InLoop(l)' <=> l = k
        BY <3>0, <3>1, <1>t DEF IInv, OneLoop, InLoop, LoopPc, TypeOK
      <3>3. OneLoop'
        BY <3>1, <3>2, <1>t DEF OneLoop, TypeOK
      <3>4. LoopOwed'
        BY <3>1 DEF LoopOwed
      <3>5. TakenUp'
        BY <3>0, <3>1, <3>2, <1>t DEF TakenUp, InLoop, LoopPc, TypeOK
      <3>6. ArgOfAdd'
        BY <3>0, <3>1, <1>t DEF IInv, ArgOfAdd, TypeOK
      <3> QED
        BY <3>3, <3>4, <3>5, <3>6
    <2> QED
      BY <1>3, <2>1, <2>2 DEF Ensure
  <1>4. ASSUME NEW l \in Loops, Loop(l) PROVE OneLoop' /\ LoopOwed' /\ TakenUp' /\ ArgOfAdd'
    <2> USE DEF Goto
    <2>0. InLoop(l) /\ probeRunning /\ \A k \in Loops : InLoop(k) => k = l
      BY <1>4 DEF IInv, OneLoop, InLoop, LoopPc, Loop, LoopSnapshot, LoopActive, LoopDrain,
         LoopRound, LoopProbed, LoopWoken, LoopTimer, LoopCancelled, LoopExit
    <2>a. \A k \in Loops : k # l => pc'[k] = pc[k] /\ pc[k] \notin LoopPc
      BY <1>4, <2>0, <1>t DEF TypeOK, InLoop, Loop, LoopSnapshot, LoopActive, LoopDrain,
         LoopRound, LoopProbed, LoopWoken, LoopTimer, LoopCancelled, LoopExit
    <2>b. ArgOfAdd'
      BY <1>4, <1>t DEF IInv, ArgOfAdd, TypeOK, Loop, LoopSnapshot, LoopActive, LoopDrain,
         LoopRound, LoopProbed, LoopWoken, LoopTimer, LoopCancelled, LoopExit
    <2>1. CASE LoopExit(l)
      <3>1. /\ ~probeRunning' /\ pc'[l] = "ensure"
        BY <2>1, <1>t DEF LoopExit, TypeOK
      <3>2. OneLoop'
        BY <2>a, <3>1 DEF OneLoop, InLoop, LoopPc
      <3>3. LoopOwed'
        BY <3>1 DEF LoopOwed
      <3>4. TakenUp'
        BY <2>a, <3>1 DEF TakenUp, LoopPc
      <3> QED
        BY <2>b, <3>2, <3>3, <3>4
    <2>2. CASE LoopSnapshot(l) \/ LoopActive(l) \/ LoopDrain(l) \/ LoopRound(l) \/ LoopProbed(l)
               \/ LoopWoken(l) \/ LoopTimer(l) \/ LoopCancelled(l)
      <3> USE DEF LoopSnapshot, LoopActive, LoopDrain, LoopRound, LoopProbed, LoopWoken,
                  LoopTimer, LoopCancelled
      <3>1. pc'[l] \in LoopPc /\ probeRunning' = probeRunning
        BY <2>2, <1>t DEF TypeOK, LoopPc
      <3>2. OneLoop'
        BY <2>0, <2>a, <3>1 DEF OneLoop, InLoop
      <3>3. LoopOwed'
        BY <2>0, <3>1 DEF LoopOwed
      <3>4. TakenUp'
        BY <2>2, <2>a, <1>t DEF IInv, TakenUp, TypeOK, LoopPc
      <3> QED
        BY <2>b, <3>2, <3>3, <3>4
    <2> QED
      BY <1>4, <2>1, <2>2 DEF Loop
  <1>5. ASSUME UNCHANGED vars PROVE OneLoop' /\ LoopOwed' /\ TakenUp' /\ ArgOfAdd'
    BY <1>5 DEF IInv, OneLoop, LoopOwed, TakenUp, ArgOfAdd, InLoop, vars
  <1>6. OneLoop' /\ LoopOwed' /\ TakenUp' /\ ArgOfAdd'
    BY <1>1, <1>2, <1>3, <1>4, <1>5 DEF Next
  <1> QED
    BY <1>t, <1>6 DEF IInv

\* The inductive invariant holds in every reachable state of the probe loop.
THEOREM Inductive == Spec => []IInv
  BY InitIInv, IInvStep, PTL DEF Spec

\* Type correctness of the probe loop.
THEOREM TypeCorrect == Spec => []TypeOK
  <1>1. IInv => TypeOK
    BY DEF IInv
  <1> QED
    BY <1>1, Inductive, PTL

\* A group never has two probe loops, and probeRunning tells the truth.
THEOREM SingleLoop == Spec => []OneLoop
  <1>1. IInv => OneLoop
    BY DEF IInv
  <1> QED
    BY <1>1, Inductive, PTL

\* A started least-latency group is never left without a loop.
THEOREM NeverWithoutLoop == Spec => []LoopPresent
  <1>1. IInv => LoopPresent
    BY DEF IInv, LoopOwed, LoopPresent, EnsurePc
  <1> QED
    BY <1>1, Inductive, PTL

\* The loop never sleeps over a node whose AddNode has returned.
THEOREM NeverSleepsOver == Spec => []WakeNotLost
  <1>1. IInv => WakeNotLost
    BY DEF IInv, TakenUp, WakeNotLost
  <1> QED
    BY <1>1, Inductive, PTL
=============================================================================
