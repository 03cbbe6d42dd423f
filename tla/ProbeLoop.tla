------------------------------ MODULE ProbeLoop ------------------------------
(***************************************************************************)
(* The background probe loop of a least-latency group                      *)
(* (core/singboxcore/group.go).                                            *)
(*                                                                         *)
(* The loop exists only while the group is started and its strategy is     *)
(* least latency; every operation that may change this checks whether a    *)
(* loop has to be started (ensureLeastLatencyProbeLoop) and leaves a token *)
(* in probeWake, a channel of capacity one.  The policy is read under g.mu *)
(* and used later under probeMu, and the loop decides to end before it     *)
(* clears probeRunning: both are windows in which a change can be missed.  *)
(***************************************************************************)
EXTENDS Naturals, FiniteSets

CONSTANTS
    Nodes,    \* members that may be added
    Callers,  \* goroutines that operate on the group
    Loops,    \* slots for probe loop goroutines
    MaxOps,   \* bound on the number of operations
    None

ASSUME CallersAndLoops == Callers \cap Loops = {}
ASSUME MaxOpsIsNat == MaxOps \in Nat
ASSUME NoneIsNoNode == None \notin Nodes

VARIABLES
    nodes,           \* g.nodes
    policy,          \* g.policy.Strategy: least latency, or another one
    runtimeStarted,  \* StartProbing and StopProbing have been called
    probeRunning,
    probeWake,       \* the channel holds a token
    ctxDone,         \* the core has been closed
    probed,          \* nodes some round has taken up
    snap,            \* policySnapshot of each goroutine
    arg,             \* the node an AddNode in progress adds
    ops,             \* number of operations so far
    pc

vars == <<nodes, policy, runtimeStarted, probeRunning, probeWake, ctxDone, probed, snap,
          arg, ops, pc>>

Procs    == Callers \cup Loops
Policies == {"leastLatency", "other"}

\* Steps of ensureLeastLatencyProbeLoop, of the callers, and of the loop.
EnsurePc == {"ensure", "snapshot", "spawn"}
LoopPc   == {"top", "active", "drain", "round", "probing", "sleep", "exit"}
Labels   == {"idle", "wake", "cancelled"} \cup EnsurePc \cup LoopPc

\* The type invariant; a loop never executes a caller's steps, or the reverse, and
\* a round only takes up members of the group.
TypeOK ==
    /\ nodes \subseteq Nodes
    /\ policy \in Policies
    /\ runtimeStarted \in {"no", "yes", "stopped"}
    /\ probeRunning \in BOOLEAN
    /\ probeWake \in BOOLEAN
    /\ ctxDone \in BOOLEAN
    /\ probed \subseteq nodes
    /\ snap \in [Procs -> Policies]
    /\ arg \in [Callers -> Nodes \cup {None}]
    /\ ops \in 0..MaxOps
    /\ pc \in [Procs -> Labels]
    /\ \A c \in Callers : pc[c] \notin LoopPc
    /\ \A l \in Loops : pc[l] \in {"idle"} \cup EnsurePc \cup LoopPc

Init ==
    /\ nodes = {}
    /\ policy \in Policies
    /\ runtimeStarted = "no"
    /\ probeRunning = FALSE
    /\ probeWake = FALSE
    /\ ctxDone = FALSE
    /\ probed = {}
    /\ snap = [p \in Procs |-> "other"]
    /\ arg = [c \in Callers |-> None]
    /\ ops = 0
    /\ pc = [p \in Procs |-> "idle"]

Goto(p, label) == pc' = [pc EXCEPT ![p] = label]

-----------------------------------------------------------------------------
(***************************************************************************)
(* The operations.  Each writes, ensures that there is a loop, and wakes   *)
(* it.                                                                     *)
(***************************************************************************)

Begin(c, label) ==
    /\ pc[c] = "idle" /\ ops < MaxOps
    /\ ops' = ops + 1
    /\ Goto(c, label)

AddNode(c, n) ==
    /\ n \notin nodes
    /\ Begin(c, "ensure")
    /\ nodes' = nodes \cup {n}
    /\ arg' = [arg EXCEPT ![c] = n]
    /\ UNCHANGED <<policy, runtimeStarted, probeRunning, probeWake, ctxDone, probed, snap>>

UpdatePolicy(c, p) ==
    /\ Begin(c, "ensure")
    /\ policy' = p
    /\ UNCHANGED <<nodes, runtimeStarted, probeRunning, probeWake, ctxDone, probed, snap, arg>>

\* Core.Start, or AddGroup in a core that is running.
StartProbing(c) ==
    /\ runtimeStarted = "no" /\ ~ctxDone
    /\ Begin(c, "ensure")
    /\ runtimeStarted' = "yes"
    /\ UNCHANGED <<nodes, policy, probeRunning, probeWake, ctxDone, probed, snap, arg>>

\* RemoveGroup: no loop is ensured.
StopProbing(c) ==
    /\ runtimeStarted = "yes"
    /\ Begin(c, "wake")
    /\ runtimeStarted' = "stopped"
    /\ UNCHANGED <<nodes, policy, probeRunning, probeWake, ctxDone, probed, snap, arg>>

\* Core.Close cancels the context and then stops the groups.
CoreClose(c) ==
    /\ ~ctxDone
    /\ Begin(c, "cancelled")
    /\ ctxDone' = TRUE
    /\ UNCHANGED <<nodes, policy, runtimeStarted, probeRunning, probeWake, probed, snap, arg>>

CloseStops(c) ==
    /\ pc[c] = "cancelled"
    /\ runtimeStarted' = "stopped"
    /\ Goto(c, "wake")
    /\ UNCHANGED <<nodes, policy, probeRunning, probeWake, ctxDone, probed, snap, arg, ops>>

\* wakeLeastLatencyProbe: the token is dropped if there is one.
Wake(c) ==
    /\ pc[c] = "wake"
    /\ probeWake' = TRUE
    /\ arg' = [arg EXCEPT ![c] = None]
    /\ Goto(c, "idle")
    /\ UNCHANGED <<nodes, policy, runtimeStarted, probeRunning, ctxDone, probed, snap, ops>>

-----------------------------------------------------------------------------
(***************************************************************************)
(* ensureLeastLatencyProbeLoop, called by operations and by a loop that    *)
(* ends.                                                                   *)
(***************************************************************************)

\* Mutant: the loop that ends wakes the loop, too.
EnsuredWakes(p) == "wake"

\* What follows the call.
Ensured(p) == IF p \in Callers THEN "wake" ELSE "idle"

EnsureContext(p) ==
    /\ pc[p] = "ensure"
    /\ Goto(p, IF ctxDone THEN Ensured(p) ELSE "snapshot")
    /\ UNCHANGED <<nodes, policy, runtimeStarted, probeRunning, probeWake, ctxDone, probed,
                   snap, arg, ops>>

EnsureSnapshot(p) ==
    /\ pc[p] = "snapshot"
    /\ snap' = [snap EXCEPT ![p] = policy]
    /\ Goto(p, "spawn")
    /\ UNCHANGED <<nodes, policy, runtimeStarted, probeRunning, probeWake, ctxDone, probed,
                   arg, ops>>

Wanted(s) == runtimeStarted = "yes" /\ s = "leastLatency"

\* Mutant: the check of probeRunning is dropped.
SpawnAnother(p) ==
    /\ pc[p] = "spawn" /\ Wanted(snap[p])
    /\ probeRunning' = TRUE
    /\ \E l \in Loops \ {p} :
          /\ pc[l] = "idle"
          /\ pc' = [pc EXCEPT ![p] = Ensured(p), ![l] = "top"]
    /\ UNCHANGED <<nodes, policy, runtimeStarted, probeWake, ctxDone, probed, snap, arg, ops>>

\* Under probeMu: the loop is started.
Spawn(p) ==
    /\ pc[p] = "spawn" /\ Wanted(snap[p]) /\ ~probeRunning
    /\ probeRunning' = TRUE
    /\ \E l \in Loops \ {p} :
          /\ pc[l] = "idle"
          /\ pc' = [pc EXCEPT ![p] = Ensured(p), ![l] = "top"]
    /\ UNCHANGED <<nodes, policy, runtimeStarted, probeWake, ctxDone, probed, snap, arg, ops>>

\* Under probeMu: it is not wanted, or there is one.
NoSpawn(p) ==
    /\ pc[p] = "spawn" /\ (~Wanted(snap[p]) \/ probeRunning)
    /\ Goto(p, Ensured(p))
    /\ UNCHANGED <<nodes, policy, runtimeStarted, probeRunning, probeWake, ctxDone, probed,
                   snap, arg, ops>>

-----------------------------------------------------------------------------
(***************************************************************************)
(* leastLatencyProbeLoop.                                                  *)
(***************************************************************************)

LoopSnapshot(l) ==
    /\ pc[l] = "top"
    /\ snap' = [snap EXCEPT ![l] = policy]
    /\ Goto(l, "active")
    /\ UNCHANGED <<nodes, policy, runtimeStarted, probeRunning, probeWake, ctxDone, probed,
                   arg, ops>>

\* Mutant: a stopped group is not noticed.
LoopActiveAlways(l) ==
    /\ pc[l] = "active"
    /\ Goto(l, "drain")
    /\ UNCHANGED <<nodes, policy, runtimeStarted, probeRunning, probeWake, ctxDone, probed,
                   snap, arg, ops>>

\* probeLoopActive.
LoopActive(l) ==
    /\ pc[l] = "active"
    /\ Goto(l, IF Wanted(snap[l]) THEN "drain" ELSE "exit")
    /\ UNCHANGED <<nodes, policy, runtimeStarted, probeRunning, probeWake, ctxDone, probed,
                   snap, arg, ops>>

\* drainProbeWake.
LoopDrain(l) ==
    /\ pc[l] = "drain"
    /\ probeWake' = FALSE
    /\ Goto(l, "round")
    /\ UNCHANGED <<nodes, policy, runtimeStarted, probeRunning, ctxDone, probed, snap, arg, ops>>

\* runLeastLatencyProbeRound takes up the nodes of the group, unless the core is
\* closed.
LoopRound(l) ==
    /\ pc[l] = "round"
    /\ probed' = IF ctxDone THEN probed ELSE nodes
    /\ Goto(l, IF ctxDone THEN "sleep" ELSE "probing")
    /\ UNCHANGED <<nodes, policy, runtimeStarted, probeRunning, probeWake, ctxDone,
                   snap, arg, ops>>

\* Mutant: the tokens of the round are drained at its end.
LoopProbedDrains(l) ==
    /\ pc[l] = "probing"
    /\ probeWake' = FALSE
    /\ Goto(l, "sleep")
    /\ UNCHANGED <<nodes, policy, runtimeStarted, probeRunning, ctxDone, probed, snap, arg, ops>>

LoopProbed(l) ==
    /\ pc[l] = "probing"
    /\ Goto(l, "sleep")
    /\ UNCHANGED <<nodes, policy, runtimeStarted, probeRunning, probeWake, ctxDone, probed,
                   snap, arg, ops>>

\* The select of the loop: a token, the timer, or the end of the core.
LoopWoken(l) ==
    /\ pc[l] = "sleep" /\ probeWake
    /\ probeWake' = FALSE
    /\ Goto(l, "top")
    /\ UNCHANGED <<nodes, policy, runtimeStarted, probeRunning, ctxDone, probed, snap, arg, ops>>

LoopTimer(l) ==
    /\ pc[l] = "sleep"
    /\ Goto(l, "top")
    /\ UNCHANGED <<nodes, policy, runtimeStarted, probeRunning, probeWake, ctxDone, probed,
                   snap, arg, ops>>

LoopCancelled(l) ==
    /\ pc[l] = "sleep" /\ ctxDone
    /\ Goto(l, "exit")
    /\ UNCHANGED <<nodes, policy, runtimeStarted, probeRunning, probeWake, ctxDone, probed,
                   snap, arg, ops>>

\* Mutant: the loop ends without looking again.
LoopExitForGood(l) ==
    /\ pc[l] = "exit"
    /\ probeRunning' = FALSE
    /\ Goto(l, "idle")
    /\ UNCHANGED <<nodes, policy, runtimeStarted, probeWake, ctxDone, probed, snap, arg, ops>>

\* The deferred function: a change made since the loop decided to end is seen
\* by another ensureLeastLatencyProbeLoop.
LoopExit(l) ==
    /\ pc[l] = "exit"
    /\ probeRunning' = FALSE
    /\ Goto(l, "ensure")
    /\ UNCHANGED <<nodes, policy, runtimeStarted, probeWake, ctxDone, probed, snap, arg, ops>>

-----------------------------------------------------------------------------
Operation(c) ==
    \/ \E n \in Nodes : AddNode(c, n)
    \/ \E p \in Policies : UpdatePolicy(c, p)
    \/ StartProbing(c) \/ StopProbing(c) \/ CoreClose(c)

Ensure(p) == EnsureContext(p) \/ EnsureSnapshot(p) \/ Spawn(p) \/ NoSpawn(p)

Loop(l) ==
    \/ LoopSnapshot(l) \/ LoopActive(l) \/ LoopDrain(l) \/ LoopRound(l) \/ LoopProbed(l)
    \/ LoopWoken(l) \/ LoopTimer(l) \/ LoopCancelled(l) \/ LoopExit(l)

Next ==
    \/ \E c \in Callers : Operation(c) \/ CloseStops(c) \/ Wake(c)
    \/ \E p \in Procs : Ensure(p)
    \/ \E l \in Loops : Loop(l)

Spec == Init /\ [][Next]_vars

\* Goroutines run on; the timer fires; a probe ends by its timeout.
Fairness ==
    /\ \A c \in Callers : WF_vars(CloseStops(c) \/ Wake(c))
    /\ \A p \in Procs : WF_vars(Ensure(p))
    /\ \A l \in Loops : WF_vars(Loop(l))

FairSpec == Spec /\ Fairness

-----------------------------------------------------------------------------
InLoop(l) == pc[l] \in LoopPc

\* There is never a second loop beside the first, and probeRunning says whether
\* there is one.
OneLoop ==
    /\ \A l, k \in Loops : InLoop(l) /\ InLoop(k) => l = k
    /\ probeRunning <=> \E l \in Loops : InLoop(l)

\* Whenever nobody is inside ensureLeastLatencyProbeLoop a started least-latency
\* group has its loop: switching the strategy to and fro never leaves it
\* without one.
LoopPresent ==
    runtimeStarted = "yes" /\ policy = "leastLatency" /\ ~ctxDone
        => probeRunning \/ \E p \in Procs : pc[p] \in EnsurePc

\* The loop does not sleep over a node whose AddNode has returned: it has been
\* taken up by a round or a token is waiting.
WakeNotLost ==
    \A l \in Loops : pc[l] = "sleep" /\ ~ctxDone =>
        probeWake \/ nodes \subseteq probed \cup {arg[c] : c \in Callers}

\* The loop of a removed group or of a closed core ends.
LoopEnds == (runtimeStarted = "stopped") ~> (~probeRunning)
=============================================================================
