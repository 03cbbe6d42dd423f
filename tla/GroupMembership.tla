--------------------------- MODULE GroupMembership ---------------------------
(***************************************************************************)
(* What a dynamic group promises to those who use it: the service, which   *)
(* applies plans to it, and the clients, who dial through it.              *)
(*                                                                         *)
(* There are no objects, tombstones or snapshots here: a node can be used  *)
(* or not.  A sync makes the nodes of its plan usable and the others       *)
(* unusable, one at a time, and no node that is in the plan before and     *)
(* after ever stops serving on the way.  Connections run through usable    *)
(* nodes only, and those of a retired node are cut before the sync goes    *)
(* on.  DynamicGroup implements this specification.                        *)
(***************************************************************************)

CONSTANTS
    Nodes,    \* member identifiers
    Builtin,  \* direct and block
    Dials,    \* concurrent connections
    None

VARIABLES
    goal,     \* the nodes of the plan that is being, or has been, applied
    syncing,  \* a sync is under way
    done,     \* the latest sync has succeeded
    held,     \* the nodes that its snapshot showed as leaving the group
    usable,   \* the nodes that can be dialled
    cut,      \* the node whose connections are about to be closed
    conn      \* the node each open connection runs through

vars == <<goal, syncing, done, held, usable, cut, conn>>

Init ==
    /\ goal \in SUBSET Nodes
    /\ syncing = FALSE
    /\ done = FALSE
    /\ held = {}
    /\ usable = {}
    /\ cut = None
    /\ conn = [d \in Dials |-> None]

Begin(G) ==
    /\ ~syncing
    /\ goal' = G
    /\ syncing' = TRUE
    /\ done' = FALSE
    /\ UNCHANGED <<held, usable, cut, conn>>

\* The snapshot: none of the nodes that are leaving can be used.
Look(H) ==
    /\ syncing /\ H \cap usable = {}
    /\ held' = H
    /\ UNCHANGED <<goal, syncing, done, usable, cut, conn>>

Admit(n) ==
    /\ syncing /\ cut = None /\ n \in goal \ usable
    /\ usable' = usable \cup {n}
    /\ UNCHANGED <<goal, syncing, done, held, cut, conn>>

Retire(n) ==
    /\ syncing /\ cut = None /\ n \notin goal
    /\ usable' = usable \ {n}
    /\ cut' = n
    /\ UNCHANGED <<goal, syncing, done, held, conn>>

Cut ==
    /\ cut # None
    /\ cut' = None
    /\ conn' = [d \in Dials |-> IF conn[d] = cut THEN None ELSE conn[d]]
    /\ UNCHANGED <<goal, syncing, done, held, usable>>

\* What a successful sync leaves behind: nothing but the plan, and of the plan
\* everything but builtins and nodes that were leaving at the snapshot.
Agrees == usable \subseteq goal /\ goal \ (Builtin \cup held) \subseteq usable

End(ok) ==
    /\ syncing /\ cut = None
    /\ ok => Agrees
    /\ syncing' = FALSE
    /\ done' = ok
    /\ UNCHANGED <<goal, held, usable, cut, conn>>

Connect(d) ==
    /\ conn[d] = None
    /\ \E n \in usable : conn' = [conn EXCEPT ![d] = n]
    /\ UNCHANGED <<goal, syncing, done, held, usable, cut>>

\* Connections end at any time: closed by a side, or because a node is blacklisted.
Disconnect(D) ==
    /\ conn' = [d \in Dials |-> IF d \in D THEN None ELSE conn[d]]
    /\ UNCHANGED <<goal, syncing, done, held, usable, cut>>

Next ==
    \/ \E S \in SUBSET Nodes : Begin(S) \/ Look(S)
    \/ \E n \in Nodes : Admit(n) \/ Retire(n)
    \/ Cut
    \/ \E ok \in BOOLEAN : End(ok)
    \/ \E d \in Dials : Connect(d)
    \/ \E D \in SUBSET Dials : Disconnect(D)

Spec == Init /\ [][Next]_vars
=============================================================================
