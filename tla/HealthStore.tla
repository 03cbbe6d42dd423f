----------------------------- MODULE HealthStore -----------------------------
(***************************************************************************)
(* What the health records promise to those who record and read them.      *)
(*                                                                         *)
(* There are no entries, revisions, locks or goroutines here: of every     *)
(* node something is known, which is what a reader is told, and a part of  *)
(* it is saved.  Opening, saving and deleting other nodes take nothing     *)
(* away from what is known.  A stop closes the records only when all that  *)
(* was known at its beginning is saved, unless a save failed; a crash      *)
(* keeps what was saved.                                                   *)
(*                                                                         *)
(* Calls may go on while the records are shut down, and open them again.   *)
(* Records opened in the middle of a shutdown may be torn until they are   *)
(* next closed: the shutdown may empty them, and only torn records may     *)
(* save less than was saved.  And an import that finds the records open,   *)
(* or about to be filled with the rows it replaces, does not decide what   *)
(* is known until it closes them.                                          *)
(***************************************************************************)
CONSTANTS
    Nodes,   \* node identifiers
    Updates  \* health updates

VARIABLES
    nodes,   \* the nodes that exist
    saved,   \* the updates of each existing node that survive a crash
    known,   \* the updates of each existing node that a reader is told of
    open,    \* the records are in memory
    torn,    \* the open records were opened in the middle of a shutdown
    shut,    \* the shutdown under way: none, to stop, or to import settings
    owed,    \* what was known when the stop under way began
    failed   \* a save of this stop has failed

vars == <<nodes, saved, known, open, torn, shut, owed, failed>>

Nothing == [n \in Nodes |-> {}]

\* f without the nodes outside N, and: f says no more than g.
On(f, N)    == [n \in Nodes |-> IF n \in N THEN f[n] ELSE {}]
Within(f, g) == \A n \in Nodes : f[n] \subseteq g[n]

Init ==
    /\ nodes = Nodes
    /\ saved = Nothing
    /\ known = Nothing
    /\ open = FALSE
    /\ torn = FALSE
    /\ shut = "none"
    /\ owed = Nothing
    /\ failed = FALSE

Open ==
    /\ ~open
    /\ open' = TRUE
    /\ torn' \in {FALSE, shut # "none"}
    /\ UNCHANGED <<nodes, saved, known, shut, owed, failed>>

\* The records are filled with rows that were read before an import replaced them.
OpenOld(old) ==
    /\ ~open /\ shut = "import"
    /\ open' = TRUE
    /\ known' = On(old, nodes) /\ Within(saved, known')
    /\ UNCHANGED <<nodes, saved, torn, shut, owed, failed>>

Record(S, u) ==
    /\ open
    /\ known' = [n \in Nodes |-> IF n \in S \cap nodes THEN known[n] \cup {u} ELSE known[n]]
    /\ UNCHANGED <<nodes, saved, open, torn, shut, owed, failed>>

\* The rows of some nodes are replaced, by nothing that is not known, and by something
\* that says at least as much unless the records are torn.
Save(rows) ==
    /\ open
    /\ saved' = rows
    /\ \A n \in Nodes : \/ rows[n] = saved[n]
                        \/ /\ rows[n] \subseteq known[n]
                           /\ torn \/ saved[n] \subseteq rows[n]
    /\ UNCHANGED <<nodes, known, open, torn, shut, owed, failed>>

SaveFails ==
    /\ shut = "stop"
    /\ failed' = TRUE
    /\ UNCHANGED <<nodes, saved, known, open, torn, shut, owed>>

Delete(n) ==
    /\ n \in nodes
    /\ nodes' = nodes \ {n}
    /\ saved' = On(saved, nodes')
    /\ known' = On(known, nodes')
    /\ owed' = On(owed, nodes')
    /\ UNCHANGED <<open, torn, shut, failed>>

Begin(why) ==
    /\ shut = "none"
    /\ shut' = why
    /\ owed' = IF why = "stop" THEN known ELSE Nothing
    /\ UNCHANGED <<nodes, saved, known, open, torn, failed>>

\* Memory is dropped.  A stop has saved what it owes first, or it has failed to.
Close ==
    /\ open /\ shut # "none"
    /\ shut = "stop" /\ ~failed => Within(owed, saved)
    /\ open' = FALSE
    /\ torn' = FALSE
    /\ known' = saved
    /\ UNCHANGED <<nodes, saved, shut, owed, failed>>

\* Records that were opened in the middle of the shutdown are emptied, but stay open.
Wipe ==
    /\ torn
    /\ known' = Nothing
    /\ UNCHANGED <<nodes, saved, open, torn>>

Emptied == shut # "none" /\ Wipe /\ UNCHANGED <<shut, owed, failed>>

\* The settings are replaced: other nodes, of which nothing is saved, and nothing is
\* known unless the records are open.
Replace(N, old) ==
    /\ shut = "import"
    /\ nodes' = N
    /\ saved' = Nothing
    /\ known' = IF open THEN On(old, N) ELSE Nothing
    /\ UNCHANGED <<open, torn, shut, owed, failed>>

Return ==
    /\ shut # "none"
    /\ shut' = "none"
    /\ owed' = Nothing
    /\ failed' = FALSE
    /\ Wipe \/ UNCHANGED <<nodes, saved, known, open, torn>>

Crash ==
    /\ known' = saved
    /\ open' = FALSE
    /\ torn' = FALSE
    /\ shut' = "none"
    /\ owed' = Nothing
    /\ failed' = FALSE
    /\ UNCHANGED <<nodes, saved>>

Next ==
    \/ Open \/ Close \/ Emptied \/ SaveFails \/ Return \/ Crash
    \/ \E S \in SUBSET Nodes, u \in Updates : Record(S, u)
    \/ \E rows \in [Nodes -> SUBSET Updates] : Save(rows) \/ OpenOld(rows)
    \/ \E n \in Nodes : Delete(n)
    \/ \E why \in {"stop", "import"} : Begin(why)
    \/ \E N \in SUBSET Nodes, old \in [Nodes -> SUBSET Updates] : Replace(N, old)

Spec == Init /\ [][Next]_vars
=============================================================================
