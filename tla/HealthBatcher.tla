---------------------------- MODULE HealthBatcher ----------------------------
(***************************************************************************)
(* The write-back cache of node health records                             *)
(* (service/proxy/health_batcher.go).  Probe results, blacklist changes    *)
(* and revivals are applied to memory; a background goroutine writes the   *)
(* dirty entries to the database every 30 seconds and once more when the   *)
(* batcher is stopped.  A settings import discards the cache before and    *)
(* after it replaces the database.                                         *)
(*                                                                         *)
(* The content of a record, in memory or in the database, is represented   *)
(* by the set of updates it reflects: that is what tells a lost or a       *)
(* resurrected update from a kept one.                                     *)
(*                                                                         *)
(* Every process runs the code's own steps between two lock operations:    *)
(* a recorder (an HTTP handler, the health runner, a traffic callback),    *)
(* a run (one incarnation of the goroutine nodeHealthBatcher.run), and     *)
(* Main, the caller of HealthStop and of SettingsImport.                   *)
(***************************************************************************)
EXTENDS Naturals

CONSTANTS
    Nodes,      \* node identifiers
    Updates,    \* health updates; each one is issued at most once
    Recorders,  \* concurrent callers of the recording and reading operations
    Runs,       \* slots for incarnations of the background goroutine
    Main,       \* the caller of HealthStop and SettingsImport
    None,       \* no process, no update
    Overlap     \* may calls be in progress during a shutdown, as in the server?

ASSUME OverlapIsBoolean == Overlap \in BOOLEAN
ASSUME ProcsDistinct ==
    /\ Main \notin Recorders \cup Runs
    /\ Recorders \cap Runs = {}
    /\ None \notin Recorders \cup Runs \cup {Main} \cup Updates

Procs == Recorders \cup Runs \cup {Main}

VARIABLES
    nodes,        \* rows of proxy_nodes
    db,           \* health rows: what each node's rows reflect ({}: no rows)
    states,       \* b.states
    loaded,       \* b.loaded
    loadMu,       \* holder of b.loadMu between the read and the install
    loadBuf,      \* the rows that holder has read
    flushMu,      \* holder of b.flushMu
    batch,        \* nodes of the holder's payloads
    payload,      \* the payloads: content and revision of each node
    exists,       \* payload.exists
    current,      \* the run behind b.cancel and b.done (None: not started)
    cancelled,    \* runs whose context is cancelled
    flushOnStop,  \* b.flushOnStop
    final,        \* runs that are in the flush after ctx.Done
    waitFor,      \* the run whose done channel Main waits for
    mode,         \* which shutdown Main executes
    finalFailed,  \* the flush of the shutdown in progress returned an error
    op,           \* the recorders' arguments
    issued,       \* updates already handed to some recorder
    pc,           \* the next step of each process
    reloaded,     \* history: a call loaded the cache in the middle of the last shutdown
    owed          \* history: what the cache knew when the stop in progress began

dbVars      == <<nodes, db>>
loadVars    == <<loaded, loadMu, loadBuf, reloaded>>
flushVars   == <<flushMu, batch, payload, exists>>
runVars     == <<current, cancelled, flushOnStop, final>>
mainVars    == <<waitFor, mode, finalFailed, owed>>
recVars     == <<op, issued>>
vars == <<dbVars, states, loadVars, flushVars, runVars, mainVars, recVars, pc>>

Content == SUBSET Updates
Entry   == [present: BOOLEAN, content: Content, dirty: BOOLEAN, revision: Nat]
Absent  == [present |-> FALSE, content |-> {}, dirty |-> FALSE, revision |-> 0]
Blank   == [n \in Nodes |-> {}]

\* No operation in progress, or a read (get, list, blacklistedIDs).
NoOp == [nodes |-> {}, update |-> None]

RecorderPc == {"idle", "load", "install", "start", "apply"}
FlushPc    == {"load", "install", "collect", "check", "commit", "mark"}
RunPc      == {"dead", "loop"} \cup FlushPc
MainPc     == {"idle", "wait", "unload", "reset", "import", "discard"} \cup FlushPc
Modes      == {"stop", "import1", "import2"}

\* The type invariant.  A caller that only reads never gets as far as starting
\* the goroutine or applying something.
TypeOK ==
    /\ nodes \subseteq Nodes
    /\ db \in [Nodes -> Content]
    /\ states \in [Nodes -> Entry]
    /\ loaded \in BOOLEAN
    /\ loadMu \in Procs \cup {None}
    /\ loadBuf \in [Nodes -> Content]
    /\ flushMu \in Runs \cup {Main, None}
    /\ batch \subseteq Nodes
    /\ payload \in [Nodes -> [content: Content, revision: Nat]]
    /\ exists \subseteq Nodes
    /\ current \in Runs \cup {None}
    /\ cancelled \subseteq Runs
    /\ flushOnStop \in BOOLEAN
    /\ final \subseteq Runs
    /\ waitFor \in Runs \cup {None}
    /\ mode \in Modes
    /\ finalFailed \in BOOLEAN
    /\ op \in [Recorders -> [nodes: SUBSET Nodes, update: Updates \cup {None}]]
    /\ issued \subseteq Updates
    /\ reloaded \in BOOLEAN
    /\ owed \in [Nodes -> Content]
    /\ pc \in [Procs -> RecorderPc \cup RunPc \cup MainPc]
    /\ \A r \in Recorders : /\ pc[r] \in RecorderPc
                            /\ pc[r] \in {"start", "apply"} => op[r].update # None
    /\ \A g \in Runs : pc[g] \in RunPc
    /\ pc[Main] \in MainPc

NoPayload == [n \in Nodes |-> [content |-> {}, revision |-> 0]]

NoEntries == [n \in Nodes |-> Absent]
StartPc   == [p \in Procs |-> IF p \in Runs THEN "dead" ELSE "idle"]

Init ==
    /\ nodes = Nodes
    /\ db = Blank
    /\ issued = {}
    /\ states = NoEntries
    /\ loaded = FALSE
    /\ loadMu = None
    /\ loadBuf = Blank
    /\ flushMu = None
    /\ batch = {}
    /\ payload = NoPayload
    /\ exists = {}
    /\ current = None
    /\ cancelled = {}
    /\ flushOnStop = FALSE
    /\ final = {}
    /\ waitFor = None
    /\ mode = "stop"
    /\ finalFailed = FALSE
    /\ op = [r \in Recorders |-> NoOp]
    /\ pc = StartPc
    /\ reloaded = FALSE
    /\ owed = Blank

\* What a reader is told of the existing nodes: memory if it is loaded, otherwise the
\* rows that the next load will find.
Known == [n \in Nodes |-> IF n \notin nodes THEN {}
                          ELSE IF loaded THEN states[n].content ELSE db[n]]

Goto(p, label) == pc' = [pc EXCEPT ![p] = label]

-----------------------------------------------------------------------------
(***************************************************************************)
(* Callers of the recording operations.                                    *)
(***************************************************************************)

\* recordProbeResult and updateSnapshot name one node, reviveNodes several.
BeginUpdate(r, S, u) ==
    /\ pc[r] = "idle"
    /\ Overlap \/ pc[Main] = "idle"
    /\ S # {} /\ u \notin issued
    /\ op' = [op EXCEPT ![r] = [nodes |-> S, update |-> u]]
    /\ issued' = issued \cup {u}
    /\ Goto(r, "load")
    /\ UNCHANGED <<dbVars, states, loadVars, flushVars, runVars, mainVars>>

\* get, list, mapByNodeIDs and blacklistedIDs only make sure of the load.
BeginRead(r) ==
    /\ pc[r] = "idle" /\ ~loaded
    /\ Overlap \/ pc[Main] = "idle"
    /\ op' = [op EXCEPT ![r] = NoOp]
    /\ Goto(r, "load")
    /\ UNCHANGED <<dbVars, states, loadVars, flushVars, runVars, mainVars, issued>>

\* Mutant of EnsureStarted: the goroutine is never started.
EnsureStartedNever(r) ==
    /\ pc[r] = "start"
    /\ Goto(r, "apply")
    /\ UNCHANGED <<dbVars, states, loadVars, flushVars, runVars, mainVars, recVars>>

\* ensureStarted: start a run unless one is registered.
EnsureStarted(r) ==
    /\ pc[r] = "start"
    /\ \/ /\ current # None
          /\ Goto(r, "apply")
          /\ UNCHANGED runVars
       \/ /\ current = None
          /\ \E g \in Runs :
                /\ pc[g] = "dead" /\ g # waitFor
                /\ current' = g
                /\ pc' = [pc EXCEPT ![r] = "apply", ![g] = "loop"]
          /\ flushOnStop' = TRUE
          /\ UNCHANGED <<cancelled, final>>
    /\ UNCHANGED <<dbVars, states, loadVars, flushVars, mainVars, recVars>>

Updated(entry, u) ==
    [present  |-> TRUE, content |-> entry.content \cup {u},
     dirty    |-> TRUE, revision |-> entry.revision + 1]

\* The critical section under b.mu: create the entry if need be, apply the
\* update, mark it dirty and advance the revision.
Apply(r) ==
    /\ pc[r] = "apply"
    /\ states' = [n \in Nodes |-> IF n \in op[r].nodes
                                  THEN Updated(states[n], op[r].update)
                                  ELSE states[n]]
    /\ op' = [op EXCEPT ![r] = NoOp]
    /\ Goto(r, "idle")
    /\ UNCHANGED <<dbVars, loadVars, flushVars, runVars, mainVars, issued>>

\* applyNodeHealthProbeRecord ignores a failure that traffic and a mapping test
\* have both reported: the entry stays as it is.
ApplyDuplicate(r) ==
    /\ pc[r] = "apply"
    /\ \E n \in Nodes : op[r].nodes = {n} /\ states[n].present
    /\ op' = [op EXCEPT ![r] = NoOp]
    /\ Goto(r, "idle")
    /\ UNCHANGED <<dbVars, states, loadVars, flushVars, runVars, mainVars, issued>>

-----------------------------------------------------------------------------
(***************************************************************************)
(* ensureLoaded, called by recorders and by flush.                         *)
(***************************************************************************)

AfterFlush(p) ==
    IF p = Main THEN "unload" ELSE IF p \in final THEN "dead" ELSE "loop"

AfterLoad(p) ==
    IF p \notin Recorders THEN "collect"
    ELSE IF op[p].update = None THEN "idle" ELSE "start"

AfterLoadError(p) == IF p \in Recorders THEN "idle" ELSE AfterFlush(p)

\* A flush that is the last of its shutdown has failed.
NoteFailure(p) == finalFailed' = (finalFailed \/ p = Main \/ p \in final)

\* Already loaded: nothing to do.
AlreadyLoaded(p) ==
    /\ pc[p] = "load" /\ loadMu = None /\ loaded
    /\ Goto(p, AfterLoad(p))
    /\ UNCHANGED <<dbVars, states, loadVars, flushVars, runVars, mainVars, recVars>>

\* Read the rows, keeping b.loadMu.
LoadRead(p) ==
    /\ pc[p] = "load" /\ loadMu = None /\ ~loaded
    /\ loadMu' = p
    /\ loadBuf' = db
    /\ Goto(p, "install")
    /\ UNCHANGED <<dbVars, states, loaded, reloaded, flushVars, runVars, mainVars, recVars>>

\* The read fails: the recorder's call or the flush returns the error.
LoadError(p) ==
    /\ pc[p] = "load" /\ loadMu = None /\ ~loaded
    /\ NoteFailure(p)
    /\ op' = IF p \in Recorders THEN [op EXCEPT ![p] = NoOp] ELSE op
    /\ Goto(p, AfterLoadError(p))
    /\ UNCHANGED <<dbVars, states, loadVars, flushVars, runVars, waitFor, mode, owed, issued>>

LoadedEntry(content) ==
    IF content = {} THEN Absent
    ELSE [present |-> TRUE, content |-> content, dirty |-> FALSE, revision |-> 0]

\* Replace b.states by what was read, whatever it holds now.
LoadInstall(p) ==
    /\ pc[p] = "install"
    /\ states' = [n \in Nodes |-> LoadedEntry(loadBuf[n])]
    /\ loaded' = TRUE
    /\ reloaded' = (pc[Main] = "reset")
    /\ loadMu' = None
    /\ loadBuf' = Blank
    /\ Goto(p, AfterLoad(p))
    /\ UNCHANGED <<dbVars, flushVars, runVars, mainVars, recVars>>

-----------------------------------------------------------------------------
(***************************************************************************)
(* flush.                                                                  *)
(***************************************************************************)

Dirty(n) == states[n].present /\ states[n].dirty

ReleaseFlush ==
    /\ flushMu' = None
    /\ batch' = {}
    /\ payload' = NoPayload
    /\ exists' = {}

\* Copy the dirty entries under the read lock.
Collect(p) ==
    /\ pc[p] = "collect" /\ flushMu = None
    /\ LET dirty == {n \in Nodes : Dirty(n)} IN
       IF dirty = {}
       THEN /\ Goto(p, AfterFlush(p))
            /\ UNCHANGED flushVars
       ELSE /\ flushMu' = p
            /\ batch' = dirty
            /\ payload' = [n \in Nodes |->
                             IF n \in dirty
                             THEN [content  |-> states[n].content,
                                   revision |-> states[n].revision]
                             ELSE NoPayload[n]]
            /\ Goto(p, "check")
            /\ UNCHANGED exists
    /\ UNCHANGED <<dbVars, states, loadVars, runVars, mainVars, recVars>>

\* existingNodeIDSet: which of these nodes still have a row.
CheckExists(p) ==
    /\ pc[p] = "check"
    /\ exists' = batch \cap nodes
    /\ Goto(p, IF exists' = {} THEN "mark" ELSE "commit")
    /\ UNCHANGED <<dbVars, states, loadVars, flushMu, batch, payload, runVars,
                   mainVars, recVars>>

\* The transaction: upsert the snapshots, replace the history rows.
Commit(p) ==
    /\ pc[p] = "commit"
    /\ db' = [n \in Nodes |-> IF n \in exists THEN payload[n].content ELSE db[n]]
    /\ Goto(p, "mark")
    /\ UNCHANGED <<nodes, states, loadVars, flushVars, runVars, mainVars, recVars>>

\* The query or the transaction fails: nothing is written, nothing is marked.
FlushError(p) ==
    /\ pc[p] \in {"check", "commit"}
    /\ NoteFailure(p)
    /\ ReleaseFlush
    /\ Goto(p, AfterFlush(p))
    /\ UNCHANGED <<dbVars, states, loadVars, runVars, waitFor, mode, owed, recVars>>

\* Mutant of Settled: the revision is not compared.
SettledBlindly(n) ==
    IF n \in batch /\ states[n].present
    THEN IF n \in exists THEN [states[n] EXCEPT !.dirty = FALSE] ELSE Absent
    ELSE states[n]

\* Only an entry that is still at the payload's revision is settled: dropped
\* if its node is gone, clean otherwise.
Settled(n) ==
    IF n \in batch /\ states[n].present /\ states[n].revision = payload[n].revision
    THEN IF n \in exists THEN [states[n] EXCEPT !.dirty = FALSE] ELSE Absent
    ELSE states[n]

MarkClean(p) ==
    /\ pc[p] = "mark"
    /\ states' = [n \in Nodes |-> Settled(n)]
    /\ ReleaseFlush
    /\ Goto(p, AfterFlush(p))
    /\ UNCHANGED <<dbVars, loadVars, runVars, mainVars, recVars>>

-----------------------------------------------------------------------------
(***************************************************************************)
(* run: the background goroutine.                                          *)
(***************************************************************************)

\* The ticker fires.  A run started while a shutdown is in progress is at
\* least nodeHealthFlushInterval (30s) away from its first tick; the shutdown
\* is over by then, its flushes being limited to 5s and 10s.
Tick(g) ==
    /\ pc[g] = "loop"
    /\ pc[Main] = "idle" \/ waitFor = g
    /\ Goto(g, "load")
    /\ UNCHANGED <<dbVars, states, loadVars, flushVars, runVars, mainVars, recVars>>

\* Mutant of RunStop: no flush after ctx.Done.
RunStopWithoutFlush(g) ==
    /\ pc[g] = "loop" /\ g \in cancelled
    /\ Goto(g, "dead")
    /\ UNCHANGED <<dbVars, states, loadVars, flushVars, runVars, mainVars, recVars>>

\* ctx.Done: flush once more if b.flushOnStop says so now.
RunStop(g) ==
    /\ pc[g] = "loop" /\ g \in cancelled
    /\ IF flushOnStop
       THEN final' = final \cup {g} /\ Goto(g, "load")
       ELSE final' = final /\ Goto(g, "dead")
    /\ UNCHANGED <<dbVars, states, loadVars, flushVars, current, cancelled,
                   flushOnStop, mainVars, recVars>>

-----------------------------------------------------------------------------
(***************************************************************************)
(* shutdown, as called by HealthStop (flush) and SettingsImport (discard). *)
(***************************************************************************)

\* Mutant of ShutdownBegin: cancel() is not called.
ShutdownWithoutCancel(m) ==
    /\ flushOnStop' = (m = "stop")
    /\ waitFor' = current
    /\ current' = None
    /\ mode' = m
    /\ finalFailed' = FALSE
    /\ owed' = IF m = "stop" THEN Known ELSE Blank
    /\ Goto(Main, IF current # None THEN "wait"
                  ELSE IF m = "stop" THEN "load" ELSE "unload")
    /\ UNCHANGED <<dbVars, states, loadVars, flushVars, cancelled, final, recVars>>

\* The first part of shutdown(flush), under b.startMu, and the cancel().
ShutdownBegin(m) ==
    /\ flushOnStop' = (m = "stop")
    /\ waitFor' = current
    /\ cancelled' = IF current = None THEN cancelled ELSE cancelled \cup {current}
    /\ current' = None
    /\ mode' = m
    /\ finalFailed' = FALSE
    /\ owed' = IF m = "stop" THEN Known ELSE Blank
    /\ Goto(Main, IF current # None THEN "wait"
                  ELSE IF m = "stop" THEN "load" ELSE "unload")
    /\ UNCHANGED <<dbVars, states, loadVars, flushVars, final, recVars>>

Quiet == \A r \in Recorders : pc[r] = "idle"

\* HealthStop, or the first discard of SettingsImport.
Stop ==
    /\ pc[Main] = "idle" /\ (Overlap \/ Quiet)
    /\ ShutdownBegin("stop")

Discard ==
    /\ pc[Main] = "idle" /\ (Overlap \/ Quiet)
    /\ ShutdownBegin("import1")

\* <-done
Wait ==
    /\ pc[Main] = "wait" /\ pc[waitFor] = "dead"
    /\ waitFor' = None
    /\ cancelled' = cancelled \ {waitFor}
    /\ final' = final \ {waitFor}
    /\ Goto(Main, "unload")
    /\ UNCHANGED <<dbVars, states, loadVars, flushVars, current, flushOnStop, mode,
                   finalFailed, owed, recVars>>

\* Mutant of Unload: loaded stays set.
UnloadForgotten ==
    /\ pc[Main] = "unload" /\ loadMu = None
    /\ Goto(Main, "reset")
    /\ UNCHANGED <<dbVars, states, loadVars, flushVars, runVars, mainVars, recVars>>

Unload ==
    /\ pc[Main] = "unload" /\ loadMu = None
    /\ loaded' = FALSE
    /\ reloaded' = FALSE
    /\ Goto(Main, "reset")
    /\ UNCHANGED <<dbVars, states, loadMu, loadBuf, flushVars, runVars, mainVars, recVars>>

\* b.loadMu has been released since Unload: a call may have loaded the cache again.
Reset ==
    /\ pc[Main] = "reset"
    /\ states' = NoEntries
    /\ owed' = Blank
    /\ Goto(Main, IF mode = "import1" THEN "import" ELSE "idle")
    /\ UNCHANGED <<dbVars, loadVars, flushVars, runVars, waitFor, mode, finalFailed,
                   recVars>>

\* replaceSettingsRows commits.  The imported nodes may have the identifiers of
\* the replaced ones; the health rows are all gone.
Import ==
    /\ pc[Main] = "import"
    /\ nodes' \in SUBSET Nodes
    /\ db' = Blank
    /\ Goto(Main, "discard")
    /\ UNCHANGED <<states, loadVars, flushVars, runVars, mainVars, recVars>>

\* The second discard of SettingsImport.
DiscardAgain ==
    /\ pc[Main] = "discard"
    /\ ShutdownBegin("import2")

\* The import's transaction fails: SettingsImport returns.
ImportError ==
    /\ pc[Main] = "import"
    /\ Goto(Main, "idle")
    /\ UNCHANGED <<dbVars, states, loadVars, flushVars, runVars, mainVars, recVars>>

-----------------------------------------------------------------------------
\* NodeDelete: one transaction removes the node and its health rows.
NodeDelete(n) ==
    /\ n \in nodes
    /\ nodes' = nodes \ {n}
    /\ db' = [db EXCEPT ![n] = {}]
    /\ owed' = [owed EXCEPT ![n] = {}]
    /\ UNCHANGED <<states, loadVars, flushVars, runVars, waitFor, mode, finalFailed,
                   recVars, pc>>

\* The process dies and starts again: only the database survives.
Crash ==
    /\ states' = NoEntries
    /\ loaded' = FALSE
    /\ loadMu' = None
    /\ loadBuf' = Blank
    /\ flushMu' = None
    /\ batch' = {}
    /\ payload' = NoPayload
    /\ exists' = {}
    /\ current' = None
    /\ cancelled' = {}
    /\ flushOnStop' = FALSE
    /\ final' = {}
    /\ waitFor' = None
    /\ mode' = "stop"
    /\ finalFailed' = FALSE
    /\ op' = [r \in Recorders |-> NoOp]
    /\ pc' = StartPc
    /\ reloaded' = FALSE
    /\ owed' = Blank
    /\ UNCHANGED <<dbVars, issued>>

LoadStep(p)  == AlreadyLoaded(p) \/ LoadRead(p) \/ LoadInstall(p)
FlushStep(p) == LoadStep(p) \/ Collect(p) \/ CheckExists(p) \/ Commit(p) \/ MarkClean(p)
RecStep(r)   == LoadStep(r) \/ EnsureStarted(r) \/ Apply(r) \/ ApplyDuplicate(r)
RunStep(g)   == FlushStep(g) \/ Tick(g) \/ RunStop(g)
MainStep     == FlushStep(Main) \/ Wait \/ Unload \/ Reset \/ Import \/ DiscardAgain

Next ==
    \/ \E r \in Recorders : \/ \E S \in SUBSET Nodes, u \in Updates : BeginUpdate(r, S, u)
                            \/ BeginRead(r)
                            \/ RecStep(r)
    \/ \E g \in Runs : RunStep(g)
    \/ \E p \in Procs : LoadError(p)
    \/ \E p \in Runs \cup {Main} : FlushError(p)
    \/ MainStep \/ Stop \/ Discard \/ ImportError
    \/ \E n \in Nodes : NodeDelete(n)
    \/ Crash

Spec == Init /\ [][Next]_vars

Error == \E p \in Procs : LoadError(p) \/ (p \notin Recorders /\ FlushError(p))

\* A runnable goroutine runs and a lock is granted; select does not prefer the
\* ticker to ctx.Done forever; the database does not fail forever.  Callers,
\* deletions, stops and crashes owe nothing.
Fairness ==
    /\ \A r \in Recorders : WF_vars(RecStep(r))
    /\ \A g \in Runs : WF_vars(RunStep(g)) /\ SF_vars(RunStop(g))
    /\ WF_vars(MainStep)
    /\ <>[][~Error]_vars

FairSpec == Spec /\ Fairness

-----------------------------------------------------------------------------
\* From the import's commit to the end of the second discard memory still
\* describes the replaced database.
ImportPending == pc[Main] = "discard" \/ (mode = "import2" /\ pc[Main] # "idle")

\* A clean entry of an existing node says exactly what its rows say: a flush
\* that races further results, failing transactions, reloads and shutdowns
\* never marks clean what it has not written (the revision check of flush).
CleanIsPersisted ==
    ~ImportPending =>
        \A n \in nodes : states[n].present /\ ~states[n].dirty
                            => states[n].content = db[n]

\* While the cache is loaded it knows at least what the rows of every existing
\* node say, so the next flush of a node (which replaces its rows) forgets no
\* update, whatever calls overlap shutdowns and imports.  The one exception is
\* a cache that a call has loaded again between the two locks of a shutdown
\* (reloaded), which then empties the entries and leaves it loaded.
LoadedIsComplete ==
    loaded /\ ~reloaded => \A n \in nodes : db[n] \subseteq states[n].content

\* HealthStop drops memory only after everything the cache knew of an existing
\* node when the stop began has reached the database, unless the last flush
\* itself failed: calls may still be in progress, and runs be started again.
StopPersists ==
    mode = "stop" /\ pc[Main] \in {"unload", "reset"} /\ ~finalFailed
        => \A n \in nodes : owed[n] \subseteq db[n]

\* A deleted node has no health rows (what NodeDelete's transaction and its
\* test TestNodeDeleteHardDeletesNodeHealthRows say).
DeletedNodeHasNoRows == \A n \in Nodes \ nodes : db[n] = {}

\* Every update is eventually flushed, or its node or the process is gone.
DirtyIsFlushed == \A n \in Nodes : Dirty(n) ~> ~Dirty(n)

\* A shutdown never hangs on the goroutine it waits for.
ShutdownReturns == (pc[Main] # "idle") ~> (pc[Main] = "idle")

\* How the records look from outside: the existing nodes' rows, what a reader is told
\* of them (Known), and the shutdown under way.
Saved == [n \in Nodes |-> IF n \in nodes THEN db[n] ELSE {}]
Closing == IF pc[Main] = "idle" THEN "none" ELSE IF mode = "stop" THEN "stop" ELSE "import"
StopFailed == Closing = "stop" /\ finalFailed

Store == INSTANCE HealthStore WITH
    saved <- Saved, known <- Known, open <- loaded, torn <- reloaded, shut <- Closing,
    failed <- StopFailed

\* Loading, flushing and the deletion of other nodes never take an update away from
\* what a reader is told, a flush never takes one from the rows unless the cache was
\* reloaded in the middle of a shutdown, an orderly stop loses nothing that was known when it began,
\* and an import that no call overlaps starts from nothing.
ImplementsStore == Store!Spec

-----------------------------------------------------------------------------
(***************************************************************************)
(* The inductive invariant behind CleanIsPersisted.                        *)
(***************************************************************************)
Writing(p)  == pc[p] \in {"check", "commit", "mark"}
Flushing(p) == pc[p] \in FlushPc
Flushers    == Runs \cup {Main}

\* Who holds which lock, and what it implies for b.loaded.
LockInv ==
    /\ \A p \in Procs : pc[p] = "install" <=> loadMu = p
    /\ \A p \in Flushers : Writing(p) <=> flushMu = p
    /\ loadMu # None => ~loaded
    /\ \A p \in Flushers : Writing(p) \/ pc[p] = "collect" => loaded
    /\ flushMu = None => batch = {}

\* A live run is the registered one or the one Main waits for; while Main is
\* busy only the latter may be flushing.
RunInv ==
    /\ \A g \in Runs : pc[g] # "dead" => g = current \/ g = waitFor
    /\ \A g \in Runs : Flushing(g) => pc[Main] = "idle" \/ g = waitFor
    /\ cancelled \subseteq {waitFor}
    /\ waitFor # None <=> pc[Main] = "wait"
    /\ pc[Main] \in {"import", "discard"} => mode = "import1"

\* The entries a flush works on are still dirty, and still what it copied
\* unless their revision has advanced; what it has written is in the rows.
BatchInv ==
    /\ exists \subseteq batch
    /\ \A n \in batch :
          /\ states[n].present /\ states[n].dirty
          /\ payload[n].revision <= states[n].revision
          /\ payload[n].revision = states[n].revision
                => payload[n].content = states[n].content
    /\ \A p \in Flushers : pc[p] = "mark"
          => \A n \in exists \cap nodes : db[n] = payload[n].content

\* What a loader has read is still what the rows say.
LoadInv ==
    loadMu # None
        => \/ \A n \in nodes : loadBuf[n] = db[n]
           \/ ImportPending /\ pc[Main] # "reset"

\* CleanIsPersisted with what makes it inductive: the locks, the one live run, and
\* the fact that an entry stays dirty, and as it was copied or with a higher
\* revision, as long as a flush works on it.
IInv == TypeOK /\ LockInv /\ RunInv /\ BatchInv /\ LoadInv /\ CleanIsPersisted
=============================================================================
