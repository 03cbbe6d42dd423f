------------------------ MODULE HealthBatcherProofs ------------------------
(***************************************************************************)
(* Proofs about HealthBatcher, for every set of nodes, updates, recorders  *)
(* and goroutine slots, with and without calls that overlap a shutdown.    *)
(*                                                                         *)
(* CleanIsPersisted is not inductive by itself.  Its strengthening IInv    *)
(* adds who holds which lock (LockInv), that only the goroutine Main waits *)
(* for may be in a flush while Main is busy (RunInv), what a flush in      *)
(* progress knows about the entries it copied (BatchInv) and that a loader *)
(* installs what the rows still say (LoadInv).                             *)
(*                                                                         *)
(* KeepInv adds what the rows and a stop are owed: memory knows at least   *)
(* what a flush has copied (CopyInv), a flush writes and a loader reads no *)
(* less than the rows say (RowsInv), what a stop owes is known until it    *)
(* unloads (OwedInv), and in the rows once its last flush has written      *)
(* (LastFlush).  The refinement of HealthStore follows from the two.       *)
(***************************************************************************)
EXTENDS HealthBatcher, TLAPS

USE ProcsDistinct
    DEF Procs, Flushers, Goto, dbVars, loadVars, flushVars, runVars, mainVars,
        recVars, Content, Entry, Absent, Blank, NoOp, NoEntries, NoPayload,
        RecorderPc, FlushPc, RunPc, MainPc, Modes

\* Init gives every variable of the cache a value of its type.
LEMMA InitTypeOK == Init => TypeOK
<1> SUFFICES ASSUME Init PROVE TypeOK
  OBVIOUS
<1>1. loaded \in BOOLEAN /\ flushOnStop \in BOOLEAN /\ finalFailed \in BOOLEAN
  BY DEF Init
<1>2. pc \in [Procs -> RecorderPc \cup RunPc \cup MainPc]
  BY DEF Init, StartPc
<1>3. states \in [Nodes -> Entry]
  BY DEF Init
<1> QED BY <1>1, <1>2, <1>3 DEF Init, TypeOK, StartPc

\* Every action of the batcher keeps the types.
LEMMA TypeStep == TypeOK /\ [Next]_vars => TypeOK'
<1> SUFFICES ASSUME TypeOK, [Next]_vars PROVE TypeOK'
  OBVIOUS
<1>1. ASSUME NEW r \in Recorders, NEW S \in SUBSET Nodes, NEW u \in Updates,
             BeginUpdate(r, S, u)
      PROVE  TypeOK'
  BY <1>1 DEF TypeOK, BeginUpdate
<1>2. ASSUME NEW r \in Recorders, BeginRead(r)
      PROVE  TypeOK'
  BY <1>2 DEF TypeOK, BeginRead
<1>3. ASSUME NEW r \in Recorders, EnsureStarted(r)
      PROVE  TypeOK'
  <2>1. CASE current # None
    <3>1. pc' = [pc EXCEPT ![r] = "apply"] /\ UNCHANGED runVars
      BY <1>3, <2>1 DEF EnsureStarted
    <3>2. loaded' \in BOOLEAN /\ flushOnStop' \in BOOLEAN /\ finalFailed' \in BOOLEAN
      BY <1>3, <3>1 DEF TypeOK, EnsureStarted
    <3> QED BY <1>3, <3>1, <3>2 DEF TypeOK, EnsureStarted
  <2>2. CASE current = None
    <3>1. PICK g \in Runs : /\ current' = g
                           /\ pc' = [pc EXCEPT ![r] = "apply", ![g] = "loop"]
      BY <1>3, <2>2 DEF EnsureStarted
    <3>2. flushOnStop' \in BOOLEAN
      BY <1>3, <2>2 DEF EnsureStarted
    <3>3. pc' \in [Procs -> RecorderPc \cup RunPc \cup MainPc]
      BY <3>1 DEF TypeOK
    <3>4. (\A q \in Recorders : pc'[q] = IF q = r THEN "apply" ELSE pc[q])
          /\ (\A h \in Runs : pc'[h] = IF h = g THEN "loop" ELSE pc[h]) /\ pc'[Main] = pc[Main]
      BY <3>1, ProcsDistinct DEF TypeOK, Procs
    <3>5. /\ \A q \in Recorders : pc'[q] \in RecorderPc /\ (pc'[q] \in {"start", "apply"} => op[q].update # None)
          /\ \A h \in Runs : pc'[h] \in RunPc
          /\ pc'[Main] \in MainPc
      BY <1>3, <3>4 DEF TypeOK, EnsureStarted
    <3>6. UNCHANGED <<dbVars, states, loadVars, flushVars, mainVars, recVars, cancelled, final>>
      BY <1>3, <2>2 DEF EnsureStarted
    <3>7. current' \in Runs /\ loaded' \in BOOLEAN /\ reloaded' \in BOOLEAN /\ finalFailed' \in BOOLEAN
      BY <3>1, <3>6 DEF TypeOK
    <3> QED BY <3>2, <3>3, <3>5, <3>6, <3>7 DEF TypeOK
  <2> QED BY <2>1, <2>2
<1>4. ASSUME NEW r \in Recorders, Apply(r)
      PROVE  TypeOK'
  <2>1. op[r].update \in Updates
    BY <1>4 DEF TypeOK, Apply
  <2>2. ASSUME NEW n \in Nodes
        PROVE  Updated(states[n], op[r].update) \in Entry
    BY <1>4, <2>1 DEF TypeOK, Updated
  <2>3. states' \in [Nodes -> Entry]
    BY <1>4, <2>2 DEF TypeOK, Apply
  <2> QED BY <1>4, <2>3 DEF TypeOK, Apply
<1>5. ASSUME NEW p \in Procs, AlreadyLoaded(p)
      PROVE  TypeOK'
  BY <1>5 DEF TypeOK, AlreadyLoaded, AfterLoad
<1>6. ASSUME NEW p \in Procs, LoadRead(p)
      PROVE  TypeOK'
  BY <1>6 DEF TypeOK, LoadRead
<1>7. ASSUME NEW p \in Procs, LoadInstall(p)
      PROVE  TypeOK'
  BY <1>7 DEF TypeOK, LoadInstall, AfterLoad, LoadedEntry
<1>8. ASSUME NEW p \in Procs, LoadError(p)
      PROVE  TypeOK'
  BY <1>8 DEF TypeOK, LoadError, AfterLoadError, AfterFlush, NoteFailure
<1>9. ASSUME NEW p \in Flushers, Collect(p)
      PROVE  TypeOK'
  <2>1. UNCHANGED <<dbVars, states, loadVars, runVars, mainVars, recVars>>
    BY <1>9 DEF Collect
  <2>2. /\ flushMu' \in Runs \cup {Main, None} /\ batch' \subseteq Nodes /\ exists' \subseteq Nodes
        /\ payload' \in [Nodes -> [content: Content, revision: Nat]]
        /\ \E l \in {"check", AfterFlush(p)} : pc' = [pc EXCEPT ![p] = l]
    BY <1>9 DEF TypeOK, Collect, Dirty
  <2>3. loaded' \in BOOLEAN /\ reloaded' \in BOOLEAN /\ flushOnStop' \in BOOLEAN /\ finalFailed' \in BOOLEAN
    BY <2>1 DEF TypeOK
  <2> QED BY <2>1, <2>2, <2>3 DEF TypeOK, AfterFlush
<1>10. ASSUME NEW p \in Flushers, CheckExists(p)
       PROVE  TypeOK'
  BY <1>10 DEF TypeOK, CheckExists
<1>11. ASSUME NEW p \in Flushers, Commit(p)
       PROVE  TypeOK'
  BY <1>11 DEF TypeOK, Commit
<1>12. ASSUME NEW p \in Flushers, FlushError(p)
       PROVE  TypeOK'
  BY <1>12 DEF TypeOK, FlushError, ReleaseFlush, AfterFlush, NoteFailure
<1>13. ASSUME NEW p \in Flushers, MarkClean(p)
       PROVE  TypeOK'
  <2>1. ASSUME NEW n \in Nodes
        PROVE  Settled(n) \in Entry
    <3>1. states[n] \in Entry
      BY <1>13 DEF TypeOK
    <3>2. [states[n] EXCEPT !.dirty = FALSE] \in Entry
      BY <3>1
    <3> QED BY <1>13, <3>1, <3>2 DEF Settled
  <2>2. states' \in [Nodes -> Entry]
    BY <1>13, <2>1 DEF MarkClean
  <2> QED BY <1>13, <2>2 DEF TypeOK, MarkClean, ReleaseFlush, AfterFlush
<1>14. ASSUME NEW g \in Runs, Tick(g)
       PROVE  TypeOK'
  BY <1>14 DEF TypeOK, Tick
<1>15. ASSUME NEW g \in Runs, RunStop(g)
       PROVE  TypeOK'
  <2>1. final' \subseteq Runs /\ \E l \in {"load", "dead"} : pc' = [pc EXCEPT ![g] = l]
    BY <1>15 DEF TypeOK, RunStop
  <2>2. loaded' \in BOOLEAN /\ flushOnStop' \in BOOLEAN /\ finalFailed' \in BOOLEAN
    BY <1>15 DEF TypeOK, RunStop
  <2> QED BY <1>15, <2>1, <2>2 DEF TypeOK, RunStop
<1>16. ASSUME NEW m \in Modes, ShutdownBegin(m)
       PROVE  TypeOK'
  <2>1. flushOnStop' \in BOOLEAN /\ finalFailed' \in BOOLEAN
    BY <1>16 DEF ShutdownBegin
  <2>2. Known \in [Nodes -> Content]
    BY DEF TypeOK, Known
  <2>3. owed' \in [Nodes -> Content]
    BY <1>16, <2>2 DEF ShutdownBegin
  <2> QED BY <1>16, <2>1, <2>3 DEF TypeOK, ShutdownBegin
<1>17. ASSUME Wait
       PROVE  TypeOK'
  BY <1>17 DEF TypeOK, Wait
<1>18. ASSUME Unload
       PROVE  TypeOK'
  <2>1. loaded' \in BOOLEAN
    BY <1>18 DEF Unload
  <2> QED BY <1>18, <2>1 DEF TypeOK, Unload
<1>19. ASSUME Reset
       PROVE  TypeOK'
  BY <1>19 DEF TypeOK, Reset
<1>20. ASSUME Import
       PROVE  TypeOK'
  BY <1>20 DEF TypeOK, Import
<1>21. ASSUME ImportError
       PROVE  TypeOK'
  BY <1>21 DEF TypeOK, ImportError
<1>22. ASSUME NEW n \in Nodes, NodeDelete(n)
       PROVE  TypeOK'
  BY <1>22 DEF TypeOK, NodeDelete
<1>23. ASSUME Crash
       PROVE  TypeOK'
  <2>1. loaded' \in BOOLEAN /\ flushOnStop' \in BOOLEAN /\ finalFailed' \in BOOLEAN
    BY <1>23 DEF Crash
  <2>2. pc' \in [Procs -> RecorderPc \cup RunPc \cup MainPc]
    BY <1>23 DEF Crash, StartPc
  <2>3. states' \in [Nodes -> Entry]
    BY <1>23 DEF Crash
  <2> QED BY <1>23, <2>1, <2>2, <2>3 DEF TypeOK, Crash, StartPc
<1>24. ASSUME UNCHANGED vars
      PROVE  TypeOK'
  BY <1>24 DEF TypeOK, vars
<1>25. ASSUME NEW r \in Recorders, ApplyDuplicate(r)
      PROVE  TypeOK'
  BY <1>25 DEF TypeOK, ApplyDuplicate
<1> QED
  BY <1>1, <1>2, <1>3, <1>4, <1>5, <1>6, <1>7, <1>8, <1>9, <1>10, <1>11,
     <1>12, <1>13, <1>14, <1>15, <1>16, <1>17, <1>18, <1>19, <1>20, <1>21,
     <1>22, <1>23, <1>24, <1>25
     DEF Next, RecStep, RunStep, MainStep, FlushStep, LoadStep, Stop, Discard,
         DiscardAgain

\* Type correctness of the cache.
THEOREM TypeCorrect == Spec => []TypeOK
<1> QED BY InitTypeOK, TypeStep, PTL DEF Spec

-----------------------------------------------------------------------------
USE DEF Writing, Flushing, ImportPending

\* The fresh process satisfies the inductive invariant.
LEMMA InitIInv == Init => IInv
<1> SUFFICES ASSUME Init PROVE IInv
  OBVIOUS
<1>1. LockInv /\ RunInv
  BY DEF Init, StartPc, LockInv, RunInv
<1>2. BatchInv /\ LoadInv /\ CleanIsPersisted
  BY DEF Init, StartPc, BatchInv, LoadInv, CleanIsPersisted
<1> QED BY InitTypeOK, <1>1, <1>2 DEF IInv

\* Every action keeps the lock discipline and the lifecycle of the goroutine,
\* and with them what the entries, the payloads and the rows say.
LEMMA IInvStep == IInv /\ [Next]_vars => IInv'
<1> SUFFICES ASSUME IInv, [Next]_vars PROVE IInv'
  OBVIOUS
<1>0. TypeOK'
  BY TypeStep DEF IInv
<1>1. ASSUME NEW r \in Recorders, NEW S \in SUBSET Nodes, NEW u \in Updates,
             BeginUpdate(r, S, u)
      PROVE  IInv'
  <2>1. LockInv' /\ RunInv'
    BY <1>1, SMTT(30)
       DEF IInv, TypeOK, LockInv, RunInv, BeginUpdate
  <2>2. BatchInv' /\ LoadInv' /\ CleanIsPersisted'
    BY <1>1, SMTT(60)
       DEF IInv, TypeOK, LockInv, RunInv, BatchInv, LoadInv, CleanIsPersisted,
           BeginUpdate
  <2> QED BY <1>1, <1>0, <2>1, <2>2 DEF IInv
<1>2. ASSUME NEW r \in Recorders, BeginRead(r)
      PROVE  IInv'
  <2>1. LockInv' /\ RunInv'
    BY <1>2, SMTT(30)
       DEF IInv, TypeOK, LockInv, RunInv, BeginRead
  <2>2. BatchInv' /\ LoadInv' /\ CleanIsPersisted'
    BY <1>2, SMTT(60)
       DEF IInv, TypeOK, LockInv, RunInv, BatchInv, LoadInv, CleanIsPersisted,
           BeginRead
  <2> QED BY <1>2, <1>0, <2>1, <2>2 DEF IInv
<1>3. ASSUME NEW r \in Recorders, EnsureStarted(r)
      PROVE  IInv'
  <2>1. LockInv' /\ RunInv'
    BY <1>3, SMTT(30)
       DEF IInv, TypeOK, LockInv, RunInv, EnsureStarted
  <2>2. BatchInv' /\ LoadInv' /\ CleanIsPersisted'
    BY <1>3, SMTT(60)
       DEF IInv, TypeOK, LockInv, RunInv, BatchInv, LoadInv, CleanIsPersisted,
           EnsureStarted
  <2> QED BY <1>3, <1>0, <2>1, <2>2 DEF IInv
<1>4. ASSUME NEW r \in Recorders, Apply(r)
      PROVE  IInv'
  <2>1. LockInv' /\ RunInv'
    BY <1>4, SMTT(30)
       DEF IInv, TypeOK, LockInv, RunInv, Apply, Updated
  <2>2. BatchInv' /\ LoadInv' /\ CleanIsPersisted'
    BY <1>4, SMTT(60)
       DEF IInv, TypeOK, LockInv, RunInv, BatchInv, LoadInv, CleanIsPersisted,
           Apply, Updated
  <2> QED BY <1>4, <1>0, <2>1, <2>2 DEF IInv
<1>5. ASSUME NEW p \in Procs, AlreadyLoaded(p)
      PROVE  IInv'
  <2>1. LockInv' /\ RunInv'
    BY <1>5, SMTT(30)
       DEF IInv, TypeOK, LockInv, RunInv, AlreadyLoaded, AfterLoad
  <2>2. BatchInv' /\ LoadInv' /\ CleanIsPersisted'
    BY <1>5, SMTT(60)
       DEF IInv, TypeOK, LockInv, RunInv, BatchInv, LoadInv, CleanIsPersisted,
           AlreadyLoaded, AfterLoad
  <2> QED BY <1>5, <1>0, <2>1, <2>2 DEF IInv
<1>6. ASSUME NEW p \in Procs, LoadRead(p)
      PROVE  IInv'
  <2>1. LockInv' /\ RunInv'
    BY <1>6, SMTT(30)
       DEF IInv, TypeOK, LockInv, RunInv, LoadRead
  <2>2. BatchInv' /\ LoadInv' /\ CleanIsPersisted'
    BY <1>6, SMTT(60)
       DEF IInv, TypeOK, LockInv, RunInv, BatchInv, LoadInv, CleanIsPersisted,
           LoadRead
  <2> QED BY <1>6, <1>0, <2>1, <2>2 DEF IInv
<1>7. ASSUME NEW p \in Procs, LoadInstall(p)
      PROVE  IInv'
  <2>1. LockInv' /\ RunInv'
    BY <1>7, SMTT(30)
       DEF IInv, TypeOK, LockInv, RunInv, LoadInstall, AfterLoad, LoadedEntry
  <2>2. BatchInv' /\ LoadInv' /\ CleanIsPersisted'
    BY <1>7, SMTT(60)
       DEF IInv, TypeOK, LockInv, RunInv, BatchInv, LoadInv, CleanIsPersisted,
           LoadInstall, AfterLoad, LoadedEntry
  <2> QED BY <1>7, <1>0, <2>1, <2>2 DEF IInv
<1>8. ASSUME NEW p \in Procs, LoadError(p)
      PROVE  IInv'
  <2>1. LockInv' /\ RunInv'
    BY <1>8, SMTT(30)
       DEF IInv, TypeOK, LockInv, RunInv, LoadError, AfterLoadError,
           AfterFlush, NoteFailure
  <2>2. BatchInv' /\ LoadInv' /\ CleanIsPersisted'
    BY <1>8, SMTT(60)
       DEF IInv, TypeOK, LockInv, RunInv, BatchInv, LoadInv, CleanIsPersisted,
           LoadError, AfterLoadError, AfterFlush, NoteFailure
  <2> QED BY <1>8, <1>0, <2>1, <2>2 DEF IInv
<1>9. ASSUME NEW p \in Flushers, Collect(p)
      PROVE  IInv'
  <2>1. LockInv' /\ RunInv'
    BY <1>9, SMTT(30)
       DEF IInv, TypeOK, LockInv, RunInv, Collect, AfterFlush, Dirty
  <2>2. BatchInv' /\ LoadInv' /\ CleanIsPersisted'
    BY <1>9, SMTT(60)
       DEF IInv, TypeOK, LockInv, RunInv, BatchInv, LoadInv, CleanIsPersisted,
           Collect, AfterFlush, Dirty
  <2> QED BY <1>9, <1>0, <2>1, <2>2 DEF IInv
<1>10. ASSUME NEW p \in Flushers, CheckExists(p)
       PROVE  IInv'
  <2>1. LockInv' /\ RunInv'
    BY <1>10, SMTT(30)
       DEF IInv, TypeOK, LockInv, RunInv, CheckExists
  <2>2. BatchInv' /\ LoadInv' /\ CleanIsPersisted'
    BY <1>10, SMTT(60)
       DEF IInv, TypeOK, LockInv, RunInv, BatchInv, LoadInv, CleanIsPersisted,
           CheckExists
  <2> QED BY <1>10, <1>0, <2>1, <2>2 DEF IInv
<1>11. ASSUME NEW p \in Flushers, Commit(p)
       PROVE  IInv'
  <2>1. LockInv' /\ RunInv'
    BY <1>11, SMTT(30)
       DEF IInv, TypeOK, LockInv, RunInv, Commit
  <2>2. BatchInv' /\ LoadInv' /\ CleanIsPersisted'
    BY <1>11, SMTT(60)
       DEF IInv, TypeOK, LockInv, RunInv, BatchInv, LoadInv, CleanIsPersisted,
           Commit
  <2> QED BY <1>11, <1>0, <2>1, <2>2 DEF IInv
<1>12. ASSUME NEW p \in Flushers, FlushError(p)
       PROVE  IInv'
  <2>1. LockInv' /\ RunInv'
    BY <1>12, SMTT(30)
       DEF IInv, TypeOK, LockInv, RunInv, FlushError, ReleaseFlush,
           AfterFlush, NoteFailure
  <2>2. BatchInv' /\ LoadInv' /\ CleanIsPersisted'
    BY <1>12, SMTT(60)
       DEF IInv, TypeOK, LockInv, RunInv, BatchInv, LoadInv, CleanIsPersisted,
           FlushError, ReleaseFlush, AfterFlush, NoteFailure
  <2> QED BY <1>12, <1>0, <2>1, <2>2 DEF IInv
<1>13. ASSUME NEW p \in Flushers, MarkClean(p)
       PROVE  IInv'
  <2>1. LockInv' /\ RunInv'
    BY <1>13, SMTT(30)
       DEF IInv, TypeOK, LockInv, RunInv, MarkClean, Settled, ReleaseFlush,
           AfterFlush
  <2>2. BatchInv' /\ LoadInv' /\ CleanIsPersisted'
    BY <1>13, SMTT(60)
       DEF IInv, TypeOK, LockInv, RunInv, BatchInv, LoadInv, CleanIsPersisted,
           MarkClean, Settled, ReleaseFlush, AfterFlush
  <2> QED BY <1>13, <1>0, <2>1, <2>2 DEF IInv
<1>14. ASSUME NEW g \in Runs, Tick(g)
       PROVE  IInv'
  <2>1. LockInv' /\ RunInv'
    BY <1>14, SMTT(30)
       DEF IInv, TypeOK, LockInv, RunInv, Tick
  <2>2. BatchInv' /\ LoadInv' /\ CleanIsPersisted'
    BY <1>14, SMTT(60)
       DEF IInv, TypeOK, LockInv, RunInv, BatchInv, LoadInv, CleanIsPersisted,
           Tick
  <2> QED BY <1>14, <1>0, <2>1, <2>2 DEF IInv
<1>15. ASSUME NEW g \in Runs, RunStop(g)
       PROVE  IInv'
  <2>1. LockInv' /\ RunInv'
    BY <1>15, SMTT(30)
       DEF IInv, TypeOK, LockInv, RunInv, RunStop
  <2>2. BatchInv' /\ LoadInv' /\ CleanIsPersisted'
    BY <1>15, SMTT(60)
       DEF IInv, TypeOK, LockInv, RunInv, BatchInv, LoadInv, CleanIsPersisted,
           RunStop
  <2> QED BY <1>15, <1>0, <2>1, <2>2 DEF IInv
<1>16. ASSUME Stop
       PROVE  IInv'
  <2>1. LockInv' /\ RunInv'
    BY <1>16, SMTT(30)
       DEF IInv, TypeOK, LockInv, RunInv, Stop, ShutdownBegin
  <2>2. BatchInv' /\ LoadInv' /\ CleanIsPersisted'
    BY <1>16, SMTT(60)
       DEF IInv, TypeOK, LockInv, RunInv, BatchInv, LoadInv, CleanIsPersisted,
           Stop, ShutdownBegin
  <2> QED BY <1>16, <1>0, <2>1, <2>2 DEF IInv
<1>17. ASSUME Discard
       PROVE  IInv'
  <2>1. LockInv' /\ RunInv'
    BY <1>17, SMTT(30)
       DEF IInv, TypeOK, LockInv, RunInv, Discard, ShutdownBegin
  <2>2. BatchInv' /\ LoadInv' /\ CleanIsPersisted'
    BY <1>17, SMTT(60)
       DEF IInv, TypeOK, LockInv, RunInv, BatchInv, LoadInv, CleanIsPersisted,
           Discard, ShutdownBegin
  <2> QED BY <1>17, <1>0, <2>1, <2>2 DEF IInv
<1>18. ASSUME DiscardAgain
       PROVE  IInv'
  <2>1. LockInv' /\ RunInv'
    BY <1>18, SMTT(30)
       DEF IInv, TypeOK, LockInv, RunInv, DiscardAgain, ShutdownBegin
  <2>2. BatchInv' /\ LoadInv' /\ CleanIsPersisted'
    BY <1>18, SMTT(60)
       DEF IInv, TypeOK, LockInv, RunInv, BatchInv, LoadInv, CleanIsPersisted,
           DiscardAgain, ShutdownBegin
  <2> QED BY <1>18, <1>0, <2>1, <2>2 DEF IInv
<1>19. ASSUME Wait
       PROVE  IInv'
  <2>1. LockInv' /\ RunInv'
    BY <1>19, SMTT(30)
       DEF IInv, TypeOK, LockInv, RunInv, Wait
  <2>2. BatchInv' /\ LoadInv' /\ CleanIsPersisted'
    BY <1>19, SMTT(60)
       DEF IInv, TypeOK, LockInv, RunInv, BatchInv, LoadInv, CleanIsPersisted,
           Wait
  <2> QED BY <1>19, <1>0, <2>1, <2>2 DEF IInv
<1>20. ASSUME Unload
       PROVE  IInv'
  <2>1. LockInv' /\ RunInv'
    BY <1>20, SMTT(30)
       DEF IInv, TypeOK, LockInv, RunInv, Unload
  <2>2. BatchInv' /\ LoadInv' /\ CleanIsPersisted'
    BY <1>20, SMTT(60)
       DEF IInv, TypeOK, LockInv, RunInv, BatchInv, LoadInv, CleanIsPersisted,
           Unload
  <2> QED BY <1>20, <1>0, <2>1, <2>2 DEF IInv
<1>21. ASSUME Reset
       PROVE  IInv'
  <2>1. LockInv' /\ RunInv'
    BY <1>21, SMTT(30)
       DEF IInv, TypeOK, LockInv, RunInv, Reset
  <2>2. BatchInv' /\ LoadInv' /\ CleanIsPersisted'
    BY <1>21, SMTT(60)
       DEF IInv, TypeOK, LockInv, RunInv, BatchInv, LoadInv, CleanIsPersisted,
           Reset
  <2> QED BY <1>21, <1>0, <2>1, <2>2 DEF IInv
<1>22. ASSUME Import
       PROVE  IInv'
  <2>1. LockInv' /\ RunInv'
    BY <1>22, SMTT(30)
       DEF IInv, TypeOK, LockInv, RunInv, Import
  <2>2. BatchInv' /\ LoadInv' /\ CleanIsPersisted'
    BY <1>22, SMTT(60)
       DEF IInv, TypeOK, LockInv, RunInv, BatchInv, LoadInv, CleanIsPersisted,
           Import
  <2> QED BY <1>22, <1>0, <2>1, <2>2 DEF IInv
<1>23. ASSUME ImportError
       PROVE  IInv'
  <2>1. LockInv' /\ RunInv'
    BY <1>23, SMTT(30)
       DEF IInv, TypeOK, LockInv, RunInv, ImportError
  <2>2. BatchInv' /\ LoadInv' /\ CleanIsPersisted'
    BY <1>23, SMTT(60)
       DEF IInv, TypeOK, LockInv, RunInv, BatchInv, LoadInv, CleanIsPersisted,
           ImportError
  <2> QED BY <1>23, <1>0, <2>1, <2>2 DEF IInv
<1>24. ASSUME NEW n \in Nodes, NodeDelete(n)
       PROVE  IInv'
  <2>1. LockInv' /\ RunInv'
    BY <1>24, SMTT(30)
       DEF IInv, TypeOK, LockInv, RunInv, NodeDelete
  <2>2. BatchInv' /\ LoadInv' /\ CleanIsPersisted'
    BY <1>24, SMTT(60)
       DEF IInv, TypeOK, LockInv, RunInv, BatchInv, LoadInv, CleanIsPersisted,
           NodeDelete
  <2> QED BY <1>24, <1>0, <2>1, <2>2 DEF IInv
<1>25. ASSUME Crash
       PROVE  IInv'
  <2>1. LockInv' /\ RunInv'
    BY <1>25, SMTT(30)
       DEF IInv, TypeOK, LockInv, RunInv, Crash, StartPc
  <2>2. BatchInv' /\ LoadInv' /\ CleanIsPersisted'
    BY <1>25, SMTT(60)
       DEF IInv, TypeOK, LockInv, RunInv, BatchInv, LoadInv, CleanIsPersisted,
           Crash, StartPc
  <2> QED BY <1>25, <1>0, <2>1, <2>2 DEF IInv
<1>26. ASSUME UNCHANGED vars
      PROVE  IInv'
  BY <1>26, <1>0 DEF IInv, LockInv, RunInv, BatchInv, LoadInv, CleanIsPersisted, vars
<1>27. ASSUME NEW r \in Recorders, ApplyDuplicate(r)
      PROVE  IInv'
  <2>1. LockInv' /\ RunInv'
    BY <1>27, SMTT(30)
       DEF IInv, TypeOK, LockInv, RunInv, ApplyDuplicate
  <2>2. BatchInv' /\ LoadInv' /\ CleanIsPersisted'
    BY <1>27, SMTT(60)
       DEF IInv, TypeOK, LockInv, RunInv, BatchInv, LoadInv, CleanIsPersisted,
           ApplyDuplicate
  <2> QED BY <1>27, <1>0, <2>1, <2>2 DEF IInv
<1> QED
  BY <1>1, <1>2, <1>3, <1>4, <1>5, <1>6, <1>7, <1>8, <1>9, <1>10, <1>11,
     <1>12, <1>13, <1>14, <1>15, <1>16, <1>17, <1>18, <1>19, <1>20, <1>21,
     <1>22, <1>23, <1>24, <1>25, <1>26, <1>27
     DEF Next, RecStep, RunStep, MainStep, FlushStep, LoadStep

\* A clean entry of an existing node is what the database says, whatever
\* results, failures, deletions, imports, stops and crashes came before.
THEOREM CleanPersisted == Spec => []CleanIsPersisted
<1>1. IInv => CleanIsPersisted
  BY DEF IInv
<1> QED BY InitIInv, IInvStep, <1>1, PTL DEF Spec

-----------------------------------------------------------------------------
(* No row is forgotten, and a stop loses nothing *)

\* What a flush has copied, memory still knows; and from the check on, the nodes it
\* takes for existing are those that do.
CopyInv ==
    /\ \A n \in batch : payload[n].content \subseteq states[n].content
    /\ \A p \in Flushers : pc[p] \in {"commit", "mark"} => batch \cap nodes \subseteq exists

\* The registered goroutine lives and is not the one Main waits for, which flushes
\* once more if Main is stopping.
LifeInv ==
    /\ final \subseteq {waitFor}
    /\ current # None => current # waitFor /\ pc[current] # "dead"
    /\ pc[Main] = "wait" /\ mode = "stop" => flushOnStop

\* An absent entry says nothing, a loader has read no less than the rows say, and
\* unless the cache was reloaded in a shutdown a flush replaces rows by no less than they say.
RowsInv ==
    /\ reloaded => loaded
    /\ pc[Main] = "reset" /\ loaded => reloaded
    /\ \A n \in Nodes : ~states[n].present => states[n].content = {}
    /\ loadMu # None => \A n \in nodes : db[n] \subseteq loadBuf[n]
    /\ \A p \in Flushers : pc[p] \in {"check", "commit"} /\ ~reloaded
          => \A n \in batch \cap nodes : db[n] \subseteq payload[n].content

\* Only a stop owes something, of nodes that exist, and until it unloads the cache
\* what it owes is known.
OwedInv ==
    /\ \A n \in Nodes : owed[n] # {} => n \in nodes /\ mode = "stop" /\ pc[Main] # "idle"
    /\ mode = "stop" /\ pc[Main] # "reset"
          => \A n \in nodes : owed[n] \subseteq IF loaded THEN states[n].content ELSE db[n]

\* The last flush of a stop has copied what is owed, or the rows say it; once it has
\* written, and unless it fails, the rows say it all.
LastFlush ==
    /\ \A p \in Flushers : (p = Main \/ p \in final) /\ Writing(p) =>
          \A n \in nodes : IF n \in batch /\ pc[p] # "mark"
                           THEN owed[n] \subseteq payload[n].content
                           ELSE owed[n] \subseteq db[n]
    /\ /\ mode = "stop" /\ ~finalFailed
       /\ \/ pc[Main] \in {"unload", "reset"}
          \/ pc[Main] = "wait" /\ pc[waitFor] = "dead"
       => \A n \in nodes : owed[n] \subseteq db[n]

\* What makes LoadedIsComplete and StopPersists inductive, beyond IInv.
KeepInv == CopyInv /\ LifeInv /\ RowsInv /\ OwedInv /\ LastFlush /\ LoadedIsComplete

\* The fresh process satisfies it.
LEMMA InitKeep == Init => KeepInv
<1> SUFFICES ASSUME Init PROVE KeepInv
  OBVIOUS
<1> QED BY DEF Init, StartPc, KeepInv, CopyInv, LifeInv, RowsInv, OwedInv, LastFlush,
               LoadedIsComplete, Writing

\* Every action keeps it, with or without calls that overlap a shutdown.
LEMMA KeepStep == IInv /\ KeepInv /\ [Next]_vars => KeepInv'
<1> SUFFICES ASSUME IInv, KeepInv, [Next]_vars PROVE KeepInv'
  OBVIOUS
<1>0. TypeOK' /\ IInv'
  BY TypeStep, IInvStep DEF IInv
<1>1. ASSUME NEW r \in Recorders, NEW S \in SUBSET Nodes, NEW u \in Updates,
             BeginUpdate(r, S, u)
      PROVE  KeepInv'
  <2>1. LifeInv'
    BY <1>1, SMTT(30)
       DEF IInv, TypeOK, LockInv, RunInv, KeepInv, LifeInv, BeginUpdate
  <2>2. CopyInv'
    BY <1>1, SMTT(30)
       DEF IInv, TypeOK, LockInv, RunInv, BatchInv, KeepInv, CopyInv, BeginUpdate
  <2>3. RowsInv' /\ LoadedIsComplete'
    BY <1>1, SMTT(30)
       DEF IInv, TypeOK, LockInv, RunInv, BatchInv, LoadInv, KeepInv, CopyInv, RowsInv,
           LoadedIsComplete, BeginUpdate
  <2>4. OwedInv'
    BY <1>1, SMTT(30)
       DEF IInv, TypeOK, LockInv, RunInv, BatchInv, LoadInv, ImportPending, KeepInv,
           CopyInv, RowsInv, OwedInv, BeginUpdate
  <2>5. LastFlush'
    BY <1>1, SMTT(30)
       DEF IInv, TypeOK, LockInv, RunInv, BatchInv, CleanIsPersisted, ImportPending,
           KeepInv, CopyInv, LifeInv, RowsInv, OwedInv, LastFlush, Writing, Flushing,
           BeginUpdate
  <2> QED BY <2>1, <2>2, <2>3, <2>4, <2>5 DEF KeepInv
<1>2. ASSUME NEW r \in Recorders, BeginRead(r)
      PROVE  KeepInv'
  <2>1. LifeInv'
    BY <1>2, SMTT(30)
       DEF IInv, TypeOK, LockInv, RunInv, KeepInv, LifeInv, BeginRead
  <2>2. CopyInv'
    BY <1>2, SMTT(30)
       DEF IInv, TypeOK, LockInv, RunInv, BatchInv, KeepInv, CopyInv, BeginRead
  <2>3. RowsInv' /\ LoadedIsComplete'
    BY <1>2, SMTT(30)
       DEF IInv, TypeOK, LockInv, RunInv, BatchInv, LoadInv, KeepInv, CopyInv, RowsInv,
           LoadedIsComplete, BeginRead
  <2>4. OwedInv'
    BY <1>2, SMTT(30)
       DEF IInv, TypeOK, LockInv, RunInv, BatchInv, LoadInv, ImportPending, KeepInv,
           CopyInv, RowsInv, OwedInv, BeginRead
  <2>5. LastFlush'
    BY <1>2, SMTT(30)
       DEF IInv, TypeOK, LockInv, RunInv, BatchInv, CleanIsPersisted, ImportPending,
           KeepInv, CopyInv, LifeInv, RowsInv, OwedInv, LastFlush, Writing, Flushing,
           BeginRead
  <2> QED BY <2>1, <2>2, <2>3, <2>4, <2>5 DEF KeepInv
<1>3. ASSUME NEW r \in Recorders, EnsureStarted(r)
      PROVE  KeepInv'
  <2>1. LifeInv'
    BY <1>3, SMTT(30)
       DEF IInv, TypeOK, LockInv, RunInv, KeepInv, LifeInv, EnsureStarted
  <2>2. CopyInv'
    BY <1>3, SMTT(30)
       DEF IInv, TypeOK, LockInv, RunInv, BatchInv, KeepInv, CopyInv, EnsureStarted
  <2>3. RowsInv' /\ LoadedIsComplete'
    BY <1>3, SMTT(30)
       DEF IInv, TypeOK, LockInv, RunInv, BatchInv, LoadInv, KeepInv, CopyInv, RowsInv,
           LoadedIsComplete, EnsureStarted
  <2>4. OwedInv'
    BY <1>3, SMTT(30)
       DEF IInv, TypeOK, LockInv, RunInv, BatchInv, LoadInv, ImportPending, KeepInv,
           CopyInv, RowsInv, OwedInv, EnsureStarted
  <2>5. LastFlush'
    BY <1>3, SMTT(30)
       DEF IInv, TypeOK, LockInv, RunInv, BatchInv, CleanIsPersisted, ImportPending,
           KeepInv, CopyInv, LifeInv, RowsInv, OwedInv, LastFlush, Writing, Flushing,
           EnsureStarted
  <2> QED BY <2>1, <2>2, <2>3, <2>4, <2>5 DEF KeepInv
<1>4. ASSUME NEW r \in Recorders, Apply(r)
      PROVE  KeepInv'
  <2>1. LifeInv'
    BY <1>4, SMTT(30)
       DEF IInv, TypeOK, LockInv, RunInv, KeepInv, LifeInv, Apply, Updated
  <2>2. CopyInv'
    BY <1>4, SMTT(30)
       DEF IInv, TypeOK, LockInv, RunInv, BatchInv, KeepInv, CopyInv, Apply, Updated
  <2>3. RowsInv' /\ LoadedIsComplete'
    BY <1>4, SMTT(30)
       DEF IInv, TypeOK, LockInv, RunInv, BatchInv, LoadInv, KeepInv, CopyInv, RowsInv,
           LoadedIsComplete, Apply, Updated
  <2>4. OwedInv'
    BY <1>4, SMTT(30)
       DEF IInv, TypeOK, LockInv, RunInv, BatchInv, LoadInv, ImportPending, KeepInv,
           CopyInv, RowsInv, OwedInv, Apply, Updated
  <2>5. LastFlush'
    BY <1>4, SMTT(30)
       DEF IInv, TypeOK, LockInv, RunInv, BatchInv, CleanIsPersisted, ImportPending,
           KeepInv, CopyInv, LifeInv, RowsInv, OwedInv, LastFlush, Writing, Flushing,
           Apply, Updated
  <2> QED BY <2>1, <2>2, <2>3, <2>4, <2>5 DEF KeepInv
<1>5. ASSUME NEW r \in Recorders, ApplyDuplicate(r)
      PROVE  KeepInv'
  <2>1. LifeInv'
    BY <1>5, SMTT(30)
       DEF IInv, TypeOK, LockInv, RunInv, KeepInv, LifeInv, ApplyDuplicate
  <2>2. CopyInv'
    BY <1>5, SMTT(30)
       DEF IInv, TypeOK, LockInv, RunInv, BatchInv, KeepInv, CopyInv, ApplyDuplicate
  <2>3. RowsInv' /\ LoadedIsComplete'
    BY <1>5, SMTT(30)
       DEF IInv, TypeOK, LockInv, RunInv, BatchInv, LoadInv, KeepInv, CopyInv, RowsInv,
           LoadedIsComplete, ApplyDuplicate
  <2>4. OwedInv'
    BY <1>5, SMTT(30)
       DEF IInv, TypeOK, LockInv, RunInv, BatchInv, LoadInv, ImportPending, KeepInv,
           CopyInv, RowsInv, OwedInv, ApplyDuplicate
  <2>5. LastFlush'
    BY <1>5, SMTT(30)
       DEF IInv, TypeOK, LockInv, RunInv, BatchInv, CleanIsPersisted, ImportPending,
           KeepInv, CopyInv, LifeInv, RowsInv, OwedInv, LastFlush, Writing, Flushing,
           ApplyDuplicate
  <2> QED BY <2>1, <2>2, <2>3, <2>4, <2>5 DEF KeepInv
<1>6. ASSUME NEW p \in Procs, AlreadyLoaded(p)
      PROVE  KeepInv'
  <2>1. LifeInv'
    BY <1>6, SMTT(30)
       DEF IInv, TypeOK, LockInv, RunInv, KeepInv, LifeInv, AlreadyLoaded, AfterLoad
  <2>2. CopyInv'
    BY <1>6, SMTT(30)
       DEF IInv, TypeOK, LockInv, RunInv, BatchInv, KeepInv, CopyInv, AlreadyLoaded,
           AfterLoad
  <2>3. RowsInv' /\ LoadedIsComplete'
    BY <1>6, SMTT(30)
       DEF IInv, TypeOK, LockInv, RunInv, BatchInv, LoadInv, KeepInv, CopyInv, RowsInv,
           LoadedIsComplete, AlreadyLoaded, AfterLoad
  <2>4. OwedInv'
    BY <1>6, SMTT(30)
       DEF IInv, TypeOK, LockInv, RunInv, BatchInv, LoadInv, ImportPending, KeepInv,
           CopyInv, RowsInv, OwedInv, AlreadyLoaded, AfterLoad
  <2>5. LastFlush'
    BY <1>6, SMTT(30)
       DEF IInv, TypeOK, LockInv, RunInv, BatchInv, CleanIsPersisted, ImportPending,
           KeepInv, CopyInv, LifeInv, RowsInv, OwedInv, LastFlush, Writing, Flushing,
           AlreadyLoaded, AfterLoad
  <2> QED BY <2>1, <2>2, <2>3, <2>4, <2>5 DEF KeepInv
<1>7. ASSUME NEW p \in Procs, LoadRead(p)
      PROVE  KeepInv'
  <2>1. LifeInv'
    BY <1>7, SMTT(30)
       DEF IInv, TypeOK, LockInv, RunInv, KeepInv, LifeInv, LoadRead
  <2>2. CopyInv'
    BY <1>7, SMTT(30)
       DEF IInv, TypeOK, LockInv, RunInv, BatchInv, KeepInv, CopyInv, LoadRead
  <2>3. RowsInv' /\ LoadedIsComplete'
    BY <1>7, SMTT(30)
       DEF IInv, TypeOK, LockInv, RunInv, BatchInv, LoadInv, KeepInv, CopyInv, RowsInv,
           LoadedIsComplete, LoadRead
  <2>4. OwedInv'
    BY <1>7, SMTT(30)
       DEF IInv, TypeOK, LockInv, RunInv, BatchInv, LoadInv, ImportPending, KeepInv,
           CopyInv, RowsInv, OwedInv, LoadRead
  <2>5. LastFlush'
    BY <1>7, SMTT(30)
       DEF IInv, TypeOK, LockInv, RunInv, BatchInv, CleanIsPersisted, ImportPending,
           KeepInv, CopyInv, LifeInv, RowsInv, OwedInv, LastFlush, Writing, Flushing,
           LoadRead
  <2> QED BY <2>1, <2>2, <2>3, <2>4, <2>5 DEF KeepInv
<1>8. ASSUME NEW p \in Procs, LoadInstall(p)
      PROVE  KeepInv'
  <2>1. LifeInv'
    BY <1>8, SMTT(30)
       DEF IInv, TypeOK, LockInv, RunInv, KeepInv, LifeInv, LoadInstall, AfterLoad,
           LoadedEntry
  <2>2. CopyInv'
    BY <1>8, SMTT(30)
       DEF IInv, TypeOK, LockInv, RunInv, BatchInv, KeepInv, CopyInv, LoadInstall,
           AfterLoad, LoadedEntry
  <2>3. RowsInv' /\ LoadedIsComplete'
    <3>1. /\ loadMu = p /\ p # None /\ ~loaded /\ loaded' /\ loadMu' = None
          /\ UNCHANGED <<nodes, db>>
      BY <1>8 DEF IInv, TypeOK, LockInv, LoadInstall
    <3>2. \A q \in Flushers : pc'[q] \notin {"check", "commit"}
      BY <1>8, <3>1 DEF IInv, TypeOK, LockInv, Writing, LoadInstall, AfterLoad
    <3>3. ASSUME NEW n \in Nodes
          PROVE  /\ states'[n].content = loadBuf[n]
                 /\ ~states'[n].present => states'[n].content = {}
      BY <1>8, <3>3 DEF IInv, TypeOK, LoadInstall, LoadedEntry
    <3>4. \A n \in nodes : db[n] \subseteq loadBuf[n] /\ n \in Nodes
      BY <3>1 DEF IInv, TypeOK, KeepInv, RowsInv
    <3>5. LoadedIsComplete'
      BY <3>1, <3>3, <3>4 DEF LoadedIsComplete
    <3>6. pc'[Main] = "reset" => reloaded'
      BY <1>8 DEF IInv, TypeOK, LoadInstall, AfterLoad
    <3> QED BY <3>1, <3>2, <3>3, <3>5, <3>6 DEF RowsInv
  <2>4. OwedInv'
    BY <1>8, SMTT(30)
       DEF IInv, TypeOK, LockInv, RunInv, BatchInv, LoadInv, ImportPending, KeepInv,
           CopyInv, RowsInv, OwedInv, LoadInstall, AfterLoad, LoadedEntry
  <2>5. LastFlush'
    BY <1>8, SMTT(30)
       DEF IInv, TypeOK, LockInv, RunInv, BatchInv, CleanIsPersisted, ImportPending,
           KeepInv, CopyInv, LifeInv, RowsInv, OwedInv, LastFlush, Writing, Flushing,
           LoadInstall, AfterLoad, LoadedEntry
  <2> QED BY <2>1, <2>2, <2>3, <2>4, <2>5 DEF KeepInv
<1>9. ASSUME NEW p \in Procs, LoadError(p)
      PROVE  KeepInv'
  <2>1. LifeInv'
    BY <1>9, SMTT(30)
       DEF IInv, TypeOK, LockInv, RunInv, KeepInv, LifeInv, LoadError, AfterLoadError,
           AfterFlush, NoteFailure
  <2>2. CopyInv'
    BY <1>9, SMTT(30)
       DEF IInv, TypeOK, LockInv, RunInv, BatchInv, KeepInv, CopyInv, LoadError,
           AfterLoadError, AfterFlush, NoteFailure
  <2>3. RowsInv' /\ LoadedIsComplete'
    BY <1>9, SMTT(30)
       DEF IInv, TypeOK, LockInv, RunInv, BatchInv, LoadInv, KeepInv, CopyInv, RowsInv,
           LoadedIsComplete, LoadError, AfterLoadError, AfterFlush, NoteFailure
  <2>4. OwedInv'
    BY <1>9, SMTT(30)
       DEF IInv, TypeOK, LockInv, RunInv, BatchInv, LoadInv, ImportPending, KeepInv,
           CopyInv, RowsInv, OwedInv, LoadError, AfterLoadError, AfterFlush, NoteFailure
  <2>5. LastFlush'
    BY <1>9, SMTT(30)
       DEF IInv, TypeOK, LockInv, RunInv, BatchInv, CleanIsPersisted, ImportPending,
           KeepInv, CopyInv, LifeInv, RowsInv, OwedInv, LastFlush, Writing, Flushing,
           LoadError, AfterLoadError, AfterFlush, NoteFailure
  <2> QED BY <2>1, <2>2, <2>3, <2>4, <2>5 DEF KeepInv
<1>10. ASSUME NEW p \in Flushers, Collect(p)
      PROVE  KeepInv'
  <2>1. LifeInv'
    BY <1>10, SMTT(30)
       DEF IInv, TypeOK, LockInv, RunInv, KeepInv, LifeInv, Collect, AfterFlush
  <2>2. CopyInv'
    BY <1>10, SMTT(30)
       DEF IInv, TypeOK, LockInv, RunInv, BatchInv, KeepInv, CopyInv, Collect,
           AfterFlush
  <2>3. RowsInv' /\ LoadedIsComplete'
    BY <1>10, SMTT(30)
       DEF IInv, TypeOK, LockInv, RunInv, BatchInv, LoadInv, KeepInv, CopyInv, RowsInv,
           LoadedIsComplete, Dirty, Collect, AfterFlush
  <2>4. OwedInv'
    BY <1>10, SMTT(30)
       DEF IInv, TypeOK, LockInv, RunInv, BatchInv, LoadInv, ImportPending, KeepInv,
           CopyInv, RowsInv, OwedInv, Collect, AfterFlush
  <2>5. LastFlush'
    BY <1>10, SMTT(30)
       DEF IInv, TypeOK, LockInv, RunInv, BatchInv, CleanIsPersisted, ImportPending,
           KeepInv, CopyInv, LifeInv, RowsInv, OwedInv, LastFlush, Writing, Flushing,
           Dirty, Collect, AfterFlush
  <2> QED BY <2>1, <2>2, <2>3, <2>4, <2>5 DEF KeepInv
<1>11. ASSUME NEW p \in Flushers, CheckExists(p)
      PROVE  KeepInv'
  <2>1. LifeInv'
    BY <1>11, SMTT(30)
       DEF IInv, TypeOK, LockInv, RunInv, KeepInv, LifeInv, CheckExists
  <2>2. CopyInv'
    BY <1>11, SMTT(30)
       DEF IInv, TypeOK, LockInv, RunInv, BatchInv, KeepInv, CopyInv, CheckExists
  <2>3. RowsInv' /\ LoadedIsComplete'
    BY <1>11, SMTT(30)
       DEF IInv, TypeOK, LockInv, RunInv, BatchInv, LoadInv, KeepInv, CopyInv, RowsInv,
           LoadedIsComplete, CheckExists
  <2>4. OwedInv'
    BY <1>11, SMTT(30)
       DEF IInv, TypeOK, LockInv, RunInv, BatchInv, LoadInv, ImportPending, KeepInv,
           CopyInv, RowsInv, OwedInv, CheckExists
  <2>5. LastFlush'
    BY <1>11, SMTT(30)
       DEF IInv, TypeOK, LockInv, RunInv, BatchInv, CleanIsPersisted, ImportPending,
           KeepInv, CopyInv, LifeInv, RowsInv, OwedInv, LastFlush, Writing, Flushing,
           CheckExists
  <2> QED BY <2>1, <2>2, <2>3, <2>4, <2>5 DEF KeepInv
<1>12. ASSUME NEW p \in Flushers, Commit(p)
      PROVE  KeepInv'
  <2>1. LifeInv'
    BY <1>12, SMTT(30)
       DEF IInv, TypeOK, LockInv, RunInv, KeepInv, LifeInv, Commit
  <2>2. CopyInv'
    BY <1>12, SMTT(30)
       DEF IInv, TypeOK, LockInv, RunInv, BatchInv, KeepInv, CopyInv, Commit
  <2>3. RowsInv' /\ LoadedIsComplete'
    BY <1>12, SMTT(30)
       DEF IInv, TypeOK, LockInv, RunInv, BatchInv, LoadInv, KeepInv, CopyInv, RowsInv,
           LoadedIsComplete, Commit
  <2>4. OwedInv'
    BY <1>12, SMTT(30)
       DEF IInv, TypeOK, LockInv, RunInv, BatchInv, LoadInv, ImportPending, KeepInv,
           CopyInv, RowsInv, OwedInv, Commit
  <2>5. LastFlush'
    BY <1>12, SMTT(30)
       DEF IInv, TypeOK, LockInv, RunInv, BatchInv, CleanIsPersisted, ImportPending,
           KeepInv, CopyInv, LifeInv, RowsInv, OwedInv, LastFlush, Writing, Flushing,
           Commit
  <2> QED BY <2>1, <2>2, <2>3, <2>4, <2>5 DEF KeepInv
<1>13. ASSUME NEW p \in Flushers, FlushError(p)
      PROVE  KeepInv'
  <2>1. LifeInv'
    BY <1>13, SMTT(30)
       DEF IInv, TypeOK, LockInv, RunInv, KeepInv, LifeInv, FlushError, ReleaseFlush,
           AfterFlush, NoteFailure
  <2>2. CopyInv'
    BY <1>13, SMTT(30)
       DEF IInv, TypeOK, LockInv, RunInv, BatchInv, KeepInv, CopyInv, FlushError,
           ReleaseFlush, AfterFlush, NoteFailure
  <2>3. RowsInv' /\ LoadedIsComplete'
    BY <1>13, SMTT(30)
       DEF IInv, TypeOK, LockInv, RunInv, BatchInv, LoadInv, KeepInv, CopyInv, RowsInv,
           LoadedIsComplete, FlushError, ReleaseFlush, AfterFlush, NoteFailure
  <2>4. OwedInv'
    BY <1>13, SMTT(30)
       DEF IInv, TypeOK, LockInv, RunInv, BatchInv, LoadInv, ImportPending, KeepInv,
           CopyInv, RowsInv, OwedInv, FlushError, ReleaseFlush, AfterFlush, NoteFailure
  <2>5. LastFlush'
    BY <1>13, SMTT(30)
       DEF IInv, TypeOK, LockInv, RunInv, BatchInv, CleanIsPersisted, ImportPending,
           KeepInv, CopyInv, LifeInv, RowsInv, OwedInv, LastFlush, Writing, Flushing,
           FlushError, ReleaseFlush, AfterFlush, NoteFailure
  <2> QED BY <2>1, <2>2, <2>3, <2>4, <2>5 DEF KeepInv
<1>14. ASSUME NEW p \in Flushers, MarkClean(p)
      PROVE  KeepInv'
  <2>1. LifeInv'
    BY <1>14, SMTT(30)
       DEF IInv, TypeOK, LockInv, RunInv, KeepInv, LifeInv, MarkClean, Settled,
           ReleaseFlush, AfterFlush
  <2>2. CopyInv'
    BY <1>14, SMTT(30)
       DEF IInv, TypeOK, LockInv, RunInv, BatchInv, KeepInv, CopyInv, MarkClean, Settled,
           ReleaseFlush, AfterFlush
  <2>3. RowsInv' /\ LoadedIsComplete'
    BY <1>14, SMTT(30)
       DEF IInv, TypeOK, LockInv, RunInv, BatchInv, LoadInv, KeepInv, CopyInv, RowsInv,
           LoadedIsComplete, MarkClean, Settled, ReleaseFlush, AfterFlush
  <2>4. OwedInv'
    BY <1>14, SMTT(30)
       DEF IInv, TypeOK, LockInv, RunInv, BatchInv, LoadInv, ImportPending, KeepInv,
           CopyInv, RowsInv, OwedInv, MarkClean, Settled, ReleaseFlush, AfterFlush
  <2>5. LastFlush'
    BY <1>14, SMTT(30)
       DEF IInv, TypeOK, LockInv, RunInv, BatchInv, CleanIsPersisted, ImportPending,
           KeepInv, CopyInv, LifeInv, RowsInv, OwedInv, LastFlush, Writing, Flushing,
           MarkClean, Settled, ReleaseFlush, AfterFlush
  <2> QED BY <2>1, <2>2, <2>3, <2>4, <2>5 DEF KeepInv
<1>15. ASSUME NEW g \in Runs, Tick(g)
      PROVE  KeepInv'
  <2>1. LifeInv'
    BY <1>15, SMTT(30)
       DEF IInv, TypeOK, LockInv, RunInv, KeepInv, LifeInv, Tick
  <2>2. CopyInv'
    BY <1>15, SMTT(30)
       DEF IInv, TypeOK, LockInv, RunInv, BatchInv, KeepInv, CopyInv, Tick
  <2>3. RowsInv' /\ LoadedIsComplete'
    BY <1>15, SMTT(30)
       DEF IInv, TypeOK, LockInv, RunInv, BatchInv, LoadInv, KeepInv, CopyInv, RowsInv,
           LoadedIsComplete, Tick
  <2>4. OwedInv'
    BY <1>15, SMTT(30)
       DEF IInv, TypeOK, LockInv, RunInv, BatchInv, LoadInv, ImportPending, KeepInv,
           CopyInv, RowsInv, OwedInv, Tick
  <2>5. LastFlush'
    BY <1>15, SMTT(30)
       DEF IInv, TypeOK, LockInv, RunInv, BatchInv, CleanIsPersisted, ImportPending,
           KeepInv, CopyInv, LifeInv, RowsInv, OwedInv, LastFlush, Writing, Flushing,
           Tick
  <2> QED BY <2>1, <2>2, <2>3, <2>4, <2>5 DEF KeepInv
<1>16. ASSUME NEW g \in Runs, RunStop(g)
      PROVE  KeepInv'
  <2>1. LifeInv'
    BY <1>16, SMTT(30)
       DEF IInv, TypeOK, LockInv, RunInv, KeepInv, LifeInv, RunStop
  <2>2. CopyInv'
    BY <1>16, SMTT(30)
       DEF IInv, TypeOK, LockInv, RunInv, BatchInv, KeepInv, CopyInv, RunStop
  <2>3. RowsInv' /\ LoadedIsComplete'
    BY <1>16, SMTT(30)
       DEF IInv, TypeOK, LockInv, RunInv, BatchInv, LoadInv, KeepInv, CopyInv, RowsInv,
           LoadedIsComplete, RunStop
  <2>4. OwedInv'
    BY <1>16, SMTT(30)
       DEF IInv, TypeOK, LockInv, RunInv, BatchInv, LoadInv, ImportPending, KeepInv,
           CopyInv, RowsInv, OwedInv, RunStop
  <2>5. LastFlush'
    BY <1>16, SMTT(30)
       DEF IInv, TypeOK, LockInv, RunInv, BatchInv, CleanIsPersisted, ImportPending,
           KeepInv, CopyInv, LifeInv, RowsInv, OwedInv, LastFlush, Writing, Flushing,
           RunStop
  <2> QED BY <2>1, <2>2, <2>3, <2>4, <2>5 DEF KeepInv
<1>17. ASSUME Stop
      PROVE  KeepInv'
  <2>1. LifeInv'
    <3>1. flushOnStop'
      BY <1>17 DEF Stop, ShutdownBegin
    <3>2. (final \subseteq {waitFor})'
      BY <1>17, SMTT(30) DEF IInv, TypeOK, RunInv, KeepInv, LifeInv, Stop, ShutdownBegin
    <3>3. (current # None => current # waitFor /\ pc[current] # "dead")'
      BY <1>17, SMTT(30) DEF Stop, ShutdownBegin
    <3> QED BY <3>1, <3>2, <3>3 DEF LifeInv
  <2>2. CopyInv'
    BY <1>17, SMTT(30)
       DEF IInv, TypeOK, LockInv, RunInv, BatchInv, KeepInv, CopyInv, Stop,
           ShutdownBegin, Known
  <2>3. RowsInv' /\ LoadedIsComplete'
    BY <1>17, SMTT(30)
       DEF IInv, TypeOK, LockInv, RunInv, BatchInv, LoadInv, KeepInv, CopyInv, RowsInv,
           LoadedIsComplete, Stop, ShutdownBegin, Known
  <2>4. OwedInv'
    BY <1>17, SMTT(30)
       DEF IInv, TypeOK, LockInv, RunInv, BatchInv, LoadInv, ImportPending, KeepInv,
           CopyInv, RowsInv, OwedInv, Stop, ShutdownBegin, Known
  <2>5. LastFlush'
    BY <1>17, SMTT(30)
       DEF IInv, TypeOK, LockInv, RunInv, BatchInv, CleanIsPersisted, ImportPending,
           KeepInv, CopyInv, LifeInv, RowsInv, OwedInv, LastFlush, Writing, Flushing,
           Stop, ShutdownBegin, Known
  <2> QED BY <2>1, <2>2, <2>3, <2>4, <2>5 DEF KeepInv
<1>18. ASSUME Discard
      PROVE  KeepInv'
  <2>1. LifeInv'
    BY <1>18, SMTT(30)
       DEF IInv, TypeOK, LockInv, RunInv, KeepInv, LifeInv, Discard, ShutdownBegin
  <2>2. CopyInv'
    BY <1>18, SMTT(30)
       DEF IInv, TypeOK, LockInv, RunInv, BatchInv, KeepInv, CopyInv, Discard,
           ShutdownBegin
  <2>3. RowsInv' /\ LoadedIsComplete'
    BY <1>18, SMTT(30)
       DEF IInv, TypeOK, LockInv, RunInv, BatchInv, LoadInv, KeepInv, CopyInv, RowsInv,
           LoadedIsComplete, Discard, ShutdownBegin
  <2>4. OwedInv'
    BY <1>18, SMTT(30)
       DEF IInv, TypeOK, LockInv, RunInv, BatchInv, LoadInv, ImportPending, KeepInv,
           CopyInv, RowsInv, OwedInv, Discard, ShutdownBegin
  <2>5. LastFlush'
    BY <1>18, SMTT(30)
       DEF IInv, TypeOK, LockInv, RunInv, BatchInv, CleanIsPersisted, ImportPending,
           KeepInv, CopyInv, LifeInv, RowsInv, OwedInv, LastFlush, Writing, Flushing,
           Discard, ShutdownBegin
  <2> QED BY <2>1, <2>2, <2>3, <2>4, <2>5 DEF KeepInv
<1>19. ASSUME DiscardAgain
      PROVE  KeepInv'
  <2>1. LifeInv'
    BY <1>19, SMTT(30)
       DEF IInv, TypeOK, LockInv, RunInv, KeepInv, LifeInv, DiscardAgain, ShutdownBegin
  <2>2. CopyInv'
    BY <1>19, SMTT(30)
       DEF IInv, TypeOK, LockInv, RunInv, BatchInv, KeepInv, CopyInv, DiscardAgain,
           ShutdownBegin
  <2>3. RowsInv' /\ LoadedIsComplete'
    BY <1>19, SMTT(30)
       DEF IInv, TypeOK, LockInv, RunInv, BatchInv, LoadInv, KeepInv, CopyInv, RowsInv,
           LoadedIsComplete, DiscardAgain, ShutdownBegin
  <2>4. OwedInv'
    BY <1>19, SMTT(30)
       DEF IInv, TypeOK, LockInv, RunInv, BatchInv, LoadInv, ImportPending, KeepInv,
           CopyInv, RowsInv, OwedInv, DiscardAgain, ShutdownBegin
  <2>5. LastFlush'
    BY <1>19, SMTT(30)
       DEF IInv, TypeOK, LockInv, RunInv, BatchInv, CleanIsPersisted, ImportPending,
           KeepInv, CopyInv, LifeInv, RowsInv, OwedInv, LastFlush, Writing, Flushing,
           DiscardAgain, ShutdownBegin
  <2> QED BY <2>1, <2>2, <2>3, <2>4, <2>5 DEF KeepInv
<1>20. ASSUME Wait
      PROVE  KeepInv'
  <2>1. LifeInv'
    BY <1>20, SMTT(30)
       DEF IInv, TypeOK, LockInv, RunInv, KeepInv, LifeInv, Wait
  <2>2. CopyInv'
    BY <1>20, SMTT(30)
       DEF IInv, TypeOK, LockInv, RunInv, BatchInv, KeepInv, CopyInv, Wait
  <2>3. RowsInv' /\ LoadedIsComplete'
    BY <1>20, SMTT(30)
       DEF IInv, TypeOK, LockInv, RunInv, BatchInv, LoadInv, KeepInv, CopyInv, RowsInv,
           LoadedIsComplete, Wait
  <2>4. OwedInv'
    BY <1>20, SMTT(30)
       DEF IInv, TypeOK, LockInv, RunInv, BatchInv, LoadInv, ImportPending, KeepInv,
           CopyInv, RowsInv, OwedInv, Wait
  <2>5. LastFlush'
    BY <1>20, SMTT(30)
       DEF IInv, TypeOK, LockInv, RunInv, BatchInv, CleanIsPersisted, ImportPending,
           KeepInv, CopyInv, LifeInv, RowsInv, OwedInv, LastFlush, Writing, Flushing,
           Wait
  <2> QED BY <2>1, <2>2, <2>3, <2>4, <2>5 DEF KeepInv
<1>21. ASSUME Unload
      PROVE  KeepInv'
  <2>1. LifeInv'
    BY <1>21, SMTT(30)
       DEF IInv, TypeOK, LockInv, RunInv, KeepInv, LifeInv, Unload
  <2>2. CopyInv'
    BY <1>21, SMTT(30)
       DEF IInv, TypeOK, LockInv, RunInv, BatchInv, KeepInv, CopyInv, Unload
  <2>3. RowsInv' /\ LoadedIsComplete'
    BY <1>21, SMTT(30)
       DEF IInv, TypeOK, LockInv, RunInv, BatchInv, LoadInv, KeepInv, CopyInv, RowsInv,
           LoadedIsComplete, Unload
  <2>4. OwedInv'
    BY <1>21, SMTT(30)
       DEF IInv, TypeOK, LockInv, RunInv, BatchInv, LoadInv, ImportPending, KeepInv,
           CopyInv, RowsInv, OwedInv, Unload
  <2>5. LastFlush'
    BY <1>21, SMTT(30)
       DEF IInv, TypeOK, LockInv, RunInv, BatchInv, CleanIsPersisted, ImportPending,
           KeepInv, CopyInv, LifeInv, RowsInv, OwedInv, LastFlush, Writing, Flushing,
           Unload
  <2> QED BY <2>1, <2>2, <2>3, <2>4, <2>5 DEF KeepInv
<1>22. ASSUME Reset
      PROVE  KeepInv'
  <2>1. LifeInv'
    BY <1>22, SMTT(30)
       DEF IInv, TypeOK, LockInv, RunInv, KeepInv, LifeInv, Reset
  <2>2. CopyInv'
    BY <1>22, SMTT(30)
       DEF IInv, TypeOK, LockInv, RunInv, BatchInv, KeepInv, CopyInv, Reset
  <2>3. RowsInv' /\ LoadedIsComplete'
    BY <1>22, SMTT(30)
       DEF IInv, TypeOK, LockInv, RunInv, BatchInv, LoadInv, KeepInv, CopyInv, RowsInv,
           LoadedIsComplete, Reset
  <2>4. OwedInv'
    BY <1>22, SMTT(30)
       DEF IInv, TypeOK, LockInv, RunInv, BatchInv, LoadInv, ImportPending, KeepInv,
           CopyInv, RowsInv, OwedInv, Reset
  <2>5. LastFlush'
    BY <1>22, SMTT(30)
       DEF IInv, TypeOK, LockInv, RunInv, BatchInv, CleanIsPersisted, ImportPending,
           KeepInv, CopyInv, LifeInv, RowsInv, OwedInv, LastFlush, Writing, Flushing,
           Reset
  <2> QED BY <2>1, <2>2, <2>3, <2>4, <2>5 DEF KeepInv
<1>23. ASSUME Import
      PROVE  KeepInv'
  <2>1. LifeInv'
    BY <1>23, SMTT(30)
       DEF IInv, TypeOK, LockInv, RunInv, KeepInv, LifeInv, Import
  <2>2. CopyInv'
    BY <1>23, SMTT(30)
       DEF IInv, TypeOK, LockInv, RunInv, BatchInv, KeepInv, CopyInv, Import
  <2>3. RowsInv' /\ LoadedIsComplete'
    BY <1>23, SMTT(30)
       DEF IInv, TypeOK, LockInv, RunInv, BatchInv, LoadInv, KeepInv, CopyInv, RowsInv,
           LoadedIsComplete, Import
  <2>4. OwedInv'
    BY <1>23, SMTT(30)
       DEF IInv, TypeOK, LockInv, RunInv, BatchInv, LoadInv, ImportPending, KeepInv,
           CopyInv, RowsInv, OwedInv, Import
  <2>5. LastFlush'
    BY <1>23, SMTT(30)
       DEF IInv, TypeOK, LockInv, RunInv, BatchInv, CleanIsPersisted, ImportPending,
           KeepInv, CopyInv, LifeInv, RowsInv, OwedInv, LastFlush, Writing, Flushing,
           Import
  <2> QED BY <2>1, <2>2, <2>3, <2>4, <2>5 DEF KeepInv
<1>24. ASSUME ImportError
      PROVE  KeepInv'
  <2>1. LifeInv'
    BY <1>24, SMTT(30)
       DEF IInv, TypeOK, LockInv, RunInv, KeepInv, LifeInv, ImportError
  <2>2. CopyInv'
    BY <1>24, SMTT(30)
       DEF IInv, TypeOK, LockInv, RunInv, BatchInv, KeepInv, CopyInv, ImportError
  <2>3. RowsInv' /\ LoadedIsComplete'
    BY <1>24, SMTT(30)
       DEF IInv, TypeOK, LockInv, RunInv, BatchInv, LoadInv, KeepInv, CopyInv, RowsInv,
           LoadedIsComplete, ImportError
  <2>4. OwedInv'
    BY <1>24, SMTT(30)
       DEF IInv, TypeOK, LockInv, RunInv, BatchInv, LoadInv, ImportPending, KeepInv,
           CopyInv, RowsInv, OwedInv, ImportError
  <2>5. LastFlush'
    BY <1>24, SMTT(30)
       DEF IInv, TypeOK, LockInv, RunInv, BatchInv, CleanIsPersisted, ImportPending,
           KeepInv, CopyInv, LifeInv, RowsInv, OwedInv, LastFlush, Writing, Flushing,
           ImportError
  <2> QED BY <2>1, <2>2, <2>3, <2>4, <2>5 DEF KeepInv
<1>25. ASSUME NEW n \in Nodes, NodeDelete(n)
      PROVE  KeepInv'
  <2>1. LifeInv'
    BY <1>25, SMTT(30)
       DEF IInv, TypeOK, LockInv, RunInv, KeepInv, LifeInv, NodeDelete
  <2>2. CopyInv'
    BY <1>25, SMTT(30)
       DEF IInv, TypeOK, LockInv, RunInv, BatchInv, KeepInv, CopyInv, NodeDelete
  <2>3. RowsInv' /\ LoadedIsComplete'
    BY <1>25, SMTT(30)
       DEF IInv, TypeOK, LockInv, RunInv, BatchInv, LoadInv, KeepInv, CopyInv, RowsInv,
           LoadedIsComplete, NodeDelete
  <2>4. OwedInv'
    BY <1>25, SMTT(30)
       DEF IInv, TypeOK, LockInv, RunInv, BatchInv, LoadInv, ImportPending, KeepInv,
           CopyInv, RowsInv, OwedInv, NodeDelete
  <2>5. LastFlush'
    BY <1>25, SMTT(30)
       DEF IInv, TypeOK, LockInv, RunInv, BatchInv, CleanIsPersisted, ImportPending,
           KeepInv, CopyInv, LifeInv, RowsInv, OwedInv, LastFlush, Writing, Flushing,
           NodeDelete
  <2> QED BY <2>1, <2>2, <2>3, <2>4, <2>5 DEF KeepInv
<1>26. ASSUME Crash
      PROVE  KeepInv'
  <2>1. LifeInv'
    BY <1>26, SMTT(30)
       DEF IInv, TypeOK, LockInv, RunInv, KeepInv, LifeInv, Crash, StartPc
  <2>2. CopyInv'
    BY <1>26, SMTT(30)
       DEF IInv, TypeOK, LockInv, RunInv, BatchInv, KeepInv, CopyInv, Crash, StartPc
  <2>3. RowsInv' /\ LoadedIsComplete'
    BY <1>26, SMTT(30)
       DEF IInv, TypeOK, LockInv, RunInv, BatchInv, LoadInv, KeepInv, CopyInv, RowsInv,
           LoadedIsComplete, Crash, StartPc
  <2>4. OwedInv'
    BY <1>26, SMTT(30)
       DEF IInv, TypeOK, LockInv, RunInv, BatchInv, LoadInv, ImportPending, KeepInv,
           CopyInv, RowsInv, OwedInv, Crash, StartPc
  <2>5. LastFlush'
    BY <1>26, SMTT(30)
       DEF IInv, TypeOK, LockInv, RunInv, BatchInv, CleanIsPersisted, ImportPending,
           KeepInv, CopyInv, LifeInv, RowsInv, OwedInv, LastFlush, Writing, Flushing,
           Crash, StartPc
  <2> QED BY <2>1, <2>2, <2>3, <2>4, <2>5 DEF KeepInv
<1>27. ASSUME UNCHANGED vars
      PROVE  KeepInv'
  <2>1. LifeInv'
    BY <1>27, SMTT(30)
       DEF IInv, TypeOK, LockInv, RunInv, KeepInv, LifeInv, vars
  <2>2. CopyInv'
    BY <1>27, SMTT(30)
       DEF IInv, TypeOK, LockInv, RunInv, BatchInv, KeepInv, CopyInv, vars
  <2>3. RowsInv' /\ LoadedIsComplete'
    BY <1>27, SMTT(30)
       DEF IInv, TypeOK, LockInv, RunInv, BatchInv, LoadInv, KeepInv, CopyInv, RowsInv,
           LoadedIsComplete, vars
  <2>4. OwedInv'
    BY <1>27, SMTT(30)
       DEF IInv, TypeOK, LockInv, RunInv, BatchInv, LoadInv, ImportPending, KeepInv,
           CopyInv, RowsInv, OwedInv, vars
  <2>5. LastFlush'
    BY <1>27, SMTT(30)
       DEF IInv, TypeOK, LockInv, RunInv, BatchInv, CleanIsPersisted, ImportPending,
           KeepInv, CopyInv, LifeInv, RowsInv, OwedInv, LastFlush, Writing, Flushing,
           vars
  <2> QED BY <2>1, <2>2, <2>3, <2>4, <2>5 DEF KeepInv
<1> QED
  BY <1>1, <1>2, <1>3, <1>4, <1>5, <1>6, <1>7, <1>8, <1>9, <1>10, <1>11, <1>12, <1>13,
     <1>14, <1>15, <1>16, <1>17, <1>18, <1>19, <1>20, <1>21, <1>22, <1>23, <1>24, <1>25,
     <1>26, <1>27
     DEF Next, RecStep, RunStep, MainStep, FlushStep, LoadStep

\* A loaded cache always knows what the rows say: no flush, which replaces a node's
\* rows by what memory knows of it, forgets an update, whatever calls overlap a
\* shutdown, unless the cache was loaded in the middle of the last one.
THEOREM LoadedKnowsRows == Spec => []LoadedIsComplete
<1>1. KeepInv => LoadedIsComplete
  BY DEF KeepInv
<1> QED BY InitIInv, IInvStep, InitKeep, KeepStep, <1>1, PTL DEF Spec

\* HealthStop drops memory only when everything the cache knew of an existing node as
\* the stop began has reached the rows, unless its last flush failed.
THEOREM StopLosesNothing == Spec => []StopPersists
<1>1. KeepInv => StopPersists
  BY DEF KeepInv, LastFlush, StopPersists
<1> QED BY InitIInv, IInvStep, InitKeep, KeepStep, <1>1, PTL DEF Spec

-----------------------------------------------------------------------------
(* The refinement of HealthStore *)

\* Steps that change neither nodes and rows nor what memory says of an existing node
\* are not seen.
LEMMA ViewFrame ==
    ASSUME UNCHANGED <<nodes, db, loaded>>,
           loaded => \A n \in nodes : states'[n].content = states[n].content
    PROVE  UNCHANGED <<nodes, loaded, Saved, Known>>
<1>1. Saved' = Saved
  BY DEF Saved
<1>2. Known' = Known
  BY DEF Known
<1> QED BY <1>1, <1>2

\* Nor is the shutdown under way, as long as Main stays busy with it.
LEMMA ClosingFrame ==
    ASSUME UNCHANGED <<mode, finalFailed>>, pc'[Main] = "idle" <=> pc[Main] = "idle"
    PROVE  UNCHANGED <<Closing, StopFailed>>
<1>1. Closing' = Closing
  BY DEF Closing
<1> QED BY <1>1, Zenon DEF StopFailed

\* A step that is not seen at all.
LEMMA Unseen ==
    ASSUME UNCHANGED <<nodes, loaded, Saved, Known>>, UNCHANGED <<reloaded, owed>>,
           UNCHANGED <<Closing, StopFailed>>
    PROVE  UNCHANGED Store!vars
  BY DEF Store!vars

\* A failing flush, or one whose load fails, is a failed save if a stop is under way.
LEMMA FailureSeen ==
    ASSUME UNCHANGED <<nodes, loaded, Saved, Known, reloaded, owed, Closing>>,
           finalFailed => finalFailed', finalFailed \in BOOLEAN
    PROVE  [Store!Next]_(Store!vars)
<1>1. CASE Closing = "stop" /\ finalFailed' /\ ~finalFailed
  <2>1. StopFailed' = TRUE
    BY <1>1 DEF StopFailed
  <2>2. Store!SaveFails
    BY <1>1, <2>1 DEF Store!SaveFails
  <2> QED BY <2>2 DEF Store!Next
<1>2. CASE ~(Closing = "stop" /\ finalFailed' /\ ~finalFailed)
  <2>1. StopFailed' <=> StopFailed
    BY <1>2 DEF StopFailed
  <2>2. StopFailed' = StopFailed
    BY <2>1 DEF StopFailed
  <2> QED BY <2>2 DEF Store!vars
<1> QED BY <1>1, <1>2

\* Steps of the cache that nobody sees.
LEMMA UnseenSteps ==
    ASSUME IInv, [Next]_vars,
           \/ \E r \in Recorders : \/ \E S \in SUBSET Nodes, u \in Updates : BeginUpdate(r, S, u)
                                   \/ BeginRead(r) \/ EnsureStarted(r) \/ ApplyDuplicate(r)
           \/ \E p \in Procs : AlreadyLoaded(p) \/ LoadRead(p)
           \/ \E p \in Flushers : Collect(p) \/ CheckExists(p)
           \/ \E g \in Runs : Tick(g) \/ RunStop(g)
           \/ Wait
           \/ UNCHANGED vars
    PROVE  UNCHANGED Store!vars
<1>0. TypeOK'
  BY TypeStep DEF IInv
<1>1. ASSUME NEW r \in Recorders, NEW S \in SUBSET Nodes, NEW u \in Updates, BeginUpdate(r, S, u)
      PROVE  UNCHANGED Store!vars
  <2>1. UNCHANGED <<nodes, db, loaded, states, reloaded, owed, mode, finalFailed>>
    BY <1>1 DEF BeginUpdate
  <2>2. pc'[Main] = "idle" <=> pc[Main] = "idle"
    BY <1>1, <1>0 DEF IInv, TypeOK, BeginUpdate
  <2>3. UNCHANGED <<nodes, loaded, Saved, Known>>
    BY <2>1, ViewFrame
  <2>4. UNCHANGED <<Closing, StopFailed>>
    BY <2>1, <2>2, ClosingFrame
  <2> QED BY <2>1, <2>3, <2>4, Unseen
<1>2. ASSUME NEW r \in Recorders, BeginRead(r)
      PROVE  UNCHANGED Store!vars
  <2>1. UNCHANGED <<nodes, db, loaded, states, reloaded, owed, mode, finalFailed>>
    BY <1>2 DEF BeginRead
  <2>2. pc'[Main] = "idle" <=> pc[Main] = "idle"
    BY <1>2, <1>0 DEF IInv, TypeOK, BeginRead
  <2>3. UNCHANGED <<nodes, loaded, Saved, Known>>
    BY <2>1, ViewFrame
  <2>4. UNCHANGED <<Closing, StopFailed>>
    BY <2>1, <2>2, ClosingFrame
  <2> QED BY <2>1, <2>3, <2>4, Unseen
<1>3. ASSUME NEW r \in Recorders, EnsureStarted(r)
      PROVE  UNCHANGED Store!vars
  <2>1. UNCHANGED <<nodes, db, loaded, states, reloaded, owed, mode, finalFailed>>
    BY <1>3 DEF EnsureStarted
  <2>2. pc'[Main] = "idle" <=> pc[Main] = "idle"
    BY <1>3, <1>0 DEF IInv, TypeOK, EnsureStarted
  <2>3. UNCHANGED <<nodes, loaded, Saved, Known>>
    BY <2>1, ViewFrame
  <2>4. UNCHANGED <<Closing, StopFailed>>
    BY <2>1, <2>2, ClosingFrame
  <2> QED BY <2>1, <2>3, <2>4, Unseen
<1>4. ASSUME NEW r \in Recorders, ApplyDuplicate(r)
      PROVE  UNCHANGED Store!vars
  <2>1. UNCHANGED <<nodes, db, loaded, states, reloaded, owed, mode, finalFailed>>
    BY <1>4 DEF ApplyDuplicate
  <2>2. pc'[Main] = "idle" <=> pc[Main] = "idle"
    BY <1>4, <1>0 DEF IInv, TypeOK, ApplyDuplicate
  <2>3. UNCHANGED <<nodes, loaded, Saved, Known>>
    BY <2>1, ViewFrame
  <2>4. UNCHANGED <<Closing, StopFailed>>
    BY <2>1, <2>2, ClosingFrame
  <2> QED BY <2>1, <2>3, <2>4, Unseen
<1>5. ASSUME NEW p \in Procs, AlreadyLoaded(p)
      PROVE  UNCHANGED Store!vars
  <2>1. UNCHANGED <<nodes, db, loaded, states, reloaded, owed, mode, finalFailed>>
    BY <1>5 DEF AlreadyLoaded, AfterLoad
  <2>2. pc'[Main] = "idle" <=> pc[Main] = "idle"
    BY <1>5, <1>0 DEF IInv, TypeOK, AlreadyLoaded, AfterLoad
  <2>3. UNCHANGED <<nodes, loaded, Saved, Known>>
    BY <2>1, ViewFrame
  <2>4. UNCHANGED <<Closing, StopFailed>>
    BY <2>1, <2>2, ClosingFrame
  <2> QED BY <2>1, <2>3, <2>4, Unseen
<1>6. ASSUME NEW p \in Procs, LoadRead(p)
      PROVE  UNCHANGED Store!vars
  <2>1. UNCHANGED <<nodes, db, loaded, states, reloaded, owed, mode, finalFailed>>
    BY <1>6 DEF LoadRead
  <2>2. pc'[Main] = "idle" <=> pc[Main] = "idle"
    BY <1>6, <1>0 DEF IInv, TypeOK, LoadRead
  <2>3. UNCHANGED <<nodes, loaded, Saved, Known>>
    BY <2>1, ViewFrame
  <2>4. UNCHANGED <<Closing, StopFailed>>
    BY <2>1, <2>2, ClosingFrame
  <2> QED BY <2>1, <2>3, <2>4, Unseen
<1>7. ASSUME NEW p \in Flushers, Collect(p)
      PROVE  UNCHANGED Store!vars
  <2>1. UNCHANGED <<nodes, db, loaded, states, reloaded, owed, mode, finalFailed>>
    BY <1>7 DEF Collect, AfterFlush
  <2>2. pc'[Main] = "idle" <=> pc[Main] = "idle"
    BY <1>7, <1>0 DEF IInv, TypeOK, Collect, AfterFlush
  <2>3. UNCHANGED <<nodes, loaded, Saved, Known>>
    BY <2>1, ViewFrame
  <2>4. UNCHANGED <<Closing, StopFailed>>
    BY <2>1, <2>2, ClosingFrame
  <2> QED BY <2>1, <2>3, <2>4, Unseen
<1>8. ASSUME NEW p \in Flushers, CheckExists(p)
      PROVE  UNCHANGED Store!vars
  <2>1. UNCHANGED <<nodes, db, loaded, states, reloaded, owed, mode, finalFailed>>
    BY <1>8 DEF CheckExists
  <2>2. pc'[Main] = "idle" <=> pc[Main] = "idle"
    BY <1>8, <1>0 DEF IInv, TypeOK, CheckExists
  <2>3. UNCHANGED <<nodes, loaded, Saved, Known>>
    BY <2>1, ViewFrame
  <2>4. UNCHANGED <<Closing, StopFailed>>
    BY <2>1, <2>2, ClosingFrame
  <2> QED BY <2>1, <2>3, <2>4, Unseen
<1>9. ASSUME NEW g \in Runs, Tick(g)
      PROVE  UNCHANGED Store!vars
  <2>1. UNCHANGED <<nodes, db, loaded, states, reloaded, owed, mode, finalFailed>>
    BY <1>9 DEF Tick
  <2>2. pc'[Main] = "idle" <=> pc[Main] = "idle"
    BY <1>9, <1>0 DEF IInv, TypeOK, Tick
  <2>3. UNCHANGED <<nodes, loaded, Saved, Known>>
    BY <2>1, ViewFrame
  <2>4. UNCHANGED <<Closing, StopFailed>>
    BY <2>1, <2>2, ClosingFrame
  <2> QED BY <2>1, <2>3, <2>4, Unseen
<1>10. ASSUME NEW g \in Runs, RunStop(g)
      PROVE  UNCHANGED Store!vars
  <2>1. UNCHANGED <<nodes, db, loaded, states, reloaded, owed, mode, finalFailed>>
    BY <1>10 DEF RunStop
  <2>2. pc'[Main] = "idle" <=> pc[Main] = "idle"
    BY <1>10, <1>0 DEF IInv, TypeOK, RunStop
  <2>3. UNCHANGED <<nodes, loaded, Saved, Known>>
    BY <2>1, ViewFrame
  <2>4. UNCHANGED <<Closing, StopFailed>>
    BY <2>1, <2>2, ClosingFrame
  <2> QED BY <2>1, <2>3, <2>4, Unseen
<1>11. ASSUME Wait
      PROVE  UNCHANGED Store!vars
  <2>1. UNCHANGED <<nodes, db, loaded, states, reloaded, owed, mode, finalFailed>>
    BY <1>11 DEF Wait
  <2>2. pc'[Main] = "idle" <=> pc[Main] = "idle"
    BY <1>11, <1>0 DEF IInv, TypeOK, Wait
  <2>3. UNCHANGED <<nodes, loaded, Saved, Known>>
    BY <2>1, ViewFrame
  <2>4. UNCHANGED <<Closing, StopFailed>>
    BY <2>1, <2>2, ClosingFrame
  <2> QED BY <2>1, <2>3, <2>4, Unseen
<1>12. ASSUME UNCHANGED vars
      PROVE  UNCHANGED Store!vars
  <2>1. UNCHANGED <<nodes, db, loaded, states, reloaded, owed, mode, finalFailed>>
    BY <1>12 DEF vars
  <2>2. pc'[Main] = "idle" <=> pc[Main] = "idle"
    BY <1>12, <1>0 DEF IInv, TypeOK, vars
  <2>3. UNCHANGED <<nodes, loaded, Saved, Known>>
    BY <2>1, ViewFrame
  <2>4. UNCHANGED <<Closing, StopFailed>>
    BY <2>1, <2>2, ClosingFrame
  <2> QED BY <2>1, <2>3, <2>4, Unseen
<1> QED
  BY <1>1, <1>2, <1>3, <1>4, <1>5, <1>6, <1>7, <1>8, <1>9, <1>10, <1>11, <1>12

\* Outside a stop nothing is owed.
LEMMA NothingOwed ==
    ASSUME IInv, KeepInv, mode # "stop" \/ pc[Main] = "idle"
    PROVE  owed = [n \in Nodes |-> {}]
  BY DEF IInv, TypeOK, KeepInv, OwedInv

\* Recording adds the update to what is known of the nodes that exist, if the cache is
\* loaded; an update applied to an unloaded cache is not seen.
LEMMA ApplySeen ==
    ASSUME IInv, NEW r \in Recorders, Apply(r)
    PROVE  [Store!Next]_(Store!vars)
<1> DEFINE S == op[r].nodes
          u == op[r].update
<1>1. u \in Updates /\ S \in SUBSET Nodes
  BY DEF IInv, TypeOK, Apply
<1>2. UNCHANGED <<nodes, db, loaded, reloaded, owed, mode, finalFailed>> /\ pc'[Main] = pc[Main]
  BY DEF Apply, IInv, TypeOK
<1>3. UNCHANGED <<Closing, StopFailed>>
  BY <1>2, ClosingFrame
<1>4. Saved' = Saved
  BY <1>2 DEF Saved
<1>5. CASE ~loaded
  <2>1. UNCHANGED <<nodes, loaded, Saved, Known>>
    BY <1>2, <1>5, ViewFrame
  <2> QED BY <1>2, <1>3, <2>1, Unseen
<1>6. CASE loaded
  <2>1. loaded = TRUE
    BY <1>6 DEF IInv, TypeOK
  <2>2. ASSUME NEW n \in Nodes
        PROVE  Known'[n] = IF n \in S \cap nodes THEN Known[n] \cup {u} ELSE Known[n]
    <3>1. states'[n].content = IF n \in S THEN states[n].content \cup {u} ELSE states[n].content
      BY <2>2 DEF Apply, Updated
    <3> QED BY <1>2, <1>6, <2>2, <3>1 DEF Known
  <2>3. Known' = [n \in Nodes |-> IF n \in S \cap nodes THEN Known[n] \cup {u} ELSE Known[n]]
    BY <2>2 DEF Known
  <2>4. Store!Record(S, u)
    BY <1>2, <1>3, <1>4, <2>1, <2>3 DEF Store!Record
  <2> QED BY <1>1, <2>4 DEF Store!Next
<1> QED BY <1>5, <1>6

\* Installing what was read opens the records: readers are told what the rows say, as
\* they were before, or what the rows that an import has just replaced said.
LEMMA InstallSeen ==
    ASSUME IInv, KeepInv, NEW p \in Procs, LoadInstall(p)
    PROVE  Store!Next
<1>1. loadMu = p /\ ~loaded /\ loaded' /\ loaded' = TRUE /\ p # None
  BY DEF IInv, TypeOK, LockInv, LoadInstall
<1>2. /\ UNCHANGED <<nodes, db, owed, mode, finalFailed>>
      /\ reloaded' = (pc[Main] = "reset")
      /\ pc'[Main] = "idle" <=> pc[Main] = "idle"
  BY DEF LoadInstall, AfterLoad, IInv, TypeOK
<1>3. UNCHANGED <<Closing, StopFailed>>
  BY <1>2, ClosingFrame
<1>4. Saved' = Saved
  BY <1>2 DEF Saved
<1>5. ASSUME NEW n \in Nodes PROVE states'[n].content = loadBuf[n]
  BY <1>5 DEF IInv, TypeOK, LoadInstall, LoadedEntry
<1>6. CASE \A n \in nodes : loadBuf[n] = db[n]
  <2>1. Known' = Known
    BY <1>1, <1>2, <1>5, <1>6 DEF Known
  <2>2. reloaded' \in {FALSE, Closing # "none"}
    BY <1>2 DEF Closing
  <2>3. Store!Open
    BY <1>1, <1>2, <1>3, <1>4, <2>1, <2>2 DEF Store!Open
  <2> QED BY <2>3 DEF Store!Next
<1>7. CASE ~ \A n \in nodes : loadBuf[n] = db[n]
  <2>1. ImportPending /\ pc[Main] # "reset"
    BY <1>1, <1>7 DEF IInv, LoadInv
  <2>0. reloaded' = reloaded
    BY <1>1, <1>2, <2>1 DEF KeepInv, RowsInv, IInv, TypeOK
  <2>2. Closing = "import"
    BY <2>1 DEF ImportPending, Closing, IInv, RunInv
  <2>3. Known' = [n \in Nodes |-> IF n \in nodes THEN loadBuf[n] ELSE {}]
    BY <1>1, <1>2, <1>5 DEF Known
  <2>4. ASSUME NEW n \in Nodes PROVE Saved[n] \subseteq Known'[n]
    <3>1. n \in nodes => db[n] \subseteq loadBuf[n]
      BY <1>1 DEF KeepInv, RowsInv
    <3> QED BY <2>3, <2>4, <3>1 DEF Saved
  <2>5. loadBuf \in [Nodes -> SUBSET Updates]
    BY DEF IInv, TypeOK
  <2>6. Store!OpenOld(loadBuf)
    BY <1>1, <1>2, <1>3, <1>4, <2>0, <2>2, <2>3, <2>4 DEF Store!OpenOld, Store!On, Store!Within
  <2> QED BY <2>5, <2>6 DEF Store!Next
<1> QED BY <1>6, <1>7

\* A load that fails.
LEMMA LoadErrorSeen ==
    ASSUME IInv, TypeOK', NEW p \in Procs, LoadError(p)
    PROVE  [Store!Next]_(Store!vars)
<1>1. UNCHANGED <<nodes, db, loaded, states, reloaded, owed, mode>> /\ finalFailed \in BOOLEAN
  BY DEF LoadError, IInv, TypeOK
<1>2. finalFailed => finalFailed'
  BY DEF LoadError, NoteFailure
<1>3. pc'[Main] = "idle" <=> pc[Main] = "idle"
  BY DEF LoadError, AfterLoadError, AfterFlush, IInv, TypeOK
<1>4. UNCHANGED <<nodes, loaded, Saved, Known>>
  BY <1>1, ViewFrame
<1>5. Closing' = Closing
  BY <1>1, <1>3 DEF Closing
<1> QED BY <1>1, <1>2, <1>4, <1>5, FailureSeen

\* A flush whose query or transaction fails.
LEMMA FlushErrorSeen ==
    ASSUME IInv, TypeOK', NEW p \in Flushers, FlushError(p)
    PROVE  [Store!Next]_(Store!vars)
<1>1. UNCHANGED <<nodes, db, loaded, states, reloaded, owed, mode>> /\ finalFailed \in BOOLEAN
  BY DEF FlushError, IInv, TypeOK
<1>2. finalFailed => finalFailed'
  BY DEF FlushError, NoteFailure
<1>3. pc'[Main] = "idle" <=> pc[Main] = "idle"
  BY DEF FlushError, AfterFlush, IInv, TypeOK
<1>4. UNCHANGED <<nodes, loaded, Saved, Known>>
  BY <1>1, ViewFrame
<1>5. Closing' = Closing
  BY <1>1, <1>3 DEF Closing
<1> QED BY <1>1, <1>2, <1>4, <1>5, FailureSeen

\* The transaction of a flush saves what it has copied: no more than is known, and
\* unless the cache was reloaded in a shutdown no less than the rows say.
LEMMA CommitSeen ==
    ASSUME IInv, TypeOK', KeepInv, NEW p \in Flushers, Commit(p)
    PROVE  Store!Next
<1>1. /\ loaded /\ UNCHANGED <<nodes, loaded, states, reloaded, owed, mode, finalFailed>>
      /\ loaded = TRUE
  BY DEF Commit, IInv, TypeOK, LockInv
<1>2. pc'[Main] = "idle" <=> pc[Main] = "idle"
  BY DEF Commit, IInv, TypeOK
<1>3. UNCHANGED <<Closing, StopFailed>>
  BY <1>1, <1>2, ClosingFrame
<1>4. Known' = Known
  BY <1>1 DEF Known
<1>5. ASSUME NEW n \in Nodes
      PROVE  \/ Saved'[n] = Saved[n]
             \/ Saved'[n] \subseteq Known[n] /\ (reloaded \/ Saved[n] \subseteq Saved'[n])
  <2>1. CASE n \in nodes /\ n \in exists
    <3>1. n \in batch
      BY <2>1 DEF IInv, BatchInv
    <3>2. db'[n] = payload[n].content
      BY <1>5, <2>1 DEF Commit
    <3>3. reloaded \/ db[n] \subseteq payload[n].content
      BY <2>1, <3>1 DEF Commit, KeepInv, RowsInv
    <3>4. payload[n].content \subseteq states[n].content
      BY <3>1 DEF KeepInv, CopyInv
    <3> QED BY <1>1, <1>5, <2>1, <3>2, <3>3, <3>4 DEF Saved, Known
  <2>2. CASE n \in nodes /\ n \notin exists
    <3>1. db'[n] = db[n]
      BY <1>5, <2>2 DEF Commit
    <3> QED BY <1>1, <1>5, <2>2, <3>1 DEF Saved
  <2>3. CASE n \notin nodes
    BY <1>1, <1>5, <2>3 DEF Saved
  <2> QED BY <2>1, <2>2, <2>3
<1>6. Saved' \in [Nodes -> SUBSET Updates]
  BY DEF Saved, TypeOK
<1>7. Store!Save(Saved')
  BY <1>1, <1>3, <1>4, <1>5 DEF Store!Save
<1> QED BY <1>6, <1>7 DEF Store!Next

\* Settling the entries of a flush changes nothing that an existing node says.
LEMMA MarkUnseen ==
    ASSUME IInv, TypeOK', KeepInv, NEW p \in Flushers, MarkClean(p)
    PROVE  UNCHANGED Store!vars
<1>1. UNCHANGED <<nodes, db, loaded, reloaded, owed, mode, finalFailed>>
  BY DEF MarkClean
<1>2. pc'[Main] = "idle" <=> pc[Main] = "idle"
  BY DEF MarkClean, AfterFlush, IInv, TypeOK
<1>3. batch \cap nodes \subseteq exists
  BY DEF MarkClean, KeepInv, CopyInv
<1>4. ASSUME NEW n \in nodes PROVE states'[n].content = states[n].content
  <2>1. n \in Nodes /\ states[n] \in Entry
    BY DEF IInv, TypeOK
  <2>2. states'[n] = Settled(n)
    BY <2>1 DEF MarkClean
  <2> QED BY <1>3, <2>1, <2>2 DEF Settled
<1>5. UNCHANGED <<nodes, loaded, Saved, Known>>
  BY <1>1, <1>4, ViewFrame
<1>6. UNCHANGED <<Closing, StopFailed>>
  BY <1>1, <1>2, ClosingFrame
<1> QED BY <1>1, <1>5, <1>6, Unseen

\* The first shutdown of a caller: a stop owes what is known now.
LEMMA BeginSeen ==
    ASSUME IInv, TypeOK', NEW m \in {"stop", "import1"}, pc[Main] = "idle", ShutdownBegin(m)
    PROVE  Store!Next
<1>1. /\ UNCHANGED <<nodes, db, loaded, states, reloaded>> /\ pc'[Main] # "idle"
      /\ mode' = m /\ finalFailed' = FALSE
      /\ owed' = IF m = "stop" THEN Known ELSE [n \in Nodes |-> {}]
  BY DEF ShutdownBegin, IInv, TypeOK
<1>2. UNCHANGED <<nodes, loaded, Saved, Known>>
  BY <1>1, ViewFrame
<1>3. Closing = "none" /\ Closing' = IF m = "stop" THEN "stop" ELSE "import"
  BY <1>1 DEF Closing
<1>4. ~StopFailed /\ ~StopFailed'
  BY <1>1, <1>3 DEF StopFailed
<1>5. StopFailed' = StopFailed
  BY <1>4 DEF StopFailed
<1>6. Store!Begin(Closing')
  BY <1>1, <1>2, <1>3, <1>5 DEF Store!Begin, Store!Nothing
<1> QED BY <1>3, <1>6 DEF Store!Next

\* The second discard of an import goes on with the shutdown.
LEMMA DiscardAgainUnseen ==
    ASSUME IInv, TypeOK', KeepInv, DiscardAgain
    PROVE  UNCHANGED Store!vars
<1>1. /\ UNCHANGED <<nodes, db, loaded, states, reloaded>> /\ pc'[Main] # "idle"
      /\ mode' = "import2" /\ owed' = [n \in Nodes |-> {}]
  BY DEF DiscardAgain, ShutdownBegin, IInv, TypeOK
<1>2. UNCHANGED <<nodes, loaded, Saved, Known>>
  BY <1>1, ViewFrame
<1>3. mode = "import1" /\ pc[Main] = "discard"
  BY DEF DiscardAgain, IInv, RunInv
<1>4. Closing = "import" /\ Closing' = "import"
  BY <1>1, <1>3 DEF Closing
<1>5. StopFailed' = StopFailed
  BY <1>4 DEF StopFailed
<1>6. owed' = owed
  BY <1>1, <1>3, NothingOwed
<1> QED BY <1>1, <1>2, <1>4, <1>5, <1>6, Unseen

\* Unloading forgets what no row says; at the end of a stop whose last flush has not
\* failed the rows say all that is owed.
LEMMA UnloadSeen ==
    ASSUME IInv, TypeOK', KeepInv, Unload
    PROVE  [Store!Next]_(Store!vars)
<1>1. /\ UNCHANGED <<nodes, db, states, owed, mode, finalFailed>>
      /\ ~loaded' /\ loaded' = FALSE /\ reloaded' = FALSE
  BY DEF Unload
<1>2. pc[Main] = "unload" /\ pc'[Main] = "reset"
  BY DEF Unload, IInv, TypeOK
<1>3. UNCHANGED <<Closing, StopFailed>> /\ Closing # "none"
  BY <1>1, <1>2, ClosingFrame DEF Closing
<1>4. Saved' = Saved
  BY <1>1 DEF Saved
<1>5. Known' = Saved
  BY <1>1 DEF Known, Saved
<1>6. CASE ~loaded
  <2>1. loaded' = loaded /\ reloaded' = reloaded
    BY <1>1, <1>6 DEF IInv, TypeOK, KeepInv, RowsInv
  <2>2. Known' = Known
    BY <1>1, <1>6 DEF Known
  <2> QED BY <1>1, <1>3, <1>4, <2>1, <2>2, Unseen
<1>7. CASE loaded
  <2>1. ASSUME Closing = "stop", ~StopFailed, NEW n \in Nodes PROVE owed[n] \subseteq Saved[n]
    <3>1. mode = "stop" /\ ~finalFailed
      BY <1>2, <2>1 DEF Closing, StopFailed
    <3>2. n \in nodes => owed[n] \subseteq db[n]
      BY <1>2, <3>1 DEF KeepInv, LastFlush
    <3>3. n \notin nodes => owed[n] = {}
      BY <2>1 DEF KeepInv, OwedInv
    <3> QED BY <2>1, <3>2, <3>3 DEF Saved
  <2>2. loaded = TRUE
    BY <1>7 DEF IInv, TypeOK
  <2>3. Store!Close
    BY <1>1, <1>3, <1>4, <1>5, <2>1, <2>2 DEF Store!Close, Store!Within
  <2> QED BY <2>3 DEF Store!Next
<1> QED BY <1>6, <1>7

\* The shutdown is over; at the very end it may have emptied torn records.
LEMMA ReturnSeen ==
    ASSUME pc[Main] # "idle", pc'[Main] = "idle", owed' = [n \in Nodes |-> {}],
           Store!Wipe \/ UNCHANGED <<nodes, loaded, Saved, Known, reloaded>>
    PROVE  Store!Next
<1>1. Closing # "none" /\ Closing' = "none"
  BY DEF Closing
<1>2. StopFailed' = FALSE
  BY <1>1 DEF StopFailed
<1>3. Store!Return
  BY <1>1, <1>2 DEF Store!Return, Store!Nothing
<1> QED BY <1>3 DEF Store!Next

\* Resetting the entries ends a shutdown, or the first discard of an import.  Nothing
\* else is seen of it unless the cache was loaded again since Unload.
LEMMA ResetSeen ==
    ASSUME IInv, TypeOK', KeepInv, Reset
    PROVE  [Store!Next]_(Store!vars)
<1>1. /\ UNCHANGED <<nodes, db, loaded, reloaded, mode, finalFailed>> /\ pc[Main] = "reset"
      /\ owed' = [n \in Nodes |-> {}]
  BY DEF Reset
<1>2. \/ mode = "import1" /\ pc'[Main] = "import"
      \/ mode # "import1" /\ pc'[Main] = "idle"
  BY DEF Reset, IInv, TypeOK
<1>3. Closing # "none"
  BY <1>1 DEF Closing
<1>4. Saved' = Saved
  BY <1>1 DEF Saved
<1>5. Store!Wipe \/ UNCHANGED <<nodes, loaded, Saved, Known, reloaded>>
  <2>1. CASE loaded
    <3>1. Known' = [n \in Nodes |-> {}]
      BY <1>1, <2>1 DEF Reset, Known
    <3>2. reloaded
      BY <1>1, <2>1 DEF KeepInv, RowsInv
    <3> QED BY <1>1, <1>4, <3>1, <3>2 DEF Store!Wipe, Store!Nothing
  <2>2. CASE ~loaded
    <3>1. Known' = Known
      BY <1>1, <2>2 DEF Known
    <3> QED BY <1>1, <1>4, <3>1
  <2> QED BY <2>1, <2>2
<1>6. CASE mode = "import1"
  <2>1. UNCHANGED <<Closing, StopFailed>>
    BY <1>1, <1>2, <1>6, ClosingFrame
  <2>2. owed' = owed
    BY <1>1, <1>6, NothingOwed
  <2>3. CASE Store!Wipe
    <3>1. Store!Emptied
      BY <1>3, <2>1, <2>2, <2>3 DEF Store!Emptied
    <3> QED BY <3>1 DEF Store!Next
  <2>4. CASE UNCHANGED <<nodes, loaded, Saved, Known, reloaded>>
    BY <2>1, <2>2, <2>4, Unseen
  <2> QED BY <1>5, <2>3, <2>4
<1>7. CASE mode # "import1"
  BY <1>1, <1>2, <1>5, <1>7, ReturnSeen
<1> QED BY <1>6, <1>7

\* An import whose transaction fails returns at once.
LEMMA ImportErrorSeen ==
    ASSUME IInv, TypeOK', KeepInv, ImportError
    PROVE  Store!Next
<1>1. /\ UNCHANGED <<nodes, db, loaded, states, reloaded, owed, mode>>
      /\ pc[Main] = "import" /\ pc'[Main] = "idle"
  BY DEF ImportError, IInv, TypeOK
<1>2. UNCHANGED <<nodes, loaded, Saved, Known>>
  BY <1>1, ViewFrame
<1>3. mode = "import1"
  BY <1>1 DEF IInv, RunInv
<1>4. owed' = [n \in Nodes |-> {}]
  BY <1>1, <1>3, NothingOwed
<1> QED BY <1>1, <1>2, <1>4, ReturnSeen

\* The import's transaction replaces the nodes; nothing of them is known, unless a call
\* has loaded the replaced rows in the meantime.
LEMMA ImportSeen ==
    ASSUME IInv, TypeOK', Import
    PROVE  Store!Next
<1> DEFINE old == [n \in Nodes |-> states[n].content]
<1>1. /\ UNCHANGED <<states, loaded, reloaded, owed, mode, finalFailed>>
      /\ pc[Main] = "import" /\ pc'[Main] = "discard" /\ mode = "import1"
  BY DEF Import, IInv, TypeOK, RunInv
<1>2. UNCHANGED <<Closing, StopFailed>> /\ Closing = "import"
  BY <1>1, ClosingFrame DEF Closing
<1>3. Saved' = [n \in Nodes |-> {}]
  BY <1>1 DEF Import, Saved
<1>4. Known' = IF loaded THEN [n \in Nodes |-> IF n \in nodes' THEN old[n] ELSE {}]
                         ELSE [n \in Nodes |-> {}]
  <2>1. \A n \in Nodes : db'[n] = {} /\ states'[n] = states[n] /\ old[n] = states[n].content
    BY <1>1 DEF Import
  <2>2. CASE loaded
    BY <1>1, <2>1, <2>2 DEF Known
  <2>3. CASE ~loaded
    BY <1>1, <2>1, <2>3 DEF Known
  <2> QED BY <2>2, <2>3
<1>5. nodes' \in SUBSET Nodes /\ old \in [Nodes -> SUBSET Updates]
  BY DEF Import, IInv, TypeOK
<1>6. Store!Replace(nodes', old)
  BY <1>1, <1>2, <1>3, <1>4 DEF Store!Replace, Store!Nothing, Store!On
<1> QED BY <1>5, <1>6 DEF Store!Next

\* Deleting a node takes its own records away and no others.
LEMMA DeleteSeen ==
    ASSUME IInv, TypeOK', KeepInv, NEW x \in Nodes, NodeDelete(x)
    PROVE  Store!Next
<1>1. /\ x \in nodes /\ nodes' = nodes \ {x}
      /\ UNCHANGED <<states, loaded, reloaded, mode, finalFailed, pc>>
  BY DEF NodeDelete
<1>2. UNCHANGED <<Closing, StopFailed>>
  BY <1>1, ClosingFrame
<1>3. \A n \in nodes' : db'[n] = db[n]
  BY <1>1 DEF NodeDelete, IInv, TypeOK
<1>4. Saved' = [n \in Nodes |-> IF n \in nodes' THEN Saved[n] ELSE {}]
  BY <1>1, <1>3 DEF Saved
<1>5. Known' = [n \in Nodes |-> IF n \in nodes' THEN Known[n] ELSE {}]
  BY <1>1, <1>3 DEF Known
<1>6. owed' = [n \in Nodes |-> IF n \in nodes' THEN owed[n] ELSE {}]
  <2>1. ASSUME NEW n \in Nodes PROVE owed'[n] = IF n \in nodes' THEN owed[n] ELSE {}
    <3>1. owed'[n] = IF n = x THEN {} ELSE owed[n]
      BY <2>1 DEF NodeDelete, IInv, TypeOK
    <3>2. n \notin nodes => owed[n] = {}
      BY <2>1 DEF KeepInv, OwedInv
    <3> QED BY <1>1, <2>1, <3>1, <3>2
  <2> QED BY <2>1 DEF TypeOK
<1>7. Store!Delete(x)
  BY <1>1, <1>2, <1>4, <1>5, <1>6 DEF Store!Delete, Store!On
<1> QED BY <1>7 DEF Store!Next

\* A crash leaves the rows.
LEMMA CrashSeen ==
    ASSUME Crash
    PROVE  Store!Next
<1>1. /\ UNCHANGED <<nodes, db>> /\ loaded' = FALSE /\ ~loaded' /\ pc'[Main] = "idle"
      /\ reloaded' = FALSE /\ owed' = [n \in Nodes |-> {}]
  BY DEF Crash, StartPc
<1>2. Saved' = Saved /\ Known' = Saved
  BY <1>1 DEF Saved, Known
<1>3. Closing' = "none"
  BY <1>1 DEF Closing
<1>4. StopFailed' = FALSE
  BY <1>3 DEF StopFailed
<1>5. Store!Crash
  BY <1>1, <1>2, <1>3, <1>4 DEF Store!Crash, Store!Nothing
<1> QED BY <1>5 DEF Store!Next

\* Every step of the cache is a step of the store, or not seen.
LEMMA StoreSeen == IInv /\ KeepInv /\ [Next]_vars => [Store!Next]_(Store!vars)
<1> SUFFICES ASSUME IInv, KeepInv, [Next]_vars
             PROVE  [Store!Next]_(Store!vars)
  OBVIOUS
<1>0. TypeOK'
  BY TypeStep DEF IInv
<1>1. Stop \/ Discard => Store!Next
  BY <1>0, BeginSeen DEF Stop, Discard
<1> QED
  BY <1>0, <1>1, UnseenSteps, ApplySeen, InstallSeen, LoadErrorSeen, FlushErrorSeen,
     CommitSeen, MarkUnseen, DiscardAgainUnseen, UnloadSeen, ResetSeen, ImportErrorSeen,
     ImportSeen, DeleteSeen, CrashSeen
     DEF Next, RecStep, RunStep, MainStep, FlushStep, LoadStep

\* The cache with its entries, revisions, locks and goroutines keeps what the store
\* promises, whatever calls overlap its shutdowns.
THEOREM CacheImplements == Spec => ImplementsStore
<1>1. Init => Store!Init
  <2> SUFFICES ASSUME Init PROVE Store!Init
    OBVIOUS
  <2>1. /\ ~loaded /\ loaded = FALSE /\ nodes = Nodes /\ db = Blank /\ pc[Main] = "idle"
        /\ reloaded = FALSE /\ owed = [n \in Nodes |-> {}]
    BY DEF Init, StartPc
  <2>2. Saved = [n \in Nodes |-> {}] /\ Known = [n \in Nodes |-> {}]
    BY <2>1 DEF Saved, Known
  <2>3. Closing = "none"
    BY <2>1 DEF Closing
  <2>4. StopFailed = FALSE
    BY <2>3 DEF StopFailed
  <2> QED BY <2>1, <2>2, <2>3, <2>4 DEF Store!Init, Store!Nothing
<1> QED
  BY InitIInv, IInvStep, InitKeep, KeepStep, StoreSeen, <1>1, PTL
     DEF Spec, ImplementsStore, Store!Spec
=============================================================================
